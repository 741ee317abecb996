---------------------------- MODULE SelectMux_proofs ----------------------------
(***************************************************************************)
(* Theorems about lab3's server for any number of clients and commands.     *)
(***************************************************************************)
EXTENDS SelectMux, FiniteSetTheorems, TLAPS

-----------------------------------------------------------------------------
(* What select reports.                                                     *)

\* A closed file's descriptor -1 has its bit in word 0.
LEMMA Bit == Position(FdAfterClose) = <<0, (-1) % 32>>
<1>1. (0 - (-1)) \div 32 = 0 /\ ~(-1 >= 0) /\ 0 - 0 = 0
  OBVIOUS
<1> QED
  BY <1>1 DEF Position, FdAfterClose

\* With -1 for every descriptor the limit is 0, and select touches no word.
LEMMA Untouched == ReadFds = {Position(FdAfterClose)}
<1> DEFINE fds == {FdAfterClose : c \in clients}
<1>1. {FdAfterClose} \union fds = {FdAfterClose}
  OBVIOUS
<1>2. Limit(FdAfterClose, fds) = 0
  <2>1. \E fd \in {FdAfterClose} : \A other \in {FdAfterClose} : fd >= other
    BY DEF FdAfterClose
  <2>2. (CHOOSE fd \in {FdAfterClose} : \A other \in {FdAfterClose} : fd >= other) = FdAfterClose
    BY <2>1
  <2>3. Limit(FdAfterClose, fds) = FdAfterClose + 1
    BY <1>1, <2>2 DEF Limit
  <2> QED
    BY <2>3 DEF FdAfterClose
<1>3. Watched(FdAfterClose, fds) = {Position(FdAfterClose)}
  BY <1>1 DEF Watched
<1>4. ReadFds = Select(0, {Position(FdAfterClose)}, {})
  BY <1>2, <1>3 DEF ReadFds
<1>5. 32 * Position(FdAfterClose)[1] >= 0
  BY Bit
<1> QED
  BY <1>4, <1>5 DEF Select

\* processSelectLoop (select_multiplexer.go:114-131): whoever is connected and
\* whatever they send, select returns something, and reports the listener and
\* every client as ready.  So each pass calls Accept and then reads from everyone,
\* and checkPingTimeouts (line 126) is never called.
THEOREM SelectNeverIdle == Count(ReadFds) = 1 /\ FDIsSet(FdAfterClose, ReadFds)
<1>1. {p[1] : p \in ReadFds} = {0}
  BY Bit, Untouched
<1>2. Count(ReadFds) = 1
  BY <1>1, FS_Singleton DEF Count
<1> QED
  BY <1>2, Untouched DEF FDIsSet

-----------------------------------------------------------------------------
(* Types, and what the program counter of the loop says of its variables.   *)

LoopInv ==
    /\ loop \notin {"serve", "read"} => todo = {}
    /\ todo \subseteq clients
    /\ loop = "read" => hand \in clients \ todo

TypeInv == TypeOK /\ LoopInv

LEMMA JobType ==
    ASSUME NEW j
    PROVE  j \in Jobs <=>
             \E c \in Client, n \in Nat, at \in {"lookup", "write"} :
                 n \in Lines(c) /\ j = [client |-> c, line |-> n, at |-> at]
  BY MuxAssumption DEF Jobs, Lines

LEMMA JobRecord ==
    ASSUME TypeInv, NEW j \in jobs
    PROVE  /\ j = [client |-> j.client, line |-> j.line, at |-> j.at]
           /\ j.client \in Client /\ j.line \in Nat
<1>1. j \in Jobs
  BY DEF TypeInv, TypeOK
<1>2. PICK c \in Client, n \in Nat, at \in {"lookup", "write"} :
          j = [client |-> c, line |-> n, at |-> at]
  BY <1>1, JobType
<1> QED
  BY <1>2

LEMMA Written ==
    ASSUME NEW c, NEW n, NEW at
    PROVE  [[client |-> c, line |-> n, at |-> at] EXCEPT !.at = "write"] =
               [client |-> c, line |-> n, at |-> "write"]
  OBVIOUS

LEMMA TypeInit == Init => TypeInv
<1>1. Cardinality({}) = 0
  BY FS_EmptySet
<1>2. Init => LoopInv
  BY DEF Init, LoopInv
<1>3. ASSUME Init PROVE \A c \in Client : read[c] <= sent[c] /\ sent[c] <= MaxCommands[c]
  BY <1>3, MuxAssumption DEF MuxAssumption, Init
<1>4. ASSUME Init
      PROVE  /\ conn \in [Client -> Positions] /\ backlog \in Seq(Client)
             /\ answers \in [Client -> Seq(Client \X Nat)] /\ jobs \subseteq Jobs
  BY <1>4 DEF Init, Positions
<1>5. ASSUME Init
      PROVE  /\ loop \in Points /\ hand = None /\ loop \notin {"insert", "read"}
             /\ main \in Stages
  BY <1>5 DEF Init, Points, Stages
<1>6. ASSUME Init
      PROVE  /\ sent \in [Client -> Nat] /\ left \in [Client -> BOOLEAN]
             /\ read \in [Client -> Nat] /\ heads \in [Client -> SUBSET Nat]
             /\ owed \in [Client -> Int]
  BY <1>6 DEF Init
<1>7. ASSUME Init
      PROVE  /\ todo \subseteq Client /\ clients \subseteq Client
             /\ Cardinality(clients) <= MaxClients
  <2>1. clients = {} /\ todo = {}
    BY <1>7 DEF Init
  <2>2. Cardinality(clients) = 0
    BY <2>1, <1>1
  <2> QED
    BY <2>1, <2>2, MuxAssumption DEF MuxAssumption
<1>9. ASSUME Init PROVE running \in BOOLEAN /\ listening \in BOOLEAN /\ cancelled \in BOOLEAN
  BY <1>9 DEF Init
<1>8. Init => TypeOK
  BY <1>3, <1>4, <1>5, <1>6, <1>7, <1>9 DEF TypeOK
<1> QED
  BY <1>2, <1>8 DEF TypeInv

\* Steps of the loop that leave the sets of clients alone.
LEMMA TypeLoop ==
    ASSUME TypeInv, Leave \/ Pass \/ Accept \/ AcceptFails \/ AcceptError \/ Discard \/ Copy \/ NextClient \/ EndPass
    PROVE  TypeInv'
<1> USE DEF TypeInv, TypeOK, LoopInv, Goto
<1>1. CASE Leave
  BY <1>1 DEF Leave, stopVars, clientVars, jobVars, Points
<1>2. CASE Pass
  BY <1>2 DEF Pass, stopVars, clientVars, jobVars, Points
<1>3. CASE Accept
  BY <1>3 DEF Accept, Owe, MaxOwed, stopVars, clientVars, jobVars, Points, Positions
<1>4. CASE AcceptFails \/ AcceptError
  BY <1>4 DEF AcceptFails, AcceptError, Owe, MaxOwed, stopVars, clientVars, jobVars, Points
<1>5. CASE Discard
  BY <1>5 DEF Discard, stopVars, clientVars, jobVars, Points, Positions
<1>6. CASE Copy
  BY <1>6 DEF Copy, stopVars, clientVars, jobVars, Points
<1>7. CASE NextClient
  BY <1>7 DEF NextClient, stopVars, clientVars, jobVars, Points
<1>8. CASE EndPass
  BY <1>8 DEF EndPass, stopVars, clientVars, jobVars, Points
<1> QED
  BY <1>1, <1>2, <1>3, <1>4, <1>5, <1>6, <1>7, <1>8

LEMMA AddClient ==
    ASSUME NEW S, IsFiniteSet(S), Cardinality(S) < MaxClients, NEW c
    PROVE  Cardinality(S \union {c}) <= MaxClients
<1>1. Cardinality(S) \in Nat
  BY FS_CardinalityType
<1>2. CASE c \in S
  <2>1. S \union {c} = S
    BY <1>2
  <2> QED
    BY <1>1, <2>1, MuxAssumption DEF MuxAssumption
<1>3. CASE c \notin S
  <2>1. Cardinality(S \union {c}) = Cardinality(S) + 1
    BY <1>3, FS_AddElement
  <2> QED
    BY <1>1, <2>1, MuxAssumption DEF MuxAssumption
<1> QED
  BY <1>2, <1>3

\* Steps that change the set of clients or read from one.
LEMMA TypeClients ==
    ASSUME TypeInv, Insert \/ Read \/ ReadFails \/ LoopStop
    PROVE  TypeInv'
<1> USE DEF TypeInv, TypeOK, LoopInv, Goto
<1>0. IsFiniteSet(clients)
  BY MuxAssumption, FS_Subset DEF MuxAssumption
<1>1. CASE Insert
  <2>1. Cardinality(clients \union {hand}) <= MaxClients
    BY <1>0, <1>1, AddClient DEF Insert
  <2>2. Cardinality(clients') <= MaxClients
    BY <1>1, <2>1 DEF Insert
  <2> QED
    BY <1>1, <2>2 DEF Insert, stopVars, clientVars, jobVars, Points
<1>2. CASE Read
  <2>1. hand \in Client
    BY <1>2 DEF Read
  <2>2. read[hand] + 1 \in Lines(hand)
    <3>1. /\ read[hand] < sent[hand] /\ sent[hand] <= MaxCommands[hand]
          /\ read[hand] \in Nat /\ sent[hand] \in Nat /\ MaxCommands[hand] \in Nat
      BY <1>2, <2>1, MuxAssumption DEF Read, MuxAssumption
    <3> QED
      BY <3>1 DEF Lines
  <2>3. [client |-> hand, line |-> read[hand] + 1, at |-> "lookup"] \in Jobs
    BY <2>1, <2>2 DEF Jobs
  <2>4. jobs' \subseteq Jobs
    BY <1>2, <2>3 DEF Read
  <2>5. heads' \in [Client -> SUBSET Nat]
    <3>1. heads[hand] \union {read[hand] + 1} \in SUBSET Nat
      BY <2>1
    <3>2. heads' = heads \/ heads' = [heads EXCEPT ![hand] = heads[hand] \union {read[hand] + 1}]
      BY <1>2 DEF Read
    <3> HIDE DEF TypeOK
    <3>3. heads \in [Client -> SUBSET Nat]
      BY DEF TypeOK
    <3> QED
      BY <3>1, <3>2, <3>3
  <2>6. PICK last \in read[hand] + 1 .. sent[hand] : read' = [read EXCEPT ![hand] = last]
    BY <1>2 DEF Read
  <2>7. last \in Nat /\ last <= sent[hand]
    BY <2>1, <2>6
  <2>8. \A c \in Client : read'[c] <= sent[c] /\ sent[c] <= MaxCommands[c]
    BY <2>1, <2>6, <2>7
  <2>9. read' \in [Client -> Nat] /\ owed' \in [Client -> Int]
    BY <1>2, <2>1, <2>6, <2>7 DEF Read
  <2>10. loop' = "serve" /\ hand' = None /\ UNCHANGED <<todo, clients, stopVars, conn, backlog, clientVars, answers>>
    BY <1>2 DEF Read
  <2> QED
    BY <2>1, <2>4, <2>5, <2>8, <2>9, <2>10 DEF stopVars, clientVars, Points
<1>3. CASE ReadFails
  <2>1. Cardinality(clients') <= Cardinality(clients) /\ Cardinality(clients') \in Nat
    BY <1>0, <1>3, FS_Subset, FS_CardinalityType DEF ReadFails
  <2>2. Cardinality(clients') <= MaxClients
    BY <1>0, <2>1, FS_CardinalityType, MuxAssumption DEF MuxAssumption
  <2> QED
    BY <1>3, <2>2 DEF ReadFails, stopVars, clientVars, jobVars, Points, Positions
<1>4. CASE LoopStop
  BY <1>4 DEF LoopStop, StopListening, CloseClients, clientVars, jobVars, stopVars, Points, Positions
<1> QED
  BY <1>1, <1>2, <1>3, <1>4

\* Steps of the goroutines, of main and of the clients.
LEMMA TypeOthers ==
    ASSUME TypeInv, JobStep \/ Cancel \/ MainStop \/ ClientStep
    PROVE  TypeInv'
<1> USE DEF TypeInv, TypeOK, LoopInv
<1>1. CASE JobStep
  <2>1. PICK j \in jobs : Lookup(j) \/ WriteAnswer(j)
    BY <1>1 DEF JobStep
  <2>2. PICK c \in Client, n \in Nat, at \in {"lookup", "write"} :
            n \in Lines(c) /\ j = [client |-> c, line |-> n, at |-> at]
    BY <2>1, JobType
  <2>3. CASE Lookup(j)
    <3>1. [j EXCEPT !.at = "write"] = [client |-> c, line |-> n, at |-> "write"]
      BY <2>2, Written
    <3>2. [j EXCEPT !.at = "write"] \in Jobs
      BY <2>2, <3>1 DEF Jobs
    <3>3. jobs' \subseteq Jobs
      BY <2>3, <3>2 DEF Lookup
    <3> QED
      BY <2>3, <3>3 DEF Lookup, loopVars, stopVars, clientVars
  <2>4. CASE WriteAnswer(j)
    <3>1. j.client = c /\ j.line = n
      BY <2>2
    <3>2. answers' \in [Client -> Seq(Client \X Nat)]
      <4>1. Append(answers[c], <<j.client, j.line>>) \in Seq(Client \X Nat)
        BY <2>2, <3>1
      <4> QED
        BY <2>4, <3>1, <4>1 DEF WriteAnswer
    <3> QED
      BY <2>4, <3>2 DEF WriteAnswer, Finish, loopVars, stopVars, clientVars
  <2> QED
    BY <2>1, <2>3, <2>4
<1>2. CASE Cancel
  BY <1>2 DEF Cancel, MainGoto, loopVars, clientVars, jobVars, Stages
<1>3. CASE MainStop
  BY <1>3 DEF MainStop, MainGoto, StopListening, CloseClients, loopVars, clientVars, jobVars, Stages, Positions
<1>4. CASE ClientStep
  <2>1. PICK c \in Client : Connect(c) \/ SendLine(c) \/ LeaveClient(c) \/ Forget(c)
    BY <1>4 DEF ClientStep
  <2>2. CASE Connect(c)
    BY <2>2 DEF Connect, loopVars, stopVars, clientVars, jobVars, Positions
  <2>3. CASE SendLine(c)
    <3>1. sent' = [sent EXCEPT ![c] = sent[c] + 1] /\ sent[c] < MaxCommands[c]
      BY <2>3 DEF SendLine
    <3>2. /\ sent[c] \in Nat /\ read[c] \in Nat /\ MaxCommands[c] \in Nat
          /\ read[c] <= sent[c]
      BY MuxAssumption DEF MuxAssumption
    <3>3. /\ sent' \in [Client -> Nat]
          /\ \A d \in Client : read[d] <= sent'[d] /\ sent'[d] <= MaxCommands[d]
      BY <3>1, <3>2
    <3> QED
      BY <2>3, <3>3 DEF SendLine, loopVars, stopVars, jobVars
  <2>4. CASE LeaveClient(c)
    BY <2>4 DEF LeaveClient, loopVars, stopVars, jobVars
  <2>5. CASE Forget(c)
    <3>1. \A d \in Client : read'[d] <= sent'[d] /\ sent'[d] <= MaxCommands[d]
      <4>1. /\ sent' = [sent EXCEPT ![c] = 0] /\ read' = [read EXCEPT ![c] = 0]
            /\ MaxCommands[c] \in Nat
        BY <2>5, MuxAssumption DEF Forget, MuxAssumption
      <4> QED
        BY <4>1
    <3>2. /\ sent' \in [Client -> Nat] /\ left' \in [Client -> BOOLEAN]
          /\ read' \in [Client -> Nat] /\ heads' \in [Client -> SUBSET Nat]
          /\ owed' \in [Client -> Int] /\ answers' \in [Client -> Seq(Client \X Nat)]
          /\ conn' \in [Client -> Positions]
      BY <2>5 DEF Forget, Positions
    <3> QED
      BY <2>5, <3>1, <3>2 DEF Forget, loopVars, stopVars
  <2> QED
    BY <2>1, <2>2, <2>3, <2>4, <2>5
<1> QED
  BY <1>1, <1>2, <1>3, <1>4

LEMMA TypeStep == TypeInv /\ [Next]_vars => TypeInv'
<1> SUFFICES ASSUME TypeInv, [Next]_vars PROVE TypeInv'
  OBVIOUS
<1>1. CASE Next
  BY <1>1, TypeLoop, TypeClients, TypeOthers DEF Next, LoopStep
<1>2. CASE UNCHANGED vars
  BY <1>2 DEF vars, loopVars, stopVars, clientVars, jobVars, TypeInv, TypeOK, LoopInv
<1> QED
  BY <1>1, <1>2

\* The types of the variables, and never more than MaxClients clients
\* (select_multiplexer.go:181).
THEOREM TypeCorrect == Spec => []TypeOK
<1>1. TypeInv => TypeOK
  BY DEF TypeInv
<1> QED
  BY <1>1, TypeInit, TypeStep, PTL DEF Spec

-----------------------------------------------------------------------------
(* Turns.                                                                   *)

\* The steps that decide whose turn it is.
LEMMA TurnLoop ==
    ASSUME TypeInv, NobodyPassedOver, LoopStep \/ AcceptError
    PROVE  NobodyPassedOver'
<1> USE DEF NobodyPassedOver, TurnToCome, Goto, LoopInv
<1>0. TypeOK /\ LoopInv
  BY DEF TypeInv
<1>a. owed \in [Client -> Int] /\ clients \subseteq Client
  BY <1>0 DEF TypeOK
<1>1. CASE Leave
  BY <1>0, <1>1 DEF Leave
<1>2. CASE Pass
  BY <1>0, <1>2, SelectNeverIdle DEF Pass
<1>3. CASE Accept
  BY <1>0, <1>a, <1>3 DEF Accept, Owe, MaxOwed
<1>4. CASE AcceptFails \/ AcceptError
  BY <1>0, <1>a, <1>4 DEF AcceptFails, AcceptError, Owe, MaxOwed
<1>5. CASE Discard
  BY <1>0, <1>5 DEF Discard
<1>6. CASE Insert
  BY <1>0, <1>a, <1>6 DEF Insert, TypeOK
<1>7. CASE Copy
  BY <1>0, <1>7, SelectNeverIdle DEF Copy
<1>8. CASE NextClient
  BY <1>0, <1>8 DEF NextClient
<1>9. CASE EndPass
  BY <1>0, <1>9 DEF EndPass
<1>10. CASE Read
  BY <1>0, <1>a, <1>10 DEF Read
<1>11. CASE ReadFails
  BY <1>0, <1>a, <1>11 DEF ReadFails
<1>12. CASE LoopStop
  BY <1>0, <1>12 DEF LoopStop, stopVars
<1> QED
  BY <1>1, <1>2, <1>3, <1>4, <1>5, <1>6, <1>7, <1>8, <1>9, <1>10, <1>11, <1>12 DEF LoopStep

\* A client of lab3's server has had a read for each Accept that returned since it
\* joined, or its turn is still to come (select_multiplexer.go:131-168): for any
\* number of clients, whatever they and their errors do.
THEOREM NobodyIsPassedOver == Spec => []NobodyPassedOver
<1>1. Init => NobodyPassedOver
  BY DEF Init, NobodyPassedOver
<1>2. ASSUME TypeInv, NobodyPassedOver, JobStep \/ Cancel \/ MainStop \/ ClientStep
      PROVE  NobodyPassedOver'
  <2>1. CASE \E c \in Client : Forget(c)
    <3>1. PICK c \in Client : Forget(c)
      BY <2>1
    <3>2. /\ UNCHANGED <<loop, hand, todo, clients>> /\ c \notin clients
          /\ owed' = [owed EXCEPT ![c] = 0] /\ owed \in [Client -> Int] /\ clients \subseteq Client
      BY <1>2, <3>1 DEF Forget, loopVars, TypeInv, TypeOK
    <3>3. \A d \in clients : owed'[d] = owed[d]
      BY <3>2
    <3> QED
      BY <1>2, <3>2, <3>3 DEF NobodyPassedOver, TurnToCome
  <2>2. CASE ~ \E c \in Client : Forget(c)
    <3>1. UNCHANGED <<loopVars, clients, owed>>
      BY <1>2, <2>2 DEF JobStep, Lookup, WriteAnswer, Cancel, MainStop, ClientStep, Connect, SendLine, LeaveClient
    <3> QED
      BY <1>2, <3>1 DEF loopVars, NobodyPassedOver, TurnToCome
  <2> QED
    BY <2>1, <2>2
<1>3. TypeInv /\ NobodyPassedOver /\ [Next]_vars => NobodyPassedOver'
  BY <1>2, TurnLoop DEF Next, vars, loopVars, NobodyPassedOver, TurnToCome
<1> QED
  BY <1>1, <1>3, TypeInit, TypeStep, PTL DEF Spec

-----------------------------------------------------------------------------
(* Answers.                                                                 *)

\* Where a connection stands: in the backlog, in the loop's hand or in the map.
ConnInv ==
    /\ \A c \in Client : conn[c] = "open" => c \in clients \/ (loop = "insert" /\ hand = c)
    /\ \A c \in clients : conn[c] \in {"open", "closed"}
    /\ loop = "insert" => conn[hand] = "open" /\ hand \notin clients /\ heads[hand] = {}
    /\ \A i \in DOMAIN backlog : conn[backlog[i]] = "pending"
    /\ IsInjective(backlog)
    /\ \A c \in Client : heads[c] # {} => conn[c] \in {"open", "closed"}

\* A goroutine works on a line that came first in a read, and no other does.
JobInv ==
    /\ \A j \in jobs : j.line \in heads[j.client]
    /\ \A j, k \in jobs : j.client = k.client /\ j.line = k.line => j = k
    /\ \A c \in Client : \A n \in heads[c] : n <= read[c]

LEMMA AppendInjective ==
    ASSUME NEW S, NEW s \in Seq(S), NEW e \in S,
           IsInjective(s), \A i \in DOMAIN s : s[i] # e
    PROVE  IsInjective(Append(s, e))
<1>1. DOMAIN Append(s, e) = 1 .. Len(s) + 1 /\ DOMAIN s = 1 .. Len(s) /\ Len(s) \in Nat
  OBVIOUS
<1>2. \A i \in 1 .. Len(s) : Append(s, e)[i] = s[i]
  OBVIOUS
<1>3. Append(s, e)[Len(s) + 1] = e
  OBVIOUS
<1> QED
  BY <1>1, <1>2, <1>3 DEF IsInjective

LEMMA TailInjective ==
    ASSUME NEW S, NEW s \in Seq(S), s # <<>>, IsInjective(s)
    PROVE  /\ IsInjective(Tail(s))
           /\ Head(s) = s[1]
           /\ \A i \in DOMAIN Tail(s) : i + 1 \in DOMAIN s /\ Tail(s)[i] = s[i + 1] /\ s[i + 1] # s[1]
<1>1. /\ DOMAIN Tail(s) = 1 .. Len(s) - 1 /\ DOMAIN s = 1 .. Len(s) /\ Len(s) \in Nat
      /\ Len(s) >= 1
  OBVIOUS
<1>2. \A i \in DOMAIN Tail(s) : i + 1 \in DOMAIN s /\ Tail(s)[i] = s[i + 1]
  BY <1>1
<1>3. \A i \in DOMAIN Tail(s) : s[i + 1] # s[1]
  BY <1>1, <1>2 DEF IsInjective
<1>4. ASSUME NEW i \in DOMAIN Tail(s), NEW k \in DOMAIN Tail(s), Tail(s)[i] = Tail(s)[k]
      PROVE  i = k
  <2>1. s[i + 1] = s[k + 1] /\ i + 1 \in DOMAIN s /\ k + 1 \in DOMAIN s
    BY <1>2, <1>4
  <2>2. i + 1 = k + 1
    BY <2>1 DEF IsInjective
  <2> QED
    BY <1>1, <2>2
<1> QED
  BY <1>2, <1>3, <1>4 DEF IsInjective

\* Every step of the system keeps ConnInv.
LEMMA ConnStep ==
    ASSUME TypeInv, ConnInv, Next
    PROVE  ConnInv'
<1> USE DEF ConnInv, Goto
<1>0. TypeOK /\ LoopInv
  BY DEF TypeInv
<1>a. /\ conn \in [Client -> Positions] /\ clients \subseteq Client
      /\ backlog \in Seq(Client) /\ heads \in [Client -> SUBSET Nat]
      /\ loop = "insert" => hand \in Client
  BY <1>0 DEF TypeOK
<1>1. CASE Accept
  <2>1. backlog[1] \in Client /\ backlog # <<>> /\ 1 \in DOMAIN backlog
    BY <1>a, <1>1 DEF Accept
  <2>2. hand' = backlog[1] /\ conn' = [conn EXCEPT ![backlog[1]] = "open"]
    BY <1>1, <1>a, TailInjective DEF Accept
  <2>3. \A i \in DOMAIN backlog' : \E k \in DOMAIN backlog : backlog'[i] = backlog[k] /\ backlog[k] # backlog[1]
    BY <1>1, <1>a, <2>1, TailInjective DEF Accept
  <2>4. IsInjective(backlog')
    BY <1>1, <1>a, <2>1, TailInjective DEF Accept
  <2>5. \A i \in DOMAIN backlog' : conn'[backlog'[i]] = "pending"
    BY <1>a, <2>2, <2>3
  <2>6. conn[backlog[1]] = "pending" /\ heads[backlog[1]] = {} /\ backlog[1] \notin clients
    BY <2>1
  <2> QED
    BY <1>1, <1>a, <2>1, <2>2, <2>4, <2>5, <2>6 DEF Accept, jobVars
<1>2. CASE \E c \in Client : Connect(c)
  <2>1. PICK c \in Client : Connect(c)
    BY <1>2
  <2>2. \A i \in DOMAIN backlog : backlog[i] # c
    BY <2>1 DEF Connect
  <2>3. IsInjective(backlog')
    BY <1>a, <2>1, <2>2, AppendInjective DEF Connect
  <2>4. \A i \in DOMAIN backlog' : backlog'[i] = c \/ \E k \in DOMAIN backlog : backlog'[i] = backlog[k]
    BY <1>a, <2>1 DEF Connect
  <2>5. \A i \in DOMAIN backlog' : conn'[backlog'[i]] = "pending"
    BY <1>a, <2>1, <2>2, <2>4 DEF Connect
  <2>6. /\ conn' = [conn EXCEPT ![c] = "pending"] /\ conn[c] = "none"
        /\ UNCHANGED <<loop, hand, clients, heads>>
    BY <2>1 DEF Connect, loopVars
  <2>7. heads[c] = {}
    BY <2>6
  <2> QED
    BY <1>a, <2>3, <2>5, <2>6, <2>7
<1>3. CASE Discard
  BY <1>a, <1>3 DEF Discard
<1>4. CASE Insert
  BY <1>a, <1>4 DEF Insert
<1>5. CASE Read
  <2>1. hand \in clients /\ hand \in Client
    BY <1>0, <1>5 DEF LoopInv, TypeOK, Read
  <2> QED
    BY <1>a, <1>5, <2>1 DEF Read
<1>6. CASE ReadFails
  <2>1. hand \in clients /\ hand \in Client
    BY <1>0, <1>6 DEF LoopInv, TypeOK, ReadFails
  <2> QED
    BY <1>a, <1>6, <2>1 DEF ReadFails, jobVars
<1>7. ASSUME CloseClients, UNCHANGED <<clients, backlog, heads>>,
             UNCHANGED <<loop, hand>> \/ (loop' # "insert" /\ loop # "insert")
      PROVE  ConnInv'
  BY <1>a, <1>7 DEF CloseClients
<1>8. ASSUME UNCHANGED <<conn, clients, backlog, heads>>,
             UNCHANGED <<loop, hand>> \/ (loop' # "insert" /\ loop # "insert")
      PROVE  ConnInv'
  BY <1>8
<1>9. CASE Leave \/ Pass \/ AcceptFails \/ AcceptError \/ Copy \/ NextClient \/ EndPass \/ LoopStop
  BY <1>7, <1>8, <1>9 DEF Leave, Pass, AcceptFails, AcceptError, Copy, NextClient, EndPass, LoopStop, jobVars, stopVars
<1>10. CASE JobStep \/ Cancel \/ MainStop
  <2>1. CASE JobStep \/ Cancel
    <3>1. UNCHANGED <<conn, clients, backlog, heads, loop, hand>>
      BY <2>1 DEF JobStep, Lookup, WriteAnswer, Cancel, loopVars
    <3> QED
      BY <1>8, <3>1
  <2>2. CASE MainStop
    <3>1. UNCHANGED <<clients, backlog, heads>> /\ UNCHANGED <<loop, hand>>
      BY <2>2 DEF MainStop, loopVars
    <3>2. CloseClients \/ UNCHANGED conn
      BY <2>2 DEF MainStop
    <3>3. CASE CloseClients
      <4>1. conn' = [c \in Client |-> IF c \in clients THEN "closed" ELSE conn[c]]
        BY <3>3 DEF CloseClients
      <4> QED
        BY <1>a, <3>1, <4>1
    <3>4. CASE UNCHANGED conn
      BY <1>8, <3>1, <3>4
    <3> QED
      BY <3>2, <3>3, <3>4
  <2> QED
    BY <1>10, <2>1, <2>2
<1>12. CASE \E c \in Client : Forget(c)
  <2>1. PICK c \in Client : Forget(c)
    BY <1>12
  <2>2. /\ conn[c] = "closed" /\ c \notin clients
        /\ conn' = [conn EXCEPT ![c] = "none"] /\ heads' = [heads EXCEPT ![c] = {}]
        /\ UNCHANGED <<loop, hand, clients, backlog>>
    BY <2>1 DEF Forget, loopVars
  <2>3. \A i \in DOMAIN backlog : backlog[i] # c /\ conn'[backlog[i]] = conn[backlog[i]]
    BY <1>a, <2>2
  <2>4. loop = "insert" => hand # c
    BY <2>2
  <2> QED
    BY <1>a, <2>2, <2>3, <2>4
<1>11. CASE ClientStep
  BY <1>2, <1>8, <1>11, <1>12 DEF ClientStep, SendLine, LeaveClient, loopVars, jobVars
<1> QED
  BY <1>1, <1>3, <1>4, <1>5, <1>6, <1>9, <1>10, <1>11 DEF Next, LoopStep

\* A step that leaves the goroutines and the answers alone keeps both invariants,
\* if it opens only connections nothing was read from.
LEMMA QuietStep ==
    ASSUME TypeInv, JobInv, AnswersExact,
           UNCHANGED <<jobs, answers, heads, read>>,
           \A c \in Client : conn'[c] = "open" => conn[c] = "open" \/ heads[c] = {}
    PROVE  JobInv' /\ AnswersExact'
<1>1. JobInv'
  BY DEF JobInv
<1>2. ASSUME NEW c \in Client, heads[c] = {}
      PROVE  Answered(c) = {} /\ AtWork(c) = {}
  <2>1. \A i \in DOMAIN answers[c] : answers[c][i][2] \in heads[c]
    BY DEF AnswersExact
  <2>2. \A j \in jobs : j.client # c
    BY <1>2 DEF JobInv
  <2> QED
    BY <1>2, <2>1, <2>2 DEF Answered, AtWork
<1>3. \A c \in Client : Answered(c)' = Answered(c) /\ AtWork(c)' = AtWork(c)
  BY DEF Answered, AtWork
<1>4. AnswersExact'
  BY <1>2, <1>3 DEF AnswersExact
<1> QED
  BY <1>1, <1>4

\* A blank line moves the stream on and does no more.
LEMMA BlankStep ==
    ASSUME TypeInv, JobInv, AnswersExact, Read, UNCHANGED <<jobs, heads>>
    PROVE  JobInv' /\ AnswersExact'
<1>0. /\ hand \in Client /\ read \in [Client -> Nat] /\ sent \in [Client -> Nat]
      /\ heads \in [Client -> SUBSET Nat] /\ UNCHANGED <<answers, conn>>
  BY DEF Read, Goto, TypeInv, TypeOK
<1>1. PICK last \in read[hand] + 1 .. sent[hand] : read' = [read EXCEPT ![hand] = last]
  BY DEF Read
<1>2. \A c \in Client : read[c] <= read'[c] /\ read[c] \in Nat /\ read'[c] \in Nat
  <2>1. last >= read[hand] + 1 /\ last \in Nat /\ read[hand] \in Nat
    BY <1>0, <1>1
  <2> QED
    BY <1>0, <1>1, <2>1
<1>3. \A c \in Client : \A n \in heads[c] : n <= read'[c]
  <2> SUFFICES ASSUME NEW c \in Client, NEW n \in heads[c]
               PROVE  n <= read'[c]
    OBVIOUS
  <2>1. n \in Nat /\ n <= read[c]
    BY <1>0 DEF JobInv
  <2> QED
    BY <1>2, <2>1
<1>4. JobInv'
  BY <1>3 DEF JobInv
<1>5. AnswersExact'
  <2>1. \A c \in Client : Answered(c)' = Answered(c) /\ AtWork(c)' = AtWork(c)
    BY <1>0 DEF Answered, AtWork
  <2> QED
    BY <1>0, <2>1 DEF AnswersExact
<1> QED
  BY <1>4, <1>5

\* A connection that is over takes its lines and its answers with it.
LEMMA ForgetStep ==
    ASSUME TypeInv, JobInv, AnswersExact, NEW c \in Client, Forget(c)
    PROVE  JobInv' /\ AnswersExact'
<1>1. /\ read \in [Client -> Nat] /\ heads \in [Client -> SUBSET Nat]
      /\ answers \in [Client -> Seq(Client \X Nat)] /\ conn \in [Client -> Positions]
  BY DEF TypeInv, TypeOK
<1>2. /\ UNCHANGED jobs /\ \A j \in jobs : j.client # c
      /\ conn' = [conn EXCEPT ![c] = "none"] /\ read' = [read EXCEPT ![c] = 0]
      /\ answers' = [answers EXCEPT ![c] = <<>>] /\ heads' = [heads EXCEPT ![c] = {}]
  BY DEF Forget
<1>3. \A d \in Client : d # c =>
          conn'[d] = conn[d] /\ read'[d] = read[d] /\ answers'[d] = answers[d] /\ heads'[d] = heads[d]
  BY <1>1, <1>2
<1>4. conn'[c] = "none" /\ read'[c] = 0 /\ answers'[c] = <<>> /\ heads'[c] = {}
  BY <1>1, <1>2
<1>5. JobInv'
  <2>1. \A j \in jobs' : j.line \in heads'[j.client]
    BY <1>2, <1>3, JobRecord DEF JobInv
  <2>2. \A d \in Client : \A n \in heads'[d] : n <= read'[d]
    BY <1>3, <1>4 DEF JobInv
  <2> QED
    BY <1>2, <2>1, <2>2 DEF JobInv
<1>6. AnswersExact'
  <2> SUFFICES ASSUME NEW d \in Client
               PROVE  /\ \A i \in DOMAIN answers'[d] : answers'[d][i] \in {d} \X heads'[d]
                      /\ IsInjective(answers'[d])
                      /\ Answered(d)' \intersect AtWork(d)' = {}
                      /\ conn'[d] = "open" => heads'[d] = Answered(d)' \union AtWork(d)'
    BY DEF AnswersExact
  <2>1. CASE d # c
    <3>1. Answered(d)' = Answered(d) /\ AtWork(d)' = AtWork(d)
      BY <1>2, <1>3, <2>1 DEF Answered, AtWork
    <3> QED
      BY <1>3, <2>1, <3>1 DEF AnswersExact
  <2>2. CASE d = c
    <3>1. Answered(d)' = {} /\ DOMAIN answers'[d] = {}
      BY <1>4, <2>2 DEF Answered
    <3> QED
      BY <1>4, <2>2, <3>1 DEF IsInjective
  <2> QED
    BY <2>1, <2>2
<1> QED
  BY <1>5, <1>6

\* A read starts a goroutine for a line nobody has worked on.
LEMMA ReadStep ==
    ASSUME TypeInv, JobInv, AnswersExact, Read, ~ UNCHANGED <<jobs, heads>>
    PROVE  JobInv' /\ AnswersExact'
<1> DEFINE new == [client |-> hand, line |-> read[hand] + 1, at |-> "lookup"]
<1>0. /\ hand \in Client /\ read \in [Client -> Nat] /\ heads \in [Client -> SUBSET Nat]
      /\ jobs' = jobs \union {new} /\ UNCHANGED <<answers, conn>>
      /\ heads' = [heads EXCEPT ![hand] = heads[hand] \union {read[hand] + 1}]
  BY DEF Read, Goto, TypeInv, TypeOK
<1>1. new.client = hand /\ new.line = read[hand] + 1
  OBVIOUS
<1> HIDE DEF new
<1>2. /\ read'[hand] >= read[hand] + 1 /\ read'[hand] \in Nat
      /\ \A c \in Client : c # hand => read'[c] = read[c]
  <2>1. PICK last \in read[hand] + 1 .. sent[hand] : read' = [read EXCEPT ![hand] = last]
    BY DEF Read
  <2>2. sent[hand] \in Nat /\ read[hand] \in Nat
    BY <1>0 DEF TypeInv, TypeOK
  <2> QED
    BY <1>0, <2>1, <2>2
<1>3. read[hand] + 1 \notin heads[hand]
  BY <1>0 DEF JobInv
<1>4. \A j \in jobs : ~(j.client = hand /\ j.line = read[hand] + 1)
  BY <1>3 DEF JobInv
<1>5. JobInv'
  <2>1. \A c \in Client : \A n \in heads'[c] : n <= read'[c]
    <3> SUFFICES ASSUME NEW c \in Client, NEW n \in heads'[c] PROVE n <= read'[c]
      OBVIOUS
    <3>1. CASE c # hand
      BY <1>0, <1>2, <3>1 DEF JobInv
    <3>2. CASE c = hand
      <4>1. n = read[hand] + 1 \/ (n \in heads[hand] /\ n <= read[hand] /\ n \in Nat)
        BY <1>0, <3>2 DEF JobInv
      <4> QED
        BY <1>0, <1>2, <3>2, <4>1
    <3> QED
      BY <3>1, <3>2
  <2>2. \A j \in jobs' : j.line \in heads'[j.client]
    <3> SUFFICES ASSUME NEW j \in jobs' PROVE j.line \in heads'[j.client]
      OBVIOUS
    <3>1. CASE j = new
      BY <1>0, <1>1, <3>1
    <3>2. CASE j \in jobs
      <4>1. j.client \in Client
        BY <3>2, JobRecord
      <4> QED
        BY <1>0, <3>2, <4>1 DEF JobInv
    <3> QED
      BY <1>0, <3>1, <3>2
  <2>3. \A j, k \in jobs' : j.client = k.client /\ j.line = k.line => j = k
    BY <1>0, <1>1, <1>4 DEF JobInv
  <2> QED
    BY <2>1, <2>2, <2>3 DEF JobInv
<1>6. AnswersExact'
  <2> SUFFICES ASSUME NEW c \in Client
               PROVE  /\ \A i \in DOMAIN answers[c] : answers[c][i] \in {c} \X heads'[c]
                      /\ IsInjective(answers[c])
                      /\ Answered(c) \intersect AtWork(c)' = {}
                      /\ conn[c] = "open" => heads'[c] = Answered(c) \union AtWork(c)'
    BY <1>0 DEF AnswersExact, Answered
  <2>1. /\ \A i \in DOMAIN answers[c] : answers[c][i] \in {c} \X heads[c]
        /\ IsInjective(answers[c])
        /\ Answered(c) \intersect AtWork(c) = {}
        /\ conn[c] = "open" => heads[c] = Answered(c) \union AtWork(c)
    BY DEF AnswersExact
  <2>2. Answered(c) \subseteq heads[c]
    BY <2>1 DEF Answered
  <2>3. CASE c # hand
    <3>1. AtWork(c)' = AtWork(c) /\ heads'[c] = heads[c]
      BY <1>0, <1>1, <2>3 DEF AtWork
    <3> QED
      BY <2>1, <3>1
  <2>4. CASE c = hand
    <3>1. AtWork(c)' = AtWork(c) \union {read[hand] + 1}
      BY <1>0, <1>1, <2>4 DEF AtWork
    <3>2. heads'[c] = heads[c] \union {read[hand] + 1}
      BY <1>0, <2>4
    <3> QED
      BY <1>3, <2>1, <2>2, <2>4, <3>1, <3>2
  <2> QED
    BY <2>3, <2>4
<1> QED
  BY <1>5, <1>6

\* The lookup drops the work only when nobody can be waiting for it.
LEMMA LookupStep ==
    ASSUME TypeInv, ConnInv, JobInv, AnswersExact, NEW j \in jobs, Lookup(j)
    PROVE  JobInv' /\ AnswersExact'
<1> DEFINE new == [j EXCEPT !.at = "write"]
<1>1. /\ j.client \in Client /\ new.client = j.client /\ new.line = j.line
      /\ j.line \in heads[j.client]
  BY JobRecord DEF JobInv
<1> HIDE DEF new
<1>2. /\ UNCHANGED <<heads, read, answers, conn>>
      /\ jobs' = (jobs \ {j}) \union (IF j.client \in clients THEN {new} ELSE {})
  BY DEF Lookup, new
<1>3. JobInv'
  BY <1>1, <1>2 DEF JobInv
<1>4. ASSUME NEW c \in Client, c # j.client PROVE AtWork(c)' = AtWork(c)
  BY <1>1, <1>2, <1>4 DEF AtWork
<1>5. AtWork(j.client)' \subseteq AtWork(j.client)
  BY <1>1, <1>2 DEF AtWork
<1>6. j.client \in clients => AtWork(j.client)' = AtWork(j.client)
  <2> SUFFICES ASSUME j.client \in clients PROVE AtWork(j.client) \subseteq AtWork(j.client)'
    BY <1>5
  <2>1. \A k \in jobs : \E l \in jobs' : l.client = k.client /\ l.line = k.line
    BY <1>1, <1>2
  <2> QED
    BY <1>2, <2>1 DEF AtWork
<1>7. j.client \notin clients => conn[j.client] # "open"
  BY <1>1 DEF ConnInv
<1>8. AnswersExact'
  <2> SUFFICES ASSUME NEW c \in Client
               PROVE  /\ \A i \in DOMAIN answers[c] : answers[c][i] \in {c} \X heads[c]
                      /\ IsInjective(answers[c])
                      /\ Answered(c) \intersect AtWork(c)' = {}
                      /\ conn[c] = "open" => heads[c] = Answered(c) \union AtWork(c)'
    BY <1>2 DEF AnswersExact, Answered
  <2>1. /\ \A i \in DOMAIN answers[c] : answers[c][i] \in {c} \X heads[c]
        /\ IsInjective(answers[c])
        /\ Answered(c) \intersect AtWork(c) = {}
        /\ conn[c] = "open" => heads[c] = Answered(c) \union AtWork(c)
    BY DEF AnswersExact
  <2> QED
    BY <1>4, <1>5, <1>6, <1>7, <2>1
<1> QED
  BY <1>3, <1>8

\* The write ends the work on a line, with its answer if the connection is open.
LEMMA WriteStep ==
    ASSUME TypeInv, JobInv, AnswersExact, NEW j \in jobs, WriteAnswer(j)
    PROVE  JobInv' /\ AnswersExact'
<1> DEFINE a == <<j.client, j.line>>
           old == answers[j.client]
<1>1. /\ j.client \in Client /\ j.line \in Nat /\ j.line \in heads[j.client]
      /\ answers \in [Client -> Seq(Client \X Nat)]
  BY JobRecord DEF JobInv, TypeInv, TypeOK
<1>2. UNCHANGED <<heads, read, conn>> /\ jobs' = jobs \ {j}
  BY DEF WriteAnswer, Finish
<1>3. /\ conn[j.client] = "open" => answers' = [answers EXCEPT ![j.client] = Append(old, a)]
      /\ conn[j.client] # "open" => answers' = answers
  BY DEF WriteAnswer
<1>4. JobInv'
  BY <1>1, <1>2 DEF JobInv
<1>5. ASSUME NEW c \in Client, c # j.client
      PROVE  AtWork(c)' = AtWork(c) /\ answers'[c] = answers[c] /\ Answered(c)' = Answered(c)
  <2>1. AtWork(c)' = AtWork(c)
    BY <1>2, <1>5 DEF AtWork
  <2>2. answers'[c] = answers[c]
    BY <1>1, <1>3, <1>5
  <2> QED
    BY <2>1, <2>2 DEF Answered
<1>6. AtWork(j.client)' = AtWork(j.client) \ {j.line} /\ j.line \in AtWork(j.client)
  BY <1>1, <1>2 DEF AtWork, JobInv
<1>7. /\ old \in Seq(Client \X Nat) /\ a \in Client \X Nat
      /\ \A i \in DOMAIN old : old[i] # a
  <2>1. j.line \notin Answered(j.client)
    BY <1>1, <1>6 DEF AnswersExact
  <2> QED
    BY <1>1, <2>1 DEF Answered
<1>8. ASSUME conn[j.client] = "open"
      PROVE  /\ answers'[j.client] = Append(old, a)
             /\ IsInjective(answers'[j.client])
             /\ \A i \in DOMAIN answers'[j.client] :
                    answers'[j.client][i] \in {j.client} \X heads[j.client]
             /\ Answered(j.client)' = Answered(j.client) \union {j.line}
  <2>1. answers'[j.client] = Append(old, a)
    BY <1>1, <1>3, <1>8
  <2>2. IsInjective(Append(old, a))
    BY <1>1, <1>7, AppendInjective DEF AnswersExact
  <2> HIDE DEF a, old
  <2>3. /\ DOMAIN Append(old, a) = 1 .. Len(old) + 1 /\ DOMAIN old = 1 .. Len(old) /\ Len(old) \in Nat
        /\ \A i \in 1 .. Len(old) : Append(old, a)[i] = old[i]
        /\ Append(old, a)[Len(old) + 1] = a
    BY <1>7
  <2>4. a \in {j.client} \X heads[j.client] /\ a[2] = j.line
    BY <1>1 DEF a
  <2>5. \A i \in DOMAIN old : old[i] \in {j.client} \X heads[j.client]
    BY <1>1 DEF old, AnswersExact
  <2>6. \A i \in DOMAIN Append(old, a) : Append(old, a)[i] \in {j.client} \X heads[j.client]
    BY <2>3, <2>4, <2>5
  <2>7. Answered(j.client) = {old[i][2] : i \in DOMAIN old}
    BY DEF Answered, old
  <2>8. Answered(j.client)' = {Append(old, a)[i][2] : i \in DOMAIN Append(old, a)}
    BY <2>1 DEF Answered
  <2>9. Answered(j.client)' = Answered(j.client) \union {j.line}
    BY <2>3, <2>4, <2>7, <2>8
  <2> QED
    BY <2>1, <2>2, <2>6, <2>9
<1> HIDE DEF a, old
<1>9. AnswersExact'
  <2> SUFFICES ASSUME NEW c \in Client
               PROVE  /\ \A i \in DOMAIN answers'[c] : answers'[c][i] \in {c} \X heads[c]
                      /\ IsInjective(answers'[c])
                      /\ Answered(c)' \intersect AtWork(c)' = {}
                      /\ conn[c] = "open" => heads[c] = Answered(c)' \union AtWork(c)'
    BY <1>2 DEF AnswersExact
  <2>1. /\ \A i \in DOMAIN answers[c] : answers[c][i] \in {c} \X heads[c]
        /\ IsInjective(answers[c])
        /\ Answered(c) \intersect AtWork(c) = {}
        /\ conn[c] = "open" => heads[c] = Answered(c) \union AtWork(c)
    BY DEF AnswersExact
  <2>2. CASE c # j.client
    BY <1>5, <2>1, <2>2
  <2>3. CASE c = j.client /\ conn[c] = "open"
    BY <1>6, <1>8, <2>1, <2>3
  <2>4. CASE c = j.client /\ conn[c] # "open"
    <3>1. answers' = answers
      BY <1>3, <2>4
    <3>2. Answered(c)' = Answered(c)
      BY <3>1 DEF Answered
    <3> QED
      BY <1>6, <2>1, <2>4, <3>1, <3>2
  <2> QED
    BY <2>2, <2>3, <2>4
<1> QED
  BY <1>4, <1>9

LEMMA AnswersStep ==
    ASSUME TypeInv, ConnInv, JobInv, AnswersExact, [Next]_vars
    PROVE  ConnInv' /\ JobInv' /\ AnswersExact'
<1>1. CASE UNCHANGED vars
  <2>1. ConnInv'
    BY <1>1 DEF vars, loopVars, ConnInv
  <2> QED
    BY <1>1, <2>1, QuietStep DEF vars, jobVars
<1>2. CASE Next
  <2>1. ConnInv'
    BY <1>2, ConnStep
  <2>2. CASE Read
    BY <2>1, <2>2, BlankStep, ReadStep
  <2>3. CASE JobStep
    BY <2>1, <2>3, LookupStep, WriteStep DEF JobStep
  <2>4. CASE Accept
    <3>1. backlog \in Seq(Client) /\ backlog # <<>> /\ conn \in [Client -> Positions]
      BY <2>4 DEF Accept, TypeInv, TypeOK
    <3>2. 1 \in DOMAIN backlog /\ Head(backlog) = backlog[1] /\ backlog[1] \in Client
      BY <3>1
    <3>3. heads[Head(backlog)] = {}
      BY <3>2 DEF ConnInv
    <3> QED
      BY <2>1, <2>4, <3>1, <3>2, <3>3, QuietStep DEF Accept, jobVars
  <2>5. CASE Leave \/ Pass \/ AcceptFails \/ AcceptError \/ Insert \/ Copy \/ NextClient \/ EndPass
    <3>1. UNCHANGED <<jobs, answers, heads, read, conn>>
      BY <2>5 DEF Leave, Pass, AcceptFails, AcceptError, Insert, Copy, NextClient, EndPass, jobVars
    <3> QED
      BY <2>1, <3>1, QuietStep
  <2>6. CASE Discard \/ ReadFails \/ LoopStop \/ Cancel \/ MainStop
    <3>0. conn \in [Client -> Positions]
      BY DEF TypeInv, TypeOK
    <3>1. UNCHANGED <<jobs, answers, heads, read>>
      BY <2>6 DEF Discard, ReadFails, LoopStop, Cancel, MainStop, jobVars
    <3>2. \A c \in Client : conn'[c] = "open" => conn[c] = "open"
      BY <2>6, <3>0 DEF Discard, ReadFails, LoopStop, CloseClients, Cancel, MainStop
    <3> QED
      BY <2>1, <3>1, <3>2, QuietStep
  <2>7. CASE \E c \in Client : Forget(c)
    BY <2>1, <2>7, ForgetStep
  <2>8. CASE \E c \in Client : Connect(c) \/ SendLine(c) \/ LeaveClient(c)
    <3>0. conn \in [Client -> Positions]
      BY DEF TypeInv, TypeOK
    <3>1. UNCHANGED <<jobs, answers, heads, read>>
      BY <2>8 DEF Connect, SendLine, LeaveClient, jobVars
    <3>2. \A c \in Client : conn'[c] = "open" => conn[c] = "open"
      BY <2>8, <3>0 DEF Connect, SendLine, LeaveClient
    <3> QED
      BY <2>1, <3>1, <3>2, QuietStep
  <2> QED
    BY <1>2, <2>2, <2>3, <2>4, <2>5, <2>6, <2>7, <2>8 DEF Next, LoopStep, ClientStep
<1> QED
  BY <1>1, <1>2

\* A client of lab3's server is sent answers to its own lines only, each once, and
\* none is missing while its connection is open (select_multiplexer.go:240-267),
\* whatever the goroutines, the loop and Stop do to each other.
THEOREM AnswersAreExact == Spec => []AnswersExact
<1>1. Init => ConnInv /\ JobInv
  BY DEF Init, ConnInv, JobInv, IsInjective
<1>2. Init => AnswersExact
  BY DEF Init, AnswersExact, Answered, AtWork, IsInjective
<1> QED
  BY <1>1, <1>2, TypeInit, TypeStep, AnswersStep, PTL DEF Spec

=============================================================================
