-------------------------- MODULE UDPFileServer_proofs --------------------------
(***************************************************************************)
(* Proofs about lab2's server and senders: the types, the packets that wait *)
(* for an acknowledgement, the windows, the codec, and the end of the       *)
(* process.                                                                 *)
(***************************************************************************)
EXTENDS UDPFileServer, Packet_proofs, SequenceTheorems

Task == [peer : Peer, seq : Number, at : Points]

\* The number after a number, and what the window operators return, are typed.
LEMMA SuccType ==
    ASSUME NEW n \in Number
    PROVE  Succ(n) \in Number
  BY StepFacts, WindowAssumption DEF Succ, WindowAssumption

LEMMA ZeroType == 0 \in Number
  BY WindowAssumption DEF WindowAssumption, Number

LEMMA AddType ==
    ASSUME NEW w \in Window, NEW n \in Number
    PROVE  AddPacket(w, n) \in Window
<1> DEFINE x == Succ(w.NextSeq)
<1>1. w.NextSeq \in Number
  BY DEF Window
<1>2. x \in Number
  BY <1>1, SuccType
<1> HIDE DEF x
<1>3. [w EXCEPT !.Buffer = w.Buffer \union {n}, !.NextSeq = x] \in Window
  BY <1>2 DEF Window
<1> QED
  BY <1>3 DEF AddPacket, x

LEMMA AckType ==
    ASSUME NEW w \in Window, NEW n \in Number
    PROVE  AckPacket(w, n) \in Window
<1> DEFINE acked == w.Acked \union {n}
           k == Run(w.BaseSeq, acked)
           passed == Interval(w.BaseSeq, k)
           c == (w.BaseSeq + k) % Modulus
<1>1. w.BaseSeq \in Number /\ acked \in SUBSET Number
  BY DEF Window
<1>2. k \in 0 .. Modulus
  BY <1>1, RunFacts
<1> HIDE DEF k
<1>3. c \in Number
  BY <1>1, <1>2, StepFacts
<1> HIDE DEF c, passed, acked
<1>4. [w EXCEPT !.BaseSeq = c, !.Buffer = w.Buffer \ passed, !.Acked = acked \ passed] \in Window
  BY <1>1, <1>3 DEF Window
<1> QED
  BY <1>4 DEF AckPacket, k, c, passed, acked

LEMMA ClientType ==
    ASSUME RelTypeOK, NEW p \in Peer
    PROVE  GetOrCreateClient(p) \in Window
<1>1. NewSlidingWindow \in Window
  BY NewIsSound DEF Sound
<1> QED
  BY <1>1 DEF RelTypeOK, GetOrCreateClient

-----------------------------------------------------------------------------
(* The parts of a step that write the table of packets.                     *)

Table == <<pending, packetsSent, packetsLost, retransmits, written, replaced, released>>

TableType ==
    /\ pending \in [Number -> Peer \union {None}]
    /\ packetsSent \in Nat /\ packetsLost \in Nat /\ retransmits \in Nat
    /\ written \in Nat /\ replaced \in Nat /\ released \in Nat

\* What the table accounts for, without the datagrams.
Counted == packetsSent = Cardinality(Pending) + replaced + released + packetsLost

LEMMA PendingIsFinite == IsFiniteSet(Pending) /\ Cardinality(Pending) \in Nat
<1>1. IsFiniteSet(Number)
  BY FS_Interval, WindowAssumption DEF WindowAssumption, Number
<1>2. Pending \in SUBSET Number
  BY DEF Pending
<1> QED
  BY <1>1, <1>2, FS_Subset, FS_CardinalityType

LEMMA EnterKeeps ==
    ASSUME TableType, Counted, NEW p \in Peer, NEW n \in Number, Enter(p, n),
           UNCHANGED <<packetsLost, retransmits, released>>
    PROVE  /\ pending' \in [Number -> Peer \union {None}]
           /\ packetsSent' = packetsSent + 1 /\ replaced' \in Nat
           /\ Counted'
<1>1. pending' \in [Number -> Peer \union {None}]
  BY DEF TableType, Enter
<1>2. Pending' = Pending \union {n}
  BY ReliabilityAssumption DEF ReliabilityAssumption, TableType, Enter, Pending
<1>3. Cardinality(Pending') = IF n \in Pending THEN Cardinality(Pending) ELSE Cardinality(Pending) + 1
  BY <1>2, PendingIsFinite, FS_AddElement
<1>4. replaced' \in Nat /\ packetsSent' = packetsSent + 1
  BY DEF TableType, Enter
<1>5. packetsSent' = Cardinality(Pending') + replaced' + released' + packetsLost'
  BY <1>3, PendingIsFinite DEF TableType, Counted, Enter
<1> QED
  BY <1>1, <1>4, <1>5 DEF Counted

LEMMA ReleaseKeeps ==
    ASSUME TableType, Counted, NEW n \in Pending, Release(n)
    PROVE  TableType' /\ Counted'
<1>1. TableType'
  BY DEF TableType, Release, Pending
<1>2. Pending' = Pending \ {n}
  BY DEF TableType, Release, Pending
<1>3. Cardinality(Pending') = Cardinality(Pending) - 1
  BY <1>2, PendingIsFinite, FS_RemoveElement
<1>4. packetsSent' = Cardinality(Pending') + replaced' + released' + packetsLost'
  BY <1>3, PendingIsFinite DEF TableType, Counted, Release
<1> QED
  BY <1>1, <1>4 DEF Counted, Release

\* A pass of the loop changes nothing.
LEMMA PassKeeps ==
    ASSUME TableType, NEW overdue \in SUBSET Pending, CheckRetransmissions(overdue)
    PROVE  UNCHANGED Table
<1> DEFINE lost == {n \in overdue : RetransmitCount(n) >= MaxRetransmissions}
           again == {n \in overdue \ lost : Target(n) # None}
<1>1. lost = {}
  BY ReliabilityAssumption DEF ReliabilityAssumption, RetransmitCount
<1>2. again = {}
  BY DEF Target
<1>3. pending' = [n \in Number |-> pending[n]]
  BY <1>1 DEF CheckRetransmissions
<1>4. pending' = pending
  BY <1>3 DEF TableType
<1>5. Cardinality(lost) = 0 /\ Cardinality(again) = 0
  BY <1>1, <1>2, FS_EmptySet
<1> HIDE DEF again
<1>6. /\ packetsLost' = packetsLost + Cardinality(lost)
      /\ retransmits' = retransmits + Cardinality(again)
      /\ written' = written + Cardinality(again)
      /\ UNCHANGED <<packetsSent, replaced, released>>
  BY DEF CheckRetransmissions, again
<1> HIDE DEF lost
<1> QED
  BY <1>4, <1>5, <1>6 DEF TableType, Table

-----------------------------------------------------------------------------
(* The goroutines of the handlers.                                          *)

Handlers == Seq(Task \union {None})

\* The handlers that have entered their answer and not written it.
Writers == {i \in DOMAIN handler : At(i, "write")}

LEMMA HandlerFacts ==
    ASSUME handler \in Handlers, NEW i \in DOMAIN handler
    PROVE  /\ i \in 1 .. Len(handler)
           /\ handler[i] # None => handler[i] \in Task
  BY ElementOfSeq, LenProperties DEF Handlers

LEMMA WritersAreFinite ==
    ASSUME handler \in Handlers
    PROVE  IsFiniteSet(Writers) /\ Cardinality(Writers) \in Nat
<1>1. DOMAIN handler = 1 .. Len(handler) /\ Len(handler) \in Nat
  BY LenProperties DEF Handlers
<1>2. IsFiniteSet(DOMAIN handler)
  BY <1>1, FS_Interval
<1>3. Writers \in SUBSET DOMAIN handler
  BY DEF Writers
<1> QED
  BY <1>2, <1>3, FS_Subset, FS_CardinalityType

\* Any change of one handler.
LEMMA ReplaceHandler ==
    ASSUME handler \in Handlers, NEW i \in DOMAIN handler, NEW t \in Task \union {None},
           handler' = [handler EXCEPT ![i] = t]
    PROVE  /\ handler' \in Handlers
           /\ DOMAIN handler' = DOMAIN handler
           /\ \A j \in DOMAIN handler : handler'[j] = IF j = i THEN t ELSE handler[j]
<1>1. i \in 1 .. Len(handler) /\ DOMAIN handler = 1 .. Len(handler)
  BY LenProperties DEF Handlers
<1>2. handler' \in Handlers
  BY <1>1, ExceptSeq DEF Handlers
<1> QED
  BY <1>2

LEMMA MoveFacts ==
    ASSUME handler \in Handlers, NEW i \in DOMAIN handler,
           NEW from \in Points, NEW to \in Points, Move(i, from, to)
    PROVE  /\ handler' \in Handlers
           /\ to # "write" /\ from # "write" => Writers' = Writers
           /\ Writers' \subseteq Writers \union {i}
<1>1. handler[i] \in Task /\ handler[i].at = from
  BY HandlerFacts DEF Move, At
<1> DEFINE t == [handler[i] EXCEPT !.at = to]
<1>2. t \in Task /\ t.at = to
  BY <1>1 DEF Task
<1>3. handler' = [handler EXCEPT ![i] = t]
  BY DEF Move
<1> HIDE DEF t
<1>4. /\ handler' \in Handlers
      /\ DOMAIN handler' = DOMAIN handler
      /\ \A j \in DOMAIN handler : handler'[j] = IF j = i THEN t ELSE handler[j]
  BY <1>2, <1>3, ReplaceHandler
<1> QED
  BY <1>1, <1>2, <1>4 DEF Writers, At

LEMMA EndFacts ==
    ASSUME handler \in Handlers, NEW i \in DOMAIN handler, NEW from \in Points, End(i, from)
    PROVE  /\ handler' \in Handlers
           /\ from # "write" => Writers' = Writers
           /\ from = "write" => i \in Writers /\ Writers' = Writers \ {i}
<1>1. handler[i].at = from /\ handler[i] # None /\ handler' = [handler EXCEPT ![i] = None]
  BY DEF End, At
<1>2. /\ handler' \in Handlers
      /\ DOMAIN handler' = DOMAIN handler
      /\ \A j \in DOMAIN handler : handler'[j] = IF j = i THEN None ELSE handler[j]
  BY <1>1, ReplaceHandler
<1> QED
  BY <1>1, <1>2 DEF Writers, At

LEMMA AppendFacts ==
    ASSUME handler \in Handlers, NEW t \in Task, t.at # "write",
           handler' = Append(handler, t)
    PROVE  handler' \in Handlers /\ Writers' = Writers
<1>1. /\ handler' \in Handlers
      /\ Len(handler') = Len(handler) + 1
      /\ \A i \in 1 .. Len(handler) : handler'[i] = handler[i]
      /\ handler'[Len(handler) + 1] = t
  BY AppendProperties DEF Handlers
<1>2. /\ Len(handler) \in Nat
      /\ DOMAIN handler = 1 .. Len(handler)
      /\ DOMAIN handler' = 1 .. Len(handler')
  BY <1>1, LenProperties DEF Handlers
<1>3. \A i : i \in DOMAIN handler' <=> i \in DOMAIN handler \/ i = Len(handler) + 1
  BY <1>1, <1>2
<1>4. ~(handler'[Len(handler) + 1] # None /\ handler'[Len(handler) + 1].at = "write")
  BY <1>1
<1>5. \A i \in DOMAIN handler : handler'[i] = handler[i]
  BY <1>1, <1>2
<1>6. Writers' = {i \in DOMAIN handler' : handler'[i] # None /\ handler'[i].at = "write"}
  BY DEF Writers, At
<1>7. Writers = {i \in DOMAIN handler : handler[i] # None /\ handler[i].at = "write"}
  BY DEF Writers, At
<1>8. ASSUME NEW i
      PROVE  i \in Writers' <=> i \in Writers
  <2>1. CASE i \in DOMAIN handler
    BY <1>3, <1>5, <1>6, <1>7, <2>1
  <2>2. CASE i = Len(handler) + 1
    <3>1. i \notin DOMAIN handler
      BY <1>2, <2>2
    <3> QED
      BY <1>4, <1>6, <1>7, <2>2, <3>1
  <2> QED
    BY <1>3, <1>6, <1>7, <2>1, <2>2
<1> QED
  BY <1>1, <1>8

-----------------------------------------------------------------------------
(* The types.                                                               *)

LEMMA WriteType ==
    ASSUME written \in Nat, Write \/ UNCHANGED written
    PROVE  written' \in Nat
  BY DEF Write

\* The types of everything but the table, in parts that a step changes alone.
WindowType == windows \in [Peer -> Window \union {None}] /\ misused \subseteq Peer
StopType ==
    /\ socket \in BOOLEAN /\ stopChan \in BOOLEAN /\ ticking \in BOOLEAN
    /\ cancelled \in BOOLEAN /\ panicked \in BOOLEAN
    /\ main \in {"serving", "stopping", "stopped", "cancelled", "exited"}
ServerType == handler \in Handlers /\ sessions \in SUBSET (Peer \X Number)
RestType ==
    /\ role \in {"server", "sender", "codec"}
    /\ seqNum \in Number
    /\ sample \in Packet \union {None}

LEMMA TypeParts == TypeOK <=> TableType /\ WindowType /\ StopType /\ ServerType /\ RestType
  BY DEF TypeOK, RelTypeOK, TableType, WindowType, StopType, ServerType, RestType, Handlers, Task

LEMMA SendType ==
    ASSUME TypeOK, NEW p \in Peer, NEW n \in Number, SendReliablePacket(p, n)
    PROVE  TableType' /\ WindowType'
<1>1. AddPacket(GetOrCreateClient(p), n) \in Window
  BY ClientType, AddType DEF TypeOK
<1>2. WindowType'
  BY <1>1, TypeParts DEF WindowType, SendReliablePacket, Misuse
<1>3. TableType'
  BY TypeParts, WriteType DEF TableType, SendReliablePacket, Enter
<1> QED
  BY <1>2, <1>3

LEMMA RefuseType ==
    ASSUME TypeOK, NEW p \in Peer, RefusePacket(p)
    PROVE  WindowType'
<1>1. GetOrCreateClient(p) \in Window
  BY ClientType DEF TypeOK
<1> QED
  BY <1>1, TypeParts DEF WindowType, RefusePacket

LEMMA AckWindowType ==
    ASSUME TypeOK, NEW p \in Peer, NEW n \in Number, HandleAckPacket(p, n)
    PROVE  WindowType'
<1>1. AckPacket(GetOrCreateClient(p), n) \in Window
  BY ClientType, AckType DEF TypeOK
<1> QED
  BY <1>1, TypeParts DEF WindowType, HandleAckPacket, Misuse

LEMMA ForgetType ==
    ASSUME TypeOK, NEW p \in Peer, ForgetClient(p)
    PROVE  WindowType'
  BY TypeParts DEF WindowType, ForgetClient

LEMMA SessionKey ==
    ASSUME handler \in Handlers, NEW i \in DOMAIN handler, handler[i] # None
    PROVE  Key(i) \in Peer \X Number /\ handler[i].peer \in Peer /\ handler[i].seq \in Number
  BY HandlerFacts DEF Key, Task

LEMMA HandlerStepType ==
    ASSUME TypeOK, HandlerStep
    PROVE  TableType' /\ ServerType'
<1> USE DEF Points
<1>1. TableType /\ handler \in Handlers /\ sessions \in SUBSET (Peer \X Number)
  BY TypeParts DEF ServerType
<1>2. PICK i \in DOMAIN handler :
          \/ EnterAnswer(i) \/ WriteAnswer(i)
          \/ LookupSession(i) \/ InsertSession(i) \/ SaveFails(i) \/ DeleteSession(i)
  BY DEF HandlerStep
<1>3. CASE EnterAnswer(i)
  <2>1. Succ(handler[i].seq) \in Number /\ handler[i].peer \in Peer
    BY <1>1, <1>3, SessionKey, SuccType DEF EnterAnswer, Move, At
  <2>2. TableType'
    BY <1>1, <1>3, <2>1 DEF EnterAnswer, TableType, Enter
  <2>3. handler' \in Handlers /\ UNCHANGED sessions
    BY <1>1, <1>3, MoveFacts DEF EnterAnswer
  <2> QED
    BY <1>1, <2>2, <2>3 DEF ServerType
<1>4. CASE WriteAnswer(i)
  <2>1. TableType'
    BY <1>1, <1>4, WriteType DEF WriteAnswer, TableType, tableVars
  <2>2. handler' \in Handlers /\ UNCHANGED sessions
    BY <1>1, <1>4, EndFacts DEF WriteAnswer
  <2> QED
    BY <1>1, <2>1, <2>2 DEF ServerType
<1>5. CASE LookupSession(i)
  <2>1. handler' \in Handlers
    <3>1. CASE Move(i, "lookup", "save")
      BY <1>1, <3>1, MoveFacts
    <3>2. CASE Move(i, "lookup", "insert")
      BY <1>1, <3>2, MoveFacts
    <3> QED
      BY <1>5, <3>1, <3>2 DEF LookupSession
  <2> QED
    BY <1>1, <1>5, <2>1 DEF LookupSession, TableType, ServerType, relVars, tableVars
<1>6. CASE InsertSession(i)
  <2>1. Key(i) \in Peer \X Number
    BY <1>1, <1>6, SessionKey DEF InsertSession, Move, At
  <2>2. handler' \in Handlers
    BY <1>1, <1>6, MoveFacts DEF InsertSession
  <2> QED
    BY <1>1, <1>6, <2>1, <2>2 DEF InsertSession, TableType, ServerType, relVars, tableVars
<1>7. CASE SaveFails(i)
  <2>1. handler' \in Handlers
    BY <1>1, <1>7, EndFacts DEF SaveFails
  <2> QED
    BY <1>1, <1>7, <2>1 DEF SaveFails, TableType, ServerType, relVars, tableVars
<1>8. CASE DeleteSession(i)
  <2>1. handler' \in Handlers
    BY <1>1, <1>8, MoveFacts DEF DeleteSession
  <2> QED
    BY <1>1, <1>8, <2>1 DEF DeleteSession, TableType, ServerType, relVars, tableVars
<1> QED
  BY <1>2, <1>3, <1>4, <1>5, <1>6, <1>7, <1>8

LEMMA ArrivalFacts ==
    ASSUME handler \in Handlers, Receive
    PROVE  handler' \in Handlers /\ Writers' = Writers
<1>1. PICK p \in Peer, n \in Arriving, step \in FirstSteps :
          handler' = Append(handler, [peer |-> p, seq |-> n, at |-> step])
  BY DEF Receive
<1> DEFINE t == [peer |-> p, seq |-> n, at |-> step]
<1>2. t \in Task /\ t.at # "write"
  BY <1>1, ServerAssumption DEF ServerAssumption, FirstSteps, Task, Points
<1> HIDE DEF t
<1>3. handler' = Append(handler, t)
  BY <1>1 DEF t
<1> QED
  BY <1>2, <1>3, AppendFacts

\* A pass of the loop, as a step of a server or of a sender.
LEMMA TickFacts ==
    ASSUME TypeOK, Tick
    PROVE  UNCHANGED <<Table, windowVars, serverVars, stopVars, seqNum>>
<1>1. TableType
  BY TypeParts
<1>2. PICK overdue \in SUBSET Pending : CheckRetransmissions(overdue)
  BY DEF Tick
<1>3. UNCHANGED Table
  BY <1>1, <1>2, PassKeeps
<1> QED
  BY <1>3 DEF Tick

LEMMA ServerStepType ==
    ASSUME TypeOK, ServerStep
    PROVE  TableType' /\ WindowType' /\ StopType' /\ ServerType' /\ seqNum' \in Number
<1>1. TableType /\ WindowType /\ StopType /\ ServerType /\ seqNum \in Number
  BY TypeParts DEF RestType
<1> USE DEF ServerType, WindowType, TableType, relVars, tableVars, windowVars, serverVars
<1>2. CASE Receive
  <2>1. handler' \in Handlers
    BY <1>1, <1>2, ArrivalFacts
  <2> QED
    BY <1>1, <1>2, <2>1 DEF Receive, StopType, stopVars
<1>3. CASE ReceiveAck
  <2>1. PICK n \in Pending : Release(n)
    BY <1>3 DEF ReceiveAck
  <2>2. TableType'
    BY <1>1, <2>1 DEF Release, Pending
  <2> QED
    BY <1>1, <1>3, <2>2 DEF ReceiveAck, StopType, stopVars
<1>4. CASE HandlerStep
  <2>1. UNCHANGED <<windows, misused, socket, stopChan, ticking, cancelled, main, panicked, seqNum>>
    BY <1>4 DEF HandlerStep, EnterAnswer, WriteAnswer, LookupSession, InsertSession,
                SaveFails, DeleteSession, stopVars
  <2>2. TableType' /\ ServerType'
    BY <1>4, HandlerStepType
  <2> QED
    BY <1>1, <2>1, <2>2 DEF StopType
<1>5. CASE Cleanup
  BY <1>1, <1>5 DEF Cleanup, StopType, stopVars
<1>6. CASE Tick
  <2>1. UNCHANGED <<Table, windowVars, serverVars, stopVars, seqNum>>
    BY <1>6, TickFacts
  <2> QED
    BY <1>1, <2>1 DEF Table, StopType, stopVars
<1>7. CASE LoopEnds
  BY <1>1, <1>7 DEF LoopEnds, StopType
<1>8. CASE MainStep
  <2>1. StopType'
    BY <1>1, <1>8 DEF MainStep, CloseAll, StopType
  <2> QED
    BY <1>1, <1>8, <2>1 DEF MainStep
<1>9. CASE StartStops
  <2>1. StopType'
    BY <1>1, <1>9 DEF StartStops, CloseAll, StopType
  <2> QED
    BY <1>1, <1>9, <2>1 DEF StartStops
<1> QED
  BY <1>2, <1>3, <1>4, <1>5, <1>6, <1>7, <1>8, <1>9 DEF ServerStep

LEMMA SenderStepType ==
    ASSUME TypeOK, SenderStep
    PROVE  TableType' /\ WindowType' /\ StopType' /\ ServerType' /\ seqNum' \in Number
<1>1. TableType /\ WindowType /\ StopType /\ ServerType /\ seqNum \in Number /\ ServerAddr \in Peer
  BY TypeParts, ServerAssumption DEF RestType, ServerAssumption
<1>2. ServerType' /\ StopType'
  BY <1>1 DEF SenderStep, ServerType, serverVars, StopType, stopVars
<1> USE DEF WindowType, TableType, relVars, tableVars, windowVars
<1>3. CASE BeginFile
  BY <1>1, <1>2, <1>3, ZeroType DEF BeginFile
<1>4. CASE SendBlock
  BY <1>1, <1>2, <1>4, SendType, SuccType DEF SendBlock
<1>5. CASE SendBlockFails
  <2>1. WindowType' /\ UNCHANGED <<relVars, seqNum>>
    BY <1>1, <1>5, RefuseType DEF SendBlockFails, RefusePacket
  <2> QED
    BY <1>1, <1>2, <2>1
<1>6. CASE TestBuffers
  BY <1>1, <1>2, <1>6, ZeroType, WriteType DEF TestBuffers, Enter
<1>7. CASE Acknowledge
  <2>1. WindowType' /\ UNCHANGED <<relVars, seqNum>>
    BY <1>1, <1>7, AckWindowType DEF Acknowledge, HandleAckPacket
  <2> QED
    BY <1>1, <1>2, <2>1
<1>8. CASE SenderReceivesAck
  <2>1. PICK n \in Pending : Release(n)
    BY <1>8 DEF SenderReceivesAck
  <2>2. TableType'
    BY <1>1, <2>1 DEF Release, Pending
  <2> QED
    BY <1>1, <1>2, <1>8, <2>2 DEF SenderReceivesAck
<1>9. CASE Tick
  <2>1. UNCHANGED <<Table, windowVars, seqNum>>
    BY <1>9, TickFacts
  <2> QED
    BY <1>1, <1>2, <2>1 DEF Table
<1>10. CASE ForgetClient(ServerAddr) /\ UNCHANGED seqNum
  <2>1. WindowType' /\ UNCHANGED <<relVars, seqNum>>
    BY <1>1, <1>10, ForgetType DEF ForgetClient
  <2> QED
    BY <1>1, <1>2, <2>1
<1> QED
  BY <1>3, <1>4, <1>5, <1>6, <1>7, <1>8, <1>9, <1>10 DEF SenderStep

\* The types of the variables are right in every reachable state.
THEOREM TypeCorrect == Spec => []TypeOK
<1>1. ASSUME Init
      PROVE  TypeOK
  <2>1. TableType
    BY <1>1 DEF Init, RelInit, TableType
  <2>2. WindowType
    BY <1>1 DEF Init, RelInit, WindowType
  <2>3. StopType /\ RestType
    BY <1>1, ZeroType DEF Init, StopType, RestType
  <2>4. ServerType
    BY <1>1, EmptySeq DEF Init, ServerType, Handlers
  <2> QED
    BY <2>1, <2>2, <2>3, <2>4, TypeParts
<1>2. ASSUME TypeOK, [Next]_vars
      PROVE  TypeOK'
  <2>1. TableType /\ WindowType /\ StopType /\ ServerType /\ RestType
    BY <1>2, TypeParts
  <2>2. CASE ServerStep /\ UNCHANGED <<sample, role>>
    <3>1. RestType'
      BY <1>2, <2>1, <2>2, ServerStepType DEF RestType
    <3> QED
      BY <1>2, <2>2, <3>1, ServerStepType DEF TypeOK, RelTypeOK, TableType, WindowType, StopType,
                                              ServerType, RestType, Handlers, Task
  <2>3. CASE SenderStep /\ UNCHANGED <<sample, role>>
    <3>1. RestType'
      BY <1>2, <2>1, <2>3, SenderStepType DEF RestType
    <3> QED
      BY <1>2, <2>3, <3>1, SenderStepType DEF TypeOK, RelTypeOK, TableType, WindowType, StopType,
                                              ServerType, RestType, Handlers, Task
  <2>4. CASE CodecStep /\ UNCHANGED role
    BY <2>1, <2>4 DEF CodecStep, relVars, tableVars, windowVars, serverVars, stopVars,
                      TypeOK, RelTypeOK, TableType, WindowType, StopType,
                      ServerType, RestType, Handlers, Task
  <2>5. CASE UNCHANGED vars
    BY <2>1, <2>5 DEF vars, relVars, tableVars, windowVars, serverVars, stopVars,
                      TypeOK, RelTypeOK, TableType, WindowType, StopType,
                      ServerType, RestType, Handlers, Task
  <2> QED
    BY <1>2, <2>2, <2>3, <2>4, <2>5 DEF Next
<1> QED
  BY <1>1, <1>2, PTL DEF Spec

-----------------------------------------------------------------------------
(* The packets that wait for an acknowledgement.                            *)

\* Every datagram was entered before; those that are entered and not yet written
\* leave room for theirs.
Budget == written + Cardinality(Writers) <= packetsSent + retransmits

LEMMA CountedIsAccounted ==
    ASSUME TypeOK, Counted, Budget
    PROVE  PendingAccounted
<1>1. Cardinality(Writers) \in Nat /\ TableType
  BY TypeParts, WritersAreFinite DEF ServerType
<1>2. written <= packetsSent + retransmits
  BY <1>1 DEF Budget, TableType
<1> QED
  BY <1>2 DEF PendingAccounted, Counted

LEMMA WriterStepBudget ==
    ASSUME TypeOK, Counted, Budget, HandlerStep
    PROVE  Counted' /\ Budget'
<1> USE DEF Points
<1>1. TableType /\ handler \in Handlers /\ Cardinality(Writers) \in Nat
  BY TypeParts, WritersAreFinite DEF ServerType
<1>2. PICK i \in DOMAIN handler :
          \/ EnterAnswer(i) \/ WriteAnswer(i)
          \/ LookupSession(i) \/ InsertSession(i) \/ SaveFails(i) \/ DeleteSession(i)
  BY DEF HandlerStep
<1>3. CASE EnterAnswer(i)
  <2>1. Succ(handler[i].seq) \in Number /\ handler[i].peer \in Peer
    BY <1>1, <1>3, SessionKey, SuccType DEF EnterAnswer, Move, At
  <2>2. /\ Counted' /\ packetsSent' = packetsSent + 1
        /\ written' = written /\ retransmits' = retransmits
    BY <1>1, <1>3, <2>1, EnterKeeps DEF EnterAnswer
  <2>3. handler' \in Handlers /\ Writers' \subseteq Writers \union {i}
    BY <1>1, <1>3, MoveFacts DEF EnterAnswer
  <2>4. IsFiniteSet(Writers \union {i}) /\ Cardinality(Writers \union {i}) <= Cardinality(Writers) + 1
    BY <1>1, WritersAreFinite, FS_AddElement
  <2>5. Cardinality(Writers') <= Cardinality(Writers \union {i})
    BY <2>3, <2>4, FS_Subset
  <2>6. Cardinality(Writers \union {i}) \in Nat /\ Cardinality(Writers') \in Nat
    BY <2>3, <2>4, FS_Subset, FS_CardinalityType
  <2> QED
    BY <1>1, <2>2, <2>4, <2>5, <2>6 DEF Budget, TableType
<1>4. CASE WriteAnswer(i)
  <2>1. i \in Writers /\ Writers' = Writers \ {i}
    BY <1>1, <1>4, EndFacts DEF WriteAnswer
  <2>2. Cardinality(Writers') = Cardinality(Writers) - 1
    BY <1>1, <2>1, WritersAreFinite, FS_RemoveElement
  <2>3. written' \in {written, written + 1} /\ UNCHANGED <<pending, packetsSent, packetsLost, retransmits, replaced, released>>
    BY <1>4 DEF WriteAnswer, Write, tableVars
  <2>4. Counted'
    BY <2>3 DEF Counted, Pending
  <2> QED
    BY <1>1, <2>2, <2>3, <2>4 DEF Budget, TableType
<1>5. CASE LookupSession(i) \/ InsertSession(i) \/ SaveFails(i) \/ DeleteSession(i)
  <2>1. Writers' = Writers
    <3>1. CASE LookupSession(i)
      <4>1. CASE Move(i, "lookup", "save")
        BY <1>1, <4>1, MoveFacts
      <4>2. CASE Move(i, "lookup", "insert")
        BY <1>1, <4>2, MoveFacts
      <4> QED
        BY <3>1, <4>1, <4>2 DEF LookupSession
    <3>2. CASE InsertSession(i)
      BY <1>1, <3>2, MoveFacts DEF InsertSession
    <3>3. CASE SaveFails(i)
      BY <1>1, <3>3, EndFacts DEF SaveFails
    <3>4. CASE DeleteSession(i)
      BY <1>1, <3>4, MoveFacts DEF DeleteSession
    <3> QED
      BY <1>5, <3>1, <3>2, <3>3, <3>4
  <2>2. UNCHANGED <<pending, packetsSent, packetsLost, retransmits, written, replaced, released>>
    BY <1>5 DEF LookupSession, InsertSession, SaveFails, DeleteSession, relVars, tableVars
  <2> QED
    BY <2>1, <2>2 DEF Counted, Budget, Pending
<1> QED
  BY <1>2, <1>3, <1>4, <1>5

\* A packet that is entered, and written at once or not.
LEMMA SendBudget ==
    ASSUME TypeOK, Counted, Budget, NEW p \in Peer, NEW n \in Number,
           Enter(p, n), Write \/ UNCHANGED written,
           UNCHANGED <<packetsLost, retransmits, released, handler>>
    PROVE  Counted' /\ Budget'
<1>1. TableType /\ Cardinality(Writers) \in Nat
  BY TypeParts, WritersAreFinite DEF ServerType
<1>2. Counted' /\ packetsSent' = packetsSent + 1
  BY <1>1, EnterKeeps
<1>3. Writers' = Writers
  BY DEF Writers, At
<1> QED
  BY <1>1, <1>2, <1>3 DEF Budget, TableType, Write

LEMMA ReleaseBudget ==
    ASSUME TypeOK, Counted, Budget, NEW n \in Pending, Release(n), UNCHANGED handler
    PROVE  Counted' /\ Budget'
<1>1. Counted'
  BY TypeParts, ReleaseKeeps
<1>2. UNCHANGED <<written, packetsSent, retransmits>> /\ Writers' = Writers
  BY DEF Release, Writers, At
<1> QED
  BY <1>1, <1>2 DEF Budget

\* Whatever leaves the table and the handlers alone leaves the count alone.
LEMMA IdleBudget ==
    ASSUME Counted, Budget, UNCHANGED Table, Writers' = Writers
    PROVE  Counted' /\ Budget'
  BY DEF Counted, Budget, Table, Pending

LEMMA BudgetStep ==
    ASSUME TypeOK, Counted, Budget, [Next]_vars
    PROVE  Counted' /\ Budget'
<1>1. CASE ServerStep
  <2>1. CASE Receive
    BY <2>1, ArrivalFacts, IdleBudget, TypeParts DEF Receive, ServerType, Table, relVars, tableVars
  <2>2. CASE ReceiveAck
    BY <2>2, ReleaseBudget DEF ReceiveAck, serverVars
  <2>3. CASE HandlerStep
    BY <2>3, WriterStepBudget
  <2>4. CASE Tick
    <3>1. UNCHANGED <<Table, handler>>
      BY <2>4, TickFacts DEF serverVars
    <3> QED
      BY <3>1, IdleBudget DEF Writers, At
  <2>5. CASE Cleanup \/ LoopEnds \/ MainStep \/ StartStops
    <3>1. UNCHANGED <<Table, handler>>
      BY <2>5 DEF Cleanup, LoopEnds, MainStep, StartStops, serverVars, Table, relVars, tableVars
    <3> QED
      BY <3>1, IdleBudget DEF Writers, At
  <2> QED
    BY <1>1, <2>1, <2>2, <2>3, <2>4, <2>5 DEF ServerStep
<1>2. CASE SenderStep
  <2>1. UNCHANGED handler /\ ServerAddr \in Peer /\ seqNum \in Number
    BY <1>2, ServerAssumption, TypeParts DEF SenderStep, serverVars, ServerAssumption, RestType
  <2>2. CASE SendBlock
    BY <2>1, <2>2, SendBudget DEF SendBlock, SendReliablePacket
  <2>3. CASE TestBuffers
    BY <2>1, <2>3, SendBudget, ZeroType DEF TestBuffers
  <2>4. CASE SenderReceivesAck
    BY <2>1, <2>4, ReleaseBudget DEF SenderReceivesAck
  <2>5. CASE Tick
    <3>1. UNCHANGED Table
      BY <2>5, TickFacts
    <3> QED
      BY <2>1, <3>1, IdleBudget DEF Writers, At
  <2>6. CASE BeginFile \/ SendBlockFails \/ Acknowledge \/ ForgetClient(ServerAddr)
    <3>1. UNCHANGED Table
      BY <2>6 DEF BeginFile, SendBlockFails, RefusePacket, Acknowledge, HandleAckPacket,
                  ForgetClient, Table, relVars, tableVars
    <3> QED
      BY <2>1, <3>1, IdleBudget DEF Writers, At
  <2> QED
    BY <1>2, <2>2, <2>3, <2>4, <2>5, <2>6 DEF SenderStep
<1>3. CASE CodecStep \/ UNCHANGED vars
  <2>1. UNCHANGED <<Table, handler>>
    BY <1>3 DEF CodecStep, vars, Table, relVars, tableVars, serverVars
  <2> QED
    BY <2>1, IdleBudget DEF Writers, At
<1> QED
  BY <1>1, <1>2, <1>3 DEF Next

\* For every number of peers, packets and handlers, a packet that was sent waits
\* still, was pushed out by another of its number, was released, or was given up
\* and counted; no datagram is written that is not counted.
THEOREM PendingIsAccounted == Spec => []PendingAccounted
<1>1. ASSUME Init
      PROVE  Counted /\ Budget
  <2>1. Pending = {} /\ Writers = {}
    BY <1>1 DEF Init, RelInit, Pending, Writers
  <2>2. Cardinality(Pending) = 0 /\ Cardinality(Writers) = 0
    BY <2>1, FS_EmptySet
  <2> QED
    BY <1>1, <2>2 DEF Init, RelInit, Counted, Budget
<1>2. TypeOK /\ Counted /\ Budget /\ [Next]_vars => Counted' /\ Budget'
  BY BudgetStep
<1>3. TypeOK /\ Counted /\ Budget => PendingAccounted
  BY CountedIsAccounted
<1> QED
  BY <1>1, <1>2, <1>3, TypeCorrect, PTL DEF Spec

-----------------------------------------------------------------------------
(* The windows.                                                             *)

WindowInv == \A p \in Peer \ misused : windows[p] # None => Sound(windows[p])

LEMMA ClientIsSound ==
    ASSUME WindowInv, NEW p \in Peer, p \notin misused
    PROVE  Sound(GetOrCreateClient(p))
  BY NewIsSound DEF WindowInv, GetOrCreateClient

\* A step that replaces one window by a sound one, unless its peer is misused.
LEMMA ReplaceWindow ==
    ASSUME TypeOK, WindowInv, NEW p \in Peer, NEW w, NEW fits \in BOOLEAN,
           windows' = [windows EXCEPT ![p] = w],
           misused' = IF fits THEN misused ELSE misused \union {p},
           fits /\ p \notin misused => Sound(w)
    PROVE  WindowInv'
<1>1. ASSUME NEW q \in Peer, q \notin misused', windows'[q] # None
      PROVE  Sound(windows'[q])
  <2>1. DOMAIN windows = Peer
    BY TypeParts DEF WindowType
  <2>2. CASE q = p
    BY <1>1, <2>1, <2>2
  <2>3. CASE q # p
    <3>1. windows'[q] = windows[q] /\ q \notin misused
      BY <1>1, <2>1, <2>3
    <3> QED
      BY <1>1, <3>1 DEF WindowInv
  <2> QED
    BY <2>2, <2>3
<1> QED
  BY <1>1 DEF WindowInv

LEMMA SendKeepsWindows ==
    ASSUME TypeOK, WindowInv, NEW p \in Peer, NEW n \in Number, SendReliablePacket(p, n)
    PROVE  WindowInv'
<1> DEFINE w == GetOrCreateClient(p)
           fits == FitsAdd(w, n)
<1>1. CanSend(w) /\ windows' = [windows EXCEPT ![p] = AddPacket(w, n)]
      /\ misused' = IF fits THEN misused ELSE misused \union {p}
  BY DEF SendReliablePacket, Misuse
<1>2. fits \in BOOLEAN
  BY DEF FitsAdd
<1>3. ASSUME fits, p \notin misused
      PROVE  Sound(AddPacket(w, n))
  <2>1. Sound(w)
    BY <1>3, ClientIsSound
  <2>2. n = w.NextSeq
    BY <1>3 DEF FitsAdd
  <2> HIDE DEF w
  <2>3. Sound(AddPacket(w, w.NextSeq))
    BY <1>1, <2>1, AddKeepsSound
  <2> QED
    BY <2>2, <2>3
<1> HIDE DEF w, fits
<1> QED
  BY <1>1, <1>2, <1>3, ReplaceWindow

LEMMA AckKeepsWindows ==
    ASSUME TypeOK, WindowInv, NEW p \in Peer, NEW n \in Number, HandleAckPacket(p, n)
    PROVE  WindowInv'
<1> DEFINE w == GetOrCreateClient(p)
           fits == FitsAck(w, n)
<1>1. windows' = [windows EXCEPT ![p] = AckPacket(w, n)]
      /\ misused' = IF fits THEN misused ELSE misused \union {p}
  BY DEF HandleAckPacket, Misuse
<1>2. fits \in BOOLEAN
  BY DEF FitsAck
<1>3. ASSUME fits, p \notin misused
      PROVE  Sound(AckPacket(w, n))
  <2>1. Sound(w)
    BY <1>3, ClientIsSound
  <2> HIDE DEF w
  <2> QED
    BY <1>3, <2>1, AckKeepsSound
<1> HIDE DEF w, fits
<1> QED
  BY <1>1, <1>2, <1>3, ReplaceWindow

LEMMA RefuseKeepsWindows ==
    ASSUME TypeOK, WindowInv, NEW p \in Peer, RefusePacket(p)
    PROVE  WindowInv'
<1> DEFINE w == GetOrCreateClient(p)
<1>1. windows' = [windows EXCEPT ![p] = w] /\ misused' = misused
  BY DEF RefusePacket
<1>2. p \notin misused => Sound(w)
  BY ClientIsSound
<1> HIDE DEF w
<1> QED
  BY <1>1, <1>2, ReplaceWindow

LEMMA ForgetKeepsWindows ==
    ASSUME TypeOK, WindowInv, NEW p \in Peer, ForgetClient(p)
    PROVE  WindowInv'
<1>1. ASSUME NEW q \in Peer, q \notin misused', windows'[q] # None
      PROVE  Sound(windows'[q])
  <2>1. DOMAIN windows = Peer
    BY TypeParts DEF WindowType
  <2>2. q # p
    BY <1>1, <2>1 DEF ForgetClient
  <2>3. windows'[q] = windows[q] /\ q \notin misused
    BY <1>1, <2>1, <2>2 DEF ForgetClient
  <2> QED
    BY <1>1, <2>3 DEF WindowInv
<1> QED
  BY <1>1 DEF WindowInv

LEMMA WindowStep ==
    ASSUME TypeOK, WindowInv, [Next]_vars
    PROVE  WindowInv'
<1>1. CASE SenderStep
  <2>1. ServerAddr \in Peer /\ seqNum \in Number
    BY ServerAssumption, TypeParts DEF ServerAssumption, RestType
  <2>2. CASE SendBlock
    BY <2>1, <2>2, SendKeepsWindows DEF SendBlock
  <2>3. CASE SendBlockFails
    BY <2>1, <2>3, RefuseKeepsWindows DEF SendBlockFails
  <2>4. CASE Acknowledge
    BY <2>1, <2>4, AckKeepsWindows DEF Acknowledge
  <2>5. CASE ForgetClient(ServerAddr)
    BY <2>1, <2>5, ForgetKeepsWindows
  <2>6. CASE BeginFile \/ TestBuffers \/ SenderReceivesAck \/ Tick
    BY <2>6 DEF BeginFile, TestBuffers, SenderReceivesAck, Tick, windowVars, WindowInv
  <2> QED
    BY <1>1, <2>2, <2>3, <2>4, <2>5, <2>6 DEF SenderStep
<1>2. CASE ServerStep
  <2>1. UNCHANGED windowVars
    BY <1>2 DEF ServerStep, Receive, ReceiveAck, HandlerStep, EnterAnswer, WriteAnswer,
                LookupSession, InsertSession, SaveFails, DeleteSession, Cleanup, Tick,
                LoopEnds, MainStep, StartStops, windowVars
  <2> QED
    BY <2>1 DEF windowVars, WindowInv
<1>3. CASE CodecStep \/ UNCHANGED vars
  BY <1>3 DEF CodecStep, vars, windowVars, WindowInv
<1> QED
  BY <1>1, <1>2, <1>3 DEF Next

\* For every window size and every width of the numbers, a window that is used as
\* it must be holds exactly the packets from the oldest that is not acknowledged
\* to the newest, and never more than its size.
THEOREM WindowIsExact == Spec => []WindowExact
<1>1. Init => WindowInv
  BY DEF Init, RelInit, WindowInv
<1>2. TypeOK /\ WindowInv /\ [Next]_vars => WindowInv'
  BY WindowStep
<1>3. WindowInv => WindowExact
  BY SoundIsExact DEF WindowInv, WindowExact
<1> QED
  BY <1>1, <1>2, <1>3, TypeCorrect, PTL DEF Spec

-----------------------------------------------------------------------------
(* The codec and the end of the process.                                    *)

\* Whatever packet goes through the codec, for every base of its bytes: what is
\* accepted is what was sent, but for the one corner.
THEOREM CodecIsSafe == Spec => []RoundTrip
<1>1. TypeOK => RoundTrip
  BY AcceptedIsSent DEF TypeOK, RoundTrip
<1> QED
  BY <1>1, TypeCorrect, PTL

ExitInv ==
    /\ cancelled => main \in {"cancelled", "exited"}
    /\ panicked => cancelled
    /\ main = "serving" => stopChan

\* The panic of the second Stop comes after the first one has returned and main has
\* only its return left: it cannot cut the ordered end of the server short.
THEOREM PanicsAtExitOnly == Spec => [](panicked => main \in {"cancelled", "exited"})
<1>1. Init => ExitInv
  BY DEF Init, ExitInv
<1>2. ASSUME TypeOK, ExitInv, [Next]_vars
      PROVE  ExitInv'
  <2>1. StopType
    BY <1>2, TypeParts
  <2>2. CASE MainStep
    BY <1>2, <2>1, <2>2 DEF MainStep, CloseAll, ExitInv, StopType
  <2>3. CASE StartStops
    BY <1>2, <2>1, <2>3 DEF StartStops, CloseAll, ExitInv, StopType
  <2>4. CASE UNCHANGED <<stopChan, cancelled, main, panicked>>
    BY <1>2, <2>4 DEF ExitInv
  <2>5. CASE ServerStep
    <3>1. CASE Receive \/ ReceiveAck \/ HandlerStep \/ Cleanup \/ Tick \/ LoopEnds
      <4>1. UNCHANGED <<stopChan, cancelled, main, panicked>>
        BY <3>1 DEF Receive, ReceiveAck, HandlerStep, EnterAnswer, WriteAnswer, LookupSession,
                    InsertSession, SaveFails, DeleteSession, Cleanup, Tick, LoopEnds, stopVars
      <4> QED
        BY <2>4, <4>1
    <3> QED
      BY <2>2, <2>3, <2>5, <3>1 DEF ServerStep
  <2>6. CASE SenderStep \/ CodecStep \/ UNCHANGED vars
    <3>1. UNCHANGED <<stopChan, cancelled, main, panicked>>
      BY <2>6 DEF SenderStep, CodecStep, vars, stopVars
    <3> QED
      BY <2>4, <3>1
  <2> QED
    BY <1>2, <2>5, <2>6 DEF Next
<1>3. ExitInv => (panicked => main \in {"cancelled", "exited"})
  BY DEF ExitInv
<1> QED
  BY <1>1, <1>2, <1>3, TypeCorrect, PTL DEF Spec

=============================================================================
