---------------------------- MODULE UDPClient_proofs ----------------------------
(***************************************************************************)
(* Proofs about lab4's client: for any number of callers, requests and      *)
(* connections, and whatever the network does with the answers, no send     *)
(* hits a closed channel, the map holds the calls in progress and nothing   *)
(* else, and a call returns no answer but the one made for its request.     *)
(***************************************************************************)
EXTENDS UDPClient, TLAPS

-----------------------------------------------------------------------------
(* The inductive invariant.                                                 *)

Registered == {"write", "wait", "delete"}
Resting == {"idle", "cancel", "closeConn"}

\* A caller has a request as long as it is in SendRequest, and no two callers have
\* the same one.
OwnerInv ==
    /\ \A c \in Caller : req[c] = None <=> pc[c] \in Resting
    /\ \A c, d \in Caller : req[c] = req[d] /\ req[c] # None => c = d

\* It has a connection when it writes.
SockInv == \A c \in Caller : pc[c] \in {"register", "write"} => sock[c] # None

\* The channel of a call is made when the call registers and closed when it returns.
ChanInv ==
    \A c \in Caller :
        /\ pc[c] \in {"request", "register"} => chan[req[c]] = "none"
        /\ pc[c] \in Registered \union {"close"} => chan[req[c]] \in {"empty", "full"}

\* MapExact, for each request.
MapInv ==
    \A r \in Request :
        r \in responses <=> \E c \in Caller : req[c] = r /\ pc[c] \in Registered

\* A listener that is about to send holds the lock: the entry it found is there.
SendInv == \A k \in Socket : listener[k] = "send" => answer[k] \in responses

\* An answer that names a request was made for it, and it was written.
Genuine(r) == \E k \in Socket : <<r, k>> \in sent
AnswerInv ==
    \A k \in Socket : answer[k] # None => about[k] = answer[k] /\ Genuine(answer[k])

\* The calls and the map; then what the answers add to them.
CallInv == TypeOK /\ OwnerInv /\ SockInv /\ ChanInv /\ MapInv
IInv == CallInv /\ SendInv /\ AnswerInv /\ NoSendOnClosed /\ AnswerIsMine

LEMMA MapInvIsExact ==
    ASSUME TypeOK, OwnerInv, MapInv
    PROVE  MapExact
<1>1. \A c \in Caller : pc[c] \in Registered => req[c] \in Request
  BY DEF TypeOK, OwnerInv, Registered, Resting
<1>2. responses \subseteq Request
  BY DEF TypeOK
<1> QED
  BY <1>1, <1>2 DEF MapInv, MapExact, Registered

-----------------------------------------------------------------------------
(* What the steps do to the callers.                                        *)

LEMMA ReturnFacts ==
    ASSUME NEW c \in Caller
    PROVE  Return(c) \in {"cancel", "idle"}
  BY DEF Return

LEMMA OwnFacts ==
    ASSUME TypeOK, OwnerInv, NEW c \in Caller, pc[c] \notin Resting
    PROVE  req[c] \in Request
  BY DEF TypeOK, OwnerInv

\* Only these move a caller without changing its request.
Inside(c) ==
    \/ Register(c) \/ Write(c) \/ WriteFails(c) \/ TakeResponse(c) \/ TimeOut(c)
    \/ SeeShutdown(c) \/ Delete(c) \/ CancelContext(c) \/ CloseConn(c)

LEMMA InsideFacts ==
    ASSUME NEW c \in Caller, Inside(c)
    PROVE  /\ UNCHANGED <<req, sock>>
           /\ \E to \in {"write", "wait", "delete", "close", "closeConn", "idle"} :
                 /\ pc' = [pc EXCEPT ![c] = to]
                 /\ pc[c] \in Resting <=> to \in Resting
                 /\ to \in {"request", "register", "write"} => pc[c] = "register" /\ to = "write"
<1>1. CASE Register(c)
  <2>1. pc[c] = "register" /\ pc' = [pc EXCEPT ![c] = "write"] /\ UNCHANGED <<req, sock>>
    BY <1>1 DEF Register
  <2> QED
    BY <2>1 DEF Resting
<1>2. CASE Write(c)
  <2>1. pc[c] = "write" /\ pc' = [pc EXCEPT ![c] = "wait"] /\ UNCHANGED <<req, sock>>
    BY <1>2 DEF Write
  <2> QED
    BY <2>1 DEF Resting
<1>3. CASE WriteFails(c) \/ TakeResponse(c) \/ TimeOut(c) \/ SeeShutdown(c)
  <2>1. pc[c] \in {"write", "wait"} /\ pc' = [pc EXCEPT ![c] = "delete"]
        /\ UNCHANGED <<req, sock>>
    BY <1>3 DEF WriteFails, TakeResponse, TimeOut, SeeShutdown, Finish
  <2> QED
    BY <2>1 DEF Resting
<1>4. CASE Delete(c)
  <2>1. pc[c] = "delete" /\ pc' = [pc EXCEPT ![c] = "close"] /\ UNCHANGED <<req, sock>>
    BY <1>4 DEF Delete
  <2> QED
    BY <2>1 DEF Resting
<1>5. CASE CancelContext(c) \/ CloseConn(c)
  <2>1. /\ pc[c] \in {"cancel", "closeConn"}
        /\ pc' = [pc EXCEPT ![c] = "closeConn"] \/ pc' = [pc EXCEPT ![c] = "idle"]
        /\ UNCHANGED <<req, sock>>
    BY <1>5 DEF CancelContext, CloseConn
  <2> QED
    BY <2>1 DEF Resting
<1> QED
  BY <1>1, <1>2, <1>3, <1>4, <1>5 DEF Inside

LEMMA ListenerFrame ==
    ASSUME NEW k \in Socket, ListenerStep(k)
    PROVE  UNCHANGED <<connVars, responses, sent, callerVars>>
  BY DEF ListenerStep, CheckContext, CopySource, ReadAnswer, ReadNothing, Lookup, Send, Move

\* The steps of the client, in the groups that the proofs tell apart.
LEMMA StepCases ==
    ASSUME Next
    PROVE  \/ \E c \in Caller, isQuick \in BOOLEAN : Call(c, isQuick)
           \/ \E c \in Caller : CopyConn(c) \/ Inside(c) \/ CloseChan(c)
           \/ \E c \in Caller, k \in Socket : ConnectCommand(c, k)
           \/ \E k \in Socket : ListenerStep(k)
  BY DEF Next, CallStep, Inside, SendCommand, QuickCommand

-----------------------------------------------------------------------------
(* Owners.                                                                  *)

LEMMA OwnerStep ==
    ASSUME TypeOK, OwnerInv, Next
    PROVE  OwnerInv'
<1> USE DEF OwnerInv
<1>1. pc \in [Caller -> {pc[c] : c \in Caller}] /\ DOMAIN req = Caller /\ DOMAIN pc = Caller
  BY DEF TypeOK
<1>2. ASSUME NEW c \in Caller, NEW isQuick \in BOOLEAN, Call(c, isQuick)
      PROVE  OwnerInv'
  <2>1. PICK r \in Request : /\ req' = [req EXCEPT ![c] = r]
                             /\ \A d \in Caller : req[d] # r
    BY <1>2 DEF Call, Unused
  <2>2. r # None
    BY ClientAssumption DEF ClientAssumption
  <2>3. pc' = [pc EXCEPT ![c] = "request"]
    BY <1>2 DEF Call
  <2> QED
    BY <1>1, <2>1, <2>2, <2>3 DEF Resting
<1>3. ASSUME NEW c \in Caller, NEW to \in Resting,
             pc' = [pc EXCEPT ![c] = to], req' = [req EXCEPT ![c] = None]
      PROVE  OwnerInv'
  BY <1>1, <1>3
<1>4. ASSUME NEW c \in Caller, NEW to,
             pc' = [pc EXCEPT ![c] = to], UNCHANGED req, pc[c] \in Resting <=> to \in Resting
      PROVE  OwnerInv'
  BY <1>1, <1>4
<1>5. ASSUME NEW c \in Caller, CopyConn(c)
      PROVE  OwnerInv'
  <2>1. CASE conn = None
    <3>1. Return(c) \in Resting
      BY ReturnFacts DEF Resting
    <3>2. pc' = [pc EXCEPT ![c] = Return(c)] /\ req' = [req EXCEPT ![c] = None]
      BY <1>5, <2>1 DEF CopyConn
    <3> QED
      BY <1>3, <3>1, <3>2
  <2>2. CASE conn # None
    <3>1. pc[c] = "request" /\ pc' = [pc EXCEPT ![c] = "register"] /\ UNCHANGED req
      BY <1>5, <2>2 DEF CopyConn
    <3> QED
      BY <1>4, <3>1 DEF Resting
  <2> QED
    BY <2>1, <2>2
<1>6. ASSUME NEW c \in Caller, Inside(c)
      PROVE  OwnerInv'
  BY <1>4, <1>6, InsideFacts
<1>7. ASSUME NEW c \in Caller, CloseChan(c)
      PROVE  OwnerInv'
  <2>1. Return(c) \in Resting
    BY ReturnFacts DEF Resting
  <2>2. pc' = [pc EXCEPT ![c] = Return(c)] /\ req' = [req EXCEPT ![c] = None]
    BY <1>7 DEF CloseChan
  <2> QED
    BY <1>3, <2>1, <2>2
<1>8. CASE UNCHANGED <<pc, req>>
  BY <1>8
<1> QED
  BY <1>2, <1>5, <1>6, <1>7, <1>8, StepCases, ListenerFrame DEF ConnectCommand, callerVars

-----------------------------------------------------------------------------
(* Connections and channels.                                                *)

LEMMA SockStep ==
    ASSUME TypeOK, OwnerInv, SockInv, Next
    PROVE  SockInv'
<1> USE DEF SockInv
<1>1. DOMAIN sock = Caller /\ DOMAIN pc = Caller
  BY DEF TypeOK
<1>2. ASSUME NEW c \in Caller, NEW isQuick \in BOOLEAN, Call(c, isQuick)
      PROVE  SockInv'
  BY <1>1, <1>2 DEF Call
<1>3. ASSUME NEW c \in Caller, CopyConn(c)
      PROVE  SockInv'
  BY <1>1, <1>3, ReturnFacts DEF CopyConn
<1>4. ASSUME NEW c \in Caller, Inside(c)
      PROVE  SockInv'
  BY <1>1, <1>4, InsideFacts
<1>5. ASSUME NEW c \in Caller, CloseChan(c)
      PROVE  SockInv'
  BY <1>1, <1>5, ReturnFacts DEF CloseChan
<1>6. CASE UNCHANGED <<pc, sock>>
  BY <1>6
<1> QED
  BY <1>2, <1>3, <1>4, <1>5, <1>6, StepCases, ListenerFrame DEF ConnectCommand, callerVars

\* One caller moves; the channels of the others stay as they are.
LEMMA ChanMove ==
    ASSUME TypeOK, OwnerInv, ChanInv, NEW c \in Caller, NEW to, NEW r, NEW state,
           pc' = [pc EXCEPT ![c] = to], req' = [req EXCEPT ![c] = r],
           chan' \in {chan, [chan EXCEPT ![req[c]] = state]},
           to \in {"request", "register"} => chan'[r] = "none",
           to \in Registered \union {"close"} => chan'[r] \in {"empty", "full"}
    PROVE  ChanInv'
<1>1. ASSUME NEW d \in Caller, d # c, pc[d] \notin Resting
      PROVE  chan'[req[d]] = chan[req[d]]
  <2>1. req[d] \in Request /\ req[d] # req[c]
    BY <1>1, OwnFacts DEF OwnerInv
  <2> QED
    BY <2>1 DEF TypeOK
<1>2. \A d \in Caller : pc'[d] = IF d = c THEN to ELSE pc[d]
  BY DEF TypeOK
<1>3. \A d \in Caller : req'[d] = IF d = c THEN r ELSE req[d]
  BY DEF TypeOK
<1>4. ASSUME NEW d \in Caller
      PROVE  /\ pc'[d] \in {"request", "register"} => chan'[req'[d]] = "none"
             /\ pc'[d] \in Registered \union {"close"} => chan'[req'[d]] \in {"empty", "full"}
  <2>1. CASE d = c
    BY <1>2, <1>3, <2>1
  <2>2. CASE d # c
    BY <1>1, <1>2, <1>3, <2>2 DEF ChanInv, Registered, Resting
  <2> QED
    BY <2>1, <2>2
<1> QED
  BY <1>4 DEF ChanInv

\* The only writes of a listener to the channels.
LEMMA ListenerChan ==
    ASSUME NEW k \in Socket, ListenerStep(k)
    PROVE  \/ UNCHANGED <<chan, content, panicked>>
           \/ listener[k] = "send" /\ Send(k)
  BY DEF ListenerStep, CheckContext, CopySource, ReadAnswer, ReadNothing, Lookup, Send, Move

\* Sending fills an empty channel and leaves every other one.
LEMMA SendFacts ==
    ASSUME TypeOK, NEW k \in Socket, Send(k)
    PROVE  \A r \in Request :
              chan'[r] = IF r = answer[k] /\ chan[r] = "empty" THEN "full" ELSE chan[r]
  BY DEF TypeOK, Send

LEMMA ChanStep ==
    ASSUME TypeOK, OwnerInv, ChanInv, Next
    PROVE  ChanInv'
<1>1. ASSUME NEW c \in Caller, NEW isQuick \in BOOLEAN, Call(c, isQuick)
      PROVE  ChanInv'
  <2>1. PICK r \in Request : chan[r] = "none" /\ req' = [req EXCEPT ![c] = r]
    BY <1>1 DEF Call, Unused
  <2>2. pc' = [pc EXCEPT ![c] = "request"] /\ chan' = chan
    BY <1>1 DEF Call, mapVars
  <2> QED
    BY <2>1, <2>2, ChanMove DEF Registered
<1>2. ASSUME NEW c \in Caller, CopyConn(c)
      PROVE  ChanInv'
  <2>1. pc[c] = "request" /\ chan' = chan /\ chan[req[c]] = "none"
    BY <1>2 DEF CopyConn, mapVars, ChanInv
  <2>2. CASE conn = None
    BY <1>2, <2>1, <2>2, ReturnFacts, ChanMove DEF CopyConn, Registered
  <2>3. CASE conn # None
    <3>1. pc' = [pc EXCEPT ![c] = "register"] /\ req' = [req EXCEPT ![c] = req[c]]
      BY <1>2, <2>3 DEF CopyConn, TypeOK
    <3> QED
      BY <2>1, <3>1, ChanMove DEF Registered
  <2> QED
    BY <2>2, <2>3
<1>3. ASSUME NEW c \in Caller, Inside(c)
      PROVE  ChanInv'
  <2>1. req' = [req EXCEPT ![c] = req[c]]
    BY <1>3, InsideFacts DEF TypeOK
  <2>2. CASE Register(c)
    <3>1. req[c] \in Request
      BY <2>2, OwnFacts DEF Register, Resting
    <3>2. chan' = [chan EXCEPT ![req[c]] = "empty"] /\ pc' = [pc EXCEPT ![c] = "write"]
      BY <2>2 DEF Register
    <3>3. chan'[req[c]] = "empty"
      BY <3>1, <3>2 DEF TypeOK
    <3> QED
      BY <2>1, <3>2, <3>3, ChanMove DEF Registered
  <2>3. CASE TakeResponse(c)
    <3>1. req[c] \in Request
      BY <2>3, OwnFacts DEF TakeResponse, Resting
    <3>2. chan' = [chan EXCEPT ![req[c]] = "empty"] /\ pc' = [pc EXCEPT ![c] = "delete"]
      BY <2>3 DEF TakeResponse, Finish
    <3>3. chan'[req[c]] = "empty"
      BY <3>1, <3>2 DEF TypeOK
    <3> QED
      BY <2>1, <3>2, <3>3, ChanMove DEF Registered
  <2>4. CASE Write(c) \/ WriteFails(c) \/ TimeOut(c) \/ SeeShutdown(c) \/ Delete(c)
    <3>1. chan' = chan /\ pc[c] \in Registered
          /\ \E to \in {"wait", "delete", "close"} : pc' = [pc EXCEPT ![c] = to]
      BY <2>4 DEF Write, WriteFails, TimeOut, SeeShutdown, Delete, Finish, mapVars, Registered
    <3>2. chan[req[c]] \in {"empty", "full"}
      BY <3>1 DEF ChanInv
    <3> QED
      BY <2>1, <3>1, <3>2, ChanMove DEF Registered
  <2>5. CASE CancelContext(c) \/ CloseConn(c)
    <3>1. chan' = chan /\ \E to \in {"closeConn", "idle"} : pc' = [pc EXCEPT ![c] = to]
      BY <2>5 DEF CancelContext, CloseConn, mapVars
    <3> QED
      BY <2>1, <3>1, ChanMove DEF Registered
  <2> QED
    BY <1>3, <2>2, <2>3, <2>4, <2>5 DEF Inside
<1>4. ASSUME NEW c \in Caller, CloseChan(c)
      PROVE  ChanInv'
  BY <1>4, ReturnFacts, ChanMove DEF CloseChan, Registered
<1>5. CASE UNCHANGED <<pc, req, chan>>
  BY <1>5 DEF ChanInv
<1>6. ASSUME NEW k \in Socket, ListenerStep(k)
      PROVE  ChanInv'
  <2>1. UNCHANGED <<pc, req>>
    BY <1>6, ListenerFrame DEF callerVars
  <2>2. CASE UNCHANGED chan
    BY <1>5, <2>1, <2>2
  <2>3. CASE Send(k)
    <3>1. \A c \in Caller : pc[c] \notin Resting => req[c] \in Request
      BY OwnFacts
    <3> QED
      BY <2>1, <2>3, <3>1, SendFacts DEF ChanInv, Registered, Resting
  <2> QED
    BY <1>6, <2>2, <2>3, ListenerChan
<1> QED
  BY <1>1, <1>2, <1>3, <1>4, <1>5, <1>6, StepCases DEF ConnectCommand, callerVars, mapVars

-----------------------------------------------------------------------------
(* The map.                                                                 *)

\* One caller moves: it stays out of the map, or is put in it, or taken out of it.
LEMMA MapMove ==
    ASSUME TypeOK, OwnerInv, MapInv, NEW c \in Caller, NEW to, NEW r,
           pc' = [pc EXCEPT ![c] = to], req' = [req EXCEPT ![c] = r],
           \/ /\ pc[c] \notin Registered /\ to \notin Registered
              /\ responses' = responses
           \/ /\ r = req[c] /\ to \in Registered
              /\ responses' = responses \union {req[c]}
           \/ /\ pc[c] \notin Resting /\ to \notin Registered
              /\ responses' = responses \ {req[c]}
    PROVE  MapInv'
<1>1. \A d \in Caller : pc'[d] = IF d = c THEN to ELSE pc[d]
  BY DEF TypeOK
<1>2. \A d \in Caller : req'[d] = IF d = c THEN r ELSE req[d]
  BY DEF TypeOK
<1>3. \A d \in Caller : pc[d] \in Registered => req[d] # None
  BY DEF OwnerInv, Registered, Resting
<1>4. ASSUME NEW q \in Request
      PROVE  q \in responses' <=> \E d \in Caller : req'[d] = q /\ pc'[d] \in Registered
  <2>1. q \in responses <=> \E d \in Caller : req[d] = q /\ pc[d] \in Registered
    BY DEF MapInv
  <2>2. CASE pc[c] \notin Registered /\ to \notin Registered /\ responses' = responses
    BY <1>1, <1>2, <2>1, <2>2
  <2>3. CASE r = req[c] /\ to \in Registered /\ responses' = responses \union {req[c]}
    BY <1>1, <1>2, <2>1, <2>3
  <2>4. CASE /\ pc[c] \notin Resting /\ to \notin Registered
             /\ responses' = responses \ {req[c]}
    <3>1. \A d \in Caller : req[d] = req[c] => d = c
      BY <2>4 DEF OwnerInv
    <3> QED
      BY <1>1, <1>2, <2>1, <2>4, <3>1
  <2> QED
    BY <2>2, <2>3, <2>4
<1> QED
  BY <1>4 DEF MapInv

LEMMA MapStep ==
    ASSUME TypeOK, OwnerInv, MapInv, Next
    PROVE  MapInv'
<1> USE DEF Registered, Resting
<1>1. ASSUME NEW c \in Caller, NEW isQuick \in BOOLEAN, Call(c, isQuick)
      PROVE  MapInv'
  BY <1>1, MapMove DEF Call, mapVars
<1>2. ASSUME NEW c \in Caller, CopyConn(c)
      PROVE  MapInv'
  <2>1. CASE conn = None
    BY <1>2, <2>1, ReturnFacts, MapMove DEF CopyConn, mapVars
  <2>2. CASE conn # None
    <3>1. req' = [req EXCEPT ![c] = req[c]]
      BY <1>2, <2>2 DEF CopyConn, TypeOK
    <3> QED
      BY <1>2, <2>2, <3>1, MapMove DEF CopyConn, mapVars
  <2> QED
    BY <2>1, <2>2
<1>3. ASSUME NEW c \in Caller, Inside(c)
      PROVE  MapInv'
  <2>1. req' = [req EXCEPT ![c] = req[c]]
    BY <1>3, InsideFacts DEF TypeOK
  <2>2. CASE Register(c)
    BY <2>1, <2>2, MapMove DEF Register
  <2>3. CASE Write(c) \/ WriteFails(c) \/ TakeResponse(c) \/ TimeOut(c) \/ SeeShutdown(c)
    <3>1. /\ responses' = responses /\ pc[c] \in Registered
          /\ \E to \in {"wait", "delete"} : pc' = [pc EXCEPT ![c] = to]
      BY <2>3 DEF Write, WriteFails, TakeResponse, TimeOut, SeeShutdown, Finish, mapVars
    <3>2. req[c] \in responses
      BY <3>1, OwnFacts DEF MapInv
    <3>3. responses' = responses \union {req[c]}
      BY <3>1, <3>2
    <3> QED
      BY <2>1, <3>1, <3>3, MapMove
  <2>4. CASE Delete(c)
    BY <2>1, <2>4, MapMove DEF Delete
  <2>5. CASE CancelContext(c) \/ CloseConn(c)
    <3>1. /\ responses' = responses /\ pc[c] \notin Registered
          /\ \E to \in {"closeConn", "idle"} : pc' = [pc EXCEPT ![c] = to]
      BY <2>5 DEF CancelContext, CloseConn, mapVars
    <3> QED
      BY <2>1, <3>1, MapMove
  <2> QED
    BY <1>3, <2>2, <2>3, <2>4, <2>5 DEF Inside
<1>4. ASSUME NEW c \in Caller, CloseChan(c)
      PROVE  MapInv'
  BY <1>4, ReturnFacts, MapMove DEF CloseChan
<1>5. CASE UNCHANGED <<pc, req, responses>>
  BY <1>5 DEF MapInv
<1> QED
  BY <1>1, <1>2, <1>3, <1>4, <1>5, StepCases, ListenerFrame
  DEF ConnectCommand, callerVars, mapVars

-----------------------------------------------------------------------------
(* The answers.                                                             *)

\* Who takes an entry out of the map holds the lock alone; nobody unsends a request.
LEMMA CallerAnswers ==
    ASSUME TypeOK, NEW c \in Caller, CallStep(c)
    PROVE  /\ UNCHANGED <<listenerVars, panicked>>
           /\ sent \subseteq sent'
           /\ responses \subseteq responses' \/ ~Reading
  BY DEF CallStep, CopyConn, Register, Write, WriteFails, TakeResponse, TimeOut, SeeShutdown,
         Finish, Delete, CloseChan, CancelContext, CloseConn, mapVars

\* A command starts at most a listener.
LEMMA CommandFacts ==
    ASSUME TypeOK, NEW c \in Caller, NEW k \in Socket,
           SendCommand(c) \/ ConnectCommand(c, k) \/ QuickCommand(c, k)
    PROVE  /\ UNCHANGED <<mapVars, sent, outcome, returned, answer, about, panicked>>
           /\ \A j \in Socket : listener'[j] = "send" => listener[j] = "send"
  BY DEF TypeOK, SendCommand, ConnectCommand, QuickCommand, Call, Dial, listenerVars, callerVars

\* A listener touches only its own program counter and its own answer.
LEMMA ListenerOwn ==
    ASSUME TypeOK, NEW k \in Socket, ListenerStep(k)
    PROVE  \A j \in Socket \ {k} : /\ listener'[j] = listener[j] /\ answer'[j] = answer[j]
                                  /\ about'[j] = about[j]
  BY DEF TypeOK, ListenerStep, CheckContext, CopySource, ReadAnswer, ReadNothing, Lookup, Send,
         Move

\* It goes on to send only after it has found the answer in the map.
LEMMA SendStep ==
    ASSUME TypeOK, SendInv, Next
    PROVE  SendInv'
<1>1. ASSUME NEW c \in Caller, CallStep(c)
      PROVE  SendInv'
  BY <1>1, CallerAnswers DEF SendInv, Reading, listenerVars
<1>2. ASSUME NEW c \in Caller, SendCommand(c)
      PROVE  SendInv'
  BY <1>2 DEF SendCommand, Call, SendInv, listenerVars, mapVars
<1>3. ASSUME NEW c \in Caller, NEW k \in Socket, ConnectCommand(c, k) \/ QuickCommand(c, k)
      PROVE  SendInv'
  BY <1>3, CommandFacts DEF SendInv, mapVars
<1>4. ASSUME NEW k \in Socket, ListenerStep(k)
      PROVE  SendInv'
  <2>1. responses' = responses
    BY <1>4, ListenerFrame
  <2>2. listener'[k] = "send" => answer'[k] \in responses
    BY <1>4 DEF TypeOK, ListenerStep, CheckContext, CopySource, ReadAnswer, ReadNothing, Lookup,
                Send, Move
  <2> QED
    BY <1>4, <2>1, <2>2, ListenerOwn DEF SendInv
<1> QED
  BY <1>1, <1>2, <1>3, <1>4 DEF Next

\* An answer is made from a request that was written.
LEMMA AnswerStep ==
    ASSUME TypeOK, AnswerInv, Next
    PROVE  AnswerInv'
<1>1. CASE sent \subseteq sent' /\ UNCHANGED <<answer, about>>
  <2>1. ASSUME NEW k \in Socket, answer'[k] # None
        PROVE  about'[k] = answer'[k] /\ \E j \in Socket : <<answer'[k], j>> \in sent'
    BY <1>1, <2>1 DEF AnswerInv, Genuine
  <2> QED
    BY <2>1 DEF AnswerInv, Genuine
<1>2. ASSUME NEW k \in Socket, ListenerStep(k)
      PROVE  AnswerInv'
  <2>1. sent' = sent
    BY <1>2, ListenerFrame
  <2>2. answer'[k] # None => \/ answer'[k] = answer[k] /\ about'[k] = about[k]
                             \/ about'[k] = answer'[k] /\ Genuine(answer'[k])
    <3>1. CASE ReadAnswer(k)
      <4>1. PICK r \in Request :
               /\ <<r, source[k]>> \in sent
               /\ answer' = [answer EXCEPT ![k] = IF r \in Blank THEN None ELSE r]
               /\ about' = [about EXCEPT ![k] = r]
        BY <3>1 DEF ReadAnswer
      <4>2. source[k] \in Socket
        BY <4>1 DEF TypeOK
      <4> QED
        BY <4>1, <4>2 DEF Genuine, TypeOK
    <3>2. CASE ~ReadAnswer(k)
      BY <1>2, <3>2 DEF TypeOK, ListenerStep, CheckContext, CopySource, ReadNothing, Lookup,
                        Send, Move
    <3> QED
      BY <3>1, <3>2
  <2>3. \A j \in Socket : answer'[j] # None =>
           about'[j] = answer'[j] /\ Genuine(answer'[j])
    BY <1>2, <2>2, ListenerOwn DEF AnswerInv
  <2> QED
    BY <2>1, <2>3 DEF AnswerInv, Genuine
<1> QED
  BY <1>1, <1>2, CallerAnswers, CommandFacts DEF Next, SendCommand, listenerVars, Call

\* What a listener finds in the map belongs to a call whose channel is open.
LEMMA OpenWhileSending ==
    ASSUME TypeOK, ChanInv, MapInv, SendInv, NEW k \in Socket, listener[k] = "send"
    PROVE  answer[k] \in Request /\ chan[answer[k]] \in {"empty", "full"}
<1>1. answer[k] \in Request /\ answer[k] \in responses
  BY DEF TypeOK, SendInv
<1>2. PICK c \in Caller : req[c] = answer[k] /\ pc[c] \in Registered
  BY <1>1 DEF MapInv
<1> QED
  BY <1>1, <1>2 DEF ChanInv

LEMMA ClosedStep ==
    ASSUME TypeOK, ChanInv, MapInv, SendInv, NoSendOnClosed, Next
    PROVE  NoSendOnClosed'
<1>1. ASSUME NEW k \in Socket, ListenerStep(k)
      PROVE  ~panicked'
  BY <1>1, ListenerChan, OpenWhileSending DEF NoSendOnClosed, Send
<1> QED
  BY <1>1, CallerAnswers, CommandFacts DEF Next, NoSendOnClosed, SendCommand, Call

\* What a step other than these two leaves alone.
LEMMA MineFrame ==
    ASSUME TypeOK, OwnerInv, NEW c \in Caller, CallStep(c), ~TakeResponse(c),
           NEW r \in Request
    PROVE  /\ chan'[r] = "full" => chan[r] = "full"
           /\ outcome'[r] = "response" => outcome[r] = "response"
           /\ UNCHANGED <<content, returned>>
<1>1. pc[c] \notin Resting => req[c] \in Request
  BY OwnFacts
<1>2. chan'[r] = "full" => chan[r] = "full"
  BY <1>1 DEF TypeOK, CallStep, CopyConn, Register, Write, WriteFails, TimeOut,
     SeeShutdown, Finish, Delete, CloseChan, CancelContext, CloseConn, mapVars, Resting
<1>3. outcome'[r] = "response" => outcome[r] = "response"
  BY <1>1 DEF TypeOK, CallStep, CopyConn, Register, Write, WriteFails, TimeOut,
     SeeShutdown, Finish, Delete, CloseChan, CancelContext, CloseConn, mapVars, Resting
<1>4. UNCHANGED <<content, returned>>
  BY DEF CallStep, CopyConn, Register, Write, WriteFails, TimeOut,
     SeeShutdown, Finish, Delete, CloseChan, CancelContext, CloseConn, mapVars
<1> QED
  BY <1>2, <1>3, <1>4

\* What a request r may claim: its channel and its call hold its own answer.
Own(r) ==
    /\ chan[r] = "full" => content[r] = r /\ Genuine(r)
    /\ outcome[r] = "response" => returned[r] = r /\ Genuine(r)

\* A channel is filled by a listener, with the answer made for the request of the
\* channel, and emptied by the call that waits for it.
LEMMA MineStep ==
    ASSUME TypeOK, OwnerInv, ChanInv, MapInv, SendInv, AnswerInv, AnswerIsMine, Next
    PROVE  AnswerIsMine'
<1>1. \A r \in Request : Own(r)
  BY DEF AnswerIsMine, Genuine, Own
<1>2. sent \subseteq sent'
  BY CallerAnswers, CommandFacts, ListenerFrame DEF Next, SendCommand, Call
<1>3. ASSUME NEW r \in Request
      PROVE  /\ chan'[r] = "full" => content'[r] = r /\ Genuine(r)
             /\ outcome'[r] = "response" => returned'[r] = r /\ Genuine(r)
  <2>0. Own(r)
    BY <1>1
  <2>1. ASSUME NEW c \in Caller, CallStep(c)
        PROVE  /\ chan'[r] = "full" => content'[r] = r /\ Genuine(r)
               /\ outcome'[r] = "response" => returned'[r] = r /\ Genuine(r)
    <3>1. CASE TakeResponse(c)
      <4>1. req[c] \in Request /\ chan[req[c]] = "full"
        BY <3>1, OwnFacts DEF TakeResponse, Resting
      <4>2. content[req[c]] = req[c] /\ Genuine(req[c])
        BY <1>1, <4>1 DEF Own
      <4>3. /\ chan' = [chan EXCEPT ![req[c]] = "empty"]
            /\ content' = [content EXCEPT ![req[c]] = None]
            /\ returned' = [returned EXCEPT ![req[c]] = content[req[c]]]
            /\ outcome' = [outcome EXCEPT ![req[c]] = "response"]
        BY <3>1 DEF TakeResponse, Finish
      <4>4. CASE r = req[c]
        BY <4>1, <4>2, <4>3, <4>4 DEF TypeOK
      <4>5. CASE r # req[c]
        BY <2>0, <4>3, <4>5 DEF TypeOK, Own
      <4> QED
        BY <4>4, <4>5
    <3>2. CASE ~TakeResponse(c)
      BY <2>0, <2>1, <3>2, MineFrame DEF Own
    <3> QED
      BY <3>1, <3>2
  <2>2. ASSUME NEW k \in Socket, ListenerStep(k)
        PROVE  /\ chan'[r] = "full" => content'[r] = r /\ Genuine(r)
               /\ outcome'[r] = "response" => returned'[r] = r /\ Genuine(r)
    <3>1. UNCHANGED <<outcome, returned>>
      BY <2>2, ListenerFrame DEF callerVars
    <3>2. CASE UNCHANGED <<chan, content>>
      BY <2>0, <3>1, <3>2 DEF Own
    <3>3. CASE listener[k] = "send" /\ Send(k)
      <4>1. answer[k] \in Request /\ about[k] = answer[k] /\ Genuine(answer[k])
        <5>1. answer[k] \in Request /\ answer[k] # None
          BY <3>3, OpenWhileSending, ClientAssumption DEF ClientAssumption
        <5> QED
          BY <5>1 DEF AnswerInv
      <4>2. content' = [content EXCEPT ![answer[k]] =
                           IF chan[answer[k]] = "empty" THEN about[k] ELSE @]
        BY <3>3 DEF Send
      <4>3. CASE r = answer[k]
        <5>1. content'[r] = IF chan[r] = "empty" THEN r ELSE content[r]
          BY <4>1, <4>2, <4>3 DEF TypeOK
        <5> QED
          BY <2>0, <3>1, <3>3, <4>1, <4>3, <5>1, SendFacts DEF Own
      <4>4. CASE r # answer[k]
        <5>1. content'[r] = content[r]
          BY <4>2, <4>4 DEF TypeOK
        <5> QED
          BY <2>0, <3>1, <3>3, <4>4, <5>1, SendFacts DEF Own
      <4> QED
        BY <4>3, <4>4
    <3> QED
      BY <2>2, <3>2, <3>3, ListenerChan
  <2>3. CASE UNCHANGED <<chan, content, outcome, returned>>
    BY <2>0, <2>3 DEF Own
  <2> QED
    BY <2>1, <2>2, <2>3, CommandFacts DEF Next, SendCommand, Call, mapVars
<1>4. \A r \in Request : Genuine(r) => \E k \in Socket : <<r, k>> \in sent'
  BY <1>2 DEF Genuine
<1> QED
  BY <1>3, <1>4 DEF AnswerIsMine

-----------------------------------------------------------------------------
(* Types.                                                                   *)

LEMMA TypeStep ==
    ASSUME TypeOK, OwnerInv, SockInv, Next
    PROVE  TypeOK'
<1> USE DEF connVars, mapVars, callerVars, listenerVars, Outcomes
<1>1. ASSUME NEW c \in Caller, NEW isQuick \in BOOLEAN, Call(c, isQuick)
      PROVE  /\ pc' \in [Caller -> {"idle", "request", "register", "write", "wait",
                          "delete", "close", "cancel", "closeConn"}]
             /\ req' \in [Caller -> Request \union {None}]
             /\ quick' \in [Caller -> BOOLEAN]
             /\ UNCHANGED <<mapVars, sent, sock, outcome, returned, panicked>>
  BY <1>1 DEF Call, Unused, TypeOK
<1>2. ASSUME NEW k \in Socket, Dial(k)
      PROVE  /\ conn' \in Socket
             /\ listener' \in [Socket -> {"none", "top", "copy", "read", "lookup", "send",
                                "gone"}]
             /\ UNCHANGED <<closed, cancelled, source, answer, about>>
  BY <1>2 DEF Dial, TypeOK
<1>3. ASSUME NEW c \in Caller, CallStep(c)
      PROVE  TypeOK'
  <2>0. pc[c] \notin Resting => req[c] \in Request
    BY OwnFacts
  <2>1. CASE CopyConn(c)
    <3>1. CASE conn = None
      BY <2>1, <3>1, ReturnFacts DEF CopyConn, TypeOK
    <3>2. CASE conn # None
      BY <2>1, <3>2 DEF CopyConn, TypeOK
    <3> QED
      BY <3>1, <3>2
  <2>2. CASE Register(c)
    BY <2>0, <2>2 DEF Register, TypeOK, Resting
  <2>3. CASE Write(c)
    <3>1. req[c] \in Request /\ sock[c] \in Socket
      BY <2>0, <2>3 DEF Write, TypeOK, Resting, SockInv
    <3>2. sent' = sent \union {<<req[c], sock[c]>>} /\ sent \subseteq Request \X Socket
      BY <2>3 DEF Write, TypeOK
    <3>3. sent' \subseteq Request \X Socket
      BY <3>1, <3>2
    <3>4. pc' \in [Caller -> {"idle", "request", "register", "write", "wait",
                            "delete", "close", "cancel", "closeConn"}]
      BY <2>3 DEF Write, TypeOK
    <3> QED
      BY <2>3, <3>3, <3>4 DEF Write, TypeOK
  <2>4. CASE WriteFails(c)
    BY <2>4 DEF WriteFails, Finish, TypeOK
  <2>5. CASE TakeResponse(c)
    BY <2>5 DEF TakeResponse, Finish, TypeOK
  <2>6. CASE TimeOut(c)
    BY <2>6 DEF TimeOut, Finish, TypeOK
  <2>7. CASE SeeShutdown(c)
    BY <2>7 DEF SeeShutdown, Finish, TypeOK
  <2>8. CASE Delete(c)
    BY <2>8 DEF Delete, TypeOK
  <2>9. CASE CloseChan(c)
    BY <2>9, ReturnFacts DEF CloseChan, TypeOK
  <2>10. CASE CancelContext(c)
    BY <2>10 DEF CancelContext, TypeOK
  <2>11. CASE CloseConn(c)
    BY <2>11 DEF CloseConn, TypeOK
  <2> QED
    BY <1>3, <2>1, <2>2, <2>3, <2>4, <2>5, <2>6, <2>7, <2>8, <2>9, <2>10, <2>11 DEF CallStep
<1>4. ASSUME NEW c \in Caller, SendCommand(c)
      PROVE  TypeOK'
  <2>1. Call(c, FALSE) /\ UNCHANGED <<connVars, listenerVars>>
    BY <1>4 DEF SendCommand
  <2> QED
    BY <1>1, <2>1 DEF TypeOK
<1>5. ASSUME NEW c \in Caller, NEW k \in Socket, ConnectCommand(c, k)
      PROVE  TypeOK'
  <2>1. Dial(k) /\ UNCHANGED <<mapVars, sent, callerVars, panicked>>
    BY <1>5 DEF ConnectCommand
  <2> QED
    BY <1>2, <2>1 DEF TypeOK
<1>6. ASSUME NEW c \in Caller, NEW k \in Socket, QuickCommand(c, k)
      PROVE  TypeOK'
  <2>1. Dial(k) /\ Call(c, TRUE)
    BY <1>6 DEF QuickCommand
  <2> QED
    BY <1>1, <1>2, <2>1 DEF TypeOK
<1>7. ASSUME NEW k \in Socket, ListenerStep(k)
      PROVE  TypeOK'
  <2>1. CASE CheckContext(k)
    BY <2>1 DEF CheckContext, Move, TypeOK
  <2>2. CASE CopySource(k)
    BY <2>2 DEF CopySource, Move, TypeOK
  <2>3. CASE ReadAnswer(k)
    BY <2>3 DEF ReadAnswer, Move, TypeOK
  <2>4. CASE ReadNothing(k)
    BY <2>4 DEF ReadNothing, Move, TypeOK
  <2>5. CASE Lookup(k)
    BY <2>5 DEF Lookup, Move, TypeOK
  <2>6. CASE Send(k)
    BY <2>6 DEF Send, Move, TypeOK
  <2> QED
    BY <1>7, <2>1, <2>2, <2>3, <2>4, <2>5, <2>6 DEF ListenerStep
<1> QED
  BY <1>3, <1>4, <1>5, <1>6, <1>7 DEF Next

-----------------------------------------------------------------------------
(* The theorems.                                                            *)

LEMMA InitIInv ==
    Init => IInv
<1> SUFFICES ASSUME Init PROVE IInv
  OBVIOUS
<1>1. TypeOK
  BY DEF Init, TypeOK, Outcomes
<1>2. CallInv
  BY <1>1 DEF Init, CallInv, OwnerInv, SockInv, ChanInv, MapInv, Resting, Registered
<1>3. SendInv /\ AnswerInv /\ NoSendOnClosed /\ AnswerIsMine
  BY DEF Init, SendInv, AnswerInv, NoSendOnClosed, AnswerIsMine
<1> QED
  BY <1>2, <1>3 DEF IInv

LEMMA NextIInv ==
    IInv /\ [Next]_vars => IInv'
<1>1. ASSUME IInv, Next
      PROVE  IInv'
  <2> USE <1>1 DEF IInv, CallInv
  <2>1. TypeOK' /\ OwnerInv' /\ SockInv'
    BY TypeStep, OwnerStep, SockStep
  <2>2. ChanInv' /\ MapInv'
    BY ChanStep, MapStep
  <2>3. SendInv' /\ AnswerInv'
    BY SendStep, AnswerStep
  <2>4. NoSendOnClosed' /\ AnswerIsMine'
    BY ClosedStep, MineStep
  <2> QED
    BY <2>1, <2>2, <2>3, <2>4
<1>2. ASSUME IInv, UNCHANGED vars
      PROVE  IInv'
  BY <1>2 DEF IInv, CallInv, TypeOK, OwnerInv, SockInv, ChanInv, MapInv, SendInv, AnswerInv,
              Genuine, NoSendOnClosed, AnswerIsMine, vars, connVars, mapVars, callerVars,
              listenerVars
<1> QED
  BY <1>1, <1>2

LEMMA Invariant ==
    Spec => []IInv
  BY InitIInv, NextIInv, PTL DEF Spec

\* Every variable of the client keeps its type, whatever callers, listeners and the
\* network do.
THEOREM TypeCorrect ==
    Spec => []TypeOK
<1>1. IInv => TypeOK
  BY DEF IInv, CallInv
<1> QED
  BY <1>1, Invariant, PTL

\* No answer, however late, is sent on a channel that SendRequest has closed (lines 101-106,
\* 161-168): while a listener holds the lock for reading the entry it found stays in the
\* map, and the channel of an entry is open.
THEOREM NeverSendsOnClosed ==
    Spec => []NoSendOnClosed
<1>1. IInv => NoSendOnClosed
  BY DEF IInv
<1> QED
  BY <1>1, Invariant, PTL

\* The map of response channels holds the calls in progress and nothing else, on every
\* path out of SendRequest (lines 96-133).
THEOREM MapIsExact ==
    Spec => []MapExact
<1>1. IInv => MapExact
  BY MapInvIsExact DEF IInv, CallInv
<1> QED
  BY <1>1, Invariant, PTL

\* What a call returns is the answer the server made for the request that this call has
\* written, and no other lies in its channel (lines 96-121, 156-167): with any number of
\* callers and connections, and whatever answers are late, doubled or lost.
THEOREM AnswersAreMine ==
    Spec => []AnswerIsMine
<1>1. IInv => AnswerIsMine
  BY DEF IInv
<1> QED
  BY <1>1, Invariant, PTL
=============================================================================
