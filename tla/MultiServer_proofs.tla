-------------------------- MODULE MultiServer_proofs --------------------------
(***************************************************************************)
(* Proofs about lab4's multiservice server: for any services, datagrams and *)
(* queue size, the WaitGroup counts what is still to do, so that nothing is *)
(* left behind when Stop returns; the registry stays consistent; handlers   *)
(* read no bytes older than their own; and the statistics add up.           *)
(***************************************************************************)
EXTENDS MultiServer, FiniteSetTheorems, SequenceTheorems, TLAPS

-----------------------------------------------------------------------------
(* The inductive invariant.                                                 *)

\* A service of the configuration that Start has still to visit has no listener; between
\* the two halves of its loop body Start is at a service.
TodoInv ==
    /\ \A s \in todo : listener[s] = "off"
    /\ main = "record" => starting \in Service

Queued(r) == \E i \in DOMAIN backlog : backlog[i] = r
InSubmit(s, r) == listener[s] = "submit" /\ inHand[s] = r

\* The pool's tasks are datagrams; a task is queued once, and not while it runs.
PoolInv ==
    /\ backlog \in Seq(Request) /\ running \subseteq Request
    /\ finished \subseteq Request /\ refused \subseteq Request
    /\ \A i, j \in DOMAIN backlog : backlog[i] = backlog[j] => i = j
    /\ \A i \in DOMAIN backlog : backlog[i] \notin running

\* What a listener submits, the pool queues and a handler handles has been read, the
\* first of them from the port of the listener's service.
ReadInv ==
    /\ \A s \in Service : listener[s] = "submit" =>
          inHand[s] \in Request \ net /\ To[inHand[s]] = s
    /\ \A i \in DOMAIN backlog : backlog[i] \notin net
    /\ \A r \in Request : phase[r] # "none" => r \notin net

\* The log of a service ends with what is in its buffer, and lacks nothing that was read.
LogInv ==
    /\ log \in [Service -> Seq(Request)]
    /\ \A s \in Service : log[s] # <<>> => buffer[s] = log[s][Len(log[s])]
    /\ \A r \in Request \ net : \E i \in DOMAIN log[To[r]] : log[To[r]][i] = r

\* A datagram that was read is with a listener, with the pool, or settled.
Settled(r) ==
    \/ \E s \in Service : InSubmit(s, r)
    \/ Queued(r) \/ r \in running \union finished \union refused
NothingLost == \A r \in Request : r \in net \/ Settled(r)

\* After Stop the counter stays at zero.
StoppedInv == main = "stopped" => wg = 0

\* A datagram read when its service had an entry in s.stats is counted.
EarlyInv == \A r \in Request \ net : To[r] \in recorded \/ r \in early

\* The counters of a service, whether Start has made its entry or not.  The process is
\* dead after a refusal without an entry.
Begun(s) == In(s, {"parse", "processed", "reply", "done"})
Ended(s) == In(s, {"reply", "done"})
RefusedOf(s) == {r \in refused : To[r] = s}
CountInv ==
    \A s \in Service :
        /\ received[s] \in Cardinality(Begun(s) \ early)..Cardinality(Begun(s))
        /\ processed[s] \in Cardinality(Ended(s) \ early)..Cardinality(Ended(s))
ErrorInv ==
    \A s \in Service : s \in recorded \/ ~panicked =>
        errors[s] = Cardinality(RefusedOf(s)) - (IF listener[s] = "refused" THEN 1 ELSE 0)

\* The parts that need nothing but each other.
TaskInv == TypeOK /\ TodoInv /\ PoolInv /\ ReadInv /\ WaitGroupExact
IInv ==
    /\ TaskInv /\ RegistryConsistent
    /\ NothingLost /\ StoppedInv
    /\ LogInv /\ SeenNotOlder
    /\ EarlyInv /\ CountInv /\ ErrorInv

-----------------------------------------------------------------------------
(* Counting.                                                                *)

\* Sets of services and sets of datagrams are finite.
LEMMA FiniteSets ==
    /\ \A S \in SUBSET Service : IsFiniteSet(S) /\ Cardinality(S) \in Nat
    /\ \A S \in SUBSET Request : IsFiniteSet(S) /\ Cardinality(S) \in Nat
  BY ServerAssumption, FS_Subset, FS_CardinalityType DEF ServerAssumption

\* Two sets that differ in x at most differ in size by x's membership.
LEMMA Flip ==
    ASSUME NEW A, NEW B, NEW x, IsFiniteSet(A),
           \A y : y # x => (y \in A <=> y \in B)
    PROVE  /\ Cardinality(A) \in Nat /\ Cardinality(B) \in Nat
           /\ x \in A /\ x \notin B => Cardinality(B) = Cardinality(A) - 1
           /\ x \notin A /\ x \in B => Cardinality(B) = Cardinality(A) + 1
           /\ (x \in A <=> x \in B) => Cardinality(B) = Cardinality(A)
<1>1. CASE x \in A /\ x \notin B
  <2>1. B = A \ {x}
    BY <1>1
  <2> QED
    BY <1>1, <2>1, FS_RemoveElement, FS_CardinalityType
<1>2. CASE x \notin A /\ x \in B
  <2>1. B = A \union {x}
    BY <1>2
  <2> QED
    BY <1>2, <2>1, FS_AddElement, FS_CardinalityType
<1>3. CASE x \in A <=> x \in B
  <2>1. B = A
    BY <1>3
  <2> QED
    BY <1>3, <2>1, FS_CardinalityType
<1> QED
  BY <1>1, <1>2, <1>3

\* The port of a datagram is a service's.
LEMMA ToService == \A r \in Request : To[r] \in Service /\ r # NoRequest /\ r # Garbled
  BY ServerAssumption DEF ServerAssumption

-----------------------------------------------------------------------------
(* What the steps leave alone.                                              *)

\* The steps of the main goroutine that start no listener.
MainOnly ==
    \/ \E s \in Service : RegisterService(s) \/ SkipService(s)
    \/ BeginStart \/ RecordService \/ EndStart \/ Cancel \/ StopStep \/ GiveUp

LEMMA MainFrame ==
    ASSUME MainOnly
    PROVE  /\ UNCHANGED <<backlog, running, finished, refused, listenerVars, wg, received,
                          processed, errors, handlerVars, panicked>>
           /\ todo' \subseteq todo /\ recorded \subseteq recorded'
           /\ main' = "stopped" => main = "stopped" \/ wg = 0
  BY DEF MainOnly, RegisterService, SkipService, BeginStart, RecordService, EndStart, Cancel,
         StopStep, CloseSockets, StopPool, PoolStopped, WaitAll, GiveUp, MainStep, Pool!Stop, poolVars,
         statsVars, mainVars

\* The steps of a listener that neither read nor submit.
LoopStep(s) == ListenerExit(s) \/ EnterRead(s) \/ ReadTimeout(s) \/ CountError(s)

LEMMA LoopFrame ==
    ASSUME TypeOK, NEW s \in Service, LoopStep(s)
    PROVE  /\ UNCHANGED <<poolVars, registryVars, mainVars, readVars, inHand, recorded, received,
                          processed, handlerVars>>
           /\ \E to : /\ listener' = [listener EXCEPT ![s] = to]
                      /\ to \in {"gone", "read", "top"}
           /\ listener[s] \in {"top", "read", "refused"}
  BY DEF LoopStep, ListenerExit, EnterRead, ReadTimeout, CountError, listenerVars, statsVars

\* The steps of a handler after its beginning and before its end.
CountStep(r) == CountReceived(r) \/ Parse(r) \/ CountProcessed(r)

LEMMA HandlerFrame ==
    ASSUME NEW r \in Request, CountStep(r)
    PROVE  /\ UNCHANGED <<poolVars, registryVars, mainVars, listenerVars, wg, recorded, errors>>
           /\ phase[r] # "none"
           /\ \E to : phase' = [phase EXCEPT ![r] = to]
  BY DEF CountStep, CountReceived, Parse, CountProcessed, HandlerStep, statsVars

LEMMA StepCases ==
    ASSUME Next
    PROVE  \/ MainOnly
           \/ \E s \in Service : \/ StartListener(s) \/ LoopStep(s)
                                 \/ SubmitAccepted(s) \/ SubmitRefused(s) \/ SubmitPanics(s)
                                 \/ \E r \in Request : Read(s, r)
           \/ BeginTask
           \/ \E r \in Request : CountStep(r) \/ Reply(r)
  BY DEF Next, StartStep, StopStep, ListenerStep, Handle, MainOnly, LoopStep, CountStep

-----------------------------------------------------------------------------
(* The pool.                                                                *)

LEMMA AcceptFacts ==
    ASSUME PoolInv, NEW t, Pool!Accept(t)
    PROVE  /\ t \in Request /\ ~Queued(t)
           /\ t \notin running \union finished \union refused
           /\ UNCHANGED <<running, finished, refused>>
           /\ backlog' \in Seq(Request) /\ Len(backlog') = Len(backlog) + 1
           /\ DOMAIN backlog' = DOMAIN backlog \union {Len(backlog) + 1}
           /\ Len(backlog) + 1 \notin DOMAIN backlog
           /\ \A i \in DOMAIN backlog : backlog'[i] = backlog[i]
           /\ backlog'[Len(backlog) + 1] = t
<1>1. /\ t \in Request /\ backlog' = Append(backlog, t) /\ UNCHANGED <<running, finished, refused>>
      /\ \A i \in DOMAIN backlog : backlog[i] # t
      /\ t \notin running \union finished \union refused
  BY DEF Pool!Accept, Pool!New
<1>2. backlog \in Seq(Request)
  BY DEF PoolInv
<1>3. Len(backlog) \in Nat /\ DOMAIN backlog = 1..Len(backlog)
  BY <1>2
<1>4. /\ backlog' \in Seq(Request) /\ Len(backlog') = Len(backlog) + 1
      /\ \A i \in 1..Len(backlog) : backlog'[i] = backlog[i]
      /\ backlog'[Len(backlog) + 1] = t
  BY <1>1, <1>2, AppendProperties
<1>5. DOMAIN backlog' = 1..(Len(backlog) + 1)
  BY <1>4
<1> QED
  BY <1>1, <1>3, <1>4, <1>5 DEF Queued

LEMMA RefuseFacts ==
    ASSUME PoolInv, NEW t, Pool!Refuse(t)
    PROVE  /\ t \in Request \ refused
           /\ refused' = refused \union {t}
           /\ UNCHANGED <<backlog, running, finished>>
  BY DEF Pool!Refuse, Pool!New

LEMMA BeginFacts ==
    ASSUME PoolInv, Pool!Begin
    PROVE  /\ Head(backlog) \in Request \ running /\ Queued(Head(backlog))
           /\ running' = running \union {Head(backlog)}
           /\ UNCHANGED <<finished, refused>>
           /\ backlog' \in Seq(Request) /\ Len(backlog) = Len(backlog') + 1
           /\ \A i \in DOMAIN backlog' : /\ i + 1 \in DOMAIN backlog
                                         /\ backlog'[i] = backlog[i + 1]
                                         /\ backlog'[i] # Head(backlog)
           /\ \A i \in DOMAIN backlog : i = 1 \/ i - 1 \in DOMAIN backlog'
<1>1. backlog \in Seq(Request) /\ backlog # <<>>
  BY DEF PoolInv, Pool!Begin
<1>2. Len(backlog) \in Nat \ {0} /\ DOMAIN backlog = 1..Len(backlog) /\ Head(backlog) = backlog[1]
  BY <1>1
<1>3. /\ backlog' = Tail(backlog) /\ running' = running \union {Head(backlog)}
      /\ UNCHANGED <<finished, refused>>
  BY DEF Pool!Begin
<1>4. /\ backlog' \in Seq(Request) /\ Len(backlog') = Len(backlog) - 1
      /\ \A i \in 1..(Len(backlog) - 1) : backlog'[i] = backlog[i + 1]
  BY <1>1, <1>3, HeadTailProperties
<1>5. DOMAIN backlog' = 1..(Len(backlog) - 1)
  BY <1>4
<1>6. /\ Head(backlog) \in Request /\ Head(backlog) \notin running /\ Queued(Head(backlog))
      /\ \A i \in DOMAIN backlog : backlog[i] = Head(backlog) => i = 1
  BY <1>1, <1>2 DEF PoolInv, Queued
<1>7. ASSUME NEW i \in DOMAIN backlog'
      PROVE  i \in Nat /\ i + 1 # 1 /\ i + 1 \in DOMAIN backlog /\ backlog'[i] = backlog[i + 1]
  BY <1>2, <1>4, <1>5
<1>8. \A i \in DOMAIN backlog : i = 1 \/ i - 1 \in DOMAIN backlog'
  BY <1>2, <1>5
<1> QED
  BY <1>2, <1>3, <1>4, <1>6, <1>7, <1>8

LEMMA EndFacts ==
    ASSUME NEW r, Pool!End(r)
    PROVE  /\ r \in running
           /\ running' = running \ {r} /\ finished' = finished \union {r}
           /\ UNCHANGED <<backlog, refused>>
  BY DEF Pool!End

\* Nothing is queued twice or queued while it runs, because Accept takes only new tasks and
\* Begin takes the task out of the queue.
LEMMA PoolStep ==
    ASSUME TypeOK, PoolInv, Next
    PROVE  PoolInv'
<1>1. CASE UNCHANGED <<backlog, running, finished, refused>>
  BY <1>1 DEF PoolInv
<1>2. ASSUME NEW s \in Service, SubmitAccepted(s)
      PROVE  PoolInv'
  <2>1. Pool!Accept(inHand[s])
    BY <1>2 DEF SubmitAccepted
  <2> QED
    BY <2>1, AcceptFacts DEF PoolInv, Queued
<1>3. ASSUME NEW s \in Service, SubmitRefused(s)
      PROVE  PoolInv'
  <2>1. Pool!Refuse(inHand[s])
    BY <1>3 DEF SubmitRefused
  <2> QED
    BY <2>1, RefuseFacts DEF PoolInv
<1>4. CASE BeginTask
  <2>1. Pool!Begin
    BY <1>4 DEF BeginTask
  <2>2. ASSUME NEW i \in DOMAIN backlog', NEW j \in DOMAIN backlog', backlog'[i] = backlog'[j]
        PROVE  i = j
    <3>1. i \in Int /\ j \in Int
      BY <2>1, BeginFacts
    <3>2. i + 1 = j + 1
      BY <2>1, <2>2, BeginFacts DEF PoolInv
    <3> QED
      BY <3>1, <3>2
  <2>3. \A i \in DOMAIN backlog' : backlog'[i] \notin running'
    BY <2>1, BeginFacts DEF PoolInv
  <2>4. /\ backlog' \in Seq(Request) /\ running' \subseteq Request
        /\ finished' \subseteq Request /\ refused' \subseteq Request
    BY <2>1, BeginFacts DEF PoolInv
  <2> QED
    BY <2>2, <2>3, <2>4 DEF PoolInv
<1>5. ASSUME NEW r \in Request, Reply(r)
      PROVE  PoolInv'
  <2>1. Pool!End(r)
    BY <1>5 DEF Reply
  <2> QED
    BY <2>1, EndFacts DEF PoolInv
<1> QED
  BY <1>1, <1>2, <1>3, <1>4, <1>5, StepCases, MainFrame, LoopFrame, HandlerFrame
  DEF StartListener, SubmitPanics, Read, poolVars

-----------------------------------------------------------------------------
(* Listeners.                                                               *)

LEMMA TodoStep ==
    ASSUME TypeOK, TodoInv, Next
    PROVE  TodoInv'
<1>1. CASE UNCHANGED <<mainVars, listener>>
  BY <1>1 DEF TodoInv, mainVars
<1>2. ASSUME NEW s \in Service, UNCHANGED mainVars, s \notin todo,
             \A x \in Service \ {s} : listener'[x] = listener[x]
      PROVE  TodoInv'
  BY <1>2 DEF TodoInv, TypeOK, mainVars
<1>3. ASSUME NEW s \in Service, StartListener(s)
      PROVE  TodoInv'
  BY <1>3 DEF StartListener, TypeOK, TodoInv
<1>6. CASE MainOnly
  <2>1. todo' \subseteq todo /\ UNCHANGED listener
    BY <1>6, MainFrame DEF listenerVars
  <2>2. main' # "record" \/ UNCHANGED <<main, starting>>
    BY <1>6 DEF MainOnly, RegisterService, SkipService, BeginStart, RecordService, EndStart,
         Cancel, StopStep, CloseSockets, StopPool, PoolStopped, WaitAll, GiveUp, MainStep, mainVars
  <2> QED
    BY <2>1, <2>2 DEF TodoInv
<1>4. ASSUME NEW s \in Service, LoopStep(s)
      PROVE  TodoInv'
  <2>1. s \notin todo
    BY <1>4, LoopFrame DEF TodoInv
  <2> QED
    BY <1>2, <1>4, <2>1, LoopFrame DEF TypeOK
<1>5. ASSUME NEW s \in Service,
             SubmitAccepted(s) \/ SubmitRefused(s) \/ \E r \in Request : Read(s, r)
      PROVE  TodoInv'
  <2>1. s \notin todo /\ UNCHANGED mainVars /\ \A x \in Service \ {s} : listener'[x] = listener[x]
    BY <1>5 DEF SubmitAccepted, SubmitRefused, Read, TodoInv, TypeOK
  <2> QED
    BY <1>2, <2>1
<1> QED
  BY <1>1, <1>3, <1>4, <1>5, <1>6, StepCases, HandlerFrame
  DEF SubmitPanics, BeginTask, HandlerStep, Reply, listenerVars

\* A datagram leaves net when a listener takes it in hand, and is never put back.
LEMMA ReadStep ==
    ASSUME TypeOK, PoolInv, ReadInv, Next
    PROVE  ReadInv'
<1> DEFINE HandOK == \A s \in Service : listener'[s] = "submit" =>
                        inHand'[s] \in Request \ net' /\ To[inHand'[s]] = s
           QueueOK == \A i \in DOMAIN backlog' : backlog'[i] \notin net'
           PhaseOK == \A r \in Request : phase'[r] # "none" => r \notin net'
<1>0. HandOK /\ QueueOK /\ PhaseOK => ReadInv'
  BY DEF ReadInv
<1>4. CASE net' \subseteq net /\ UNCHANGED <<listener, inHand, backlog, phase>>
  BY <1>4 DEF ReadInv
<1>5. ASSUME NEW s \in Service, UNCHANGED <<net, backlog, phase>>, listener'[s] # "submit",
             \A x \in Service \ {s} : listener'[x] = listener[x] /\ inHand'[x] = inHand[x]
      PROVE  ReadInv'
  BY <1>5 DEF ReadInv
<1>6. ASSUME NEW s \in Service, StartListener(s) \/ LoopStep(s) \/ SubmitRefused(s)
      PROVE  ReadInv'
  <2>1. CASE StartListener(s)
    BY <1>5, <2>1 DEF StartListener, TypeOK, poolVars, readVars, handlerVars
  <2>2. CASE LoopStep(s)
    BY <1>5, <2>2, LoopFrame DEF TypeOK, poolVars, readVars, handlerVars
  <2>3. CASE SubmitRefused(s)
    <3>1. Pool!Refuse(inHand[s])
      BY <2>3 DEF SubmitRefused
    <3>2. UNCHANGED backlog
      BY <3>1, RefuseFacts
    <3> QED
      BY <1>5, <2>3, <3>2 DEF SubmitRefused, TypeOK, readVars, handlerVars
  <2> QED
    BY <1>6, <2>1, <2>2, <2>3
<1>7. ASSUME NEW s \in Service, SubmitAccepted(s)
      PROVE  ReadInv'
  <2>1. /\ Pool!Accept(inHand[s]) /\ listener[s] = "submit" /\ UNCHANGED <<net, phase>>
        /\ listener' = [listener EXCEPT ![s] = "top"]
        /\ inHand' = [inHand EXCEPT ![s] = NoRequest]
    BY <1>7 DEF SubmitAccepted, readVars, handlerVars
  <2>2. inHand[s] \notin net
    BY <2>1 DEF ReadInv
  <2>3. QueueOK
    BY <2>1, <2>2, AcceptFacts DEF ReadInv
  <2>4. HandOK /\ PhaseOK
    BY <2>1 DEF ReadInv, TypeOK
  <2> QED
    BY <1>0, <2>3, <2>4
<1>8. ASSUME NEW s \in Service, NEW r \in Request, Read(s, r)
      PROVE  ReadInv'
  <2>1. /\ r \in net /\ To[r] = s /\ net' = net \ {r} /\ UNCHANGED <<backlog, phase>>
        /\ listener' = [listener EXCEPT ![s] = "submit"]
        /\ inHand' = [inHand EXCEPT ![s] = r]
    BY <1>8 DEF Read, poolVars, handlerVars
  <2>2. HandOK
    BY <2>1 DEF ReadInv, TypeOK
  <2>3. QueueOK /\ PhaseOK
    BY <2>1 DEF ReadInv
  <2> QED
    BY <1>0, <2>2, <2>3
<1>9. CASE BeginTask
  <2>1. Pool!Begin /\ UNCHANGED <<net, listener, inHand>>
        /\ phase' = [phase EXCEPT ![Head(backlog)] = "received"]
    BY <1>9 DEF BeginTask, HandlerStep, listenerVars, readVars
  <2>2. Head(backlog) \notin net
    BY <2>1, BeginFacts DEF ReadInv, Queued
  <2>3. HandOK
    BY <2>1 DEF ReadInv
  <2>4. QueueOK
    BY <2>1, BeginFacts DEF ReadInv
  <2>5. PhaseOK
    BY <2>1, <2>2 DEF ReadInv, TypeOK
  <2> QED
    BY <1>0, <2>3, <2>4, <2>5
<1>10. ASSUME NEW r \in Request, CountStep(r) \/ Reply(r)
       PROVE  ReadInv'
  <2>1. UNCHANGED <<net, listener, inHand, backlog>> /\ phase[r] # "none"
    BY <1>10, HandlerFrame, EndFacts DEF Reply, HandlerStep, listenerVars, readVars, poolVars
  <2>2. PICK to : phase' = [phase EXCEPT ![r] = to]
    BY <1>10, HandlerFrame DEF Reply, HandlerStep
  <2>3. PhaseOK
    BY <2>1, <2>2 DEF ReadInv, TypeOK
  <2> QED
    BY <1>0, <2>1, <2>3 DEF ReadInv
<1> QED
  BY <1>4, <1>6, <1>7, <1>8, <1>9, <1>10, StepCases, MainFrame
  DEF SubmitPanics, poolVars, listenerVars, readVars, handlerVars

-----------------------------------------------------------------------------
(* The WaitGroup.                                                           *)

Live == {s \in Service : listener[s] \notin {"off", "gone"}}
Handing == {s \in Service : listener[s] \in {"submit", "refused"}}

\* One listener moves: what that does to the two counts.
Moves(s, from, to) == listener[s] = from /\ listener' = [listener EXCEPT ![s] = to]

LEMMA LiveFacts ==
    ASSUME TypeOK, NEW s \in Service, NEW from, NEW to, Moves(s, from, to)
    PROVE  LET was == from \notin {"off", "gone"}
               is == to \notin {"off", "gone"}
           IN  /\ ~was /\ is => Cardinality(Live') = Cardinality(Live) + 1
               /\ was /\ ~is => Cardinality(Live') = Cardinality(Live) - 1
               /\ (was <=> is) => Cardinality(Live') = Cardinality(Live)
<1>1. \A y : y # s => (y \in Live <=> y \in Live')
  BY DEF Live, TypeOK, Moves
<1>2. IsFiniteSet(Live)
  BY FiniteSets DEF Live
<1>3. s \in Live <=> from \notin {"off", "gone"}
  BY DEF Live, Moves
<1>4. s \in Live' <=> to \notin {"off", "gone"}
  BY DEF Live, TypeOK, Moves
<1> QED
  BY <1>1, <1>2, <1>3, <1>4, Flip

LEMMA HandingFacts ==
    ASSUME TypeOK, NEW s \in Service, NEW from, NEW to, Moves(s, from, to)
    PROVE  LET was == from \in {"submit", "refused"}
               is == to \in {"submit", "refused"}
           IN  /\ ~was /\ is => Cardinality(Handing') = Cardinality(Handing) + 1
               /\ was /\ ~is => Cardinality(Handing') = Cardinality(Handing) - 1
               /\ (was <=> is) => Cardinality(Handing') = Cardinality(Handing)
<1>1. \A y : y # s => (y \in Handing <=> y \in Handing')
  BY DEF Handing, TypeOK, Moves
<1>2. IsFiniteSet(Handing)
  BY FiniteSets DEF Handing
<1>3. s \in Handing <=> from \in {"submit", "refused"}
  BY DEF Handing, Moves
<1>4. s \in Handing' <=> to \in {"submit", "refused"}
  BY DEF Handing, TypeOK, Moves
<1> QED
  BY <1>1, <1>2, <1>3, <1>4, Flip

\* The four counts of WaitGroupExact are numbers.
LEMMA CountFacts ==
    ASSUME PoolInv
    PROVE  /\ Cardinality(Live) \in Nat /\ Cardinality(Handing) \in Nat
           /\ Len(backlog) \in Nat /\ Cardinality(running) \in Nat
  BY FiniteSets DEF PoolInv, Live, Handing

\* Every Add of the server is undone by exactly one Done.
LEMMA WaitGroupStep ==
    ASSUME TypeOK, TodoInv, PoolInv, WaitGroupExact, Next
    PROVE  WaitGroupExact'
<1> DEFINE Sum == Cardinality(Live) + Cardinality(Handing) + Len(backlog) + Cardinality(running)
<1>0. (WaitGroupExact <=> wg = Sum) /\ (WaitGroupExact' <=> wg' = Sum')
  BY DEF WaitGroupExact, Live, Handing
<1>1. CASE UNCHANGED <<wg, listener, backlog, running>>
  BY <1>1 DEF WaitGroupExact
<1>2. ASSUME NEW s \in Service, StartListener(s)
      PROVE  wg' = Sum'
  <2>1. /\ Moves(s, "off", "top")
        /\ wg' = wg + 1 /\ UNCHANGED <<backlog, running>>
    BY <1>2 DEF StartListener, TodoInv, poolVars, Moves
  <2>2. Cardinality(Live') = Cardinality(Live) + 1
    BY <2>1, LiveFacts
  <2>3. Cardinality(Handing') = Cardinality(Handing)
    BY <2>1, HandingFacts
  <2> QED
    BY <1>0, <2>1, <2>2, <2>3, CountFacts
<1>3. ASSUME NEW s \in Service, LoopStep(s)
      PROVE  wg' = Sum'
  <2>1. UNCHANGED <<backlog, running>>
    BY <1>3, LoopFrame DEF poolVars
  <2>2. CASE ListenerExit(s)
    <3>1. (Moves(s, "top", "gone") \/ Moves(s, "read", "gone")) /\ wg' = wg - 1
      BY <2>2 DEF ListenerExit, Moves
    <3>2. Cardinality(Live') = Cardinality(Live) - 1
      BY <3>1, LiveFacts
    <3>3. Cardinality(Handing') = Cardinality(Handing)
      BY <3>1, HandingFacts
    <3> QED
      BY <1>0, <2>1, <3>1, <3>2, <3>3, CountFacts
  <2>3. CASE EnterRead(s)
    <3>1. /\ Moves(s, "top", "read") /\ wg' = wg
      BY <2>3 DEF EnterRead, Moves
    <3>2. Cardinality(Live') = Cardinality(Live)
      BY <3>1, LiveFacts
    <3>3. Cardinality(Handing') = Cardinality(Handing)
      BY <3>1, HandingFacts
    <3> QED
      BY <1>0, <2>1, <3>1, <3>2, <3>3, CountFacts
  <2>4. CASE ReadTimeout(s)
    <3>1. /\ Moves(s, "read", "top") /\ wg' = wg
      BY <2>4 DEF ReadTimeout, Moves
    <3>2. Cardinality(Live') = Cardinality(Live)
      BY <3>1, LiveFacts
    <3>3. Cardinality(Handing') = Cardinality(Handing)
      BY <3>1, HandingFacts
    <3> QED
      BY <1>0, <2>1, <3>1, <3>2, <3>3, CountFacts
  <2>5. CASE CountError(s)
    <3>1. /\ Moves(s, "refused", "top")
          /\ wg' = wg - 1
      BY <2>5 DEF CountError, Moves
    <3>2. Cardinality(Live') = Cardinality(Live)
      BY <3>1, LiveFacts
    <3>3. Cardinality(Handing') = Cardinality(Handing) - 1
      BY <3>1, HandingFacts
    <3> QED
      BY <1>0, <2>1, <3>1, <3>2, <3>3, CountFacts
  <2> QED
    BY <1>3, <2>2, <2>3, <2>4, <2>5 DEF LoopStep
<1>4. ASSUME NEW s \in Service, NEW r \in Request, Read(s, r)
      PROVE  wg' = Sum'
  <2>1. /\ Moves(s, "read", "submit")
        /\ wg' = wg + 1 /\ UNCHANGED <<backlog, running>>
    BY <1>4 DEF Read, poolVars, Moves
  <2>2. Cardinality(Live') = Cardinality(Live)
    BY <2>1, LiveFacts
  <2>3. Cardinality(Handing') = Cardinality(Handing) + 1
    BY <2>1, HandingFacts
  <2> QED
    BY <1>0, <2>1, <2>2, <2>3, CountFacts
<1>5. ASSUME NEW s \in Service, SubmitAccepted(s)
      PROVE  wg' = Sum'
  <2>1. /\ Moves(s, "submit", "top")
        /\ wg' = wg /\ Pool!Accept(inHand[s])
    BY <1>5 DEF SubmitAccepted, Moves
  <2>2. Len(backlog') = Len(backlog) + 1 /\ UNCHANGED running
    BY <2>1, AcceptFacts
  <2>3. Cardinality(Live') = Cardinality(Live)
    BY <2>1, LiveFacts
  <2>4. Cardinality(Handing') = Cardinality(Handing) - 1
    BY <2>1, HandingFacts
  <2> QED
    BY <1>0, <2>1, <2>2, <2>3, <2>4, CountFacts
<1>6. ASSUME NEW s \in Service, SubmitRefused(s)
      PROVE  wg' = Sum'
  <2>1. /\ Moves(s, "submit", "refused")
        /\ wg' = wg /\ Pool!Refuse(inHand[s])
    BY <1>6 DEF SubmitRefused, Moves
  <2>2. UNCHANGED <<backlog, running>>
    BY <2>1, RefuseFacts
  <2>3. Cardinality(Live') = Cardinality(Live)
    BY <2>1, LiveFacts
  <2>4. Cardinality(Handing') = Cardinality(Handing)
    BY <2>1, HandingFacts
  <2> QED
    BY <1>0, <2>1, <2>2, <2>3, <2>4, CountFacts
<1>7. CASE BeginTask
  <2>1. Pool!Begin /\ UNCHANGED <<wg, listener>>
    BY <1>7 DEF BeginTask, HandlerStep, listenerVars
  <2>2. Len(backlog) = Len(backlog') + 1 /\ Len(backlog') \in Nat
    BY <2>1, BeginFacts
  <2>3. Cardinality(running') = Cardinality(running) + 1
    <3>1. running \subseteq Request
      BY DEF PoolInv
    <3> QED
      BY <2>1, <3>1, BeginFacts, FiniteSets, FS_AddElement
  <2>4. Live' = Live /\ Handing' = Handing
    BY <2>1 DEF Live, Handing
  <2> HIDE DEF Live, Handing
  <2> QED
    BY <1>0, <2>1, <2>2, <2>3, <2>4, CountFacts
<1>8. ASSUME NEW r \in Request, Reply(r)
      PROVE  wg' = Sum'
  <2>1. Pool!End(r) /\ wg' = wg - 1 /\ UNCHANGED listener
    BY <1>8 DEF Reply, HandlerStep, listenerVars
  <2>2. UNCHANGED backlog
    BY <2>1, EndFacts
  <2>3. Cardinality(running') = Cardinality(running) - 1
    <3>1. running \subseteq Request
      BY DEF PoolInv
    <3> QED
      BY <2>1, <3>1, EndFacts, FiniteSets, FS_RemoveElement
  <2>4. Live' = Live /\ Handing' = Handing
    BY <2>1 DEF Live, Handing
  <2> QED
    BY <1>0, <2>1, <2>2, <2>3, <2>4, CountFacts
<1> QED
  BY <1>0, <1>1, <1>2, <1>3, <1>4, <1>5, <1>6, <1>7, <1>8, StepCases, MainFrame, HandlerFrame
  DEF SubmitPanics, poolVars, listenerVars

\* So the counter never goes below zero: sync.WaitGroup would panic.
LEMMA CounterIsNat ==
    ASSUME PoolInv', WaitGroupExact'
    PROVE  wg' \in Nat
<1>1. Live' \in SUBSET Service /\ Handing' \in SUBSET Service
  BY DEF Live, Handing
<1>2. Len(backlog') \in Nat /\ running' \in SUBSET Request
  BY DEF PoolInv
<1>3. wg' = Cardinality(Live') + Cardinality(Handing') + Len(backlog') + Cardinality(running')
  BY DEF WaitGroupExact, Live, Handing
<1>4. /\ Cardinality(Live') \in Nat /\ Cardinality(Handing') \in Nat
      /\ Cardinality(running') \in Nat
  BY <1>1, <1>2, FiniteSets
<1> HIDE DEF Live, Handing
<1> QED
  BY <1>2, <1>3, <1>4

-----------------------------------------------------------------------------
(* Types, and the registry.                                                 *)

\* A registration writes both maps or none; the port of a service is its own.
LEMMA RegistryStep ==
    ASSUME Registry!RegistryTypeOK, RegistryConsistent, NEW s \in Offered,
           Registry!RegisterService(s)
    PROVE  Registry!RegistryTypeOK' /\ RegistryConsistent'
<1> USE DEF Registry!RegistryTypeOK, Registry!Types, Registry!Ports, RegistryConsistent,
            Registry!Consistent, Registry!GetServicePort, Registry!GetServiceByPort
<1>1. CASE UNCHANGED <<services, ports>>
  BY <1>1
<1>2. CASE /\ s \notin DOMAIN services /\ s \notin DOMAIN ports
           /\ services' = Registry!Put(services, s, s) /\ ports' = Registry!Put(ports, s, s)
  <2>1. /\ DOMAIN services' = DOMAIN services \union {s} /\ services'[s] = s
        /\ \A t \in DOMAIN services : services'[t] = services[t]
    BY <1>2 DEF Registry!Put
  <2>2. /\ DOMAIN ports' = DOMAIN ports \union {s} /\ ports'[s] = s
        /\ \A q \in DOMAIN ports : ports'[q] = ports[q]
    BY <1>2 DEF Registry!Put
  <2>3. /\ Registry!RegistryTypeOK'
        /\ \A t \in DOMAIN services' : services'[t] = t /\ t \in DOMAIN ports' /\ ports'[t] = t
        /\ \A q \in DOMAIN ports' : ports'[q] \in DOMAIN services' /\ services'[ports'[q]] = q
    BY <2>1, <2>2
  <2> QED
    BY <2>3
<1> QED
  BY <1>1, <1>2 DEF Registry!RegisterService, Registry!ErrServiceExists, Registry!ErrPortInUse,
                    Registry!registryVars

LEMMA ConsistentStep ==
    ASSUME TypeOK, RegistryConsistent, [Next]_vars
    PROVE  Registry!RegistryTypeOK' /\ RegistryConsistent'
<1>1. CASE UNCHANGED <<services, ports>>
  BY <1>1 DEF TypeOK, Registry!RegistryTypeOK, RegistryConsistent, Registry!Consistent,
              Registry!GetServicePort, Registry!GetServiceByPort
<1>2. ASSUME NEW s \in Service, RegisterService(s)
      PROVE  Registry!RegistryTypeOK' /\ RegistryConsistent'
  BY <1>2, RegistryStep DEF TypeOK, RegisterService
<1>3. ASSUME MainOnly, ~\E s \in Service : RegisterService(s)
      PROVE  UNCHANGED <<services, ports>>
  BY <1>3 DEF MainOnly, SkipService, BeginStart, RecordService, EndStart, Cancel, StopStep,
              CloseSockets, StopPool, PoolStopped, WaitAll, GiveUp, MainStep, registryVars
<1> QED
  BY <1>1, <1>2, <1>3, StepCases, LoopFrame, HandlerFrame
  DEF StartListener, SubmitAccepted, SubmitRefused, SubmitPanics, Read, BeginTask, Reply,
      HandlerStep, registryVars, vars

LEMMA TypeStep ==
    ASSUME TypeOK, TodoInv, PoolInv, Next, Registry!RegistryTypeOK', wg' \in Nat
    PROVE  TypeOK'
<1> USE DEF poolVars, registryVars, mainVars, readVars, listenerVars, statsVars, handlerVars
<1>1. CASE MainOnly
  <2>1. CASE \E s \in Service : RegisterService(s) \/ SkipService(s)
    BY <2>1 DEF RegisterService, SkipService, TypeOK
  <2>2. CASE BeginStart \/ RecordService \/ EndStart
    BY <2>2 DEF BeginStart, RecordService, EndStart, TypeOK, TodoInv
  <2>3. CASE Cancel \/ StopStep \/ GiveUp
    BY <2>3 DEF Cancel, StopStep, CloseSockets, StopPool, PoolStopped, WaitAll, GiveUp, MainStep, TypeOK
  <2> QED
    BY <1>1, <2>1, <2>2, <2>3 DEF MainOnly
<1>2. ASSUME NEW s \in Service, StartListener(s) \/ LoopStep(s)
      PROVE  TypeOK'
  <2>1. CASE StartListener(s)
    BY <2>1 DEF StartListener, TypeOK
  <2>2. CASE ListenerExit(s)
    BY <2>2 DEF ListenerExit, TypeOK
  <2>3. CASE EnterRead(s)
    BY <2>3 DEF EnterRead, TypeOK
  <2>4. CASE ReadTimeout(s)
    BY <2>4 DEF ReadTimeout, TypeOK
  <2>5. CASE CountError(s)
    <3>1. panicked' \in BOOLEAN
      BY <2>5 DEF CountError, MapRace
    <3>2. errors' \in [Service -> Nat]
      BY <2>5 DEF CountError, TypeOK
    <3> QED
      BY <2>5, <3>1, <3>2 DEF CountError, TypeOK
  <2> QED
    BY <1>2, <2>1, <2>2, <2>3, <2>4, <2>5 DEF LoopStep
<1>3. ASSUME NEW s \in Service,
             SubmitAccepted(s) \/ SubmitRefused(s) \/ SubmitPanics(s)
      PROVE  TypeOK'
  <2>1. CASE SubmitAccepted(s)
    BY <2>1 DEF SubmitAccepted, TypeOK
  <2>2. CASE SubmitRefused(s)
    BY <2>2 DEF SubmitRefused, TypeOK
  <2>3. CASE SubmitPanics(s)
    BY <2>3 DEF SubmitPanics, TypeOK
  <2> QED
    BY <1>3, <2>1, <2>2, <2>3
<1>4. ASSUME NEW s \in Service, NEW r \in Request, Read(s, r)
      PROVE  TypeOK'
  BY <1>4 DEF Read, TypeOK
<1>5. CASE BeginTask
  BY <1>5 DEF BeginTask, HandlerStep, TypeOK, Phases
<1>6. ASSUME NEW r \in Request, CountStep(r) \/ Reply(r)
      PROVE  TypeOK'
  <2>0. To[r] \in Service
    BY ToService
  <2>1. CASE CountReceived(r)
    <3>1. panicked' \in BOOLEAN
      BY <2>1 DEF CountReceived, MapRace
    <3>2. received' \in [Service -> Nat]
      BY <2>0, <2>1 DEF CountReceived, TypeOK
    <3> QED
      BY <2>1, <3>1, <3>2 DEF CountReceived, HandlerStep, TypeOK, Phases
  <2>2. CASE Parse(r)
    BY <2>0, <2>2 DEF Parse, HandlerStep, TypeOK, Phases
  <2>3. CASE CountProcessed(r)
    <3>1. panicked' \in BOOLEAN
      BY <2>3 DEF CountProcessed, MapRace
    <3>2. processed' \in [Service -> Nat]
      BY <2>0, <2>3 DEF CountProcessed, TypeOK
    <3> QED
      BY <2>3, <3>1, <3>2 DEF CountProcessed, HandlerStep, TypeOK, Phases
  <2>4. CASE Reply(r)
    BY <2>4 DEF Reply, HandlerStep, TypeOK, Phases
  <2> QED
    BY <1>6, <2>1, <2>2, <2>3, <2>4 DEF CountStep
<1> QED
  BY <1>1, <1>2, <1>3, <1>4, <1>5, <1>6, StepCases

-----------------------------------------------------------------------------
(* Nothing is lost, and Stop is the end.                                    *)

\* A datagram goes from hand to hand: listener, queue, worker, and then it is settled.
LEMMA NothingLostStep ==
    ASSUME TypeOK, TodoInv, PoolInv, ReadInv, NothingLost, Next
    PROVE  NothingLost'
<1> USE DEF NothingLost, Settled, InSubmit, Queued
<1>1. CASE UNCHANGED <<net, listener, inHand, backlog, running, finished, refused>>
  BY <1>1
<1>2. ASSUME NEW s \in Service, listener[s] # "submit",
             UNCHANGED <<net, inHand, backlog, running, finished, refused>>,
             \A x \in Service \ {s} : listener'[x] = listener[x]
      PROVE  NothingLost'
  BY <1>2
<1>3. ASSUME NEW s \in Service, StartListener(s)
      PROVE  NothingLost'
  BY <1>2, <1>3 DEF StartListener, TodoInv, TypeOK, poolVars, readVars
<1>4. ASSUME NEW s \in Service, LoopStep(s)
      PROVE  NothingLost'
  BY <1>2, <1>4, LoopFrame DEF TypeOK, poolVars, readVars
<1>5. ASSUME NEW s \in Service, SubmitAccepted(s)
      PROVE  NothingLost'
  <2>1. /\ Pool!Accept(inHand[s]) /\ UNCHANGED net
        /\ \A x \in Service \ {s} : listener'[x] = listener[x] /\ inHand'[x] = inHand[x]
    BY <1>5 DEF SubmitAccepted, TypeOK, readVars
  <2>2. /\ UNCHANGED <<running, finished, refused>>
        /\ \A i \in DOMAIN backlog : i \in DOMAIN backlog' /\ backlog'[i] = backlog[i]
        /\ \E i \in DOMAIN backlog' : backlog'[i] = inHand[s]
    BY <2>1, AcceptFacts
  <2> QED
    BY <2>1, <2>2
<1>6. ASSUME NEW s \in Service, SubmitRefused(s)
      PROVE  NothingLost'
  <2>1. /\ Pool!Refuse(inHand[s]) /\ UNCHANGED net
        /\ \A x \in Service \ {s} : listener'[x] = listener[x] /\ inHand'[x] = inHand[x]
    BY <1>6 DEF SubmitRefused, TypeOK, readVars
  <2> QED
    BY <2>1, RefuseFacts
<1>7. ASSUME NEW s \in Service, NEW r \in Request, Read(s, r)
      PROVE  NothingLost'
  <2>1. /\ UNCHANGED <<backlog, running, finished, refused>> /\ net' = net \ {r}
        /\ listener[s] = "read" /\ listener'[s] = "submit" /\ inHand'[s] = r
        /\ \A x \in Service \ {s} : listener'[x] = listener[x] /\ inHand'[x] = inHand[x]
    BY <1>7 DEF Read, TypeOK, poolVars
  <2> QED
    BY <2>1
<1>8. CASE BeginTask
  <2>1. Pool!Begin /\ UNCHANGED <<net, listener, inHand>>
    BY <1>8 DEF BeginTask, HandlerStep, listenerVars, readVars
  <2>2. /\ running' = running \union {Head(backlog)} /\ UNCHANGED <<finished, refused>>
    BY <2>1, BeginFacts
  <2>3. ASSUME NEW i \in DOMAIN backlog
        PROVE  \/ backlog[i] = Head(backlog)
               \/ \E j \in DOMAIN backlog' : backlog'[j] = backlog[i]
    <3>1. backlog \in Seq(Request) /\ i \in Int
      BY DEF PoolInv
    <3>2. CASE i = 1
      BY <3>1, <3>2
    <3>3. CASE i # 1
      <4>1. i - 1 \in DOMAIN backlog' /\ backlog'[i - 1] = backlog[(i - 1) + 1]
        BY <2>1, <3>3, BeginFacts
      <4>2. (i - 1) + 1 = i
        BY <3>1
      <4> QED
        BY <4>1, <4>2
    <3> QED
      BY <3>2, <3>3
  <2> QED
    BY <2>1, <2>2, <2>3
<1>9. ASSUME NEW r \in Request, Reply(r)
      PROVE  NothingLost'
  <2>1. Pool!End(r) /\ UNCHANGED <<net, listener, inHand>>
    BY <1>9 DEF Reply, HandlerStep, listenerVars, readVars
  <2> QED
    BY <2>1, EndFacts
<1> QED
  BY <1>1, <1>3, <1>4, <1>5, <1>6, <1>7, <1>8, <1>9, StepCases, MainFrame, HandlerFrame
  DEF SubmitPanics, poolVars, listenerVars, readVars

\* The counter is zero only when there is nothing left to count.
LEMMA ZeroFacts ==
    ASSUME PoolInv, WaitGroupExact, wg = 0
    PROVE  /\ \A s \in Service : listener[s] \in {"off", "gone"}
           /\ running = {} /\ backlog = <<>>
<1>1. Cardinality(Live) + Cardinality(Handing) + Len(backlog) + Cardinality(running) = 0
  BY DEF WaitGroupExact, Live, Handing
<1>2. Cardinality(Live) = 0 /\ Cardinality(running) = 0 /\ Len(backlog) = 0
  BY <1>1, CountFacts
<1>3. IsFiniteSet(Live) /\ IsFiniteSet(running) /\ backlog \in Seq(Request)
  BY FiniteSets DEF Live, PoolInv
<1>4. Live = {} /\ running = {} /\ backlog = <<>>
  BY <1>2, <1>3, FS_EmptySet, EmptySeq
<1> QED
  BY <1>4 DEF Live

LEMMA StoppedStep ==
    ASSUME TypeOK, PoolInv, WaitGroupExact, StoppedInv, Next
    PROVE  StoppedInv'
<1> SUFFICES ASSUME main' = "stopped" PROVE wg' = 0
  BY DEF StoppedInv
<1>1. CASE MainOnly
  BY <1>1, MainFrame DEF StoppedInv
<1>2. CASE ~MainOnly
  <2>1. main = "stopped"
    BY <1>2, StepCases, LoopFrame, HandlerFrame
    DEF StartListener, SubmitAccepted, SubmitRefused, SubmitPanics, Read, BeginTask, Reply,
        HandlerStep, mainVars
  <2>2. wg = 0
    BY <2>1 DEF StoppedInv
  <2>3. /\ \A s \in Service : listener[s] \in {"off", "gone"}
        /\ running = {} /\ backlog = <<>>
    BY <2>2, ZeroFacts
  <2>4. ASSUME NEW s \in Service
        PROVE  /\ ~StartListener(s) /\ ~LoopStep(s) /\ ~SubmitAccepted(s) /\ ~SubmitRefused(s)
               /\ \A r \in Request : ~Read(s, r)
    BY <2>1, <2>3, LoopFrame DEF StartListener, SubmitAccepted, SubmitRefused, Read
  <2>5. \A r \in Request : ~Reply(r)
    BY <2>3, EndFacts DEF Reply
  <2>6. ~BeginTask
    BY <2>3 DEF BeginTask, Pool!Begin
  <2> QED
    BY <1>2, <2>2, <2>4, <2>5, <2>6, StepCases, HandlerFrame DEF SubmitPanics
<1> QED
  BY <1>1, <1>2

LEMMA StopFacts ==
    ASSUME TypeOK, PoolInv, WaitGroupExact, NothingLost, StoppedInv
    PROVE  StopIsFinal
<1> SUFFICES ASSUME main = "stopped"
             PROVE  /\ \A s \in Service : listener[s] \in {"off", "gone"}
                    /\ running = {} /\ backlog = <<>>
                    /\ net \union refused \union finished = Request
  BY DEF StopIsFinal
<1>1. /\ \A s \in Service : listener[s] \in {"off", "gone"}
      /\ running = {} /\ backlog = <<>>
  BY ZeroFacts DEF StoppedInv
<1>2. \A r \in Request : r \in net \union refused \union finished
  BY <1>1 DEF NothingLost, Settled, InSubmit, Queued
<1>3. net \union refused \union finished \subseteq Request
  BY DEF TypeOK, PoolInv
<1> QED
  BY <1>1, <1>2, <1>3

-----------------------------------------------------------------------------
(* What handlers see.                                                       *)

\* Nothing but Read touches a buffer, the log or net.
LEMMA ReadVarsFrame ==
    ASSUME TypeOK, Next, ~\E s \in Service, r \in Request : Read(s, r)
    PROVE  UNCHANGED readVars
  BY StepCases, MainFrame, LoopFrame, HandlerFrame
  DEF StartListener, SubmitAccepted, SubmitRefused, SubmitPanics, BeginTask, Reply, HandlerStep,
      listenerVars

LEMMA ReadFacts ==
    ASSUME TypeOK, LogInv, NEW s \in Service, NEW r \in Request, Read(s, r)
    PROVE  /\ log' \in [Service -> Seq(Request)]
           /\ \A x \in Service \ {s} : log'[x] = log[x] /\ buffer'[x] = buffer[x]
           /\ buffer'[s] = r /\ log'[s] = Append(log[s], r) /\ log[s] \in Seq(Request)
           /\ r \in net /\ net' = net \ {r} /\ To[r] = s
  BY DEF Read, LogInv, TypeOK

\* A log only grows.
LEMMA LogGrows ==
    ASSUME TypeOK, LogInv, Next, NEW s \in Service, NEW i \in DOMAIN log[s]
    PROVE  i \in DOMAIN log'[s] /\ log'[s][i] = log[s][i]
<1>1. CASE \E x \in Service, r \in Request : Read(x, r)
  <2>1. PICK x \in Service, r \in Request : Read(x, r)
    BY <1>1
  <2>2. CASE x = s
    <3>1. log'[s] = Append(log[s], r) /\ log[s] \in Seq(Request)
      BY <2>1, <2>2, ReadFacts
    <3> QED
      BY <3>1, AppendProperties
  <2>3. CASE x # s
    BY <2>1, <2>3, ReadFacts
  <2> QED
    BY <2>2, <2>3
<1>2. CASE ~\E x \in Service, r \in Request : Read(x, r)
  BY <1>2, ReadVarsFrame DEF readVars
<1> QED
  BY <1>1, <1>2

\* Read puts the datagram into the buffer and at the end of the log.
LEMMA LogStep ==
    ASSUME TypeOK, LogInv, Next
    PROVE  LogInv'
<1>1. ASSUME NEW s \in Service, NEW r \in Request, Read(s, r)
      PROVE  LogInv'
  <2>1. /\ Len(log'[s]) = Len(log[s]) + 1 /\ Len(log[s]) \in Nat
        /\ log'[s][Len(log[s]) + 1] = r /\ DOMAIN log'[s] = 1..(Len(log[s]) + 1)
    BY <1>1, ReadFacts, AppendProperties
  <2>2. ASSUME NEW x \in Service, log'[x] # <<>>
        PROVE  buffer'[x] = log'[x][Len(log'[x])]
    <3>1. CASE x = s
      BY <1>1, <2>1, <3>1, ReadFacts
    <3>2. CASE x # s
      BY <1>1, <2>2, <3>2, ReadFacts DEF LogInv
    <3> QED
      BY <3>1, <3>2
  <2>3. ASSUME NEW q \in Request \ net'
        PROVE  \E i \in DOMAIN log'[To[q]] : log'[To[q]][i] = q
    <3>1. CASE q = r
      <4>1. Len(log[s]) + 1 \in DOMAIN log'[s]
        BY <2>1
      <4> QED
        BY <1>1, <2>1, <3>1, <4>1, ReadFacts
    <3>2. CASE q # r
      <4>1. q \in Request \ net
        BY <1>1, <3>2, ReadFacts
      <4>2. PICK i \in DOMAIN log[To[q]] : log[To[q]][i] = q
        BY <4>1 DEF LogInv
      <4> QED
        BY <4>2, LogGrows, ToService
    <3> QED
      BY <3>1, <3>2
  <2> QED
    BY <1>1, <2>2, <2>3, ReadFacts DEF LogInv
<1>2. CASE UNCHANGED readVars
  BY <1>2 DEF readVars, LogInv
<1> QED
  BY <1>1, <1>2, ReadVarsFrame

\* parseRequest reads the buffer after the datagram was put there.
LEMMA SeenStep ==
    ASSUME TypeOK, ReadInv, LogInv, SeenNotOlder, Next
    PROVE  SeenNotOlder'
<1> SUFFICES ASSUME NEW r \in Request, seen'[r] \in Request
             PROVE  \E i, j \in DOMAIN log'[To[r]] :
                       i <= j /\ log'[To[r]][i] = r /\ log'[To[r]][j] = seen'[r]
  BY DEF SeenNotOlder
<1>1. CASE seen'[r] = seen[r]
  <2>1. PICK i, j \in DOMAIN log[To[r]] :
           i <= j /\ log[To[r]][i] = r /\ log[To[r]][j] = seen[r]
    BY <1>1 DEF SeenNotOlder
  <2> QED
    BY <1>1, <2>1, LogGrows, ToService
<1>2. CASE Parse(r)
  <2>1. seen'[r] = buffer[To[r]] /\ phase[r] = "parse" /\ UNCHANGED log
    BY <1>2, ToService DEF Parse, HandlerStep, TypeOK, listenerVars, readVars
  <2>2. PICK i \in DOMAIN log[To[r]] : log[To[r]][i] = r
    BY <2>1 DEF ReadInv, LogInv
  <2>3. log[To[r]] \in Seq(Request) /\ To[r] \in Service
    BY ToService DEF LogInv
  <2>4. log[To[r]] # <<>> /\ i \in 1..Len(log[To[r]]) /\ Len(log[To[r]]) \in DOMAIN log[To[r]]
    BY <2>2, <2>3
  <2>5. seen'[r] = log[To[r]][Len(log[To[r]])]
    BY <2>1, <2>3, <2>4 DEF LogInv
  <2>6. i <= Len(log[To[r]])
    BY <2>4
  <2> QED
    BY <2>1, <2>2, <2>4, <2>5, <2>6
<1>3. ASSUME ~Parse(r), seen'[r] # seen[r]
      PROVE  FALSE
  <2>1. \A q \in Request : ~(Parse(q) /\ q # r)
    BY <1>3 DEF Parse, TypeOK
  <2>2. ASSUME NEW q \in Request, CountReceived(q) \/ CountProcessed(q) \/ Reply(q)
        PROVE  FALSE
    BY <1>3, <2>2 DEF CountReceived, CountProcessed, Reply
  <2> QED
    BY <1>3, <2>1, <2>2, StepCases, MainFrame, LoopFrame
    DEF CountStep, StartListener, SubmitAccepted, SubmitRefused, SubmitPanics, Read, BeginTask,
        handlerVars
<1> QED
  BY <1>1, <1>2, <1>3

-----------------------------------------------------------------------------
(* The statistics.                                                          *)

LEMMA EarlyStep ==
    ASSUME TypeOK, EarlyInv, Next
    PROVE  EarlyInv'
<1>1. ASSUME NEW s \in Service, NEW r \in Request, Read(s, r)
      PROVE  EarlyInv'
  BY <1>1 DEF Read, EarlyInv, statsVars
<1>2. CASE UNCHANGED readVars /\ recorded \subseteq recorded'
  BY <1>2 DEF EarlyInv, readVars
<1> QED
  BY <1>1, <1>2, ReadVarsFrame, StepCases, MainFrame, LoopFrame, HandlerFrame
  DEF StartListener, SubmitAccepted, SubmitRefused, SubmitPanics, BeginTask, Reply, statsVars

\* A handler that goes from one phase to another joins or leaves only the sets of handlers
\* of its own service, and only those that tell the two phases apart.
Proceeds(r, from, to) == phase[r] = from /\ phase' = [phase EXCEPT ![r] = to]

LEMMA SameHandlers ==
    ASSUME TypeOK, NEW r \in Request, NEW from, NEW to, Proceeds(r, from, to),
           NEW P, from \in P <=> to \in P, NEW s \in Service
    PROVE  In(s, P)' = In(s, P)
  BY DEF TypeOK, Proceeds, In

LEMMA OneHandlerMore ==
    ASSUME TypeOK, NEW r \in Request, NEW from, NEW to, Proceeds(r, from, to),
           NEW P, from \notin P, to \in P
    PROVE  /\ In(To[r], P)' = In(To[r], P) \union {r} /\ r \notin In(To[r], P)
           /\ \A s \in Service \ {To[r]} : In(s, P)' = In(s, P)
  BY DEF TypeOK, Proceeds, In

\* A counter with the bounds of StatsExact keeps them when one more handler has passed it
\* and has counted, unless there was no entry and its datagram is one of the early ones.
LEMMA CountOne ==
    ASSUME NEW S \in SUBSET Request, NEW r \in Request \ S, NEW E, NEW n \in Nat, NEW m,
           n \in Cardinality(S \ E)..Cardinality(S),
           m = n + 1 \/ (m = n /\ r \in E)
    PROVE  m \in Cardinality((S \union {r}) \ E)..Cardinality(S \union {r})
<1>1. /\ IsFiniteSet(S) /\ IsFiniteSet(S \ E)
      /\ Cardinality(S) \in Nat /\ Cardinality(S \ E) \in Nat
  BY FiniteSets
<1>2. Cardinality(S \union {r}) = Cardinality(S) + 1
  BY <1>1, FS_AddElement
<1>3. CASE r \in E
  <2>1. Cardinality((S \union {r}) \ E) = Cardinality(S \ E)
    <3>1. (S \union {r}) \ E = S \ E
      BY <1>3
    <3> QED
      BY <3>1
  <2>2. Cardinality(S \ E) <= m /\ m <= Cardinality(S) + 1 /\ m \in Int
    BY <1>1
  <2> QED
    BY <1>1, <1>2, <2>1, <2>2
<1>4. CASE r \notin E
  <2>1. (S \union {r}) \ E = (S \ E) \union {r} /\ r \notin S \ E
    BY <1>4
  <2>2. Cardinality((S \union {r}) \ E) = Cardinality(S \ E) + 1
    BY <1>1, <2>1, FS_AddElement
  <2> QED
    BY <1>1, <1>2, <1>4, <2>2
<1> QED
  BY <1>3, <1>4

\* A handler counts only after its datagram was read, and then the service has an entry or
\* the datagram is early.
LEMMA CountStatsStep ==
    ASSUME TypeOK, PoolInv, ReadInv, EarlyInv, CountInv, Next
    PROVE  CountInv'
<1> DEFINE BegunPhases == {"parse", "processed", "reply", "done"}
           EndedPhases == {"reply", "done"}
<1>1. ASSUME \A s \in Service : Begun(s)' = Begun(s) /\ Ended(s)' = Ended(s),
             UNCHANGED <<early, received, processed>>
      PROVE  CountInv'
  BY <1>1 DEF CountInv
<1>2. CASE UNCHANGED <<phase, early, received, processed>>
  BY <1>1, <1>2 DEF Begun, Ended, In
<1>3. ASSUME NEW x \in Service, NEW q \in Request, Read(x, q)
      PROVE  CountInv'
  <2>1. /\ UNCHANGED <<phase, received, processed>> /\ q \in net
        /\ early' = early \/ early' = early \union {q}
    BY <1>3 DEF Read, statsVars, handlerVars
  <2>2. \A s \in Service : q \notin Begun(s) /\ q \notin Ended(s)
    BY <2>1 DEF ReadInv, Begun, Ended, In
  <2>3. \A s \in Service : Begun(s)' = Begun(s) /\ Ended(s)' = Ended(s)
    BY <2>1 DEF Begun, Ended, In
  <2>4. \A s \in Service : Begun(s)' \ early' = Begun(s) \ early
                           /\ Ended(s)' \ early' = Ended(s) \ early
    BY <2>1, <2>2, <2>3
  <2> QED
    BY <2>1, <2>3, <2>4 DEF CountInv
<1>4. CASE BeginTask
  <2>1. PICK r \in Request :
           Proceeds(r, "none", "received") /\ UNCHANGED <<early, received, processed>>
    BY <1>4, BeginFacts DEF BeginTask, HandlerStep, Proceeds, statsVars, listenerVars, readVars
  <2>2. \A s \in Service : Begun(s)' = Begun(s) /\ Ended(s)' = Ended(s)
    BY <2>1, SameHandlers DEF Begun, Ended
  <2> QED
    BY <1>1, <2>1, <2>2
<1>5. ASSUME NEW r \in Request, CountReceived(r)
      PROVE  CountInv'
  <2>1. /\ Proceeds(r, "received", "parse") /\ UNCHANGED <<early, processed, recorded>>
        /\ received' = [received EXCEPT ![To[r]] = IF To[r] \in recorded THEN @ + 1 ELSE @]
    BY <1>5 DEF CountReceived, HandlerStep, Proceeds, listenerVars, readVars
  <2>2. /\ Begun(To[r])' = Begun(To[r]) \union {r} /\ r \notin Begun(To[r])
        /\ \A s \in Service \ {To[r]} : Begun(s)' = Begun(s)
    BY <2>1, OneHandlerMore DEF Begun
  <2>3. \A s \in Service : Ended(s)' = Ended(s)
    BY <2>1, SameHandlers DEF Ended
  <2>4. To[r] \in recorded \/ r \in early
    BY <2>1 DEF Proceeds, ReadInv, EarlyInv
  <2>5. /\ To[r] \in Service /\ received[To[r]] \in Nat
        /\ \/ received'[To[r]] = received[To[r]] + 1
           \/ received'[To[r]] = received[To[r]] /\ r \in early
    BY <2>1, <2>4, ToService DEF TypeOK
  <2>6. Begun(To[r]) \in SUBSET Request
        /\ received[To[r]] \in Cardinality(Begun(To[r]) \ early)..Cardinality(Begun(To[r]))
    BY <2>5 DEF Begun, In, CountInv
  <2>7. received'[To[r]] \in Cardinality(Begun(To[r])' \ early')..Cardinality(Begun(To[r])')
    BY <2>1, <2>2, <2>5, <2>6, CountOne
  <2>8. \A s \in Service \ {To[r]} : received'[s] = received[s]
    BY <2>1 DEF TypeOK
  <2> QED
    BY <2>1, <2>2, <2>3, <2>7, <2>8 DEF CountInv
<1>6. ASSUME NEW r \in Request, Parse(r)
      PROVE  CountInv'
  <2>1. Proceeds(r, "parse", "processed") /\ UNCHANGED <<early, received, processed>>
    BY <1>6 DEF Parse, HandlerStep, Proceeds, statsVars, listenerVars, readVars
  <2>2. \A s \in Service : Begun(s)' = Begun(s) /\ Ended(s)' = Ended(s)
    BY <2>1, SameHandlers DEF Begun, Ended
  <2> QED
    BY <1>1, <2>1, <2>2
<1>7. ASSUME NEW r \in Request, CountProcessed(r)
      PROVE  CountInv'
  <2>1. /\ Proceeds(r, "processed", "reply") /\ UNCHANGED <<early, received, recorded>>
        /\ processed' = [processed EXCEPT ![To[r]] = IF To[r] \in recorded THEN @ + 1 ELSE @]
    BY <1>7 DEF CountProcessed, HandlerStep, Proceeds, listenerVars, readVars
  <2>2. /\ Ended(To[r])' = Ended(To[r]) \union {r} /\ r \notin Ended(To[r])
        /\ \A s \in Service \ {To[r]} : Ended(s)' = Ended(s)
    BY <2>1, OneHandlerMore DEF Ended
  <2>3. \A s \in Service : Begun(s)' = Begun(s)
    BY <2>1, SameHandlers DEF Begun
  <2>4. To[r] \in recorded \/ r \in early
    BY <2>1 DEF Proceeds, ReadInv, EarlyInv
  <2>5. /\ To[r] \in Service /\ processed[To[r]] \in Nat
        /\ \/ processed'[To[r]] = processed[To[r]] + 1
           \/ processed'[To[r]] = processed[To[r]] /\ r \in early
    BY <2>1, <2>4, ToService DEF TypeOK
  <2>6. Ended(To[r]) \in SUBSET Request
        /\ processed[To[r]] \in Cardinality(Ended(To[r]) \ early)..Cardinality(Ended(To[r]))
    BY <2>5 DEF Ended, In, CountInv
  <2>7. processed'[To[r]] \in Cardinality(Ended(To[r])' \ early')..Cardinality(Ended(To[r])')
    BY <2>1, <2>2, <2>5, <2>6, CountOne
  <2>8. \A s \in Service \ {To[r]} : processed'[s] = processed[s]
    BY <2>1 DEF TypeOK
  <2> QED
    BY <2>1, <2>2, <2>3, <2>7, <2>8 DEF CountInv
<1>8. ASSUME NEW r \in Request, Reply(r)
      PROVE  CountInv'
  <2>1. Proceeds(r, "reply", "done") /\ UNCHANGED <<early, received, processed>>
    BY <1>8 DEF Reply, HandlerStep, Proceeds, statsVars, listenerVars, readVars
  <2>2. \A s \in Service : Begun(s)' = Begun(s) /\ Ended(s)' = Ended(s)
    BY <2>1, SameHandlers DEF Begun, Ended
  <2> QED
    BY <1>1, <2>1, <2>2
<1> QED
  BY <1>2, <1>3, <1>4, <1>5, <1>6, <1>7, <1>8, StepCases, MainFrame, LoopFrame
  DEF CountStep, StartListener, SubmitAccepted, SubmitRefused, SubmitPanics,
      handlerVars, statsVars, listenerVars, readVars

\* The formula of ErrorInv.
ErrorFormula(s) ==
    errors[s] = Cardinality(RefusedOf(s)) - (IF listener[s] = "refused" THEN 1 ELSE 0)

\* A refusal is counted when the listener leaves "refused", or the process dies there.
LEMMA ErrorStep ==
    ASSUME TypeOK, TodoInv, PoolInv, ReadInv, ErrorInv, Next
    PROVE  ErrorInv'
<1>0. \A s \in Service : ErrorFormula(s)
  BY DEF Next, Alive, ErrorInv, ErrorFormula
<1>1. ASSUME \A s \in Service : s \in recorded' \/ ~panicked' => ErrorFormula(s)'
      PROVE  ErrorInv'
  BY <1>1 DEF ErrorInv, ErrorFormula
<1>2. CASE UNCHANGED <<errors, refused, listener>>
  BY <1>0, <1>1, <1>2 DEF ErrorFormula, RefusedOf
<1>3. ASSUME NEW x \in Service, UNCHANGED <<errors, refused>>,
             listener[x] # "refused", listener'[x] # "refused",
             \A s \in Service \ {x} : listener'[s] = listener[s]
      PROVE  ErrorInv'
  BY <1>0, <1>1, <1>3 DEF ErrorFormula, RefusedOf
<1>4. ASSUME NEW x \in Service, CountError(x)
      PROVE  ErrorInv'
  <2>1. /\ UNCHANGED <<refused, recorded>> /\ listener[x] = "refused" /\ listener'[x] = "top"
        /\ \A s \in Service \ {x} : listener'[s] = listener[s] /\ errors'[s] = errors[s]
        /\ x \in recorded => errors'[x] = errors[x] + 1
    BY <1>4 DEF CountError, TypeOK, poolVars
  <2>2. x \in recorded \/ panicked'
    BY <1>4 DEF CountError
  <2>3. ASSUME NEW s \in Service
        PROVE  RefusedOf(s)' = RefusedOf(s) /\ Cardinality(RefusedOf(s)) \in Nat
    BY <2>1, FiniteSets DEF RefusedOf, PoolInv
  <2>4. ASSUME NEW s \in Service, s \in recorded' \/ ~panicked'
        PROVE  ErrorFormula(s)'
    <3>1. CASE s = x
      <4>1. errors'[x] = errors[x] + 1
        BY <2>1, <2>2, <2>4, <3>1
      <4> QED
        BY <1>0, <2>1, <2>3, <3>1, <4>1 DEF ErrorFormula
    <3>2. CASE s # x
      BY <1>0, <2>1, <2>3, <3>2 DEF ErrorFormula
    <3> QED
      BY <3>1, <3>2
  <2> QED
    BY <1>1, <2>4
<1>5. ASSUME NEW x \in Service, SubmitRefused(x)
      PROVE  ErrorInv'
  <2>1. /\ Pool!Refuse(inHand[x]) /\ UNCHANGED errors
        /\ listener[x] = "submit" /\ listener'[x] = "refused"
        /\ \A s \in Service \ {x} : listener'[s] = listener[s]
    BY <1>5 DEF SubmitRefused, TypeOK, statsVars
  <2>2. /\ refused' = refused \union {inHand[x]} /\ inHand[x] \notin refused
        /\ To[inHand[x]] = x
    BY <2>1, RefuseFacts DEF ReadInv
  <2>3. /\ RefusedOf(x)' = RefusedOf(x) \union {inHand[x]} /\ inHand[x] \notin RefusedOf(x)
        /\ \A s \in Service \ {x} : RefusedOf(s)' = RefusedOf(s)
    BY <2>2 DEF RefusedOf
  <2>4. IsFiniteSet(RefusedOf(x)) /\ Cardinality(RefusedOf(x)) \in Nat
    BY FiniteSets DEF RefusedOf, PoolInv
  <2>5. Cardinality(RefusedOf(x)') = Cardinality(RefusedOf(x)) + 1
    BY <2>3, <2>4, FS_AddElement
  <2>6. ErrorFormula(x)'
    BY <1>0, <2>1, <2>4, <2>5 DEF ErrorFormula
  <2>7. \A s \in Service \ {x} : ErrorFormula(s)'
    BY <1>0, <2>1, <2>3 DEF ErrorFormula
  <2> QED
    BY <1>1, <2>6, <2>7
<1>6. ASSUME NEW x \in Service, SubmitAccepted(x)
      PROVE  ErrorInv'
  <2>1. Pool!Accept(inHand[x]) /\ UNCHANGED errors
        /\ listener[x] = "submit" /\ listener'[x] = "top"
        /\ \A s \in Service \ {x} : listener'[s] = listener[s]
    BY <1>6 DEF SubmitAccepted, TypeOK, statsVars
  <2> QED
    BY <1>3, <2>1, AcceptFacts
<1>7. ASSUME NEW x \in Service, \/ StartListener(x)
                                \/ LoopStep(x) /\ ~CountError(x)
                                \/ \E r \in Request : Read(x, r)
      PROVE  ErrorInv'
  <2>1. CASE StartListener(x)
    BY <1>3, <2>1 DEF StartListener, TodoInv, TypeOK, poolVars, statsVars
  <2>2. CASE LoopStep(x) /\ ~CountError(x)
    BY <1>3, <2>2 DEF LoopStep, ListenerExit, EnterRead, ReadTimeout, TypeOK, poolVars, statsVars
  <2>3. CASE \E r \in Request : Read(x, r)
    BY <1>3, <2>3 DEF Read, TypeOK, poolVars, statsVars
  <2> QED
    BY <1>7, <2>1, <2>2, <2>3
<1>8. ASSUME NEW r \in Request, CountStep(r) \/ Reply(r)
      PROVE  ErrorInv'
  <2>1. CASE CountStep(r)
    BY <1>2, <2>1, HandlerFrame DEF poolVars, listenerVars
  <2>2. CASE Reply(r)
    BY <1>2, <2>2, EndFacts DEF Reply, HandlerStep, listenerVars, statsVars
  <2> QED
    BY <1>8, <2>1, <2>2
<1>9. CASE BeginTask
  BY <1>2, <1>9, BeginFacts DEF BeginTask, HandlerStep, listenerVars, statsVars
<1>10. CASE MainOnly \/ \E s \in Service : SubmitPanics(s)
  BY <1>2, <1>10, MainFrame DEF SubmitPanics, poolVars, listenerVars, statsVars
<1> QED
  BY <1>4, <1>5, <1>6, <1>7, <1>8, <1>9, <1>10, StepCases

LEMMA StatsFacts ==
    ASSUME TypeOK, CountInv, ErrorInv
    PROVE  StatsExact
<1>1. \A s \in recorded : s \in Service
  BY DEF TypeOK
<1> QED
  BY <1>1 DEF CountInv, ErrorInv, StatsExact, Begun, Ended, RefusedOf

-----------------------------------------------------------------------------
(* The theorems.                                                            *)

LEMMA InitIInv ==
    Init => IInv
<1> SUFFICES ASSUME Init PROVE IInv
  OBVIOUS
<1> USE DEF Init, Registry!RegistryInit, Pool!Init
<1>1. TypeOK
  <2>1. Registry!RegistryTypeOK
    BY DEF Registry!RegistryTypeOK
  <2> QED
    BY <2>1 DEF TypeOK, Phases
<1>2. RegistryConsistent
  BY DEF RegistryConsistent, Registry!Consistent
<1>3. TodoInv /\ PoolInv /\ ReadInv
  BY DEF TodoInv, PoolInv, ReadInv
<1>4. WaitGroupExact
  <2>1. Live = {} /\ Handing = {} /\ running = {}
    BY DEF Live, Handing
  <2>2. Cardinality(Live) = 0 /\ Cardinality(Handing) = 0 /\ Cardinality(running) = 0
    BY <2>1, FS_EmptySet
  <2>3. Len(backlog) = 0 /\ wg = 0
    OBVIOUS
  <2>4. wg = Cardinality(Live) + Cardinality(Handing) + Len(backlog) + Cardinality(running)
    BY <2>2, <2>3
  <2> QED
    BY <2>4 DEF WaitGroupExact, Live, Handing
<1>5. NothingLost /\ StoppedInv /\ LogInv /\ SeenNotOlder /\ EarlyInv
  BY ToService, ServerAssumption
  DEF NothingLost, StoppedInv, LogInv, SeenNotOlder, EarlyInv, ServerAssumption
<1>6. \A s \in Service : Begun(s) = {} /\ Ended(s) = {} /\ RefusedOf(s) = {}
  BY DEF Begun, Ended, RefusedOf, In
<1>7. CountInv /\ ErrorInv
  <2>1. \A s \in Service : /\ Cardinality(Begun(s)) = 0 /\ Cardinality(Begun(s) \ early) = 0
                           /\ Cardinality(Ended(s)) = 0 /\ Cardinality(Ended(s) \ early) = 0
                           /\ Cardinality(RefusedOf(s)) = 0
    BY <1>6, FS_EmptySet
  <2>2. \A s \in Service : received[s] = 0 /\ processed[s] = 0 /\ errors[s] = 0
                           /\ listener[s] = "off"
    OBVIOUS
  <2> QED
    BY <2>1, <2>2 DEF CountInv, ErrorInv
<1> QED
  BY <1>1, <1>2, <1>3, <1>4, <1>5, <1>7 DEF IInv, TaskInv

LEMMA NextIInv ==
    IInv /\ [Next]_vars => IInv'
<1>1. ASSUME IInv, Next
      PROVE  IInv'
  <2> USE <1>1 DEF IInv, TaskInv
  <2>1. TodoInv' /\ PoolInv' /\ ReadInv' /\ WaitGroupExact'
    BY TodoStep, PoolStep, ReadStep, WaitGroupStep
  <2>2. Registry!RegistryTypeOK' /\ RegistryConsistent'
    BY ConsistentStep
  <2>3. TypeOK'
    BY <2>1, <2>2, CounterIsNat, TypeStep
  <2>4. NothingLost' /\ StoppedInv'
    BY NothingLostStep, StoppedStep
  <2>5. LogInv' /\ SeenNotOlder'
    BY LogStep, SeenStep
  <2>6. EarlyInv' /\ CountInv' /\ ErrorInv'
    BY EarlyStep, CountStatsStep, ErrorStep
  <2> QED
    BY <2>1, <2>2, <2>3, <2>4, <2>5, <2>6
<1>2. ASSUME IInv, UNCHANGED vars
      PROVE  IInv'
  <2> USE <1>2 DEF IInv, TaskInv, vars, poolVars, registryVars, mainVars, listenerVars, readVars,
                   statsVars, handlerVars
  <2>1. TypeOK' /\ RegistryConsistent'
    BY ConsistentStep DEF TypeOK
  <2>2. TodoInv' /\ PoolInv' /\ ReadInv' /\ WaitGroupExact'
    BY DEF TodoInv, PoolInv, ReadInv, WaitGroupExact
  <2>3. NothingLost' /\ StoppedInv' /\ LogInv' /\ SeenNotOlder' /\ EarlyInv'
    BY DEF NothingLost, Settled, InSubmit, Queued, StoppedInv, LogInv, SeenNotOlder, EarlyInv
  <2>4. CountInv' /\ ErrorInv'
    BY DEF CountInv, ErrorInv, Begun, Ended, RefusedOf, In
  <2> QED
    BY <2>1, <2>2, <2>3, <2>4
<1> QED
  BY <1>1, <1>2

LEMMA Invariant ==
    Spec => []IInv
  BY InitIInv, NextIInv, PTL DEF Spec

\* Every variable keeps its type; in particular the WaitGroup's counter, which would panic
\* below zero, and the counters of the statistics.
THEOREM TypeCorrect ==
    Spec => []TypeOK
<1>1. IInv => TypeOK
  BY DEF IInv, TaskInv
<1> QED
  BY <1>1, Invariant, PTL

\* Whatever cmd/server registers, in whatever order, the two maps stay inverse
\* (service_registry.go:28-37, called by main).
THEOREM RegistryStaysConsistent ==
    Spec => []RegistryConsistent
<1>1. IInv => RegistryConsistent
  BY DEF IInv
<1> QED
  BY <1>1, Invariant, PTL

\* Each Add has its Done on every path: listener, refused datagram, finished or abandoned
\* task (lines 110, 147-171, 178).
THEOREM WaitGroupCounts ==
    Spec => []WaitGroupExact
<1>1. IInv => WaitGroupExact
  BY DEF IInv, TaskInv
<1> QED
  BY <1>1, Invariant, PTL

\* When Stop returns no listener and no handler is left, and every datagram read is
\* answered or refused (lines 73-89).
THEOREM StopEndsAll ==
    Spec => []StopIsFinal
<1>1. IInv => StopIsFinal
  BY StopFacts DEF IInv, TaskInv
<1> QED
  BY <1>1, Invariant, PTL

\* The bytes of a handler are its datagram's or a later one's of the same service, never an
\* older one's (lines 142, 150, 165).
THEOREM HandlersSeeNoOlder ==
    Spec => []SeenNotOlder
<1>1. IInv => SeenNotOlder
  BY DEF IInv
<1> QED
  BY <1>1, Invariant, PTL

\* The counters of s.stats, for any number of services and datagrams: exact but for what was
\* read before Start had made the entry (lines 64-65, 169-171, updateStats).
THEOREM StatsAddUp ==
    Spec => []StatsExact
<1>1. IInv => StatsExact
  BY StatsFacts DEF IInv, TaskInv
<1> QED
  BY <1>1, Invariant, PTL
=============================================================================
