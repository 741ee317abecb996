--------------------------- MODULE ThreadPool_proofs ---------------------------
(***************************************************************************)
(* Theorems about the thread pool for any number of submitters, workers     *)
(* and tasks, and any limits.                                               *)
(***************************************************************************)
EXTENDS ThreadPool, FiniteSetTheorems, TLAPS

\* A worker holds a task exactly from the receive to the end of its loop.
HandMatches ==
    \A w \in Worker :
        hand[w] = NoTask <=> worker[w] \in {"none", "select", "leave"}

\* Before Start there is no goroutine and nothing is counted.
NewInv ==
    stage = "new" =>
        /\ taskQueue = <<>> /\ workerQueue = 0 /\ wg = 0
        /\ activeWorkers = 0 /\ currentWorkers = 0
        /\ completedTasks = 0 /\ queuedTasks = 0
        /\ worker = [w \in Worker |-> "none"]
        /\ hand = [w \in Worker |-> NoTask]
        /\ submitter = [s \in Submitter |-> "ready"]
        /\ manager = "none"
        /\ finished = {}

TypeInv == TypeOK /\ HandMatches /\ NewInv

\* The initial state of thread_pool.go:30-44 satisfies the type invariant.
LEMMA TypeInit == Init => TypeInv
  BY PoolAssumption
     DEF PoolAssumption, Init, TypeInv, TypeOK, HandMatches, Stages, WorkerPC,
         SubmitterPC, ManagerPC, NewInv

\* After Start the stage is never "new" again, and before it nothing moves.
LEMMA NewStep == TypeInv /\ [Next]_vars => NewInv'
  <1> SUFFICES ASSUME TypeInv, [Next]_vars, stage = "new" /\ stage' = "new"
               PROVE  NewInv'
    <2>1. ASSUME stage # "new", TypeInv, Next PROVE stage' # "new"
      BY <2>1 DEF Next, Start, Cancel, StopStep, CloseQueue, WaitWorkers,
           SubmitCall, SubmitSend, SubmitCancelled, SubmitFull, SubmitPanics,
           SubmitterStep, CountQueued, LoadCurrent, LoadQueued, CheckMax,
           AddCurrent, Spawn, WorkerStep, Take, MarkActive, RunTask, MarkIdle,
           CountCompleted, Uncount, SeeStop, IdleTimeout, Leave, ManagerStep,
           OptimizeStep,
           Tick, LoadActive, Optimize, Shrink, Signal, ManagerExit, stopVars,
           Goto
    <2>2. QED
      BY <2>1 DEF NewInv, vars, stopVars
  <1>1. CASE UNCHANGED vars
    BY <1>1 DEF NewInv, TypeInv, vars, counters, workerVars, submitterVars,
                managerVars, stopVars
  <1>2. CASE Next
    <2> USE DEF TypeInv, NewInv
    <2>1. CASE Start \/ Cancel \/ StopStep
      BY <2>1 DEF Start, Cancel, StopStep, CloseQueue, WaitWorkers
    <2>2. ASSUME NEW s \in Submitter, NEW t \in Task, SubmitCall(s, t)
          PROVE  FALSE
      BY <2>2 DEF SubmitCall, SubmitSend, SubmitCancelled, SubmitFull,
                  SubmitPanics, Cancelled, Closed, stopVars
    <2>3. ASSUME NEW s \in Submitter, SubmitterStep(s) PROVE FALSE
      BY <2>3 DEF SubmitterStep, CountQueued, LoadCurrent, LoadQueued,
                  CheckMax, AddCurrent, Spawn
    <2>4. ASSUME NEW w \in Worker, WorkerStep(w) PROVE FALSE
      BY <2>4 DEF WorkerStep, Take, MarkActive, RunTask, MarkIdle,
                  CountCompleted, Uncount, SeeStop, IdleTimeout, Leave, Goto,
                  Cancelled, Closed
    <2>5. CASE ManagerStep
      BY <2>5 DEF ManagerStep, OptimizeStep, Tick, LoadActive, Optimize,
          Shrink, Signal,
                  ManagerExit
    <2>6. QED
      BY <1>2, <2>1, <2>2, <2>3, <2>4, <2>5 DEF Next
  <1>3. QED
    BY <1>1, <1>2

\* Every step keeps the type invariant.
LEMMA TypeStep == TypeInv /\ [Next]_vars => TypeInv'
  <1> SUFFICES ASSUME TypeInv, [Next]_vars PROVE TypeOK' /\ HandMatches'
    BY NewStep DEF TypeInv
  <1> USE PoolAssumption DEF PoolAssumption, TypeInv, TypeOK, HandMatches,
          Stages, WorkerPC, SubmitterPC, ManagerPC, stopVars, counters,
          workerVars, submitterVars, managerVars
  <1>1. CASE Start
    <2>1. worker' \in [Worker -> {"none", "select"}]
      BY <1>1 DEF Start
    <2>2. hand' = [w \in Worker |-> NoTask]
      BY <1>1 DEF Start, NewInv
    <2>3. TypeOK'
      BY <1>1, <2>1 DEF Start
    <2>4. HandMatches'
      BY <2>1, <2>2
    <2>5. QED
      BY <2>3, <2>4
  <1>2. CASE Cancel \/ StopStep
    BY <1>2 DEF Cancel, StopStep, CloseQueue, WaitWorkers
  <1>3. ASSUME NEW s \in Submitter, NEW t \in Task, SubmitCall(s, t)
        PROVE  TypeOK' /\ HandMatches'
    <2>1. CASE SubmitSend(s, t)
      BY <2>1 DEF SubmitSend
    <2>2. CASE SubmitCancelled(s, t)
      BY <2>2 DEF SubmitCancelled
    <2>3. CASE SubmitFull(s, t)
      BY <2>3 DEF SubmitFull
    <2>4. CASE SubmitPanics(s, t)
      BY <2>4 DEF SubmitPanics
    <2>5. QED
      BY <1>3, <2>1, <2>2, <2>3, <2>4 DEF SubmitCall
  <1>4. ASSUME NEW s \in Submitter, SubmitterStep(s)
        PROVE  TypeOK' /\ HandMatches'
    <2>1. CASE CountQueued(s)
      BY <2>1 DEF CountQueued
    <2>6. CASE AddCurrent(s)
      BY <2>6 DEF AddCurrent
    <2>2. CASE LoadCurrent(s)
      BY <2>2 DEF LoadCurrent
    <2>3. CASE LoadQueued(s)
      BY <2>3 DEF LoadQueued
    <2>4. CASE CheckMax(s)
      BY <2>4 DEF CheckMax
    <2>5. CASE Spawn(s)
      BY <2>5 DEF Spawn, Live
    <2>7. QED
      BY <1>4, <2>1, <2>2, <2>3, <2>4, <2>5, <2>6 DEF SubmitterStep
  <1>5. ASSUME NEW w \in Worker, WorkerStep(w)
        PROVE  TypeOK' /\ HandMatches'
    <2> USE DEF Goto
    <2>1. CASE Take(w)
      BY <2>1 DEF Take
    <2>2. CASE MarkActive(w)
      BY <2>2 DEF MarkActive
    <2>3. CASE RunTask(w)
      BY <2>3 DEF RunTask
    <2>4. CASE MarkIdle(w)
      BY <2>4 DEF MarkIdle
    <2>5. CASE CountCompleted(w)
      BY <2>5 DEF CountCompleted
    <2>6. CASE Uncount(w)
      BY <2>6 DEF Uncount
    <2>7. CASE SeeStop(w) \/ IdleTimeout(w)
      BY <2>7 DEF SeeStop, IdleTimeout
    <2>8. CASE Leave(w)
      BY <2>8 DEF Leave
    <2>9. QED
      BY <1>5, <2>1, <2>2, <2>3, <2>4, <2>5, <2>6, <2>7, <2>8 DEF WorkerStep
  <1>6. CASE ManagerStep
    <2>1. CASE Tick
      BY <2>1 DEF Tick
    <2>2. CASE LoadActive
      BY <2>2 DEF LoadActive
    <2>3. CASE Optimize
      BY <2>3 DEF Optimize
    <2>4. CASE Shrink
      BY <2>4 DEF Shrink
    <2>5. CASE Signal
      BY <2>5 DEF Signal
    <2>6. CASE ManagerExit
      BY <2>6 DEF ManagerExit
    <2>7. QED
      BY <1>6, <2>1, <2>2, <2>3, <2>4, <2>5, <2>6 DEF ManagerStep, OptimizeStep
  <1>7. CASE UNCHANGED vars
    BY <1>7 DEF vars
  <1>8. QED
    BY <1>1, <1>2, <1>3, <1>4, <1>5, <1>6, <1>7 DEF Next

\* The state of every goroutine, channel and counter keeps its type.
THEOREM TypeCorrect == Spec => []TypeOK
  <1>1. TypeInv => TypeOK
    BY DEF TypeInv
  <1>2. QED
    BY TypeInit, TypeStep, <1>1, PTL DEF Spec

-----------------------------------------------------------------------------
(* Counting goroutines: a step moves at most one in or out of a set.        *)

\* Two sets that differ in x at most differ in size by x's membership.
LEMMA Flip ==
  ASSUME NEW A, NEW B, NEW x, IsFiniteSet(A),
         \A y : y # x => (y \in A <=> y \in B)
  PROVE  /\ Cardinality(A) \in Nat /\ Cardinality(B) \in Nat
         /\ x \in A /\ x \notin B => Cardinality(B) = Cardinality(A) - 1
         /\ x \notin A /\ x \in B => Cardinality(B) = Cardinality(A) + 1
         /\ (x \in A <=> x \in B) => Cardinality(B) = Cardinality(A)
  <1>1. CASE x \in A /\ x \notin B
    <2>1. B = A \ {x}
      BY <1>1
    <2>2. QED
      BY <1>1, <2>1, FS_RemoveElement, FS_CardinalityType
  <1>2. CASE x \notin A /\ x \in B
    <2>1. B = A \union {x}
      BY <1>2
    <2>2. QED
      BY <1>2, <2>1, FS_AddElement, FS_CardinalityType
  <1>3. CASE x \in A <=> x \in B
    <2>1. B = A
      BY <1>3
    <2>2. QED
      BY <1>3, <2>1, FS_CardinalityType
  <1>4. QED
    BY <1>1, <1>2, <1>3

\* The sets that the invariants count are finite.
LEMMA CountsFinite ==
  /\ IsFiniteSet(Live) /\ IsFiniteSet(Holding)
  /\ \A pc : IsFiniteSet(AtPC(pc)) /\ Cardinality(AtPC(pc)) \in Nat
             /\ Cardinality(AtPC(pc)) <= Cardinality(Submitter)
  /\ Cardinality(Live) \in Nat /\ Cardinality(Holding) \in Nat
  /\ Cardinality(Submitter) \in Nat \ {0}
  <1>1. IsFiniteSet(Worker) /\ IsFiniteSet(Submitter) /\ Submitter # {}
    BY PoolAssumption DEF PoolAssumption
  <1>2. Live \in SUBSET Worker /\ Holding \in SUBSET Worker
    BY DEF Live, Holding
  <1>3. \A pc : AtPC(pc) \in SUBSET Submitter
    BY DEF AtPC
  <1>4. /\ IsFiniteSet(Live) /\ IsFiniteSet(Holding)
        /\ Cardinality(Live) \in Nat /\ Cardinality(Holding) \in Nat
    BY <1>1, <1>2, FS_Subset, FS_CardinalityType
  <1>5. ASSUME NEW pc
        PROVE  /\ IsFiniteSet(AtPC(pc)) /\ Cardinality(AtPC(pc)) \in Nat
               /\ Cardinality(AtPC(pc)) <= Cardinality(Submitter)
    BY <1>1, <1>3, FS_Subset, FS_CardinalityType
  <1>6. Cardinality(Submitter) \in Nat \ {0}
    BY <1>1, FS_EmptySet, FS_CardinalityType
  <1>7. QED
    BY <1>4, <1>5, <1>6

\* Start makes MinWorkers workers, and none of the submitters moves.
LEMMA StartCounts ==
  ASSUME TypeInv, Start
  PROVE  /\ Cardinality(Live') = MinWorkers
         /\ \A pc : pc # "ready" => AtPC(pc) = {} /\ AtPC(pc)' = {}
         /\ workerQueue = 0 /\ workerQueue' = 0 /\ manager' = "wait"
  <1>1. PICK W \in SUBSET Worker :
            /\ Cardinality(W) = MinWorkers
            /\ worker' = [w \in Worker |-> IF w \in W THEN "select" ELSE "none"]
    BY DEF Start
  <1>2. Live' = W
    BY <1>1 DEF Live
  <1>3. /\ submitter = [s \in Submitter |-> "ready"] /\ submitter' = submitter
        /\ workerQueue = 0 /\ workerQueue' = 0 /\ manager' = "wait"
    BY DEF Start, TypeInv, NewInv, submitterVars
  <1>4. QED
    BY <1>1, <1>2, <1>3 DEF AtPC

\* Spawn adds one worker and returns one submitter.
LEMMA SpawnCounts ==
  ASSUME TypeInv, NEW s \in Submitter, Spawn(s)
  PROVE  /\ Cardinality(Live') = Cardinality(Live) + 1
         /\ Cardinality(AtPC("spawn")') = Cardinality(AtPC("spawn")) - 1
         /\ \A pc \in {"sent", "add"} : AtPC(pc)' = AtPC(pc)
  <1>1. PICK w \in Worker \ Live : worker' = [worker EXCEPT ![w] = "select"]
    BY DEF Spawn
  <1>2. /\ w \in Live' /\ w \notin Live
        /\ \A y : y # w => (y \in Live <=> y \in Live')
    BY <1>1 DEF Live, TypeInv, TypeOK
  <1>3. Cardinality(Live') = Cardinality(Live) + 1
    BY <1>2, CountsFinite, Flip
  <1>4. /\ s \in AtPC("spawn") /\ s \notin AtPC("spawn")'
        /\ \A y : y # s => (y \in AtPC("spawn") <=> y \in AtPC("spawn")')
        /\ \A pc \in {"sent", "add"} : AtPC(pc)' = AtPC(pc)
    BY DEF Spawn, AtPC, TypeInv, TypeOK
  <1>5. Cardinality(AtPC("spawn")') = Cardinality(AtPC("spawn")) - 1
    BY <1>4, CountsFinite, Flip
  <1>6. QED
    BY <1>3, <1>4, <1>5

\* Leave removes one worker.
LEMMA LeaveCounts ==
  ASSUME TypeInv, NEW w \in Worker, Leave(w)
  PROVE  Cardinality(Live') = Cardinality(Live) - 1
  <1>1. /\ w \in Live /\ w \notin Live'
        /\ \A y : y # w => (y \in Live <=> y \in Live')
    BY DEF Leave, Goto, Live, TypeInv, TypeOK
  <1>2. QED
    BY <1>1, CountsFinite, Flip

\* No other step of a worker changes which slots are in use.
LEMMA WorkerKeepsLive ==
  ASSUME TypeInv, NEW w \in Worker, WorkerStep(w), ~Leave(w)
  PROVE  Live' = Live /\ UNCHANGED <<currentWorkers, wg, submitter, manager,
                                     workerQueue>>
  <1> USE DEF Goto, Live, TypeInv, TypeOK, counters, submitterVars, managerVars
  <1>1. CASE Take(w)
    BY <1>1 DEF Take
  <1>2. CASE MarkActive(w)
    BY <1>2 DEF MarkActive
  <1>3. CASE RunTask(w)
    BY <1>3 DEF RunTask
  <1>4. CASE MarkIdle(w)
    BY <1>4 DEF MarkIdle
  <1>5. CASE CountCompleted(w)
    BY <1>5 DEF CountCompleted
  <1>6. CASE Uncount(w)
    BY <1>6 DEF Uncount
  <1>7. CASE SeeStop(w)
    BY <1>7 DEF SeeStop
  <1>8. CASE IdleTimeout(w)
    BY <1>8 DEF IdleTimeout
  <1>9. QED
    BY <1>1, <1>2, <1>3, <1>4, <1>5, <1>6, <1>7, <1>8 DEF WorkerStep

-----------------------------------------------------------------------------
(* The WaitGroup.                                                           *)

\* Every step keeps wg equal to the number of live workers.
LEMMA WaitGroupStep ==
  TypeInv /\ WaitGroupExact /\ [Next]_vars => WaitGroupExact'
  <1> SUFFICES ASSUME TypeInv, WaitGroupExact, [Next]_vars
               PROVE  WaitGroupExact'
    OBVIOUS
  <1> USE DEF WaitGroupExact
  <1>1. CASE Start
    BY <1>1, StartCounts DEF Start
  <1>2. CASE \/ Cancel \/ StopStep \/ ManagerStep \/ UNCHANGED vars
    <2>1. UNCHANGED <<wg, worker>>
      BY <1>2 DEF Cancel, StopStep, CloseQueue, WaitWorkers, ManagerStep,
          OptimizeStep, Tick,
           LoadActive, Optimize, Shrink, Signal, ManagerExit, vars, workerVars
    <2>2. QED
      BY <2>1 DEF Live
  <1>3. ASSUME NEW s \in Submitter, NEW t \in Task, SubmitCall(s, t)
        PROVE  WaitGroupExact'
    <2>1. UNCHANGED <<wg, worker>>
      BY <1>3 DEF SubmitCall, SubmitSend, SubmitCancelled, SubmitFull,
           SubmitPanics, workerVars
    <2>2. QED
      BY <2>1 DEF Live
  <1>4. ASSUME NEW s \in Submitter, SubmitterStep(s) PROVE WaitGroupExact'
    <2>1. CASE Spawn(s)
      BY <2>1, SpawnCounts DEF Spawn
    <2>2. CASE ~Spawn(s)
      <3>1. UNCHANGED <<wg, worker>>
        BY <1>4, <2>2 DEF SubmitterStep, CountQueued, LoadCurrent, LoadQueued,
             CheckMax, AddCurrent, workerVars
      <3>2. QED
        BY <3>1 DEF Live
    <2>3. QED
      BY <2>1, <2>2
  <1>5. ASSUME NEW w \in Worker, WorkerStep(w) PROVE WaitGroupExact'
    BY <1>5, LeaveCounts, WorkerKeepsLive DEF Leave
  <1>6. QED
    BY <1>1, <1>2, <1>3, <1>4, <1>5 DEF Next

\* wg counts the live workers in every reachable state: wg.Wait() in Stop
\* (line 59) can return only when no worker goroutine is left, and a worker
\* that addWorker starts while Stop waits is waited for.
THEOREM WaitGroupCounts == Spec => []WaitGroupExact
  <1>1. Init => WaitGroupExact
    <2>1. Init => Live = {}
      BY DEF Init, Live
    <2>2. QED
      BY <2>1, FS_EmptySet DEF Init, WaitGroupExact
  <1>2. QED
    BY TypeInit, TypeStep, WaitGroupStep, <1>1, PTL DEF Spec

-----------------------------------------------------------------------------
(* currentWorkers and the bounds.                                           *)

\* A step of a submitter other than Spawn leaves the workers alone, and moves
\* only that submitter.
LEMMA SubmitterMoves ==
  ASSUME TypeInv, NEW s \in Submitter, SubmitterStep(s), ~Spawn(s)
  PROVE  /\ Live' = Live
         /\ \A pc : \A y : y # s => (y \in AtPC(pc) <=> y \in AtPC(pc)')
         /\ UNCHANGED <<wg, manager, workerQueue, taskQueue, hand>>
  <1> USE DEF Live, AtPC, TypeInv, TypeOK, counters, workerVars, managerVars
  <1>1. CASE CountQueued(s)
    BY <1>1 DEF CountQueued
  <1>2. CASE LoadCurrent(s)
    BY <1>2 DEF LoadCurrent
  <1>3. CASE LoadQueued(s)
    BY <1>3 DEF LoadQueued
  <1>4. CASE CheckMax(s)
    BY <1>4 DEF CheckMax
  <1>5. CASE AddCurrent(s)
    BY <1>5 DEF AddCurrent
  <1>6. QED
    BY <1>1, <1>2, <1>3, <1>4, <1>5 DEF SubmitterStep

\* A call of Submit moves no worker, and a submitter only between "ready" and
\* "sent".
LEMMA SubmitCallMoves ==
  ASSUME TypeInv, NEW s \in Submitter, NEW t \in Task, SubmitCall(s, t)
  PROVE  /\ Live' = Live
         /\ \A pc \in {"add", "spawn"} : AtPC(pc)' = AtPC(pc)
         /\ UNCHANGED <<wg, counters, manager, workerQueue, hand>>
  <1> USE DEF Live, AtPC, TypeInv, TypeOK, counters, workerVars, managerVars,
              submitterVars
  <1>1. CASE SubmitSend(s, t)
    BY <1>1 DEF SubmitSend
  <1>2. CASE ~SubmitSend(s, t)
    BY <1>2 DEF SubmitCall, SubmitCancelled, SubmitFull, SubmitPanics
  <1>3. QED
    BY <1>1, <1>2

\* Every step keeps the account of currentWorkers.
LEMMA CurrentStep == TypeInv /\ CurrentExact /\ [Next]_vars => CurrentExact'
  <1> SUFFICES ASSUME TypeInv, CurrentExact, [Next]_vars PROVE CurrentExact'
    OBVIOUS
  <1> USE DEF CurrentExact
  <1>t. /\ currentWorkers \in Int /\ workerQueue \in Int
        /\ Cardinality(Live) \in Nat /\ Cardinality(AtPC("spawn")) \in Nat
    BY CountsFinite, PoolAssumption DEF TypeInv, TypeOK, PoolAssumption
  <1>1. CASE Start
    <2>1. Phantom' = 0 /\ Cardinality(AtPC("spawn")') = 0
      BY <1>1, StartCounts, FS_EmptySet DEF Phantom
    <2>2. Cardinality(Live') = MinWorkers /\ currentWorkers' = MinWorkers
      BY <1>1, StartCounts DEF Start
    <2>3. QED
      BY <2>1, <2>2, PoolAssumption DEF PoolAssumption
  <1>2. CASE Cancel \/ StopStep \/ UNCHANGED vars
    BY <1>2 DEF Cancel, StopStep, CloseQueue, WaitWorkers, vars, workerVars,
         managerVars, submitterVars, counters, Live, AtPC, Phantom
  <1>3. ASSUME NEW s \in Submitter, NEW t \in Task, SubmitCall(s, t)
        PROVE  CurrentExact'
    BY <1>3, SubmitCallMoves DEF counters, Phantom
  <1>4. ASSUME NEW s \in Submitter, SubmitterStep(s) PROVE CurrentExact'
    <2>1. CASE Spawn(s)
      <3>1. currentWorkers' = currentWorkers /\ Phantom' = Phantom
        BY <2>1 DEF Spawn, counters, managerVars, Phantom
      <3>2. QED
        BY <2>1, <3>1, <1>t, SpawnCounts DEF Phantom
    <2>2. CASE AddCurrent(s)
      <3>1. ~Spawn(s)
        BY <2>2 DEF AddCurrent, Spawn
      <3>2. /\ s \notin AtPC("spawn") /\ s \in AtPC("spawn")'
            /\ currentWorkers' = currentWorkers + 1
        BY <2>2 DEF AddCurrent, AtPC, TypeInv, TypeOK
      <3>3. Cardinality(AtPC("spawn")') = Cardinality(AtPC("spawn")) + 1
        BY <1>4, <3>1, <3>2, SubmitterMoves, CountsFinite, Flip
      <3>4. Live' = Live /\ Phantom' = Phantom
        BY <1>4, <3>1, SubmitterMoves DEF Phantom
      <3>5. QED
        BY <3>2, <3>3, <3>4, <1>t DEF Phantom
    <2>3. CASE ~Spawn(s) /\ ~AddCurrent(s)
      <3>1. /\ s \notin AtPC("spawn") /\ s \notin AtPC("spawn")'
            /\ currentWorkers' = currentWorkers
        BY <1>4, <2>3 DEF SubmitterStep, CountQueued, LoadCurrent, LoadQueued,
             CheckMax, AtPC, TypeInv, TypeOK, counters
      <3>2. /\ Live' = Live /\ Phantom' = Phantom
            /\ AtPC("spawn")' = AtPC("spawn")
        BY <1>4, <2>3, <3>1, SubmitterMoves DEF Phantom
      <3>3. QED
        BY <3>1, <3>2
    <2>4. QED
      BY <2>1, <2>2, <2>3
  <1>5. ASSUME NEW w \in Worker, WorkerStep(w) PROVE CurrentExact'
    <2>1. CASE Leave(w)
      <3>1. /\ currentWorkers' = currentWorkers - 1
            /\ Phantom' = Phantom /\ AtPC("spawn")' = AtPC("spawn")
        BY <2>1 DEF Leave, submitterVars, managerVars, Phantom, AtPC
      <3>2. QED
        <4>1. Phantom \in Int
          BY <1>t DEF Phantom
        <4>2. Cardinality(Live') = Cardinality(Live) - 1
          BY <2>1, LeaveCounts
        <4>3. QED
          BY <3>1, <4>1, <4>2, <1>t
    <2>2. CASE ~Leave(w)
      BY <1>5, <2>2, WorkerKeepsLive DEF Phantom, AtPC
    <2>3. QED
      BY <2>1, <2>2
  <1>6. CASE ManagerStep
    <2>1. Live' = Live /\ AtPC("spawn")' = AtPC("spawn")
      BY <1>6 DEF ManagerStep, OptimizeStep, Tick, LoadActive, Optimize,
          Shrink, Signal,
           ManagerExit, workerVars, submitterVars, Live, AtPC
    <2>2. currentWorkers' + Phantom' = currentWorkers + Phantom
      BY <1>6, <1>t DEF ManagerStep, OptimizeStep, Tick, LoadActive, Optimize,
          Shrink,
           Signal, ManagerExit, counters, Phantom
    <2>3. QED
      BY <2>1, <2>2
  <1>7. QED
    BY <1>1, <1>2, <1>3, <1>4, <1>5, <1>6 DEF Next

\* currentWorkers accounts for every live worker, every worker about to be
\* spawned and every decrement of optimize (lines 92, 97, 158), in every
\* reachable state: it drifts by exactly the number of phantom decrements.
THEOREM CurrentCounts == Spec => []CurrentExact
  <1>1. Init => CurrentExact
    <2>1. Init => Live = {} /\ AtPC("spawn") = {}
      BY DEF Init, Live, AtPC
    <2>2. Init => currentWorkers = 0 /\ Phantom = 0
      BY DEF Init, Phantom
    <2>3. QED
      BY <2>1, <2>2, FS_EmptySet DEF CurrentExact
  <1>2. QED
    BY TypeInit, TypeStep, CurrentStep, <1>1, PTL DEF Spec

\* Every step keeps the bound on currentWorkers.  Each submitter that has
\* passed the check of line 88 and not yet counted is part of the bound.
LEMMA BoundStep == TypeInv /\ CurrentBounded /\ [Next]_vars => CurrentBounded'
  <1> SUFFICES ASSUME TypeInv, CurrentBounded, [Next]_vars
               PROVE  CurrentBounded'
    OBVIOUS
  <1> USE DEF CurrentBounded
  <1>t. /\ currentWorkers \in Int /\ MaxWorkers \in Int /\ MinWorkers \in Int
        /\ Cardinality(Submitter) \in Nat \ {0} /\ MinWorkers <= MaxWorkers
        /\ Cardinality(AtPC("add")) \in Nat
        /\ Cardinality(AtPC("add")') <= Cardinality(Submitter)
        /\ Cardinality(AtPC("add")') \in Nat
    <2>1. AtPC("add")' \in SUBSET Submitter
      BY DEF AtPC
    <2>2. IsFiniteSet(Submitter)
      BY PoolAssumption DEF PoolAssumption
    <2>3. /\ Cardinality(AtPC("add")') <= Cardinality(Submitter)
          /\ Cardinality(AtPC("add")') \in Nat
      BY <2>1, <2>2, FS_Subset, FS_CardinalityType
    <2>4. QED
      BY <2>3, CountsFinite, PoolAssumption DEF TypeInv, TypeOK, PoolAssumption
  <1>1. CASE Start
    <2>1. Cardinality(AtPC("add")') = 0
      BY <1>1, StartCounts, FS_EmptySet
    <2>2. currentWorkers' = MinWorkers
      BY <1>1 DEF Start
    <2>3. MinWorkers + 0 <= MaxWorkers - 1 + Cardinality(Submitter)
      BY <1>t
    <2>4. QED
      BY <2>1, <2>2, <2>3
  <1>2. CASE Cancel \/ StopStep \/ UNCHANGED vars
    BY <1>2 DEF Cancel, StopStep, CloseQueue, WaitWorkers, vars,
         submitterVars, counters, AtPC
  <1>3. ASSUME NEW s \in Submitter, NEW t \in Task, SubmitCall(s, t)
        PROVE  CurrentBounded'
    BY <1>3, SubmitCallMoves DEF counters
  <1>4. ASSUME NEW s \in Submitter, SubmitterStep(s) PROVE CurrentBounded'
    <2>1. CASE Spawn(s)
      BY <2>1, SpawnCounts DEF Spawn, counters
    <2>2. CASE AddCurrent(s)
      <3>1. /\ s \in AtPC("add") /\ s \notin AtPC("add")'
            /\ currentWorkers' = currentWorkers + 1 /\ ~Spawn(s)
        BY <2>2 DEF AddCurrent, Spawn, AtPC, TypeInv, TypeOK
      <3>2. Cardinality(AtPC("add")') = Cardinality(AtPC("add")) - 1
        BY <1>4, <3>1, SubmitterMoves, CountsFinite, Flip
      <3>3. QED
        BY <3>1, <3>2, <1>t
    <2>3. CASE CheckMax(s) /\ currentWorkers < MaxWorkers
      \* The check has just been passed: at most MaxWorkers - 1 are counted.
      <3>1. currentWorkers' = currentWorkers
        BY <2>3 DEF CheckMax, counters
      <3>2. QED
        BY <2>3, <3>1, <1>t
    <2>4. CASE ~Spawn(s) /\ ~AddCurrent(s)
               /\ ~(CheckMax(s) /\ currentWorkers < MaxWorkers)
      <3>1. /\ s \notin AtPC("add") /\ s \notin AtPC("add")'
            /\ currentWorkers' = currentWorkers
        BY <1>4, <2>4, <1>t DEF SubmitterStep, CountQueued, LoadCurrent,
             LoadQueued, CheckMax, AtPC, TypeInv, TypeOK, counters
      <3>2. AtPC("add")' = AtPC("add")
        BY <1>4, <2>4, <3>1, SubmitterMoves
      <3>3. QED
        BY <3>1, <3>2
    <2>5. QED
      BY <2>1, <2>2, <2>3, <2>4
  <1>5. ASSUME NEW w \in Worker, WorkerStep(w) PROVE CurrentBounded'
    <2>1. CASE Leave(w)
      <3>1. currentWorkers' = currentWorkers - 1 /\ AtPC("add")' = AtPC("add")
        BY <2>1 DEF Leave, submitterVars, AtPC
      <3>2. QED
        BY <3>1, <1>t
    <2>2. CASE ~Leave(w)
      BY <1>5, <2>2, WorkerKeepsLive DEF AtPC
    <2>3. QED
      BY <2>1, <2>2
  <1>6. CASE ManagerStep
    <2>1. AtPC("add")' = AtPC("add") /\ currentWorkers' <= currentWorkers
      BY <1>6, <1>t DEF ManagerStep, OptimizeStep, Tick, LoadActive, Optimize,
          Shrink, Signal,
           ManagerExit, submitterVars, counters, AtPC
    <2>2. currentWorkers' \in Int
      BY TypeStep DEF TypeInv, TypeOK
    <2>3. QED
      BY <2>1, <2>2, <1>t
  <1>7. QED
    BY <1>1, <1>2, <1>3, <1>4, <1>5, <1>6 DEF Next

\* Initially nobody is counted and nobody is about to be.
LEMMA BoundInit == Init => CurrentBounded
  <1>1. Init => AtPC("add") = {} /\ currentWorkers = 0
    BY DEF Init, AtPC
  <1>2. QED
    BY <1>1, FS_EmptySet, CountsFinite, PoolAssumption
       DEF CurrentBounded, PoolAssumption

\* However many Submits race through lines 88 and 92, currentWorkers exceeds
\* maxWorkers by at most the number of the other submitters.
THEOREM CurrentIsBounded == Spec => []CurrentBounded
  BY TypeInit, TypeStep, BoundInit, BoundStep, PTL DEF Spec

\* The goroutines that are really alive, or about to be, stay bounded too, in
\* spite of the decrements of optimize: workerQueue never takes more than
\* maxWorkers tokens, and the blocked manager accounts for one more.
THEOREM WorkersAreBounded == Spec => []WorkersBounded
  <1>1. TypeInv /\ CurrentExact /\ CurrentBounded => WorkersBounded
    <2> SUFFICES ASSUME TypeInv, CurrentExact, CurrentBounded
                 PROVE  WorkersBounded
      OBVIOUS
    <2>1. /\ currentWorkers \in Int /\ MaxWorkers \in Nat
          /\ workerQueue \in 0..MaxWorkers
          /\ Cardinality(AtPC("add")) \in Nat
          /\ Cardinality(Submitter) \in Nat
      BY CountsFinite, PoolAssumption DEF TypeInv, TypeOK, PoolAssumption
    <2>2. Phantom \in Nat /\ Phantom <= MaxWorkers + 1
      BY <2>1 DEF Phantom
    <2>3. QED
      BY <2>1, <2>2 DEF CurrentExact, CurrentBounded, WorkersBounded
  <1>2. QED
    BY CurrentCounts, CurrentIsBounded, TypeInit, TypeStep, <1>1, PTL DEF Spec

-----------------------------------------------------------------------------
(* queuedTasks.                                                             *)

\* Every step keeps the account of queuedTasks.
LEMMA QueuedStep == TypeInv /\ QueuedExact /\ [Next]_vars => QueuedExact'
  <1> SUFFICES ASSUME TypeInv, QueuedExact, [Next]_vars PROVE QueuedExact'
    OBVIOUS
  <1> USE DEF QueuedExact
  <1>t. /\ queuedTasks \in Int /\ taskQueue \in Seq(Task)
        /\ Len(taskQueue) \in Nat
        /\ Cardinality(Holding) \in Nat /\ Cardinality(AtPC("sent")) \in Nat
    BY CountsFinite DEF TypeInv, TypeOK
  <1>1. CASE Start
    <2>1. UNCHANGED <<queuedTasks, taskQueue, hand, submitter>>
      BY <1>1 DEF Start, submitterVars
    <2>2. QED
      BY <2>1 DEF Holding, AtPC
  <1>2. CASE \/ Cancel \/ StopStep \/ ManagerStep \/ UNCHANGED vars
    <2>1. UNCHANGED <<queuedTasks, taskQueue, hand, submitter>>
      BY <1>2 DEF Cancel, StopStep, CloseQueue, WaitWorkers, ManagerStep,
          OptimizeStep, Tick,
           LoadActive, Optimize, Shrink, Signal, ManagerExit, vars,
           submitterVars, workerVars, counters
    <2>2. QED
      BY <2>1 DEF Holding, AtPC
  <1>3. ASSUME NEW s \in Submitter, NEW t \in Task, SubmitCall(s, t)
        PROVE  QueuedExact'
    <2>1. CASE SubmitSend(s, t)
      <3>1. /\ s \notin AtPC("sent") /\ s \in AtPC("sent")'
            /\ \A y : y # s => (y \in AtPC("sent") <=> y \in AtPC("sent")')
        BY <2>1 DEF SubmitSend, AtPC, TypeInv, TypeOK
      <3>2. Cardinality(AtPC("sent")') = Cardinality(AtPC("sent")) + 1
        BY <3>1, CountsFinite, Flip
      <3>3. Len(taskQueue') = Len(taskQueue) + 1
        BY <2>1, <1>t DEF SubmitSend
      <3>4. queuedTasks' = queuedTasks /\ Holding' = Holding
        BY <2>1 DEF SubmitSend, counters, workerVars, Holding
      <3>5. QED
        BY <3>2, <3>3, <3>4, <1>t
    <2>2. CASE ~SubmitSend(s, t)
      <3>1. UNCHANGED <<queuedTasks, taskQueue, hand, submitter>>
        BY <1>3, <2>2 DEF SubmitCall, SubmitCancelled, SubmitFull,
             SubmitPanics, workerVars, submitterVars, counters
      <3>2. QED
        BY <3>1 DEF Holding, AtPC
    <2>3. QED
      BY <2>1, <2>2
  <1>4. ASSUME NEW s \in Submitter, SubmitterStep(s) PROVE QueuedExact'
    <2>1. CASE Spawn(s)
      <3>1. /\ UNCHANGED <<queuedTasks, taskQueue>> /\ Holding' = Holding
            /\ AtPC("sent")' = AtPC("sent")
        BY <2>1, SpawnCounts DEF Spawn, counters, Holding
      <3>2. QED
        BY <3>1
    <2>2. CASE CountQueued(s)
      <3>1. /\ s \in AtPC("sent") /\ s \notin AtPC("sent")'
            /\ queuedTasks' = queuedTasks + 1 /\ ~Spawn(s)
        BY <2>2 DEF CountQueued, Spawn, AtPC, TypeInv, TypeOK
      <3>2. Cardinality(AtPC("sent")') = Cardinality(AtPC("sent")) - 1
        BY <1>4, <3>1, SubmitterMoves, CountsFinite, Flip
      <3>3. taskQueue' = taskQueue /\ Holding' = Holding
        BY <1>4, <3>1, SubmitterMoves DEF Holding
      <3>4. QED
        BY <3>1, <3>2, <3>3, <1>t
    <2>3. CASE ~Spawn(s) /\ ~CountQueued(s)
      <3>1. /\ s \notin AtPC("sent") /\ s \notin AtPC("sent")'
            /\ queuedTasks' = queuedTasks
        BY <1>4, <2>3 DEF SubmitterStep, LoadCurrent, LoadQueued, CheckMax,
             AddCurrent, AtPC, TypeInv, TypeOK, counters
      <3>2. /\ AtPC("sent")' = AtPC("sent") /\ taskQueue' = taskQueue
            /\ Holding' = Holding
        BY <1>4, <2>3, <3>1, SubmitterMoves DEF Holding
      <3>3. QED
        BY <3>1, <3>2
    <2>4. QED
      BY <2>1, <2>2, <2>3
  <1>5. ASSUME NEW w \in Worker, WorkerStep(w) PROVE QueuedExact'
    <2>1. AtPC("sent")' = AtPC("sent")
      BY <1>5 DEF WorkerStep, Take, MarkActive, RunTask, MarkIdle,
           CountCompleted, Uncount, SeeStop, IdleTimeout, Leave, AtPC,
           submitterVars
    <2>2. CASE Take(w)
      <3>1. /\ w \notin Holding /\ w \in Holding'
            /\ \A y : y # w => (y \in Holding <=> y \in Holding')
        <4>1. taskQueue # <<>> /\ Head(taskQueue) \in Task
          BY <2>2, <1>t DEF Take
        <4>2. Head(taskQueue) # NoTask
          BY <4>1, PoolAssumption DEF PoolAssumption
        <4>3. hand[w] = NoTask
          BY <2>2 DEF Take, Goto, TypeInv, HandMatches
        <4>4. /\ hand' = [hand EXCEPT ![w] = Head(taskQueue)]
              /\ hand \in [Worker -> Task \union {NoTask}]
          BY <2>2 DEF Take, TypeInv, TypeOK
        <4>5. QED
          BY <4>2, <4>3, <4>4 DEF Holding
      <3>2. Cardinality(Holding') = Cardinality(Holding) + 1
        BY <3>1, CountsFinite, Flip
      <3>3. Len(taskQueue') = Len(taskQueue) - 1
        BY <2>2, <1>t DEF Take
      <3>4. queuedTasks' = queuedTasks
        BY <2>2 DEF Take, counters
      <3>5. QED
        BY <2>1, <3>2, <3>3, <3>4, <1>t
    <2>3. CASE Uncount(w)
      <3>1. /\ w \in Holding /\ w \notin Holding'
            /\ \A y : y # w => (y \in Holding <=> y \in Holding')
        BY <2>3 DEF Uncount, Goto, Holding, TypeInv, TypeOK, HandMatches
      <3>2. Cardinality(Holding') = Cardinality(Holding) - 1
        BY <3>1, CountsFinite, Flip
      <3>3. queuedTasks' = queuedTasks - 1 /\ taskQueue' = taskQueue
        BY <2>3 DEF Uncount
      <3>4. QED
        BY <2>1, <3>2, <3>3, <1>t
    <2>4. CASE ~Take(w) /\ ~Uncount(w)
      <3>1. UNCHANGED <<queuedTasks, taskQueue, hand>>
        BY <1>5, <2>4 DEF WorkerStep, MarkActive, RunTask, MarkIdle,
             CountCompleted, SeeStop, IdleTimeout, Leave, counters
      <3>2. QED
        BY <2>1, <3>1 DEF Holding
    <2>5. QED
      BY <2>2, <2>3, <2>4
  <1>6. QED
    BY <1>1, <1>2, <1>3, <1>4, <1>5 DEF Next

\* queuedTasks is exact up to the increments still to come (line 66 runs after
\* the send of line 65), however late they are.
THEOREM QueuedCounts == Spec => []QueuedExact
  <1>1. Init => QueuedExact
    <2>1. Init => Holding = {} /\ AtPC("sent") = {}
      BY DEF Init, Holding, AtPC
    <2>2. Init => queuedTasks = 0 /\ Len(taskQueue) = 0
      BY DEF Init
    <2>3. QED
      BY <2>1, <2>2, FS_EmptySet DEF QueuedExact
  <1>2. QED
    BY TypeInit, TypeStep, QueuedStep, <1>1, PTL DEF Spec

-----------------------------------------------------------------------------
(* A task is in one place.                                                  *)

\* The tasks that workers have in their hands.
InHand == {hand[w] : w \in Holding}

\* A send puts a new element at the end of a queue.
LEMMA AppendFacts ==
  ASSUME NEW S, NEW q \in Seq(S), NEW t \in S, t \notin Elements(q),
         \A i, j \in DOMAIN q : q[i] = q[j] => i = j
  PROVE  /\ Elements(Append(q, t)) = Elements(q) \union {t}
         /\ \A i, j \in DOMAIN Append(q, t) :
               Append(q, t)[i] = Append(q, t)[j] => i = j
  <1> DEFINE r == Append(q, t)
  <1>1. /\ DOMAIN r = DOMAIN q \union {Len(q) + 1} /\ r[Len(q) + 1] = t
        /\ Len(q) + 1 \notin DOMAIN q
        /\ \A i \in DOMAIN q : r[i] = q[i]
    OBVIOUS
  <1> HIDE DEF r
  <1>2. \A i \in DOMAIN q : r[i] # t
    BY <1>1 DEF Elements
  <1>3. Elements(r) = Elements(q) \union {t}
    BY <1>1 DEF Elements
  <1>4. \A i, j \in DOMAIN r : r[i] = r[j] => i = j
    BY <1>1, <1>2
  <1>5. QED
    BY <1>3, <1>4 DEF r

\* A receive takes the first element out of a queue without duplicates.
LEMMA TailFacts ==
  ASSUME NEW S, NEW q \in Seq(S), q # <<>>,
         \A i, j \in DOMAIN q : q[i] = q[j] => i = j
  PROVE  /\ Elements(Tail(q)) = Elements(q) \ {Head(q)}
         /\ Head(q) \in Elements(q)
         /\ \A i, j \in DOMAIN Tail(q) : Tail(q)[i] = Tail(q)[j] => i = j
  <1> DEFINE r == Tail(q)
  <1>1. /\ DOMAIN q = 1..Len(q) /\ Len(q) \in Nat \ {0} /\ Head(q) = q[1]
        /\ DOMAIN r = 1..(Len(q) - 1)
        /\ \A i \in DOMAIN r : r[i] = q[i + 1]
    OBVIOUS
  <1> HIDE DEF r
  <1>2. \A i \in DOMAIN r : i + 1 \in DOMAIN q /\ i + 1 # 1 /\ 1 \in DOMAIN q
    BY <1>1
  <1>3. \A i \in DOMAIN q : i # 1 => i - 1 \in DOMAIN r /\ r[i - 1] = q[i]
    BY <1>1
  <1>4. Elements(r) = Elements(q) \ {Head(q)}
    <2>1. ASSUME NEW x \in Elements(r) PROVE x \in Elements(q) \ {Head(q)}
      BY <1>1, <1>2 DEF Elements
    <2>2. ASSUME NEW x \in Elements(q) \ {Head(q)} PROVE x \in Elements(r)
      BY <1>1, <1>3 DEF Elements
    <2>3. QED
      BY <2>1, <2>2
  <1>5. ASSUME NEW i \in DOMAIN r, NEW j \in DOMAIN r, r[i] = r[j] PROVE i = j
    <2>1. q[i + 1] = q[j + 1] /\ i + 1 \in DOMAIN q /\ j + 1 \in DOMAIN q
      BY <1>1, <1>2, <1>5
    <2>2. i + 1 = j + 1 /\ i \in Int /\ j \in Int
      BY <2>1, <1>1
    <2>3. QED
      BY <2>2
  <1>6. QED
    <2>1. Head(q) \in Elements(q)
      BY <1>1 DEF Elements
    <2>2. QED
      BY <2>1, <1>4, <1>5 DEF r

\* A task that no Submit was called with is in none of the places.
LEMMA FreshIsNowhere ==
  ASSUME NoneTwice, NoneLost, NEW t \in Fresh
  PROVE  t \notin Elements(taskQueue) \union finished \union InHand
                  \union refused
  <1>1. t \notin Elements(taskQueue) \union finished \union Running
                 \union refused
    BY DEF Fresh, NoneLost
  <1>2. ASSUME NEW w \in Holding PROVE hand[w] \in Running \union finished
    BY DEF Holding, Running, NoneTwice
  <1>3. QED
    BY <1>1, <1>2 DEF InHand

\* NoneTwice in terms of InHand, the form the steps below use.
LEMMA NoneTwiceUnfolded ==
  NoneTwice <=>
    /\ \A i, j \in DOMAIN taskQueue : taskQueue[i] = taskQueue[j] => i = j
    /\ \A v, w \in Holding : hand[v] = hand[w] => v = w
    /\ Elements(taskQueue) \intersect InHand = {}
    /\ finished \intersect Elements(taskQueue) = {}
    /\ \A w \in Holding : worker[w] \in {"took", "run"} <=> hand[w] \notin finished
    /\ refused \intersect (Elements(taskQueue) \union finished \union InHand) = {}
  BY DEF NoneTwice, InHand

\* A step that moves no task keeps NoneTwice, if no worker enters or ends one.
LEMMA NoneTwiceKept ==
  ASSUME NoneTwice, UNCHANGED <<taskQueue, hand, finished, refused>>,
         \A w \in Holding : worker'[w] \in {"took", "run"} <=>
                                worker[w] \in {"took", "run"}
  PROVE  NoneTwice'
  <1>1. Holding' = Holding
    BY DEF Holding
  <1>2. QED
    BY <1>1 DEF NoneTwice

\* No step puts a task into a second place.
LEMMA NoneTwiceStep == TypeInv /\ TaskOnce /\ [Next]_vars => NoneTwice'
  <1> SUFFICES ASSUME TypeInv, NoneTwice, NoneLost, [Next]_vars PROVE NoneTwice'
    BY DEF TaskOnce
  <1>t. /\ taskQueue \in Seq(Task)
        /\ hand \in [Worker -> Task \union {NoTask}]
        /\ worker \in [Worker -> WorkerPC]
        /\ NoTask \notin Task
    BY PoolAssumption DEF TypeInv, TypeOK, PoolAssumption
  <1>1. CASE Start
    <2>1. Holding = {}
      BY <1>1 DEF Start, TypeInv, NewInv, Holding
    <2>2. UNCHANGED <<taskQueue, hand, finished, refused>>
      BY <1>1 DEF Start, submitterVars
    <2>3. QED
      BY <2>1, <2>2, NoneTwiceKept
  <1>2. CASE \/ Cancel \/ StopStep \/ ManagerStep \/ UNCHANGED vars
    <2>1. UNCHANGED <<taskQueue, hand, finished, refused, worker>>
      BY <1>2 DEF Cancel, StopStep, CloseQueue, WaitWorkers, ManagerStep,
          OptimizeStep, Tick,
           LoadActive, Optimize, Shrink, Signal, ManagerExit, vars,
           submitterVars, workerVars
    <2>2. QED
      BY <2>1, NoneTwiceKept
  <1>3. ASSUME NEW s \in Submitter, NEW t \in Task, SubmitCall(s, t)
        PROVE  NoneTwice'
    <2>1. CASE SubmitPanics(s, t)
      <3>1. UNCHANGED <<taskQueue, hand, finished, refused, worker>>
        BY <2>1 DEF SubmitPanics, submitterVars, workerVars
      <3>2. QED
        BY <3>1, NoneTwiceKept
    <2>2. CASE SubmitCancelled(s, t) \/ SubmitFull(s, t)
      <3>1. /\ UNCHANGED <<taskQueue, hand, finished, worker>>
            /\ refused' = refused \union {t}
            /\ t \in Fresh
        BY <2>2 DEF SubmitCancelled, SubmitFull, workerVars
      <3>2. t \notin Elements(taskQueue) \union finished \union InHand
        BY <3>1, FreshIsNowhere
      <3>3. Holding' = Holding /\ InHand' = InHand
        BY <3>1 DEF Holding, InHand
      <3>4. QED
        BY <3>1, <3>2, <3>3 DEF NoneTwice, InHand
    <2>3. CASE SubmitSend(s, t)
      <3>1. /\ UNCHANGED <<hand, finished, worker, refused>>
            /\ taskQueue' = Append(taskQueue, t)
            /\ t \in Fresh
        BY <2>3 DEF SubmitSend, workerVars
      <3>2. t \notin Elements(taskQueue) \union finished \union InHand
                     \union refused
        BY <3>1, FreshIsNowhere
      <3>3. Holding' = Holding /\ InHand' = InHand
        BY <3>1 DEF Holding, InHand
      <3>4. \A i, j \in DOMAIN taskQueue : taskQueue[i] = taskQueue[j] => i = j
        BY DEF NoneTwice
      <3>5. /\ Elements(Append(taskQueue, t)) = Elements(taskQueue) \union {t}
            /\ \A i, j \in DOMAIN Append(taskQueue, t) :
                  Append(taskQueue, t)[i] = Append(taskQueue, t)[j] => i = j
        BY <3>2, <3>4, <1>t, AppendFacts
      <3>6. /\ Elements(taskQueue)' = Elements(taskQueue) \union {t}
            /\ \A i, j \in DOMAIN taskQueue' :
                  taskQueue'[i] = taskQueue'[j] => i = j
        BY <3>1, <3>5 DEF Elements
      <3>7. QED
        BY <3>1, <3>2, <3>3, <3>6 DEF NoneTwice, InHand
    <2>4. QED
      BY <1>3, <2>1, <2>2, <2>3 DEF SubmitCall
  <1>4. ASSUME NEW s \in Submitter, SubmitterStep(s) PROVE NoneTwice'
    <2>1. /\ UNCHANGED <<taskQueue, hand, finished, refused>>
          /\ \A w \in Holding : worker'[w] = worker[w]
      <3>1. CASE Spawn(s)
        <4>1. PICK w \in Worker \ Live :
                  worker' = [worker EXCEPT ![w] = "select"]
          BY <3>1 DEF Spawn
        <4>2. w \notin Holding
          BY <4>1 DEF Live, Holding, TypeInv, HandMatches
        <4>3. \A v \in Holding : worker'[v] = worker[v]
          BY <4>1, <4>2, <1>t DEF Holding
        <4>4. QED
          BY <3>1, <4>3 DEF Spawn
      <3>2. CASE ~Spawn(s)
        BY <1>4, <3>2 DEF SubmitterStep, CountQueued, LoadCurrent, LoadQueued,
           CheckMax, AddCurrent, workerVars
      <3>3. QED
        BY <3>1, <3>2
    <2>2. QED
      BY <2>1, NoneTwiceKept
  <1>5. ASSUME NEW w \in Worker, WorkerStep(w) PROVE NoneTwice'
    <2>1. CASE Take(w)
      <3> DEFINE t == Head(taskQueue)
      <3>1. /\ UNCHANGED <<finished, refused>> /\ taskQueue # <<>>
            /\ worker[w] = "select" /\ hand[w] = NoTask
            /\ worker' = [worker EXCEPT ![w] = "took"]
            /\ hand' = [hand EXCEPT ![w] = t]
            /\ taskQueue' = Tail(taskQueue)
        BY <2>1 DEF Take, Goto, submitterVars, TypeInv, HandMatches
      <3>2. \A i, j \in DOMAIN taskQueue : taskQueue[i] = taskQueue[j] => i = j
        BY DEF NoneTwice
      <3>3. /\ Elements(taskQueue)' = Elements(taskQueue) \ {t}
            /\ t \in Elements(taskQueue)
            /\ \A i, j \in DOMAIN taskQueue' :
                  taskQueue'[i] = taskQueue'[j] => i = j
        <4>1. /\ Elements(Tail(taskQueue)) = Elements(taskQueue) \ {t}
              /\ t \in Elements(taskQueue)
              /\ \A i, j \in DOMAIN Tail(taskQueue) :
                    Tail(taskQueue)[i] = Tail(taskQueue)[j] => i = j
          BY <3>1, <3>2, <1>t, TailFacts
        <4>2. QED
          BY <3>1, <4>1 DEF Elements
      <3>4. t \in Task
        BY <3>1, <1>t
      <3> HIDE DEF t
      <3>5. /\ Holding' = Holding \union {w} /\ w \notin Holding
            /\ hand'[w] = t
            /\ \A v \in Holding : hand'[v] = hand[v] /\ worker'[v] = worker[v]
        BY <3>1, <3>4, <1>t DEF Holding
      <3>6. InHand' = InHand \union {t}
        BY <3>5 DEF InHand
      <3>7. t \notin InHand /\ t \notin finished /\ t \notin refused
        BY <3>3 DEF NoneTwice, InHand
      <3>8. \A u, v \in Holding' : hand'[u] = hand'[v] => u = v
        BY <3>5, <3>7 DEF NoneTwice, InHand
      <3>9. /\ Elements(taskQueue)' \intersect InHand' = {}
            /\ finished' \intersect Elements(taskQueue)' = {}
            /\ refused' \intersect (Elements(taskQueue)' \union finished'
                                    \union InHand') = {}
        BY <3>1, <3>3, <3>6, <3>7, NoneTwiceUnfolded
      <3>10. \A v \in Holding' : worker'[v] \in {"took", "run"} <=>
                                     hand'[v] \notin finished'
        <4>1. worker'[w] = "took" /\ hand'[w] \notin finished'
          BY <3>1, <3>5, <3>7, <1>t
        <4>2. \A v \in Holding : worker[v] \in {"took", "run"} <=>
                                     hand[v] \notin finished
          BY DEF NoneTwice
        <4>3. QED
          BY <3>1, <3>5, <4>1, <4>2
      <3>11. QED
        BY <3>3, <3>8, <3>9, <3>10 DEF NoneTwice, InHand
    <2>2. CASE RunTask(w)
      <3>1. /\ UNCHANGED <<taskQueue, hand, refused>>
            /\ worker[w] = "run" /\ w \in Holding
            /\ worker' = [worker EXCEPT ![w] = "ran"]
            /\ finished' = finished \union {hand[w]}
        BY <2>2 DEF RunTask, Goto, submitterVars, Holding, TypeInv, HandMatches
      <3>2. Holding' = Holding /\ InHand' = InHand /\ hand[w] \in InHand
        BY <3>1 DEF Holding, InHand
      <3>3. ASSUME NEW v \in Holding
            PROVE  worker'[v] \in {"took", "run"} <=> hand[v] \notin finished'
        <4>1. CASE v = w
          BY <3>1, <4>1, <1>t
        <4>2. CASE v # w
          <5>1. worker'[v] = worker[v]
            BY <3>1, <4>2, <1>t DEF Holding
          <5>2. hand[v] # hand[w]
            BY <3>1, <4>2 DEF NoneTwice
          <5>3. QED
            BY <3>1, <5>1, <5>2 DEF NoneTwice
        <4>3. QED
          BY <4>1, <4>2
      <3>4. /\ finished' \intersect Elements(taskQueue) = {}
            /\ refused \intersect (Elements(taskQueue) \union finished'
                                   \union InHand) = {}
        BY <3>1, <3>2, NoneTwiceUnfolded
      <3>5. QED
        BY <3>1, <3>2, <3>3, <3>4 DEF NoneTwice, InHand
    <2>3. CASE Uncount(w)
      <3>1. /\ UNCHANGED <<taskQueue, finished, refused>>
            /\ worker' = [worker EXCEPT ![w] = "select"]
            /\ hand' = [hand EXCEPT ![w] = NoTask]
        BY <2>3 DEF Uncount, Goto, submitterVars
      <3>2. /\ Holding' = Holding \ {w}
            /\ \A v \in Holding' : hand'[v] = hand[v] /\ worker'[v] = worker[v]
        BY <3>1, <1>t DEF Holding
      <3>3. InHand' \subseteq InHand
        BY <3>2 DEF InHand
      <3>4. /\ Elements(taskQueue) \intersect InHand' = {}
            /\ refused \intersect (Elements(taskQueue) \union finished
                                   \union InHand') = {}
        BY <3>3, NoneTwiceUnfolded
      <3>5. QED
        BY <3>1, <3>2, <3>4 DEF NoneTwice, InHand
    <2>4. CASE ~Take(w) /\ ~RunTask(w) /\ ~Uncount(w)
      <3>1. UNCHANGED <<taskQueue, hand, finished, refused>>
        BY <1>5, <2>4 DEF WorkerStep, MarkActive, MarkIdle, CountCompleted,
           SeeStop, IdleTimeout, Leave, submitterVars
      <3>2. \A v \in Holding : worker'[v] \in {"took", "run"} <=>
                                   worker[v] \in {"took", "run"}
        BY <1>5, <2>4, <1>t DEF WorkerStep, MarkActive, MarkIdle,
           CountCompleted, SeeStop, IdleTimeout, Leave, Goto, Holding
      <3>3. QED
        BY <3>1, <3>2, NoneTwiceKept
    <2>5. QED
      BY <2>1, <2>2, <2>3, <2>4
  <1>6. QED
    BY <1>1, <1>2, <1>3, <1>4, <1>5 DEF Next

LEMMA NoneTwiceInit == Init => NoneTwice
  <1>1. Init => Holding = {} /\ Elements(taskQueue) = {}
    BY DEF Init, Holding, Elements
  <1>2. Init => DOMAIN taskQueue = {} /\ finished = {} /\ refused = {}
    BY DEF Init
  <1>3. QED
    BY <1>1, <1>2 DEF NoneTwice

\* A step that moves no task and begins or ends none keeps NoneLost.
LEMMA NoneLostKept ==
  ASSUME NoneLost, UNCHANGED <<taskQueue, finished, accepted>>,
         \A w \in Worker : worker'[w] \in {"took", "run"} <=>
                                worker[w] \in {"took", "run"},
         \A w \in Worker : worker[w] \in {"took", "run"} => hand'[w] = hand[w]
  PROVE  NoneLost'
  <1>1. Running' = Running
    <2>1. ASSUME NEW t PROVE t \in Running' <=> t \in Running
      BY DEF Running
    <2>2. QED
      BY <2>1, Zenon
  <1>2. QED
    BY <1>1 DEF NoneLost, Elements

\* No step drops a task: what leaves the queue is in a hand, and what leaves a
\* hand unfinished does not exist.
LEMMA NoneLostStep == TypeInv /\ TaskOnce /\ [Next]_vars => NoneLost'
  <1> SUFFICES ASSUME TypeInv, NoneTwice, NoneLost, [Next]_vars PROVE NoneLost'
    BY DEF TaskOnce
  <1>t. /\ taskQueue \in Seq(Task)
        /\ hand \in [Worker -> Task \union {NoTask}]
        /\ worker \in [Worker -> WorkerPC]
        /\ NoTask \notin Task
    BY PoolAssumption DEF TypeInv, TypeOK, PoolAssumption
  <1>1. CASE Start
    <2>1. \A w \in Worker : worker[w] = "none" /\ hand' = hand
                            /\ worker'[w] \in {"none", "select"}
      BY <1>1 DEF Start, TypeInv, NewInv
    <2>2. UNCHANGED <<taskQueue, finished, accepted>>
      BY <1>1 DEF Start, submitterVars
    <2>3. QED
      BY <2>1, <2>2, NoneLostKept
  <1>2. CASE \/ Cancel \/ StopStep \/ ManagerStep \/ UNCHANGED vars
    <2>1. UNCHANGED <<taskQueue, hand, finished, accepted, worker>>
      BY <1>2 DEF Cancel, StopStep, CloseQueue, WaitWorkers, ManagerStep,
           OptimizeStep, Tick, LoadActive, Optimize, Shrink, Signal,
           ManagerExit, vars, submitterVars, workerVars
    <2>2. QED
      BY <2>1, NoneLostKept
  <1>3. ASSUME NEW s \in Submitter, NEW t \in Task, SubmitCall(s, t)
        PROVE  NoneLost'
    <2>1. CASE SubmitPanics(s, t) \/ SubmitCancelled(s, t) \/ SubmitFull(s, t)
      <3>1. UNCHANGED <<taskQueue, hand, finished, accepted, worker>>
        BY <2>1 DEF SubmitPanics, SubmitCancelled, SubmitFull, submitterVars,
             workerVars
      <3>2. QED
        BY <3>1, NoneLostKept
    <2>2. CASE SubmitSend(s, t)
      <3>1. /\ UNCHANGED <<hand, finished, worker>>
            /\ taskQueue' = Append(taskQueue, t)
            /\ accepted' = accepted \union {t} /\ t \in Fresh
        BY <2>2 DEF SubmitSend, workerVars
      <3>2. t \notin Elements(taskQueue)
        BY <3>1, FreshIsNowhere
      <3>3. \A i, j \in DOMAIN taskQueue : taskQueue[i] = taskQueue[j] => i = j
        BY DEF NoneTwice
      <3>4. Elements(Append(taskQueue, t)) = Elements(taskQueue) \union {t}
        BY <3>2, <3>3, <1>t, AppendFacts
      <3>5. Elements(taskQueue)' = Elements(taskQueue) \union {t}
        BY <3>1, <3>4 DEF Elements
      <3>6. Running' = Running
        BY <3>1 DEF Running
      <3>7. QED
        BY <3>1, <3>5, <3>6 DEF NoneLost
    <2>3. QED
      BY <1>3, <2>1, <2>2 DEF SubmitCall
  <1>4. ASSUME NEW s \in Submitter, SubmitterStep(s) PROVE NoneLost'
    <2>1. CASE Spawn(s)
      <3>1. PICK w \in Worker \ Live :
                worker' = [worker EXCEPT ![w] = "select"]
        BY <2>1 DEF Spawn
      <3>2. \A v \in Worker : worker'[v] \in {"took", "run"} <=>
                               worker[v] \in {"took", "run"}
        BY <3>1, <1>t DEF Live
      <3>3. UNCHANGED <<taskQueue, hand, finished, accepted>>
        BY <2>1 DEF Spawn
      <3>4. QED
        BY <3>2, <3>3, NoneLostKept
    <2>2. CASE ~Spawn(s)
      <3>1. UNCHANGED <<taskQueue, hand, finished, accepted, worker>>
        BY <1>4, <2>2 DEF SubmitterStep, CountQueued, LoadCurrent, LoadQueued,
           CheckMax, AddCurrent, workerVars
      <3>2. QED
        BY <3>1, NoneLostKept
    <2>3. QED
      BY <2>1, <2>2
  <1>5. ASSUME NEW w \in Worker, WorkerStep(w) PROVE NoneLost'
    <2>1. CASE Take(w)
      <3> DEFINE h == Head(taskQueue)
      <3>1. /\ UNCHANGED <<finished, accepted>> /\ taskQueue # <<>>
            /\ worker[w] = "select"
            /\ worker' = [worker EXCEPT ![w] = "took"]
            /\ hand' = [hand EXCEPT ![w] = h]
            /\ taskQueue' = Tail(taskQueue)
        BY <2>1 DEF Take, Goto, submitterVars
      <3>2. \A i, j \in DOMAIN taskQueue : taskQueue[i] = taskQueue[j] => i = j
        BY DEF NoneTwice
      <3>3. /\ Elements(Tail(taskQueue)) = Elements(taskQueue) \ {h}
            /\ h \in Elements(taskQueue)
        BY <3>1, <3>2, <1>t, TailFacts
      <3>4. Elements(taskQueue)' = Elements(taskQueue) \ {h}
        BY <3>1, <3>3 DEF Elements
      <3>5. /\ hand'[w] = h /\ worker'[w] = "took"
            /\ \A v \in Worker : v # w => hand'[v] = hand[v]
                                          /\ worker'[v] = worker[v]
        BY <3>1, <1>t
      <3> HIDE DEF h
      <3>6. Running' = Running \union {h}
        BY <3>1, <3>5 DEF Running
      <3>7. QED
        BY <3>1, <3>3, <3>4, <3>6 DEF NoneLost
    <2>2. CASE RunTask(w)
      <3>1. /\ UNCHANGED <<taskQueue, hand, accepted>>
            /\ worker[w] = "run"
            /\ worker' = [worker EXCEPT ![w] = "ran"]
            /\ finished' = finished \union {hand[w]}
        BY <2>2 DEF RunTask, Goto, submitterVars
      <3>2. /\ Running' \subseteq Running
            /\ Running \subseteq Running' \union {hand[w]}
            /\ hand[w] \in Running
        BY <3>1, <1>t DEF Running
      <3>3. QED
        BY <3>1, <3>2 DEF NoneLost, Elements
    <2>3. CASE ~Take(w) /\ ~RunTask(w)
      <3>1. UNCHANGED <<taskQueue, finished, accepted>>
        BY <1>5, <2>3 DEF WorkerStep, MarkActive, MarkIdle, CountCompleted,
           Uncount, SeeStop, IdleTimeout, Leave, submitterVars
      <3>2. \A v \in Worker : worker'[v] \in {"took", "run"} <=>
                                  worker[v] \in {"took", "run"}
        BY <1>5, <2>3, <1>t DEF WorkerStep, MarkActive, MarkIdle,
           CountCompleted, Uncount, SeeStop, IdleTimeout, Leave, Goto
      <3>3. \A v \in Worker : worker[v] \in {"took", "run"} =>
                                  hand'[v] = hand[v]
        BY <1>5, <2>3, <1>t DEF WorkerStep, MarkActive, MarkIdle,
           CountCompleted, Uncount, SeeStop, IdleTimeout, Leave, Goto
      <3>4. QED
        BY <3>1, <3>2, <3>3, NoneLostKept
    <2>4. QED
      BY <2>1, <2>2, <2>3
  <1>6. QED
    BY <1>1, <1>2, <1>3, <1>4, <1>5 DEF Next

LEMMA TaskOnceStep == TypeInv /\ TaskOnce /\ [Next]_vars => TaskOnce'
  BY NoneTwiceStep, NoneLostStep DEF TaskOnce

LEMMA TaskOnceInit == Init => TaskOnce
  <1>1. Init => /\ Elements(taskQueue) = {} /\ Running = {}
                /\ finished = {} /\ accepted = {}
    BY DEF Init, Elements, Running
  <1>2. QED
    BY <1>1, NoneTwiceInit DEF TaskOnce, NoneLost

\* Every accepted task waits, is being run or has run, and it is in one of
\* these places only and never refused as well: none is lost and none is run
\* twice, for any number of submitters and workers (lines 65-72 and 101-107).
THEOREM TasksRunOnce == Spec => []TaskOnce
  BY TypeInit, TypeStep, TaskOnceInit, TaskOnceStep, PTL DEF Spec

-----------------------------------------------------------------------------
(* Stats.                                                                   *)

\* The workers that activeWorkers counts, and those whose finished task
\* completedTasks does not count yet.
Busy == {w \in Worker : worker[w] \in {"run", "ran"}}
Uncounted == {w \in Worker : worker[w] \in {"ran", "idle"}}

\* Only finitely many tasks have run.
StatsInv == IsFiniteSet(finished) /\ StatsExact

\* One worker goes from one place to another.
LEMMA BusyMoves ==
  ASSUME TypeInv, NEW w \in Worker, NEW from, NEW to, Goto(w, from, to)
  PROVE  LET was == from \in {"run", "ran"}
             is == to \in {"run", "ran"}
         IN  /\ ~was /\ is => Cardinality(Busy') = Cardinality(Busy) + 1
             /\ was /\ ~is => Cardinality(Busy') = Cardinality(Busy) - 1
             /\ (was <=> is) => Cardinality(Busy') = Cardinality(Busy)
  <1>1. \A y : y # w => (y \in Busy <=> y \in Busy')
    BY DEF Busy, Goto, TypeInv, TypeOK
  <1>2. IsFiniteSet(Busy)
    BY PoolAssumption, FS_Subset DEF PoolAssumption, Busy
  <1>3. /\ w \in Busy <=> from \in {"run", "ran"}
        /\ w \in Busy' <=> to \in {"run", "ran"}
    BY DEF Busy, Goto, TypeInv, TypeOK
  <1>4. QED
    BY <1>1, <1>2, <1>3, Flip

LEMMA UncountedMoves ==
  ASSUME TypeInv, NEW w \in Worker, NEW from, NEW to, Goto(w, from, to)
  PROVE  LET was == from \in {"ran", "idle"}
             is == to \in {"ran", "idle"}
         IN  /\ ~was /\ is => Cardinality(Uncounted') = Cardinality(Uncounted) + 1
             /\ was /\ ~is => Cardinality(Uncounted') = Cardinality(Uncounted) - 1
             /\ (was <=> is) => Cardinality(Uncounted') = Cardinality(Uncounted)
  <1>1. \A y : y # w => (y \in Uncounted <=> y \in Uncounted')
    BY DEF Uncounted, Goto, TypeInv, TypeOK
  <1>2. IsFiniteSet(Uncounted)
    BY PoolAssumption, FS_Subset DEF PoolAssumption, Uncounted
  <1>3. /\ w \in Uncounted <=> from \in {"ran", "idle"}
        /\ w \in Uncounted' <=> to \in {"ran", "idle"}
    BY DEF Uncounted, Goto, TypeInv, TypeOK
  <1>4. QED
    BY <1>1, <1>2, <1>3, Flip

\* Every step keeps the counters of Stats exact.
LEMMA StatsStep ==
  TypeInv /\ TaskOnce /\ StatsInv /\ [Next]_vars => StatsInv'
  <1> SUFFICES ASSUME TypeInv, TaskOnce, StatsInv, [Next]_vars
               PROVE  StatsInv'
    OBVIOUS
  <1> USE DEF StatsInv
  <1>t. /\ activeWorkers \in Int /\ completedTasks \in Int
        /\ IsFiniteSet(finished) /\ Cardinality(finished) \in Nat
        /\ Cardinality(Busy) \in Nat /\ Cardinality(Uncounted) \in Nat
    <2>1. Busy \in SUBSET Worker /\ Uncounted \in SUBSET Worker
      BY DEF Busy, Uncounted
    <2>2. QED
      BY <2>1, PoolAssumption, FS_Subset, FS_CardinalityType
         DEF PoolAssumption, TypeInv, TypeOK
  <1>s. /\ StatsExact <=> /\ activeWorkers = Cardinality(Busy)
                          /\ completedTasks + Cardinality(Uncounted)
                               = Cardinality(finished)
        /\ StatsExact' <=> /\ activeWorkers' = Cardinality(Busy')
                           /\ completedTasks' + Cardinality(Uncounted')
                                = Cardinality(finished')
    BY DEF StatsExact, Busy, Uncounted
  <1>u. ASSUME UNCHANGED <<activeWorkers, completedTasks, finished>>,
               Busy' = Busy, Uncounted' = Uncounted
        PROVE  StatsInv'
    BY <1>u, <1>s
  <1>1. CASE Start
    <2>1. /\ UNCHANGED <<activeWorkers, completedTasks, finished>>
          /\ \A w \in Worker : worker[w] = "none" /\ worker'[w] \in {"none", "select"}
      BY <1>1 DEF Start, TypeInv, NewInv
    <2>2. Busy' = Busy /\ Uncounted' = Uncounted
      BY <2>1 DEF Busy, Uncounted
    <2>3. QED
      BY <1>u, <2>1, <2>2
  <1>2. CASE \/ Cancel \/ StopStep \/ ManagerStep \/ UNCHANGED vars
    <2>1. UNCHANGED <<activeWorkers, completedTasks, finished, worker>>
      BY <1>2 DEF Cancel, StopStep, CloseQueue, WaitWorkers, ManagerStep,
          OptimizeStep, Tick,
           LoadActive, Optimize, Shrink, Signal, ManagerExit, vars,
           workerVars, counters
    <2>2. QED
      BY <1>u, <2>1 DEF Busy, Uncounted
  <1>3. ASSUME NEW s \in Submitter, NEW t \in Task, SubmitCall(s, t)
        PROVE  StatsInv'
    <2>1. UNCHANGED <<activeWorkers, completedTasks, finished, worker>>
      BY <1>3 DEF SubmitCall, SubmitSend, SubmitCancelled, SubmitFull,
           SubmitPanics, workerVars, counters
    <2>2. QED
      BY <1>u, <2>1 DEF Busy, Uncounted
  <1>4. ASSUME NEW s \in Submitter, SubmitterStep(s) PROVE StatsInv'
    <2>1. CASE Spawn(s)
      <3>1. /\ UNCHANGED <<activeWorkers, completedTasks, finished>>
            /\ \E w \in Worker : /\ worker[w] = "none"
                                 /\ worker' = [worker EXCEPT ![w] = "select"]
        BY <2>1 DEF Spawn, Live, counters
      <3>2. Busy' = Busy /\ Uncounted' = Uncounted
        BY <3>1 DEF Busy, Uncounted, TypeInv, TypeOK
      <3>3. QED
        BY <1>u, <3>1, <3>2
    <2>2. CASE ~Spawn(s)
      <3>1. UNCHANGED <<activeWorkers, completedTasks, finished, worker>>
        BY <1>4, <2>2 DEF SubmitterStep, CountQueued, LoadCurrent, LoadQueued,
             CheckMax, AddCurrent, workerVars, counters
      <3>2. QED
        BY <1>u, <3>1 DEF Busy, Uncounted
    <2>3. QED
      BY <2>1, <2>2
  <1>5. ASSUME NEW w \in Worker, WorkerStep(w) PROVE StatsInv'
    <2>1. CASE MarkActive(w)
      <3>1. /\ Goto(w, "took", "run") /\ activeWorkers' = activeWorkers + 1
            /\ UNCHANGED <<completedTasks, finished>>
        BY <2>1 DEF MarkActive
      <3>2. Cardinality(Busy') = Cardinality(Busy) + 1
        BY <3>1, BusyMoves
      <3>3. Cardinality(Uncounted') = Cardinality(Uncounted)
        BY <3>1, UncountedMoves
      <3>4. QED
        BY <1>s, <1>t, <3>1, <3>2, <3>3
    <2>2. CASE RunTask(w)
      <3>1. /\ Goto(w, "run", "ran") /\ finished' = finished \union {hand[w]}
            /\ UNCHANGED <<activeWorkers, completedTasks>>
        BY <2>2 DEF RunTask, counters
      <3>2. hand[w] \notin finished
        BY <3>1 DEF Goto, TypeInv, HandMatches, Holding, TaskOnce, NoneTwice
      <3>3. /\ IsFiniteSet(finished')
            /\ Cardinality(finished') = Cardinality(finished) + 1
        BY <1>t, <3>1, <3>2, FS_AddElement
      <3>4. Cardinality(Busy') = Cardinality(Busy)
        BY <3>1, BusyMoves
      <3>5. Cardinality(Uncounted') = Cardinality(Uncounted) + 1
        BY <3>1, UncountedMoves
      <3>6. QED
        BY <1>s, <1>t, <3>1, <3>3, <3>4, <3>5
    <2>3. CASE MarkIdle(w)
      <3>1. /\ Goto(w, "ran", "idle") /\ activeWorkers' = activeWorkers - 1
            /\ UNCHANGED <<completedTasks, finished>>
        BY <2>3 DEF MarkIdle
      <3>2. Cardinality(Busy') = Cardinality(Busy) - 1
        BY <3>1, BusyMoves
      <3>3. Cardinality(Uncounted') = Cardinality(Uncounted)
        BY <3>1, UncountedMoves
      <3>4. QED
        BY <1>s, <1>t, <3>1, <3>2, <3>3
    <2>4. CASE CountCompleted(w)
      <3>1. /\ Goto(w, "idle", "completed")
            /\ completedTasks' = completedTasks + 1
            /\ UNCHANGED <<activeWorkers, finished>>
        BY <2>4 DEF CountCompleted
      <3>2. Cardinality(Busy') = Cardinality(Busy)
        BY <3>1, BusyMoves
      <3>3. Cardinality(Uncounted') = Cardinality(Uncounted) - 1
        BY <3>1, UncountedMoves
      <3>4. QED
        BY <1>s, <1>t, <3>1, <3>2, <3>3
    <2>5. CASE Take(w) \/ Uncount(w) \/ SeeStop(w) \/ IdleTimeout(w) \/ Leave(w)
      <3>1. /\ UNCHANGED <<activeWorkers, completedTasks, finished>>
            /\ \E from, to \in {"select", "took", "completed", "leave", "none"} :
                  Goto(w, from, to)
        BY <2>5 DEF Take, Uncount, SeeStop, IdleTimeout, Leave, counters
      <3>2. Busy' = Busy /\ Uncounted' = Uncounted
        BY <3>1 DEF Goto, Busy, Uncounted, TypeInv, TypeOK
      <3>3. QED
        BY <1>u, <3>1, <3>2
    <2>6. QED
      BY <1>5, <2>1, <2>2, <2>3, <2>4, <2>5 DEF WorkerStep
  <1>6. QED
    BY <1>1, <1>2, <1>3, <1>4, <1>5 DEF Next

\* What Stats reports is exact up to the lines a worker has still to run
\* (103, 107-109), with any number of workers.
THEOREM StatsCount == Spec => []StatsExact
  <1>1. Init => StatsInv
    <2>1. Init => /\ Busy = {} /\ Uncounted = {} /\ finished = {}
                  /\ activeWorkers = 0 /\ completedTasks = 0
      BY DEF Init, Busy, Uncounted
    <2>2. QED
      BY <2>1, FS_EmptySet DEF StatsInv, StatsExact, Busy, Uncounted
  <1>2. Init => TaskOnce
    BY TaskOnceInit
  <1>3. StatsInv => StatsExact
    BY DEF StatsInv
  <1>4. QED
    BY TypeInit, TypeStep, TaskOnceStep, StatsStep, <1>1, <1>2, <1>3, PTL
       DEF Spec

-----------------------------------------------------------------------------
(* The pool implements TaskPool.                                            *)

\* What stands for TaskPool's gate.
Gate == CASE stage \in {"new", "up"} -> "open"
          [] stage = "cancelled" -> "closing"
          [] OTHER -> stage

\* The buffered channel holds no more than its capacity.
QueueBounded == Len(taskQueue) <= QueueSize

\* Every step respects the capacity of taskQueue.
LEMMA QueueStep == TypeInv /\ QueueBounded /\ [Next]_vars => QueueBounded'
  <1> SUFFICES ASSUME TypeInv, QueueBounded, [Next]_vars PROVE QueueBounded'
    OBVIOUS
  <1>t. /\ taskQueue \in Seq(Task) /\ Len(taskQueue) \in Nat
        /\ QueueSize \in Nat
    BY PoolAssumption DEF TypeInv, TypeOK, PoolAssumption
  <1>1. CASE taskQueue' = taskQueue
    BY <1>1 DEF QueueBounded
  <1>2. ASSUME NEW s \in Submitter, NEW t \in Task, SubmitSend(s, t)
        PROVE  QueueBounded'
    BY <1>2, <1>t DEF SubmitSend, CanSend, QueueBounded
  <1>3. ASSUME NEW w \in Worker, Take(w) PROVE QueueBounded'
    <2>1. Len(taskQueue') = Len(taskQueue) - 1
      BY <1>3, <1>t DEF Take
    <2>2. QED
      BY <2>1, <1>t DEF QueueBounded
  <1>4. \/ taskQueue' = taskQueue
        \/ \E s \in Submitter, t \in Task : SubmitSend(s, t)
        \/ \E w \in Worker : Take(w)
    BY DEF Next, Start, Cancel, StopStep, CloseQueue, WaitWorkers,
         SubmitCall, SubmitCancelled, SubmitFull, SubmitPanics,
         SubmitterStep, CountQueued, LoadCurrent, LoadQueued, CheckMax,
         AddCurrent, Spawn, WorkerStep, MarkActive, RunTask, MarkIdle,
         CountCompleted, Uncount, SeeStop, IdleTimeout, Leave, ManagerStep,
         OptimizeStep,
         Tick, LoadActive, Optimize, Shrink, Signal, ManagerExit, vars
  <1>5. QED
    BY <1>1, <1>2, <1>3, <1>4

\* A running task is in the hand of its worker, and is not NoTask.
LEMMA RunningInHand ==
  ASSUME TypeInv
  PROVE  /\ Running \subseteq InHand
         /\ \A w \in Worker : worker[w] \in {"took", "run"} => w \in Holding
  BY DEF Running, InHand, Holding, TypeInv, HandMatches

\* A task no Submit was called with is new to TaskPool.
LEMMA FreshIsNew ==
  ASSUME TypeInv, TaskOnce, NEW t \in Fresh
  PROVE  t \in Promise!New
  <1>1. t \in Task \ (Elements(taskQueue) \union InHand \union finished
                      \union refused)
    BY FreshIsNowhere DEF Fresh, TaskOnce
  <1>2. t \notin Running
    BY <1>1, RunningInHand
  <1>3. QED
    BY <1>1, <1>2 DEF Promise!New, Elements, Running

\* What a step of the pool leaves alone, TaskPool does not see.
LEMMA Invisible ==
  ASSUME UNCHANGED <<taskQueue, finished, refused>>, Gate' = Gate,
         Running' = Running
  PROVE  UNCHANGED Promise!vars
  BY DEF Promise!vars, Gate, Running

\* Every step of the pool is a step of TaskPool or invisible to it.
LEMMA PromiseStep ==
  TypeInv /\ WaitGroupExact /\ TaskOnce /\ QueueBounded /\ [Next]_vars
      => [Promise!Next]_(Promise!vars)
  <1> SUFFICES ASSUME TypeInv, WaitGroupExact, TaskOnce, QueueBounded,
                      [Next]_vars
               PROVE  Promise!Next \/ UNCHANGED Promise!vars
    OBVIOUS
  <1>t. /\ stage \in Stages /\ worker \in [Worker -> WorkerPC]
        /\ hand \in [Worker -> Task \union {NoTask}]
        /\ taskQueue \in Seq(Task)
    BY DEF TypeInv, TypeOK
  <1>1. CASE Start
    <2>1. Running = {} /\ Running' = {}
      BY <1>1 DEF Start, TypeInv, NewInv, Running
    <2>2. /\ UNCHANGED <<taskQueue, finished, refused>> /\ Gate' = Gate
      BY <1>1 DEF Start, submitterVars, Gate
    <2>3. QED
      BY <2>1, <2>2, Invisible
  <1>2. CASE Cancel \/ CloseQueue
    <2>1. /\ UNCHANGED <<taskQueue, hand, worker, finished, refused>>
          /\ \/ stage = "up" /\ stage' = "cancelled"
             \/ stage = "cancelled" /\ stage' = "closed"
      BY <1>2 DEF Cancel, CloseQueue, workerVars, submitterVars
    <2>2. Promise!Stop
      BY <2>1 DEF Promise!Stop, Running
    <2>3. QED
      BY <2>2 DEF Promise!Next
  <1>3. CASE WaitWorkers
    <2>1. /\ UNCHANGED <<taskQueue, hand, worker, finished, refused>>
          /\ stage = "closed" /\ stage' = "stopped" /\ wg = 0
      BY <1>3 DEF WaitWorkers, workerVars, submitterVars
    \* The WaitGroup is exact, so no worker is left that could hold a task.
    <2>2. Live = {}
      BY <2>1, CountsFinite, FS_EmptySet DEF WaitGroupExact
    <2>3. \A w \in Worker : worker[w] \notin {"took", "run"}
      BY <2>2 DEF Live
    <2>4. Promise!Stop
      BY <2>1, <2>3 DEF Promise!Stop, Running
    <2>5. QED
      BY <2>4 DEF Promise!Next
  <1>4. CASE ManagerStep \/ UNCHANGED vars
    <2>1. UNCHANGED <<stage, taskQueue, hand, worker, finished, refused>>
      BY <1>4 DEF ManagerStep, OptimizeStep, Tick, LoadActive, Optimize,
          Shrink, Signal,
           ManagerExit, vars, stopVars, submitterVars, workerVars
    <2>2. QED
      BY <2>1, Invisible DEF Gate, Running
  <1>5. ASSUME NEW s \in Submitter, NEW t \in Task, SubmitCall(s, t)
        PROVE  Promise!Next \/ UNCHANGED Promise!vars
    <2>1. CASE SubmitSend(s, t)
      <3>1. /\ UNCHANGED <<stage, hand, worker, finished, refused>>
            /\ taskQueue' = Append(taskQueue, t)
            /\ stage \in {"up", "cancelled"} /\ Len(taskQueue) < QueueSize
            /\ t \in Fresh
        BY <2>1, <1>t DEF SubmitSend, workerVars, stopVars, CanSend, Closed,
                          Stages
      <3>2. Promise!Accept(t)
        BY <3>1, FreshIsNew DEF Promise!Accept, Running
      <3>3. QED
        BY <3>2 DEF Promise!Next
    <2>2. CASE SubmitCancelled(s, t)
      <3>1. /\ UNCHANGED <<stage, taskQueue, hand, worker, finished>>
            /\ refused' = refused \union {t} /\ t \in Fresh
            /\ stage \in {"cancelled", "closed", "stopped"}
        BY <2>2 DEF SubmitCancelled, workerVars, stopVars, Cancelled
      <3>2. Promise!Refuse(t)
        BY <3>1, FreshIsNew DEF Promise!Refuse, Running
      <3>3. QED
        BY <3>2 DEF Promise!Next
    <2>3. CASE SubmitFull(s, t)
      <3>1. /\ UNCHANGED <<stage, taskQueue, hand, worker, finished>>
            /\ refused' = refused \union {t} /\ t \in Fresh
        BY <2>3 DEF SubmitFull, workerVars, stopVars
      <3>2. Len(taskQueue) = QueueSize
        <4>1. ~(Len(taskQueue) < QueueSize)
          BY <2>3 DEF SubmitFull, CanSend, Cancelled, Closed
        <4>2. Len(taskQueue) \in Nat /\ QueueSize \in Nat
          BY <1>t, PoolAssumption DEF PoolAssumption
        <4>3. QED
          BY <4>1, <4>2 DEF QueueBounded
      <3>3. Promise!Refuse(t)
        BY <3>1, <3>2, FreshIsNew DEF Promise!Refuse, Running
      <3>4. QED
        BY <3>3 DEF Promise!Next
    <2>4. CASE SubmitPanics(s, t)
      <3>1. UNCHANGED <<stage, taskQueue, hand, worker, finished, refused>>
        BY <2>4 DEF SubmitPanics, workerVars, submitterVars
      <3>2. QED
        BY <3>1, Invisible DEF Gate, Running
    <2>5. QED
      BY <1>5, <2>1, <2>2, <2>3, <2>4 DEF SubmitCall
  <1>6. ASSUME NEW s \in Submitter, SubmitterStep(s)
        PROVE  UNCHANGED Promise!vars
    <2>1. UNCHANGED <<stage, taskQueue, hand, finished, refused>>
      BY <1>6 DEF SubmitterStep, CountQueued, LoadCurrent, LoadQueued,
           CheckMax, AddCurrent, Spawn, stopVars, workerVars
    <2>2. \A w \in Worker : worker'[w] \in {"took", "run"} <=>
                                worker[w] \in {"took", "run"}
      <3>1. CASE Spawn(s)
        BY <3>1, <1>t DEF Spawn, Live
      <3>2. CASE ~Spawn(s)
        BY <1>6, <3>2 DEF SubmitterStep, CountQueued, LoadCurrent, LoadQueued,
           CheckMax, AddCurrent, workerVars
      <3>3. QED
        BY <3>1, <3>2
    <2>3. Gate' = Gate /\ Running' = Running
      BY <2>1, <2>2 DEF Gate, Running
    <2>4. QED
      BY <2>1, <2>3, Invisible
  <1>7. ASSUME NEW w \in Worker, WorkerStep(w)
        PROVE  Promise!Next \/ UNCHANGED Promise!vars
    <2>1. CASE Take(w)
      <3>1. /\ UNCHANGED <<stage, finished, refused>> /\ taskQueue # <<>>
            /\ worker[w] = "select"
            /\ worker' = [worker EXCEPT ![w] = "took"]
            /\ hand' = [hand EXCEPT ![w] = Head(taskQueue)]
            /\ taskQueue' = Tail(taskQueue)
        BY <2>1 DEF Take, Goto, stopVars, submitterVars
      <3>2. Running' = Running \union {Head(taskQueue)}
        <4> DEFINE h == Head(taskQueue)
        <4>1. /\ hand'[w] = h /\ worker'[w] = "took"
              /\ \A v \in Worker : v # w => hand'[v] = hand[v]
                                            /\ worker'[v] = worker[v]
          BY <3>1, <1>t
        <4> HIDE DEF h
        <4>2. Running' = Running \union {h}
          BY <3>1, <4>1 DEF Running
        <4>3. QED
          BY <4>2 DEF h
      <3>3. Promise!Begin
        BY <3>1, <3>2 DEF Promise!Begin, Running
      <3>4. QED
        BY <3>3 DEF Promise!Next
    <2>2. CASE RunTask(w)
      <3>1. /\ UNCHANGED <<stage, taskQueue, hand, refused>>
            /\ worker[w] = "run" /\ w \in Holding
            /\ worker' = [worker EXCEPT ![w] = "ran"]
            /\ finished' = finished \union {hand[w]}
        BY <2>2 DEF RunTask, Goto, stopVars, submitterVars, Holding, TypeInv,
                    HandMatches
      <3>2. \A v \in Worker : v # w /\ worker[v] \in {"took", "run"}
                                  => hand[v] # hand[w]
        BY <3>1, RunningInHand DEF TaskOnce, NoneTwice
      <3>3. \A v \in Worker : worker'[v] \in {"took", "run"} <=>
                                  v # w /\ worker[v] \in {"took", "run"}
        BY <3>1, <1>t
      <3>4. Running' = Running \ {hand[w]} /\ hand[w] \in Running
        <4>1. hand[w] \in Running
          BY <3>1 DEF Running
        <4>2. ASSUME NEW t \in Running' PROVE t \in Running \ {hand[w]}
          BY <3>1, <3>2, <3>3 DEF Running
        <4>3. ASSUME NEW t \in Running \ {hand[w]} PROVE t \in Running'
          BY <3>1, <3>3 DEF Running
        <4>4. \A t : t \in Running' <=> t \in Running \ {hand[w]}
          BY <4>2, <4>3
        <4>5. Running' = Running \ {hand[w]}
          BY <4>4, Zenon
        <4>6. QED
          BY <4>1, <4>5
      <3>5. PICK t \in Task : t = hand[w]
        BY <3>1, <1>t DEF Holding
      <3>6. Promise!End(t)
        BY <3>1, <3>4, <3>5 DEF Promise!End, Running
      <3>7. QED
        BY <3>6 DEF Promise!Next
    <2>3. CASE ~Take(w) /\ ~RunTask(w)
      <3>1. UNCHANGED <<stage, taskQueue, finished, refused>>
        BY <1>7, <2>3 DEF WorkerStep, MarkActive, MarkIdle, CountCompleted,
           Uncount, SeeStop, IdleTimeout, Leave, stopVars, submitterVars
      <3>2. \A v \in Worker : worker'[v] \in {"took", "run"} <=>
                                  worker[v] \in {"took", "run"}
        BY <1>7, <2>3, <1>t DEF WorkerStep, MarkActive, MarkIdle,
           CountCompleted, Uncount, SeeStop, IdleTimeout, Leave, Goto
      <3>3. \A v \in Worker : worker[v] \in {"took", "run"} =>
                                  hand'[v] = hand[v]
        BY <1>7, <2>3, <1>t DEF WorkerStep, MarkActive, MarkIdle,
           CountCompleted, Uncount, SeeStop, IdleTimeout, Leave, Goto
      <3>4. Gate' = Gate /\ Running' = Running
        BY <3>1, <3>2, <3>3 DEF Gate, Running
      <3>5. QED
        BY <3>1, <3>4, Invisible
    <2>4. QED
      BY <2>1, <2>2, <2>3
  <1>8. QED
    BY <1>1, <1>2, <1>3, <1>4, <1>5, <1>6, <1>7 DEF Next, StopStep

\* The pool, with all its counters and races, implements the bounded first-in
\* first-out queue of domain.ThreadPool: nothing is refused without cause or
\* begun out of order, and no task is in progress when Stop returns.
THEOREM PoolKeepsPromise == Spec => KeepsPromise
  <1>1. Init => Promise!Init /\ QueueBounded
    BY PoolAssumption DEF Init, Promise!Init, QueueBounded, PoolAssumption, Running
  <1>2. Spec => []QueueBounded
    BY TypeInit, TypeStep, QueueStep, <1>1, PTL DEF Spec
  <1>3. QED
    BY TypeInit, TypeStep, WaitGroupCounts, TasksRunOnce, PromiseStep, <1>1,
       <1>2, PTL DEF Spec, KeepsPromise, Promise!Spec
=============================================================================
