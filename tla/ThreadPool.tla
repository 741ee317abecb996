------------------------------ MODULE ThreadPool ------------------------------
(***************************************************************************)
(* The dynamic thread pool of lab4,                                        *)
(* src/lab4/internal/infrastructure/network/thread_pool.go, with every     *)
(* atomic load, atomic add and channel operation a step of its own.        *)
(* Goroutines: the callers of Submit (the listeners of the UDP server),    *)
(* the workers, the manager, and the one that calls Stop.  No lock         *)
(* protects the four counters, and decisions read them one at a time.      *)
(***************************************************************************)
EXTENDS Integers, Sequences, FiniteSets

CONSTANTS
    Submitter,     \* goroutines that call Submit
    Worker,        \* slots for worker goroutines, reused after exit.  Enough are
                   \* MinWorkers + |Task| (a Submit spawns at most one), or the
                   \* bound of WorkersBounded
    Task,          \* the closures ever passed to Submit
    NoTask,        \* a worker holds no task
    MinWorkers,    \* minWorkers
    MaxWorkers,    \* maxWorkers
    QueueSize,     \* capacity of taskQueue
    ExpandAbove    \* expandThreshold * queueSize, rounded down

ASSUME PoolAssumption ==
    /\ IsFiniteSet(Submitter) /\ Submitter # {}
    /\ IsFiniteSet(Worker)
    /\ NoTask \notin Task
    /\ MinWorkers \in Nat /\ MaxWorkers \in Nat \ {0}
    /\ MinWorkers <= MaxWorkers
    /\ QueueSize \in Nat \ {0}
    /\ ExpandAbove \in Nat

VARIABLES
    stage,          \* progress of Start and Stop
    process,        \* "alive", or "panicked" by a send on the closed taskQueue
    taskQueue,      \* the buffered channel of tasks
    workerQueue,    \* number of tokens in the channel nobody receives from
    activeWorkers, currentWorkers, completedTasks, queuedTasks,  \* atomics
    wg,             \* counter of the pool's WaitGroup
    worker,         \* program counter of each worker slot
    hand,           \* the task a worker has received
    submitter,      \* program counter of each submitter
    current,        \* checkAndExpand's local copy of currentWorkers
    manager,        \* program counter of the manager
    view,           \* optimize's local copies of current and active
    finished,       \* tasks whose function has returned
    refused,        \* tasks for which Submit returned an error
    accepted        \* history: tasks that a Submit has sent on taskQueue

counters == <<activeWorkers, currentWorkers, completedTasks, queuedTasks>>
workerVars == <<worker, hand, finished>>
submitterVars == <<submitter, current, refused, accepted>>
managerVars == <<manager, view, workerQueue>>
stopVars == <<stage, process>>
vars == <<stopVars, taskQueue, counters, wg, workerVars, submitterVars,
          managerVars>>

Stages == {"new", "up", "cancelled", "closed", "stopped"}
WorkerPC == {"none", "select", "took", "run", "ran", "idle", "completed",
             "leave"}
SubmitterPC == {"ready", "sent", "loadCurrent", "loadQueued", "check", "add",
                "spawn"}
ManagerPC == {"none", "wait", "loadActive", "loadQueued", "shrink", "signal",
              "gone"}

-----------------------------------------------------------------------------

Cancelled == stage \in {"cancelled", "closed", "stopped"}  \* ctx.Done() ready
Closed == stage \in {"closed", "stopped"}        \* close(taskQueue) happened

Elements(seq) == {seq[i] : i \in DOMAIN seq}
Live == {w \in Worker : worker[w] # "none"}
Holding == {w \in Worker : hand[w] # NoTask}
\* Tasks that no Submit has been called with yet.
Fresh == Task \ (accepted \union refused)

Init ==
    /\ stage = "new" /\ process = "alive"
    /\ taskQueue = <<>> /\ workerQueue = 0
    /\ activeWorkers = 0 /\ currentWorkers = 0
    /\ completedTasks = 0 /\ queuedTasks = 0
    /\ wg = 0
    /\ worker = [w \in Worker |-> "none"]
    /\ hand = [w \in Worker |-> NoTask]
    /\ submitter = [s \in Submitter |-> "ready"]
    /\ current = [s \in Submitter |-> 0]
    /\ manager = "none" /\ view = <<0, 0>>
    /\ finished = {} /\ refused = {} /\ accepted = {}

\* Start: minWorkers calls of addWorker, then the manager.  Nobody submits
\* before Start returns, so the calls are one step.
Start ==
    /\ stage = "new"
    /\ \E W \in SUBSET Worker :
          /\ Cardinality(W) = MinWorkers
          /\ worker' = [w \in Worker |-> IF w \in W THEN "select" ELSE "none"]
    /\ currentWorkers' = MinWorkers
    /\ wg' = MinWorkers
    /\ manager' = "wait"
    /\ stage' = "up"
    /\ UNCHANGED <<process, taskQueue, activeWorkers, completedTasks,
                   queuedTasks, hand, finished, submitterVars, view,
                   workerQueue>>

-----------------------------------------------------------------------------
(* Stop *)

Cancel ==
    /\ stage = "up"
    /\ stage' = "cancelled"
    /\ UNCHANGED <<process, taskQueue, counters, wg, workerVars,
                   submitterVars, managerVars>>

CloseQueue ==
    /\ stage = "cancelled"
    /\ stage' = "closed"
    /\ UNCHANGED <<process, taskQueue, counters, wg, workerVars,
                   submitterVars, managerVars>>

\* Mutant of WaitWorkers: Stop does not wait.
WaitNobody ==
    /\ stage = "closed"
    /\ stage' = "stopped"
    /\ UNCHANGED <<process, taskQueue, counters, wg, workerVars,
                   submitterVars, managerVars>>

\* wg.Wait() returns once the counter is zero.
WaitWorkers ==
    /\ stage = "closed"
    /\ wg = 0
    /\ stage' = "stopped"
    /\ UNCHANGED <<process, taskQueue, counters, wg, workerVars,
                   submitterVars, managerVars>>

-----------------------------------------------------------------------------
(* Submit, checkAndExpand and addWorker, on a submitter's goroutine.  The   *)
(* select picks any ready case: the send is ready while the channel has     *)
(* room, and ready to panic once the channel is closed.                     *)

CanSend == ~Closed /\ Len(taskQueue) < QueueSize

SubmitSend(s, t) ==
    /\ submitter[s] = "ready" /\ stage # "new" /\ t \in Fresh
    /\ CanSend
    /\ taskQueue' = Append(taskQueue, t)
    /\ accepted' = accepted \union {t}
    /\ submitter' = [submitter EXCEPT ![s] = "sent"]
    /\ UNCHANGED <<stopVars, counters, wg, workerVars, current, refused,
                   managerVars>>

SubmitCancelled(s, t) ==
    /\ submitter[s] = "ready" /\ t \in Fresh
    /\ Cancelled
    /\ refused' = refused \union {t}
    /\ UNCHANGED <<stopVars, taskQueue, counters, wg, workerVars, submitter,
                   current, accepted, managerVars>>

\* The default case, ErrQueueFull: no other case is ready.
SubmitFull(s, t) ==
    /\ submitter[s] = "ready" /\ stage # "new" /\ t \in Fresh
    /\ ~Cancelled /\ ~CanSend
    /\ refused' = refused \union {t}
    /\ UNCHANGED <<stopVars, taskQueue, counters, wg, workerVars, submitter,
                   current, accepted, managerVars>>

SubmitPanics(s, t) ==
    /\ submitter[s] = "ready" /\ t \in Fresh
    /\ Closed
    /\ process' = "panicked"
    /\ UNCHANGED <<stage, taskQueue, counters, wg, workerVars, submitterVars,
                   managerVars>>

\* Mutant of CountQueued: no increment after the send.
CountQueuedSkipped(s) ==
    /\ submitter[s] = "sent"
    /\ queuedTasks' = queuedTasks
    /\ submitter' = [submitter EXCEPT ![s] = "loadCurrent"]
    /\ UNCHANGED <<stopVars, taskQueue, activeWorkers, currentWorkers,
                   completedTasks, wg, workerVars, current, refused, accepted,
                   managerVars>>

CountQueued(s) ==
    /\ submitter[s] = "sent"
    /\ queuedTasks' = queuedTasks + 1
    /\ submitter' = [submitter EXCEPT ![s] = "loadCurrent"]
    /\ UNCHANGED <<stopVars, taskQueue, activeWorkers, currentWorkers,
                   completedTasks, wg, workerVars, current, refused, accepted,
                   managerVars>>

LoadCurrent(s) ==
    /\ submitter[s] = "loadCurrent"
    /\ current' = [current EXCEPT ![s] = currentWorkers]
    /\ submitter' = [submitter EXCEPT ![s] = "loadQueued"]
    /\ UNCHANGED <<stopVars, taskQueue, counters, wg, workerVars, refused,
                   accepted, managerVars>>

\* Load queued, compare both copies: call addWorker or return from Submit.
LoadQueued(s) ==
    /\ submitter[s] = "loadQueued"
    /\ submitter' = [submitter EXCEPT ![s] =
           IF current[s] < MaxWorkers /\ queuedTasks > ExpandAbove
           THEN "check" ELSE "ready"]
    /\ current' = [current EXCEPT ![s] = 0]
    /\ UNCHANGED <<stopVars, taskQueue, counters, wg, workerVars, refused,
                   accepted, managerVars>>

CheckMax(s) ==
    /\ submitter[s] = "check"
    /\ submitter' = [submitter EXCEPT ![s] =
           IF currentWorkers >= MaxWorkers THEN "ready" ELSE "add"]
    /\ UNCHANGED <<stopVars, taskQueue, counters, wg, workerVars, current,
                   refused, accepted, managerVars>>

\* Mutant of AddCurrent: checkAndExpand counts the new worker as well.
AddCurrentTwice(s) ==
    /\ submitter[s] = "add"
    /\ currentWorkers' = currentWorkers + 2
    /\ submitter' = [submitter EXCEPT ![s] = "spawn"]
    /\ UNCHANGED <<stopVars, taskQueue, activeWorkers, completedTasks,
                   queuedTasks, wg, workerVars, current, refused, accepted,
                   managerVars>>

AddCurrent(s) ==
    /\ submitter[s] = "add"
    /\ currentWorkers' = currentWorkers + 1
    /\ submitter' = [submitter EXCEPT ![s] = "spawn"]
    /\ UNCHANGED <<stopVars, taskQueue, activeWorkers, completedTasks,
                   queuedTasks, wg, workerVars, current, refused, accepted,
                   managerVars>>

\* wg.Add(1); go func() ...; Submit returns nil.
Spawn(s) ==
    /\ submitter[s] = "spawn"
    /\ \E w \in Worker \ Live : worker' = [worker EXCEPT ![w] = "select"]
    /\ wg' = wg + 1
    /\ submitter' = [submitter EXCEPT ![s] = "ready"]
    /\ UNCHANGED <<stopVars, taskQueue, counters, hand, finished, current,
                   refused, accepted, managerVars>>

-----------------------------------------------------------------------------
(* A worker goroutine.                                                      *)

Goto(w, from, to) ==
    /\ worker[w] = from
    /\ worker' = [worker EXCEPT ![w] = to]

\* Mutant of Take: the task stays in the queue.
TakePeek(w) ==
    /\ Goto(w, "select", "took")
    /\ taskQueue # <<>>
    /\ hand' = [hand EXCEPT ![w] = Head(taskQueue)]
    /\ taskQueue' = taskQueue
    /\ UNCHANGED <<stopVars, counters, wg, finished, submitterVars,
                   managerVars>>

Take(w) ==
    /\ Goto(w, "select", "took")
    /\ taskQueue # <<>>
    /\ hand' = [hand EXCEPT ![w] = Head(taskQueue)]
    /\ taskQueue' = Tail(taskQueue)
    /\ UNCHANGED <<stopVars, counters, wg, finished, submitterVars,
                   managerVars>>

MarkActive(w) ==
    /\ Goto(w, "took", "run")
    /\ activeWorkers' = activeWorkers + 1
    /\ UNCHANGED <<stopVars, taskQueue, currentWorkers, completedTasks,
                   queuedTasks, wg, hand, finished, submitterVars,
                   managerVars>>

\* Mutant of RunTask: the task dies half way.
RunTaskLost(w) ==
    /\ Goto(w, "run", "ran")
    /\ finished' = finished
    /\ UNCHANGED <<stopVars, taskQueue, counters, wg, hand, submitterVars,
                   managerVars>>

\* task() runs to its end.
RunTask(w) ==
    /\ Goto(w, "run", "ran")
    /\ finished' = finished \union {hand[w]}
    /\ UNCHANGED <<stopVars, taskQueue, counters, wg, hand, submitterVars,
                   managerVars>>

\* Mutant of MarkIdle: no decrement after the task.
MarkIdleSkipped(w) ==
    /\ Goto(w, "ran", "idle")
    /\ activeWorkers' = activeWorkers
    /\ UNCHANGED <<stopVars, taskQueue, currentWorkers, completedTasks,
                   queuedTasks, wg, hand, finished, submitterVars,
                   managerVars>>

MarkIdle(w) ==
    /\ Goto(w, "ran", "idle")
    /\ activeWorkers' = activeWorkers - 1
    /\ UNCHANGED <<stopVars, taskQueue, currentWorkers, completedTasks,
                   queuedTasks, wg, hand, finished, submitterVars,
                   managerVars>>

CountCompleted(w) ==
    /\ Goto(w, "idle", "completed")
    /\ completedTasks' = completedTasks + 1
    /\ UNCHANGED <<stopVars, taskQueue, activeWorkers, currentWorkers,
                   queuedTasks, wg, hand, finished, submitterVars,
                   managerVars>>

\* Mutant of Uncount: the task stays counted as queued.
UncountSkipped(w) ==
    /\ Goto(w, "completed", "select")
    /\ queuedTasks' = queuedTasks
    /\ hand' = [hand EXCEPT ![w] = NoTask]
    /\ UNCHANGED <<stopVars, taskQueue, activeWorkers, currentWorkers,
                   completedTasks, wg, finished, submitterVars, managerVars>>

\* Only now does the task leave queuedTasks.
Uncount(w) ==
    /\ Goto(w, "completed", "select")
    /\ queuedTasks' = queuedTasks - 1
    /\ hand' = [hand EXCEPT ![w] = NoTask]
    /\ UNCHANGED <<stopVars, taskQueue, activeWorkers, currentWorkers,
                   completedTasks, wg, finished, submitterVars, managerVars>>

\* The receive on the closed, drained channel, or ctx.Done().
SeeStop(w) ==
    /\ Goto(w, "select", "leave")
    /\ Cancelled \/ (Closed /\ taskQueue = <<>>)
    /\ UNCHANGED <<stopVars, taskQueue, counters, wg, hand, finished,
                   submitterVars, managerVars>>

\* The idle timer fires and the load finds more than minWorkers.  When it does
\* not, the worker loops and nothing changes.
IdleTimeout(w) ==
    /\ Goto(w, "select", "leave")
    /\ currentWorkers > MinWorkers
    /\ UNCHANGED <<stopVars, taskQueue, counters, wg, hand, finished,
                   submitterVars, managerVars>>

\* Mutant of Leave: no wg.Done().
LeaveNoDone(w) ==
    /\ Goto(w, "leave", "none")
    /\ currentWorkers' = currentWorkers - 1
    /\ wg' = wg
    /\ UNCHANGED <<stopVars, taskQueue, activeWorkers, completedTasks,
                   queuedTasks, hand, finished, submitterVars, managerVars>>

\* Mutant of Leave: currentWorkers is not decremented.
LeaveUncounted(w) ==
    /\ Goto(w, "leave", "none")
    /\ currentWorkers' = currentWorkers
    /\ wg' = wg - 1
    /\ UNCHANGED <<stopVars, taskQueue, activeWorkers, completedTasks,
                   queuedTasks, hand, finished, submitterVars, managerVars>>

\* The two deferred calls, currentWorkers - 1 and then wg.Done().  Only Wait
\* reads wg, and nothing reads both, so they are one step.
Leave(w) ==
    /\ Goto(w, "leave", "none")
    /\ currentWorkers' = currentWorkers - 1
    /\ wg' = wg - 1
    /\ UNCHANGED <<stopVars, taskQueue, activeWorkers, completedTasks,
                   queuedTasks, hand, finished, submitterVars, managerVars>>

-----------------------------------------------------------------------------
(* manager and optimize.                                                    *)

Tick ==
    /\ manager = "wait"
    /\ manager' = "loadActive"
    /\ view' = <<currentWorkers, 0>>
    /\ UNCHANGED <<stopVars, taskQueue, counters, wg, workerVars,
                   submitterVars, workerQueue>>

LoadActive ==
    /\ manager = "loadActive"
    /\ manager' = "loadQueued"
    /\ view' = <<view[1], activeWorkers>>
    /\ UNCHANGED <<stopVars, taskQueue, counters, wg, workerVars,
                   submitterVars, workerQueue>>

\* Load queued and test the three copies.
Optimize ==
    /\ manager = "loadQueued"
    /\ manager' = IF /\ view[1] > MinWorkers
                     /\ view[2] < view[1] \div 2
                     /\ queuedTasks = 0
                  THEN "shrink" ELSE "wait"
    /\ view' = <<0, 0>>
    /\ UNCHANGED <<stopVars, taskQueue, counters, wg, workerVars,
                   submitterVars, workerQueue>>

\* The counter drops although no worker was told to leave.
Shrink ==
    /\ manager = "shrink"
    /\ manager' = "signal"
    /\ currentWorkers' = currentWorkers - 1
    /\ UNCHANGED <<stopVars, taskQueue, activeWorkers, completedTasks,
                   queuedTasks, wg, workerVars, submitterVars, view,
                   workerQueue>>

\* Mutant of Signal: the channel has no capacity.
SignalOverfull ==
    /\ manager = "signal"
    /\ workerQueue' = workerQueue + 1
    /\ manager' = "wait"
    /\ UNCHANGED <<stopVars, taskQueue, counters, wg, workerVars,
                   submitterVars, view>>

\* Blocks for good once workerQueue is full: nothing receives from it.
Signal ==
    /\ manager = "signal"
    /\ workerQueue < MaxWorkers
    /\ workerQueue' = workerQueue + 1
    /\ manager' = "wait"
    /\ UNCHANGED <<stopVars, taskQueue, counters, wg, workerVars,
                   submitterVars, view>>

\* Mutant of ManagerExit: the loop ignores ctx.Done().
ManagerExitNever ==
    /\ manager = "wait"
    /\ Cancelled
    /\ manager' = "wait"
    /\ UNCHANGED <<stopVars, taskQueue, counters, wg, workerVars,
                   submitterVars, view, workerQueue>>

ManagerExit ==
    /\ manager = "wait"
    /\ Cancelled
    /\ manager' = "gone"
    /\ UNCHANGED <<stopVars, taskQueue, counters, wg, workerVars,
                   submitterVars, view, workerQueue>>

-----------------------------------------------------------------------------

SubmitCall(s, t) ==
    SubmitSend(s, t) \/ SubmitCancelled(s, t) \/ SubmitFull(s, t)
    \/ SubmitPanics(s, t)
SubmitterStep(s) ==
    CountQueued(s) \/ LoadCurrent(s) \/ LoadQueued(s) \/ CheckMax(s)
    \/ AddCurrent(s) \/ Spawn(s)
WorkerStep(w) ==
    Take(w) \/ MarkActive(w) \/ RunTask(w) \/ MarkIdle(w) \/ CountCompleted(w)
    \/ Uncount(w) \/ SeeStop(w) \/ IdleTimeout(w) \/ Leave(w)
OptimizeStep == LoadActive \/ Optimize \/ Shrink \/ Signal
ManagerStep == Tick \/ OptimizeStep \/ ManagerExit
StopStep == CloseQueue \/ WaitWorkers

\* A panic in any goroutine ends the process.
Next ==
    /\ process = "alive"
    /\ \/ Start \/ Cancel \/ StopStep
       \/ \E s \in Submitter, t \in Task : SubmitCall(s, t)
       \/ \E s \in Submitter : SubmitterStep(s)
       \/ \E w \in Worker : WorkerStep(w)
       \/ ManagerStep

Spec == Init /\ [][Next]_vars

\* The scheduler runs every goroutine that can move.  Task functions end (the
\* services only compute and send), an idle timer fires, the ticker does not
\* have to, and nobody has to call Submit or Stop.  A worker whose select has a
\* task or ctx.Done() ready does not sleep.  Strong fairness for the manager's
\* exit: between two ticks ctx.Done() is the only ready case of its select.
FairSpec ==
    /\ Spec
    /\ \A s \in Submitter : WF_vars(process = "alive" /\ SubmitterStep(s))
    /\ \A w \in Worker : WF_vars(process = "alive" /\ WorkerStep(w))
    /\ WF_vars(process = "alive" /\ StopStep)
    /\ WF_vars(process = "alive" /\ OptimizeStep)
    /\ SF_vars(process = "alive" /\ ManagerExit)

-----------------------------------------------------------------------------
(* What the pool guarantees.                                                *)

TypeOK ==
    /\ stage \in Stages /\ process \in {"alive", "panicked"}
    /\ taskQueue \in Seq(Task) /\ workerQueue \in 0..MaxWorkers
    /\ activeWorkers \in Int /\ currentWorkers \in Int
    /\ completedTasks \in Int /\ queuedTasks \in Int /\ wg \in Int
    /\ worker \in [Worker -> WorkerPC]
    /\ hand \in [Worker -> Task \union {NoTask}]
    /\ submitter \in [Submitter -> SubmitterPC]
    /\ current \in [Submitter -> Int]
    /\ manager \in ManagerPC /\ view \in Int \X Int
    /\ finished \subseteq Task /\ refused \subseteq Task
    /\ accepted \subseteq Task

AtPC(pc) == {s \in Submitter : submitter[s] = pc}

\* Decrements optimize made without a worker leaving: its tokens lie in
\* workerQueue for good, the last one perhaps not sent yet.
Phantom == workerQueue + (IF manager = "signal" THEN 1 ELSE 0)

\* The tasks inside a function call, or received and about to be called.
Running == {hand[w] : w \in {v \in Worker : worker[v] \in {"took", "run"}}}

\* No task is in two places.
NoneTwice ==
    /\ \A i, j \in DOMAIN taskQueue : taskQueue[i] = taskQueue[j] => i = j
    /\ \A v, w \in Holding : hand[v] = hand[w] => v = w
    /\ Elements(taskQueue) \intersect {hand[w] : w \in Holding} = {}
    /\ finished \intersect Elements(taskQueue) = {}
    /\ \A w \in Holding : worker[w] \in {"took", "run"} <=> hand[w] \notin finished
    /\ refused \intersect
         (Elements(taskQueue) \union finished \union {hand[w] : w \in Holding}) = {}

\* No accepted task is in no place at all.
NoneLost == accepted = Elements(taskQueue) \union Running \union finished

\* A closure that Submit has sent waits in the queue, is being run by a worker
\* or has run to its end; it is in one of these places only and was not also
\* refused: no task is lost or run twice, whatever the interleaving of
\* submitters, workers, manager and Stop (lines 65-72 and 101-107).
TaskOnce == NoneTwice /\ NoneLost

\* The WaitGroup counts exactly the live worker goroutines, also those added
\* while Stop is in progress (lines 93 and 96).
WaitGroupExact == wg = Cardinality(Live)

\* currentWorkers is the number of live workers, plus those about to be
\* spawned, minus every decrement of optimize: a decrement is never made good,
\* because no goroutine receives from workerQueue (lines 92, 97, 158, 159).
CurrentExact ==
    currentWorkers + Phantom = Cardinality(Live) + Cardinality(AtPC("spawn"))

\* The pool's bound on workers, with every race: currentWorkers passes
\* maxWorkers by at most one for each other goroutine between lines 88 and 92.
CurrentBounded ==
    currentWorkers + Cardinality(AtPC("add"))
        <= MaxWorkers - 1 + Cardinality(Submitter)

\* ... and the goroutines really alive stay below twice maxWorkers plus the
\* number of submitters; so a slot is free whenever Spawn needs one.
WorkersBounded ==
    Cardinality(Live) + Cardinality(AtPC("spawn"))
        <= 2 * MaxWorkers + Cardinality(Submitter)

\* queuedTasks counts the tasks waiting and those in a worker's hand, minus
\* the sends whose increment is still to come: it can be negative, never wrong
\* by more than the number of submitters, and is 0 when nothing is in flight.
QueuedExact ==
    queuedTasks + Cardinality(AtPC("sent")) = Len(taskQueue) + Cardinality(Holding)

\* Stats: activeWorkers counts the workers inside task(), completedTasks the
\* finished tasks whose worker has passed line 109.
StatsExact ==
    /\ activeWorkers = Cardinality({w \in Worker : worker[w] \in {"run", "ran"}})
    /\ completedTasks + Cardinality({w \in Worker : worker[w] \in {"ran", "idle"}})
         = Cardinality(finished)

\* The pool keeps the promise of TaskPool.  A task runs from the receive to
\* the return of its function; the bookkeeping around it is invisible.
Promise == INSTANCE TaskPool WITH
    Capacity <- QueueSize,
    gate <- CASE stage \in {"new", "up"} -> "open"
              [] stage = "cancelled" -> "closing"
              [] OTHER -> stage,
    backlog <- taskQueue,
    running <- Running

\* First in first out, at most once, no refusal without cause, and no task in
\* progress when wg.Wait() lets Stop return.
KeepsPromise == Promise!Spec

\* No accepted task is stranded while there is a worker and Stop is not called,
\* although workers come and go and the timer competes with the queue.
NoStrandedTask ==
    \A t \in Task : t \in Elements(taskQueue)
                        ~> t \in finished \/ Cancelled \/ Live = {}

\* Stop returns: no worker waits for something that cannot come (lines 57-59),
\* unless a late Submit has killed the process.
StopReturns == (stage = "cancelled") ~> (stage = "stopped" \/ process = "panicked")

\* When the submitters fall silent, Stats tells the truth (lines 66, 106-110).
StatsSettle ==
    <>[]( \/ process = "panicked"
          \/ /\ activeWorkers = 0 /\ queuedTasks = Len(taskQueue)
             /\ completedTasks = Cardinality(finished) )

\* The manager ends after Stop unless its tokens have filled workerQueue.
ManagerEnds ==
    Cancelled ~> (manager = "gone" \/ process = "panicked" \/ workerQueue = MaxWorkers)

-----------------------------------------------------------------------------
(* What the documentation says and the code does not do.                    *)

\* lab4/README.md:67, "Configurable bounds: Min/max worker limits": between
\* Start and Stop, while no worker is being added or leaving, there are at
\* least minWorkers and at most maxWorkers of them.
BoundsHeld ==
    /\ stage = "up"
    /\ \A s \in Submitter : submitter[s] = "ready"
    /\ \A w \in Worker : worker[w] # "leave"
    => Cardinality(Live) \in MinWorkers..MaxWorkers
=============================================================================
