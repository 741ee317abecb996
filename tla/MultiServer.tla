------------------------------ MODULE MultiServer ------------------------------
(***************************************************************************)
(* lab4's UDP multiservice server,                                          *)
(* src/lab4/internal/infrastructure/network/udp_server.go, from the         *)
(* registrations of cmd/server to the return of Stop.  The thread pool is   *)
(* the abstract TaskPool, which ThreadPool implements; a task is the        *)
(* closure made for one datagram and is named after that datagram.          *)
(***************************************************************************)
EXTENDS Integers, Sequences, FiniteSets

CONSTANTS
    Service,     \* the services of the configuration that are enabled
    Offered,     \* those among them for which cmd/server has a service object
    Request,     \* datagrams clients send
    To,          \* the service whose port a datagram is sent to
    Garbled,     \* bytes of two datagrams mixed: not JSON
    NoRequest,   \* a listener's buffer before the first read
    QueueSize    \* capacity of the pool's queue

ASSUME ServerAssumption ==
    /\ Offered \subseteq Service /\ IsFiniteSet(Service)
    /\ To \in [Request -> Offered] /\ IsFiniteSet(Request)
    /\ Garbled \notin Request /\ NoRequest \notin Request
    /\ QueueSize \in Nat \ {0}

VARIABLES
    services, ports,                               \* the registry
    gate, backlog, running, finished, refused,     \* the thread pool
    main,        \* progress of cmd/server, Start and Stop
    todo,        \* services Start's loop has still to visit
    starting,    \* the service between startServiceListener and line 65
    listener,    \* program counter of each service's listener goroutine
    buffer,      \* the one receive buffer of each listener
    inHand,      \* the datagram a listener is about to submit
    net,         \* datagrams not read yet
    wg,          \* counter of the server's WaitGroup
    recorded,    \* services with an entry in s.stats
    received, processed, errors,                   \* the fields of that entry
    phase,       \* what the handler of each running request does next
    seen,        \* the datagram parseRequest found in the buffer
    panicked,    \* the process is dead
    log,         \* history: the datagrams each listener has read, in order
    early        \* history: those read before s.stats had the entry

Registry == INSTANCE ServiceRegistry WITH
    Service <- Offered, Name <- LAMBDA s : s, Port <- LAMBDA s : s
Pool == INSTANCE TaskPool WITH Task <- Request, Capacity <- QueueSize

poolVars == <<gate, backlog, running, finished, refused>>
registryVars == <<services, ports>>
mainVars == <<main, todo, starting>>
readVars == <<buffer, net, log, early>>
listenerVars == <<listener, inHand, readVars>>
statsVars == <<recorded, received, processed, errors>>
handlerVars == <<phase, seen>>
vars == <<poolVars, registryVars, mainVars, listenerVars, wg, statsVars,
          handlerVars, panicked>>

Cancelled == main \in {"cancelled", "closed", "wait", "stopped", "exited"}
SocketsClosed == main \in {"closed", "wait", "stopped", "exited"}
Alive == ~panicked /\ main # "exited"      \* the process runs

Init ==
    /\ Registry!RegistryInit /\ Pool!Init
    /\ main = "boot" /\ todo = Service /\ starting = NoRequest
    /\ listener = [s \in Service |-> "off"]
    /\ buffer = [s \in Service |-> NoRequest]
    /\ inHand = [s \in Service |-> NoRequest]
    /\ net = Request /\ log = [s \in Service |-> <<>>] /\ early = {}
    /\ wg = 0
    /\ recorded = {}
    /\ received = [s \in Service |-> 0]
    /\ processed = [s \in Service |-> 0]
    /\ errors = [s \in Service |-> 0]
    /\ phase = [r \in Request |-> "none"]
    /\ seen = [r \in Request |-> NoRequest]
    /\ panicked = FALSE

-----------------------------------------------------------------------------
(* cmd/server and Start.                                                    *)

RegisterService(s) ==
    /\ main = "boot" /\ s \in Offered \ DOMAIN services
    /\ Registry!RegisterService(s)
    /\ UNCHANGED <<poolVars, mainVars, listenerVars, wg, statsVars,
                   handlerVars, panicked>>

BeginStart ==
    /\ main = "boot" /\ Offered \subseteq DOMAIN services
    /\ main' = "start"
    /\ UNCHANGED <<poolVars, registryVars, todo, starting, listenerVars, wg,
                   statsVars, handlerVars, panicked>>

\* The loop's two continues: the service is not registered, or its port
\* cannot be opened.
SkipService(s) ==
    /\ main = "start" /\ s \in todo
    /\ todo' = todo \ {s}
    /\ UNCHANGED <<poolVars, registryVars, main, starting, listenerVars, wg,
                   statsVars, handlerVars, panicked>>

\* startServiceListener: wg.Add(1), go handleServiceConnections.
StartListener(s) ==
    /\ main = "start" /\ s \in todo /\ Registry!Found(s)
    /\ todo' = todo \ {s}
    /\ wg' = wg + 1
    /\ listener' = [listener EXCEPT ![s] = "top"]
    /\ main' = "record" /\ starting' = s
    /\ UNCHANGED <<poolVars, registryVars, readVars, inHand,
                   statsVars, handlerVars, panicked>>

\* s.stats[serviceType] = &ServiceStats{}, without the mutex.
RecordService ==
    /\ main = "record"
    /\ recorded' = recorded \union {starting}
    /\ main' = "start" /\ starting' = NoRequest
    /\ UNCHANGED <<poolVars, registryVars, todo, listenerVars, wg, received,
                   processed, errors, handlerVars, panicked>>

EndStart ==
    /\ main = "start" /\ todo = {}
    /\ main' = "serving"
    /\ UNCHANGED <<poolVars, registryVars, todo, starting, listenerVars, wg,
                   statsVars, handlerVars, panicked>>

-----------------------------------------------------------------------------
(* Stop.                                                                    *)

MainStep(from, to) ==
    /\ main = from
    /\ main' = to
    /\ UNCHANGED <<registryVars, todo, starting, listenerVars, wg, statsVars,
                   handlerVars, panicked>>

Cancel == MainStep("serving", "cancelled") /\ UNCHANGED poolVars
CloseSockets == MainStep("cancelled", "closed") /\ UNCHANGED poolVars
StopPool == MainStep("closed", "closed") /\ Pool!Stop
PoolStopped ==
    /\ gate = "stopped"
    /\ MainStep("closed", "wait") /\ UNCHANGED poolVars

\* Mutant of WaitAll: Stop does not wait for the group.
WaitAllSkipped ==
    /\ MainStep("wait", "stopped") /\ UNCHANGED poolVars

WaitAll ==
    /\ wg = 0
    /\ MainStep("wait", "stopped") /\ UNCHANGED poolVars

\* cmd/server gives Stop 30 seconds, then main returns and the process ends
\* under whatever still runs.
GiveUp ==
    \E from \in {"cancelled", "closed", "wait"} :
        MainStep(from, "exited") /\ UNCHANGED poolVars

-----------------------------------------------------------------------------
(* handleServiceConnections.                                                *)

\* ctx.Done() at the top of the loop, or a read that fails after Stop.
ListenerExit(s) ==
    /\ \/ listener[s] = "top" /\ Cancelled
       \/ listener[s] = "read" /\ SocketsClosed
    /\ listener' = [listener EXCEPT ![s] = "gone"]
    /\ wg' = wg - 1
    /\ UNCHANGED <<poolVars, registryVars, mainVars, readVars, inHand,
                   statsVars, handlerVars, panicked>>

EnterRead(s) ==
    /\ listener[s] = "top" /\ ~Cancelled
    /\ listener' = [listener EXCEPT ![s] = "read"]
    /\ UNCHANGED <<poolVars, registryVars, mainVars, readVars, inHand,
                   wg, statsVars, handlerVars, panicked>>

\* The read deadline, IdleTimeout, passes: back to the test of ctx.  (Without
\* a Stop the listener is in this same read again.)
ReadTimeout(s) ==
    /\ listener[s] = "read" /\ Cancelled
    /\ listener' = [listener EXCEPT ![s] = "top"]
    /\ UNCHANGED <<poolVars, registryVars, mainVars, readVars, inHand,
                   wg, statsVars, handlerVars, panicked>>

\* Mutant of Read: two buffers in turn, and the closure gets that of the read before.
ReadBehind(s, r) ==
    /\ listener[s] = "read" /\ ~SocketsClosed
    /\ r \in net /\ To[r] = s
    /\ net' = net \ {r}
    /\ buffer' = [buffer EXCEPT ![s] = IF log[s] = <<>> THEN r ELSE log[s][Len(log[s])]]
    /\ inHand' = [inHand EXCEPT ![s] = r]
    /\ log' = [log EXCEPT ![s] = Append(@, r)]
    /\ early' = IF s \in recorded THEN early ELSE early \union {r}
    /\ wg' = wg + 1
    /\ listener' = [listener EXCEPT ![s] = "submit"]
    /\ UNCHANGED <<poolVars, registryVars, mainVars, statsVars, handlerVars,
                   panicked>>

\* ReadFromUDP overwrites the buffer; then wg.Add(1).  UDP gives the datagrams
\* in any order, and one that stays in net is lost.
Read(s, r) ==
    /\ listener[s] = "read" /\ ~SocketsClosed
    /\ r \in net /\ To[r] = s
    /\ net' = net \ {r}
    /\ buffer' = [buffer EXCEPT ![s] = r]
    /\ inHand' = [inHand EXCEPT ![s] = r]
    /\ log' = [log EXCEPT ![s] = Append(@, r)]
    /\ early' = IF s \in recorded THEN early ELSE early \union {r}
    /\ wg' = wg + 1
    /\ listener' = [listener EXCEPT ![s] = "submit"]
    /\ UNCHANGED <<poolVars, registryVars, mainVars, statsVars, handlerVars,
                   panicked>>

\* Mutant of SubmitAccepted: the closure never reaches the pool.
SubmitDropped(s) ==
    /\ listener[s] = "submit"
    /\ UNCHANGED poolVars
    /\ listener' = [listener EXCEPT ![s] = "top"]
    /\ inHand' = [inHand EXCEPT ![s] = NoRequest]
    /\ UNCHANGED <<registryVars, mainVars, readVars, wg, statsVars,
                   handlerVars, panicked>>

SubmitAccepted(s) ==
    /\ listener[s] = "submit"
    /\ Pool!Accept(inHand[s])
    /\ listener' = [listener EXCEPT ![s] = "top"]
    /\ inHand' = [inHand EXCEPT ![s] = NoRequest]
    /\ UNCHANGED <<registryVars, mainVars, readVars, wg, statsVars,
                   handlerVars, panicked>>

SubmitRefused(s) ==
    /\ listener[s] = "submit"
    /\ Pool!Refuse(inHand[s])
    /\ listener' = [listener EXCEPT ![s] = "refused"]
    /\ inHand' = [inHand EXCEPT ![s] = NoRequest]
    /\ UNCHANGED <<registryVars, mainVars, readVars, wg, statsVars,
                   handlerVars, panicked>>

\* Submit selects the send on the queue Stop has closed.
SubmitPanics(s) ==
    /\ listener[s] = "submit"
    /\ gate \in {"closed", "stopped"}
    /\ panicked' = TRUE
    /\ UNCHANGED <<poolVars, registryVars, mainVars, listenerVars, wg,
                   statsVars, handlerVars>>

\* Go may stop the process with "concurrent map read and map write": Start
\* writes s.stats without the mutex.
MapRace == main = "record"

\* Mutant of CountError: no wg.Done() for a refused task.
CountErrorNoDone(s) ==
    /\ listener[s] = "refused"
    /\ wg' = wg
    /\ panicked' \in {s \notin recorded, s \notin recorded \/ MapRace}
    /\ errors' = [errors EXCEPT ![s] = IF s \in recorded THEN @ + 1 ELSE @]
    /\ listener' = [listener EXCEPT ![s] = "top"]
    /\ UNCHANGED <<poolVars, registryVars, mainVars, readVars, inHand,
                   recorded, received, processed, handlerVars>>

\* Lines 169-171.  Without an entry in s.stats the increment dereferences nil.
CountError(s) ==
    /\ listener[s] = "refused"
    /\ wg' = wg - 1
    /\ panicked' \in {s \notin recorded, s \notin recorded \/ MapRace}
    /\ errors' = [errors EXCEPT ![s] = IF s \in recorded THEN @ + 1 ELSE @]
    /\ listener' = [listener EXCEPT ![s] = "top"]
    /\ UNCHANGED <<poolVars, registryVars, mainVars, readVars, inHand,
                   recorded, received, processed, handlerVars>>

-----------------------------------------------------------------------------
(* handleRequest, run by a worker of the pool.                              *)

HandlerStep(r, from, to) ==
    /\ phase[r] = from
    /\ phase' = [phase EXCEPT ![r] = to]
    /\ UNCHANGED <<registryVars, mainVars, listenerVars>>

BeginTask ==
    /\ Pool!Begin
    /\ HandlerStep(Head(backlog), "none", "received")
    /\ UNCHANGED <<wg, statsVars, seen, panicked>>

\* Mutant of CountReceived: the request is not counted.
CountReceivedSkipped(r) ==
    /\ HandlerStep(r, "received", "parse")
    /\ received' = [received EXCEPT ![To[r]] =
                        IF To[r] \in recorded THEN @ ELSE @]
    /\ panicked' \in {FALSE, MapRace}
    /\ UNCHANGED <<poolVars, wg, recorded, processed, errors, seen>>

CountReceived(r) ==
    /\ HandlerStep(r, "received", "parse")
    /\ received' = [received EXCEPT ![To[r]] =
                        IF To[r] \in recorded THEN @ + 1 ELSE @]
    /\ panicked' \in {FALSE, MapRace}
    /\ UNCHANGED <<poolVars, wg, recorded, processed, errors, seen>>

\* parseRequest reads the listener's buffer as it is now; while a newer
\* datagram is in it the length is still the old one.  It never fails: bytes
\* that are not JSON become a request with a fresh id.
Parse(r) ==
    /\ HandlerStep(r, "parse", "processed")
    /\ \E bytes \in {buffer[To[r]]} \union
                    (IF buffer[To[r]] # r THEN {Garbled} ELSE {}) :
          seen' = [seen EXCEPT ![r] = bytes]
    /\ UNCHANGED <<poolVars, wg, statsVars, panicked>>

\* The service computes its answer; then the second updateStats.
CountProcessed(r) ==
    /\ HandlerStep(r, "processed", "reply")
    /\ processed' = [processed EXCEPT ![To[r]] =
                        IF To[r] \in recorded THEN @ + 1 ELSE @]
    /\ panicked' \in {FALSE, MapRace}
    /\ UNCHANGED <<poolVars, wg, recorded, received, errors, seen>>

\* Mutant of Reply: an explicit and a deferred wg.Done().
ReplyDoneTwice(r) ==
    /\ HandlerStep(r, "reply", "done")
    /\ Pool!End(r)
    /\ wg' = wg - 2
    /\ UNCHANGED <<statsVars, seen, panicked>>

\* sendResponse to the sender of r, about the request seen; the deferred
\* wg.Done(); the task ends.
Reply(r) ==
    /\ HandlerStep(r, "reply", "done")
    /\ Pool!End(r)
    /\ wg' = wg - 1
    /\ UNCHANGED <<statsVars, seen, panicked>>

-----------------------------------------------------------------------------

StartStep ==
    \/ \E s \in Service :
          RegisterService(s) \/ SkipService(s) \/ StartListener(s)
    \/ BeginStart \/ RecordService \/ EndStart
StopStep == CloseSockets \/ StopPool \/ PoolStopped \/ WaitAll
ListenerStep(s) ==
    \/ ListenerExit(s) \/ EnterRead(s) \/ ReadTimeout(s)
    \/ SubmitAccepted(s) \/ SubmitRefused(s) \/ SubmitPanics(s) \/ CountError(s)
    \/ \E r \in Request : Read(s, r)
Handle(r) == CountReceived(r) \/ Parse(r) \/ CountProcessed(r) \/ Reply(r)

Next ==
    /\ Alive
    /\ \/ StartStep \/ Cancel \/ StopStep \/ GiveUp \/ BeginTask
       \/ \E s \in Service : ListenerStep(s)
       \/ \E r \in Request : Handle(r)

Spec == Init /\ [][Next]_vars

\* Goroutines that can move do.  Nobody has to send a datagram or to stop the
\* server, the 30 seconds need not pass, and the pool owes no
\* task its beginning: its workers may all have left, and after the cancel a
\* worker may leave a queued task behind (thread_pool.go:112-116).
FairSpec ==
    /\ Spec
    /\ WF_vars(Alive /\ StartStep) /\ WF_vars(Alive /\ StopStep)
    /\ \A s \in Service : WF_vars(Alive /\ ListenerStep(s))
    /\ \A r \in Request : WF_vars(Alive /\ Handle(r))

-----------------------------------------------------------------------------
(* What the server guarantees.                                              *)

Phases == {"none", "received", "parse", "processed", "reply", "done"}

TypeOK ==
    /\ Registry!RegistryTypeOK
    /\ main \in {"boot", "start", "record", "serving", "cancelled", "closed",
                 "wait", "stopped", "exited"}
    /\ todo \subseteq Service /\ starting \in Service \union {NoRequest}
    /\ listener \in [Service -> {"off", "top", "read", "submit", "refused",
                                 "gone"}]
    /\ buffer \in [Service -> Request \union {NoRequest}]
    /\ inHand \in [Service -> Request \union {NoRequest}]
    /\ net \subseteq Request /\ wg \in Nat
    /\ recorded \subseteq Service
    /\ received \in [Service -> Nat] /\ processed \in [Service -> Nat]
    /\ errors \in [Service -> Nat]
    /\ phase \in [Request -> Phases]
    /\ seen \in [Request -> Request \union {NoRequest, Garbled}]
    /\ panicked \in BOOLEAN

\* The registry stays consistent while cmd/server fills it.
RegistryConsistent == Registry!Consistent

\* wg counts the listeners, the datagrams being submitted or refused, and the
\* tasks accepted and not finished, those abandoned in the queue included.
WaitGroupExact ==
    wg = Cardinality({s \in Service : listener[s] \notin {"off", "gone"}})
         + Cardinality({s \in Service : listener[s] \in {"submit", "refused"}})
         + Len(backlog) + Cardinality(running)

\* When Stop returns nothing of the server is left running: no listener, no
\* handler, no accepted request without its answer (lines 73-89).
StopIsFinal ==
    main = "stopped" =>
        /\ \A s \in Service : listener[s] \in {"off", "gone"}
        /\ running = {} /\ backlog = <<>>
        /\ net \union refused \union finished = Request

\* A handler may work on bytes that are not its own, because the listener has
\* one buffer; but they come from its own service, and never from a datagram
\* older than its own (lines 142, 150, 165).
SeenNotOlder ==
    \A r \in Request : seen[r] \in Request =>
        \E i, j \in DOMAIN log[To[r]] :
            i <= j /\ log[To[r]][i] = r /\ log[To[r]][j] = seen[r]

\* Handlers of s in one of the phases P.
In(s, P) == {r \in Request : To[r] = s /\ phase[r] \in P}

\* The statistics of a service count every request once in each counter.  They
\* miss only requests read before Start had made the entry (lines 64-65); a
\* refusal is never missed, at worst it kills the process.
StatsExact ==
    \A s \in recorded :
        LET begun == In(s, {"parse", "processed", "reply", "done"})
            ended == In(s, {"reply", "done"})
        IN  /\ received[s] \in Cardinality(begun \ early)..Cardinality(begun)
            /\ processed[s] \in Cardinality(ended \ early)..Cardinality(ended)
            /\ errors[s] = Cardinality({r \in refused : To[r] = s})
                           - (IF listener[s] = "refused" THEN 1 ELSE 0)

\* A datagram the server has read is answered or refused, unless its task
\* stays in the queue of the pool for good, or the server is stopped or dies
\* first: once a worker has taken it nothing holds it up any more, and neither
\* does anything on its way into the queue (lines 139-175 and 177-202).
ReadIsAnswered ==
    \A r \in Request :
        r \notin net ~> \/ r \in finished \union refused \/ Cancelled \/ panicked
                       \/ [](\E i \in DOMAIN backlog : backlog[i] = r)

\* Stop returns, unless a late Submit kills the process, the pool's workers
\* left accepted requests in the queue, which keep wg above zero for ever, or
\* the process ends after its 30 seconds.
StopReturns ==
    main = "cancelled" ~> \/ main \in {"stopped", "exited"} \/ panicked
                          \/ gate = "stopped" /\ backlog # <<>>

-----------------------------------------------------------------------------
(* What the documentation says and the code does not do.                    *)

\* lab4/README.md:47, "Echoes back received text": the handler of a datagram
\* works on that datagram.
OwnBytes == \A r \in Request : seen[r] \in {NoRequest, r}
=============================================================================
