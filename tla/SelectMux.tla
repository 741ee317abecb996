------------------------------- MODULE SelectMux -------------------------------
(***************************************************************************)
(* lab3's server, src/lab3/internal/infrastructure/network/                 *)
(* select_multiplexer.go and unix_select.go, started and stopped by         *)
(* src/lab3/cmd/server/main.go, with the clients of src/lab3/cmd/client:    *)
(* one loop that accepts and reads, a goroutine for every command, and main *)
(* that stops the loop from outside.                                        *)
(***************************************************************************)
EXTENDS Integers, FiniteSets, Sequences, Functions

CONSTANTS
    Client,       \* names of connections, free again when one is over
    MaxClients,   \* config.MaxClients
    MaxCommands,  \* bound: the lines sent over one connection
    None

ASSUME MuxAssumption ==
    /\ IsFiniteSet(Client) /\ None \notin Client
    /\ MaxClients \in Nat
    /\ MaxCommands \in [Client -> Nat]

VARIABLES
    loop,       \* program counter of Start and what it calls
    hand,       \* the connection Accept returned, or the client being read
    todo,       \* clients of this pass's copy that are still to be served
    clients,    \* sm.clients
    running, listening, cancelled,  \* sm.running, the listener, ctx
    conn,       \* the server's end of each connection
    backlog,    \* connections the kernel holds until Accept
    sent, left, \* lines each client has sent (one that is longer than the buffer
                \* of a read counts as several); it has closed its end
    read,       \* lines the loop has read from it
    jobs,       \* the goroutines of processClientData
    answers,    \* what each client has been sent, in order
    heads,      \* history: the lines that came first in a read
    owed,       \* history: Accepts that returned less Reads, since it joined
    main        \* progress of cmd/server after the signal

loopVars == <<loop, hand, todo>>
stopVars == <<running, listening, cancelled, main>>
clientVars == <<sent, left>>
jobVars == <<jobs, answers>>
vars == <<loopVars, clients, stopVars, conn, backlog, clientVars, read, jobVars, heads, owed>>

-----------------------------------------------------------------------------
(* Descriptor sets.  A set is the set of the <<word, bit>> pairs that are   *)
(* on.  Start and handleNewConnection ask a file for its descriptor after   *)
(* they have closed it, and get -1.                                         *)

FdAfterClose == -1

\* Go divides towards zero and takes the remainder of the unsigned value.
Position(fd) == <<IF fd >= 0 THEN fd \div 32 ELSE 0 - ((0 - fd) \div 32), fd % 32>>

FDSet(fd, set) == set \union {Position(fd)}
FDIsSet(fd, set) == Position(fd) \in set

\* The set that processSelectLoop builds from a listener and client descriptors,
\* and the number it passes as maxFD + 1.
Watched(listenerFD, fds) == {Position(fd) : fd \in {listenerFD} \union fds}
Limit(listenerFD, fds) ==
    LET all == {listenerFD} \union fds
    IN  (CHOOSE fd \in all : \A other \in all : fd >= other) + 1

\* The kernel replaces the words that nfd reaches into, and no others.
Select(nfd, set, ready) ==
    {p \in set : 32 * p[1] >= nfd} \union {Position(fd) : fd \in ready \intersect 0 .. nfd - 1}

\* The number UnixSelectSystem.Select returns: words that are not zero.
Count(set) == Cardinality({p[1] : p \in set})

\* What select leaves of the set that watches the listener and the clients,
\* each by the descriptor of a closed file.
ReadFds == Select(Limit(FdAfterClose, {FdAfterClose : c \in clients}),
                  Watched(FdAfterClose, {FdAfterClose : c \in clients}), {})

Init ==
    /\ loop = "top" /\ hand = None /\ todo = {}
    /\ clients = {}
    /\ running = TRUE /\ listening = TRUE /\ cancelled = FALSE
    /\ conn = [c \in Client |-> "none"] /\ backlog = <<>>
    /\ sent = [c \in Client |-> 0] /\ left = [c \in Client |-> FALSE]
    /\ read = [c \in Client |-> 0]
    /\ jobs = {} /\ answers = [c \in Client |-> <<>>]
    /\ heads = [c \in Client |-> {}] /\ owed = [c \in Client |-> 0]
    /\ main = "serving"

-----------------------------------------------------------------------------
(* The loop.                                                                *)

Goto(from, to) == loop = from /\ loop' = to

\* The head of the loop in Start, where the context is looked at, and only here.
\* running is read without a lock: a write of Stop may not be seen yet.
Leave ==
    /\ loop = "top"
    /\ \/ ~running /\ loop' = "ended"
       \/ cancelled /\ loop' = "stop"
    /\ UNCHANGED <<hand, todo, clients, stopVars, conn, backlog, clientVars, read, jobVars, heads, owed>>

\* processSelectLoop: build the set, select, and go where the result says.
Pass ==
    /\ loop = "top" /\ running /\ ~cancelled
    /\ Count(ReadFds) # 0
    /\ loop' = IF FDIsSet(FdAfterClose, ReadFds) THEN "accept" ELSE "copy"
    /\ UNCHANGED <<hand, todo, clients, stopVars, conn, backlog, clientVars, read, jobVars, heads, owed>>

\* Bound: what owed counts to.
MaxOwed == 2

\* Accept returned: everyone in the map is owed a Read.
Owe == owed' = [c \in Client |->
                   IF c \in clients /\ owed[c] < MaxOwed THEN owed[c] + 1 ELSE owed[c]]

\* handleNewConnection blocks in Accept until somebody connects.
Accept ==
    /\ Goto("accept", "insert")
    /\ listening /\ backlog # <<>>
    /\ hand' = Head(backlog) /\ backlog' = Tail(backlog)
    /\ conn' = [conn EXCEPT ![Head(backlog)] = "open"]
    /\ Owe
    /\ UNCHANGED <<todo, clients, stopVars, clientVars, read, jobVars, heads>>

\* The listener was closed under it: the error is printed, the pass goes on.
AcceptFails ==
    /\ Goto("accept", "copy")
    /\ ~listening
    /\ Owe
    /\ UNCHANGED <<hand, todo, clients, stopVars, conn, backlog, clientVars, read, jobVars, heads>>

\* Any other error, of a listener that is open: no descriptor is left, say.
AcceptError ==
    /\ Goto("accept", "copy")
    /\ listening
    /\ Owe
    /\ UNCHANGED <<hand, todo, clients, stopVars, conn, backlog, clientVars, read, jobVars, heads>>

\* No room, or no second descriptor for the connection.
Discard ==
    /\ Goto("insert", "copy")
    /\ conn' = [conn EXCEPT ![hand] = "closed"]
    /\ hand' = None
    /\ UNCHANGED <<todo, clients, stopVars, backlog, clientVars, read, jobVars, heads, owed>>

\* Mutant of Insert: the test lets one more in.
InsertOverfull ==
    /\ Goto("insert", "copy")
    /\ Cardinality(clients) <= MaxClients
    /\ clients' = clients \union {hand}
    /\ owed' = [owed EXCEPT ![hand] = 1]
    /\ hand' = None
    /\ UNCHANGED <<todo, stopVars, conn, backlog, clientVars, read, jobVars, heads>>

Insert ==
    /\ Goto("insert", "copy")
    /\ Cardinality(clients) < MaxClients
    /\ clients' = clients \union {hand}
    /\ owed' = [owed EXCEPT ![hand] = 1]
    /\ hand' = None
    /\ UNCHANGED <<todo, stopVars, conn, backlog, clientVars, read, jobVars, heads>>

\* Every client in the map gets its turn: all of them have the one bit that is on.
Copy ==
    /\ Goto("copy", "serve")
    /\ todo' = IF FDIsSet(FdAfterClose, ReadFds) THEN clients ELSE {}
    /\ UNCHANGED <<hand, clients, stopVars, conn, backlog, clientVars, read, jobVars, heads, owed>>

\* The next client of the copy, in any order: a range over a map.
NextClient ==
    /\ Goto("serve", "read")
    /\ \E c \in todo : hand' = c /\ todo' = todo \ {c}
    /\ UNCHANGED <<clients, stopVars, conn, backlog, clientVars, read, jobVars, heads, owed>>

\* Mutant of EndPass: processReadyFDs may return with clients left to serve.
EndPassEarly ==
    /\ Goto("serve", "top")
    /\ todo' = {}
    /\ UNCHANGED <<hand, clients, stopVars, conn, backlog, clientVars, read, jobVars, heads, owed>>

\* The pass is over.
EndPass ==
    /\ Goto("serve", "top")
    /\ todo = {}
    /\ UNCHANGED <<hand, todo, clients, stopVars, conn, backlog, clientVars, read, jobVars, heads, owed>>

\* handleClientRead blocks until the client has sent something.  Whatever has
\* arrived by then is one command, named by its first line; if it is blank, it is
\* dropped.
Read ==
    /\ Goto("read", "serve")
    /\ conn[hand] = "open" /\ read[hand] < sent[hand]
    /\ \E last \in read[hand] + 1 .. sent[hand] : read' = [read EXCEPT ![hand] = last]
    /\ \/ /\ jobs' = jobs \union {[client |-> hand, line |-> read[hand] + 1, at |-> "lookup"]}
          /\ heads' = [heads EXCEPT ![hand] = @ \union {read[hand] + 1}]
       \/ UNCHANGED <<jobs, heads>>
    /\ owed' = [owed EXCEPT ![hand] = @ - 1]
    /\ hand' = None
    /\ UNCHANGED <<todo, clients, stopVars, conn, backlog, clientVars, answers>>

\* Mutant of ReadFails: processReadyFDs returns the error instead of going on.
ReadFailsReturns ==
    /\ Goto("read", "top")
    /\ left[hand] \/ conn[hand] = "closed"
    /\ clients' = clients \ {hand}
    /\ conn' = [conn EXCEPT ![hand] = "closed"]
    /\ owed' = [owed EXCEPT ![hand] = 0]
    /\ hand' = None /\ todo' = {}
    /\ UNCHANGED <<stopVars, backlog, clientVars, read, jobVars, heads>>

\* The end of the stream, a reset, or the connection closed by Stop: the read
\* fails and RemoveConnection closes the connection and forgets the client.
ReadFails ==
    /\ Goto("read", "serve")
    /\ left[hand] \/ conn[hand] = "closed"
    /\ clients' = clients \ {hand}
    /\ conn' = [conn EXCEPT ![hand] = "closed"]
    /\ owed' = [owed EXCEPT ![hand] = 0]
    /\ hand' = None
    /\ UNCHANGED <<todo, stopVars, backlog, clientVars, read, jobVars, heads>>

-----------------------------------------------------------------------------
(* The goroutine of a command: look the client up under the lock, write     *)
(* after the unlock.                                                        *)

Finish(j) == jobs' = jobs \ {j}

Lookup(j) ==
    /\ j.at = "lookup"
    /\ jobs' = (jobs \ {j}) \union (IF j.client \in clients THEN {[j EXCEPT !.at = "write"]} ELSE {})
    /\ UNCHANGED <<loopVars, clients, stopVars, conn, backlog, clientVars, read, answers, heads, owed>>

\* Mutant of WriteAnswer: the goroutine looks at the loop's variable, not at its own.
WriteAnswerToHand(j) ==
    LET c == IF hand \in clients THEN hand ELSE j.client
    IN  /\ j.at = "write"
        /\ answers' = IF conn[c] = "open"
                      THEN [answers EXCEPT ![c] = Append(@, <<j.client, j.line>>)] ELSE answers
        /\ Finish(j)
        /\ UNCHANGED <<loopVars, clients, stopVars, conn, backlog, clientVars, read, heads, owed>>

\* An error of the write is ignored.
WriteAnswer(j) ==
    /\ j.at = "write"
    /\ answers' = IF conn[j.client] = "open"
                  THEN [answers EXCEPT ![j.client] = Append(@, <<j.client, j.line>>)] ELSE answers
    /\ Finish(j)
    /\ UNCHANGED <<loopVars, clients, stopVars, conn, backlog, clientVars, read, heads, owed>>

JobStep == \E j \in jobs : Lookup(j) \/ WriteAnswer(j)

-----------------------------------------------------------------------------
(* Stop, called by main after the signal and by the loop when it finds the  *)
(* context done.                                                            *)

StopListening == running' = FALSE /\ listening' = FALSE
CloseClients == conn' = [c \in Client |-> IF c \in clients THEN "closed" ELSE conn[c]]

LoopStop ==
    \/ /\ Goto("stop", "close")
       /\ StopListening
       /\ UNCHANGED <<hand, todo, clients, cancelled, main, conn, backlog, clientVars, read, jobVars, heads, owed>>
    \/ /\ Goto("close", "ended")
       /\ CloseClients
       /\ UNCHANGED <<hand, todo, clients, stopVars, backlog, clientVars, read, jobVars, heads, owed>>

LoopStep ==
    \/ Leave \/ Pass \/ Accept \/ AcceptFails \/ Discard \/ Insert \/ Copy
    \/ NextClient \/ EndPass \/ Read \/ ReadFails \/ LoopStop

MainGoto(from, to) == main = from /\ main' = to

\* A signal arrives: cancel().
Cancel ==
    /\ MainGoto("serving", "cancelled")
    /\ cancelled' = TRUE
    /\ UNCHANGED <<loopVars, clients, running, listening, conn, backlog, clientVars, read, jobVars, heads, owed>>

\* server.Stop() and os.Exit(0), which ends every goroutine.
MainStop ==
    \/ /\ MainGoto("cancelled", "stopping")
       /\ StopListening
       /\ UNCHANGED <<loopVars, clients, cancelled, conn, backlog, clientVars, read, jobVars, heads, owed>>
    \/ /\ MainGoto("stopping", "stopped")
       /\ CloseClients
       /\ UNCHANGED <<loopVars, clients, cancelled, running, listening, backlog, clientVars, read, jobVars, heads, owed>>
    \/ /\ MainGoto("stopped", "exited")
       /\ UNCHANGED <<loopVars, clients, cancelled, running, listening, conn, backlog, clientVars, read, jobVars, heads, owed>>

-----------------------------------------------------------------------------
(* Clients.                                                                 *)

Connect(c) ==
    /\ listening /\ conn[c] = "none"
    /\ conn' = [conn EXCEPT ![c] = "pending"]
    /\ backlog' = Append(backlog, c)
    /\ UNCHANGED <<loopVars, clients, stopVars, clientVars, read, jobVars, heads, owed>>

SendLine(c) ==
    /\ conn[c] \in {"pending", "open"} /\ ~left[c]
    /\ sent[c] < MaxCommands[c]
    /\ sent' = [sent EXCEPT ![c] = @ + 1]
    /\ UNCHANGED <<loopVars, clients, stopVars, conn, backlog, left, read, jobVars, heads, owed>>

LeaveClient(c) ==
    /\ conn[c] \in {"pending", "open"} /\ ~left[c]
    /\ left' = [left EXCEPT ![c] = TRUE]
    /\ UNCHANGED <<loopVars, clients, stopVars, conn, backlog, sent, read, jobVars, heads, owed>>

\* Nothing is left of a connection: the next one may have its name.
Forget(c) ==
    /\ conn[c] = "closed" /\ c \notin clients
    /\ \A j \in jobs : j.client # c
    /\ conn' = [conn EXCEPT ![c] = "none"]
    /\ sent' = [sent EXCEPT ![c] = 0] /\ left' = [left EXCEPT ![c] = FALSE]
    /\ read' = [read EXCEPT ![c] = 0] /\ answers' = [answers EXCEPT ![c] = <<>>]
    /\ heads' = [heads EXCEPT ![c] = {}] /\ owed' = [owed EXCEPT ![c] = 0]
    /\ UNCHANGED <<loopVars, clients, stopVars, backlog, jobs>>

ClientStep == \E c \in Client : Connect(c) \/ SendLine(c) \/ LeaveClient(c) \/ Forget(c)

Next ==
    /\ main # "exited"
    /\ LoopStep \/ AcceptError \/ JobStep \/ Cancel \/ MainStop \/ ClientStep

Spec == Init /\ [][Next]_vars

\* Goroutines run when they can; nobody has to connect, send, leave or signal, and
\* no Accept has to fail on a listener that is open.
FairSpec ==
    /\ Spec
    /\ WF_vars(main # "exited" /\ LoopStep)
    /\ WF_vars(main # "exited" /\ JobStep)
    /\ WF_vars(main # "exited" /\ MainStop)

-----------------------------------------------------------------------------
(* Properties.                                                              *)

Positions == {"none", "pending", "open", "closed"}
Lines(c) == 1 .. MaxCommands[c]
Jobs == UNION {[client : {c}, line : Lines(c), at : {"lookup", "write"}] : c \in Client}
Points == {"top", "accept", "insert", "copy", "serve", "read", "stop", "close", "ended"}
Stages == {"serving", "cancelled", "stopping", "stopped", "exited"}

\* The types of the variables, and never more clients than the configuration
\* allows.
TypeOK ==
    /\ loop \in Points
    /\ IF loop \in {"insert", "read"} THEN hand \in Client ELSE hand = None
    /\ todo \subseteq Client /\ clients \subseteq Client
    /\ Cardinality(clients) <= MaxClients
    /\ running \in BOOLEAN /\ listening \in BOOLEAN /\ cancelled \in BOOLEAN
    /\ conn \in [Client -> Positions] /\ backlog \in Seq(Client)
    /\ sent \in [Client -> Nat] /\ left \in [Client -> BOOLEAN]
    /\ read \in [Client -> Nat]
    /\ \A c \in Client : read[c] <= sent[c] /\ sent[c] <= MaxCommands[c]
    /\ jobs \subseteq Jobs
    /\ answers \in [Client -> Seq(Client \X Nat)]
    /\ heads \in [Client -> SUBSET Nat] /\ owed \in [Client -> Int]
    /\ main \in Stages

\* Its turn in this pass is still to come, or is now.
TurnToCome(c) == loop \in {"insert", "copy"} \/ c \in todo \/ (loop = "read" /\ hand = c)

\* However many clients join and leave, whatever errors end their reads, and in
\* whatever order the map is ranged over, a client has had a Read for every Accept
\* that returned since it joined, its own included (the one that Stop makes fail
\* counts too), or its turn in this pass is still to come.  A client that another
\* one's error deprived of its turn would be left behind by one for good.  How long
\* an Accept takes is another question: see LinesRead.
NobodyPassedOver == \A c \in clients : owed[c] <= IF TurnToCome(c) THEN 1 ELSE 0

\* The lines of c that are answered, and those a goroutine is at work on.
Answered(c) == {answers[c][i][2] : i \in DOMAIN answers[c]}
AtWork(c) == {j.line : j \in {k \in jobs : k.client = c}}

\* The goroutines of a client finish in any order, look it up after the loop may
\* have removed it, and write after Stop may have closed its connection.  Still a
\* client is sent answers to its own lines only, one for each line that came first
\* in a read; and as long as its connection is open none of them is missing.
AnswersExact ==
    \A c \in Client :
        /\ \A i \in DOMAIN answers[c] : answers[c][i] \in {c} \X heads[c]
        /\ IsInjective(answers[c])
        /\ Answered(c) \intersect AtWork(c) = {}
        /\ conn[c] = "open" => heads[c] = Answered(c) \union AtWork(c)

\* The loop waits for a connection, or for the line of a client that is silent.
Waiting ==
    \/ loop = "accept" /\ listening /\ backlog = <<>>
    \/ loop = "read" /\ conn[hand] = "open" /\ ~left[hand] /\ read[hand] = sent[hand]

\* However long others come and go: a line that was sent is read, unless its client
\* is removed or the server is stopped, or the loop waits for ever for somebody else,
\* for a new connection or for a client that says nothing.
CommandsRead ==
    \A c \in Client : \A n \in Lines(c) :
        (c \in clients /\ sent[c] >= n)
            ~> (read[c] >= n \/ c \notin clients \/ cancelled \/ []Waiting)

\* What the documents say: reading one client does not block the others, and a
\* session is command after command, so a line that was sent is read, with no
\* waiting for others.
LinesRead ==
    \A c \in Client : \A n \in Lines(c) :
        (c \in clients /\ sent[c] >= n) ~> (read[c] >= n \/ c \notin clients \/ cancelled)

=============================================================================
