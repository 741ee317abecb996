------------------------------- MODULE UDPClient -------------------------------
(***************************************************************************)
(* lab4's client, src/lab4/internal/infrastructure/network/udp_client.go,   *)
(* driven by the commands of src/lab4/cmd/client/main.go: callers of        *)
(* SendRequest, one listener goroutine for every Connect, and a network     *)
(* that loses, delays, duplicates and reorders answers.                     *)
(***************************************************************************)
EXTENDS FiniteSets

CONSTANTS
    Caller,     \* goroutines that use the client; cmd/client has one
    Request,    \* request ids (uuid.New())
    Blank,      \* requests to the stats service with a command it knows (ALL,
                \* SERVICE, POOL, HELP): their answers have the id "".  An
                \* unknown command is answered like any other request.
    Socket,     \* the connections Connect makes; each starts a listener
    None

ASSUME ClientAssumption ==
    /\ Blank \subseteq Request
    /\ None \notin Request \union Socket

VARIABLES
    conn,       \* c.conn
    closed,     \* sockets Disconnect has closed
    cancelled,  \* c.ctx is done, and stays so
    responses,  \* keys of the map of response channels
    chan,       \* the channel of each request, of capacity 1
    content,    \* history: the request whose answer lies in the channel
    sent,       \* request datagrams written: <<id, socket>>
    pc,         \* program counter of each caller
    req, sock, quick,      \* its request, its copy of c.conn, its command
    outcome,    \* what SendRequest returned for each request
    returned,   \* history: the request whose answer it returned
    listener,   \* program counter of each listener goroutine
    source,     \* its copy of c.conn
    answer,     \* the id of the answer it has read
    about,      \* history: the request the server made that answer for
    panicked    \* a send on a closed channel killed the process

connVars == <<conn, closed, cancelled>>
mapVars == <<responses, chan, content>>
callerVars == <<pc, req, sock, quick, outcome, returned>>
listenerVars == <<listener, source, answer, about>>
vars == <<connVars, mapVars, sent, callerVars, listenerVars, panicked>>

Outcomes == {"none", "response", "timeout", "shutdown", "send failed"}

\* A listener holds responseMu for reading while it sends.
Reading == \E k \in Socket : listener[k] = "send"

Unused == {r \in Request : chan[r] = "none" /\ \A c \in Caller : req[c] # r}

Init ==
    /\ conn = None /\ closed = {} /\ cancelled = FALSE
    /\ responses = {} /\ chan = [r \in Request |-> "none"]
    /\ content = [r \in Request |-> None]
    /\ returned = [r \in Request |-> None]
    /\ sent = {}
    /\ pc = [c \in Caller |-> "idle"]
    /\ req = [c \in Caller |-> None] /\ sock = [c \in Caller |-> None]
    /\ quick = [c \in Caller |-> FALSE]
    /\ outcome = [r \in Request |-> "none"]
    /\ listener = [k \in Socket |-> "none"]
    /\ source = [k \in Socket |-> None]
    /\ answer = [k \in Socket |-> None]
    /\ about = [k \in Socket |-> None]
    /\ panicked = FALSE

-----------------------------------------------------------------------------
(* Commands.  Connect replaces c.conn without closing the old connection    *)
(* and starts a listener; a quick command is Connect, SendRequest and       *)
(* Disconnect.                                                              *)

Dial(k) ==
    /\ listener[k] = "none"
    /\ conn' = k
    /\ listener' = [listener EXCEPT ![k] = "top"]
    /\ UNCHANGED <<closed, cancelled, source, answer, about>>

\* SendRequest is called; the id it will draw is drawn here, and a model with
\* no id left takes no more commands.
Call(c, isQuick) ==
    /\ pc[c] = "idle"
    /\ \E r \in Unused : req' = [req EXCEPT ![c] = r]
    /\ quick' = [quick EXCEPT ![c] = isQuick]
    /\ pc' = [pc EXCEPT ![c] = "request"]
    /\ UNCHANGED <<mapVars, sent, sock, outcome, returned, panicked>>

ConnectCommand(c, k) ==
    /\ pc[c] = "idle"
    /\ Dial(k)
    /\ UNCHANGED <<mapVars, sent, callerVars, panicked>>

SendCommand(c) == Call(c, FALSE) /\ UNCHANGED <<connVars, listenerVars>>

QuickCommand(c, k) == Dial(k) /\ Call(c, TRUE)

Return(c) == IF quick[c] THEN "cancel" ELSE "idle"

-----------------------------------------------------------------------------
(* SendRequest.                                                             *)

\* The copy of c.conn; "client not connected" if there is none.
CopyConn(c) ==
    /\ pc[c] = "request"
    /\ \/ /\ conn = None
          /\ pc' = [pc EXCEPT ![c] = Return(c)]
          /\ req' = [req EXCEPT ![c] = None]
          /\ UNCHANGED sock
       \/ /\ conn # None
          /\ sock' = [sock EXCEPT ![c] = conn]
          /\ pc' = [pc EXCEPT ![c] = "register"]
          /\ UNCHANGED req
    /\ UNCHANGED <<connVars, mapVars, sent, quick, outcome, returned,
                   listenerVars, panicked>>

Register(c) ==
    /\ pc[c] = "register" /\ ~Reading
    /\ responses' = responses \union {req[c]}
    /\ chan' = [chan EXCEPT ![req[c]] = "empty"]
    /\ pc' = [pc EXCEPT ![c] = "write"]
    /\ UNCHANGED <<connVars, content, sent, req, sock, quick, outcome, returned,
                   listenerVars, panicked>>

Finish(c, result) ==
    /\ outcome' = [outcome EXCEPT ![req[c]] = result]
    /\ pc' = [pc EXCEPT ![c] = "delete"]
    /\ UNCHANGED <<connVars, responses, req, sock, quick, listenerVars,
                   panicked>>

Write(c) ==
    /\ pc[c] = "write" /\ sock[c] \notin closed
    /\ sent' = sent \union {<<req[c], sock[c]>>}
    /\ pc' = [pc EXCEPT ![c] = "wait"]
    /\ UNCHANGED <<connVars, mapVars, req, sock, quick, outcome, returned,
                   listenerVars, panicked>>

\* Mutant of WriteFails: the failed write returns before the delete.
WriteFailsLeak(c) ==
    /\ pc[c] = "write"
    /\ pc' = [pc EXCEPT ![c] = "close"]
    /\ UNCHANGED <<connVars, mapVars, sent, req, sock, quick, outcome, returned,
                   listenerVars, panicked>>

\* On a closed socket always; on an open one too, when the host has refused an
\* earlier datagram.
WriteFails(c) ==
    /\ pc[c] = "write"
    /\ Finish(c, "send failed")
    /\ UNCHANGED <<chan, content, sent, returned>>

\* The three cases of the select; any one that is ready may be taken.
TakeResponse(c) ==
    /\ pc[c] = "wait" /\ chan[req[c]] = "full"
    /\ chan' = [chan EXCEPT ![req[c]] = "empty"]
    /\ content' = [content EXCEPT ![req[c]] = None]
    /\ returned' = [returned EXCEPT ![req[c]] = content[req[c]]]
    /\ Finish(c, "response")
    /\ UNCHANGED sent

TimeOut(c) ==
    /\ pc[c] = "wait"
    /\ Finish(c, "timeout")
    /\ UNCHANGED <<chan, content, sent, returned>>

SeeShutdown(c) ==
    /\ pc[c] = "wait" /\ cancelled
    /\ Finish(c, "shutdown")
    /\ UNCHANGED <<chan, content, sent, returned>>

\* Mutant of Delete: the entry is deleted without the lock.
DeleteUnlocked(c) ==
    /\ pc[c] = "delete"
    /\ responses' = responses \ {req[c]}
    /\ pc' = [pc EXCEPT ![c] = "close"]
    /\ UNCHANGED <<connVars, chan, content, sent, req, sock, quick, outcome,
                   returned, listenerVars, panicked>>

\* The deferred function: delete under the lock, then close.
Delete(c) ==
    /\ pc[c] = "delete" /\ ~Reading
    /\ responses' = responses \ {req[c]}
    /\ pc' = [pc EXCEPT ![c] = "close"]
    /\ UNCHANGED <<connVars, chan, content, sent, req, sock, quick, outcome,
                   returned, listenerVars, panicked>>

CloseChan(c) ==
    /\ pc[c] = "close"
    /\ chan' = [chan EXCEPT ![req[c]] = "closed"]
    /\ req' = [req EXCEPT ![c] = None] /\ sock' = [sock EXCEPT ![c] = None]
    /\ pc' = [pc EXCEPT ![c] = Return(c)]
    /\ UNCHANGED <<connVars, responses, content, sent, quick, outcome, returned,
                   listenerVars, panicked>>

-----------------------------------------------------------------------------
(* Disconnect.                                                              *)

CancelContext(c) ==
    /\ pc[c] = "cancel"
    /\ cancelled' = TRUE
    /\ pc' = [pc EXCEPT ![c] = "closeConn"]
    /\ UNCHANGED <<conn, closed, mapVars, sent, req, sock, quick, outcome,
                   returned, listenerVars, panicked>>

\* Mutant of CloseConn: c.conn is not tested for nil.
CloseConnUnchecked(c) ==
    /\ pc[c] = "closeConn"
    /\ closed' = closed \union {conn}
    /\ conn' = None
    /\ pc' = [pc EXCEPT ![c] = "idle"]
    /\ quick' = [quick EXCEPT ![c] = FALSE]
    /\ UNCHANGED <<cancelled, mapVars, sent, req, sock, outcome, returned,
                   listenerVars, panicked>>

CloseConn(c) ==
    /\ pc[c] = "closeConn"
    /\ closed' = closed \union ({conn} \ {None})
    /\ conn' = None
    /\ pc' = [pc EXCEPT ![c] = "idle"]
    /\ quick' = [quick EXCEPT ![c] = FALSE]
    /\ UNCHANGED <<cancelled, mapVars, sent, req, sock, outcome, returned,
                   listenerVars, panicked>>

-----------------------------------------------------------------------------
(* listenResponses.                                                         *)

Move(k, from, to) ==
    /\ listener[k] = from
    /\ listener' = [listener EXCEPT ![k] = to]
    /\ UNCHANGED <<connVars, responses, sent, callerVars>>

\* Mutant of CheckContext: the loop ignores ctx.Done().
CheckContextSkipped(k) ==
    /\ Move(k, "top", "copy")
    /\ UNCHANGED <<chan, content, source, answer, about, panicked>>

CheckContext(k) ==
    /\ Move(k, "top", IF cancelled THEN "gone" ELSE "copy")
    /\ UNCHANGED <<chan, content, source, answer, about, panicked>>

\* Without a connection the listener sleeps and starts over.
CopySource(k) ==
    /\ Move(k, "copy", IF conn = None THEN "top" ELSE "read")
    /\ source' = [source EXCEPT ![k] = conn]
    /\ UNCHANGED <<chan, content, answer, about, panicked>>

\* An answer to a request written on this socket: sooner or later, in any
\* order, any number of times or never.  It carries the id of the request
\* unless the stats service has carried out a command.
ReadAnswer(k) ==
    /\ Move(k, "read", "lookup")
    /\ source[k] \notin closed
    /\ \E r \in Request :
          /\ <<r, source[k]>> \in sent
          /\ answer' = [answer EXCEPT ![k] = IF r \in Blank THEN None ELSE r]
          /\ about' = [about EXCEPT ![k] = r]
    /\ source' = [source EXCEPT ![k] = None]
    /\ UNCHANGED <<chan, content, panicked>>

\* The 100 ms deadline, an error, or bytes that do not parse.
ReadNothing(k) ==
    /\ Move(k, "read", IF source[k] \in closed /\ cancelled THEN "gone" ELSE "top")
    /\ source' = [source EXCEPT ![k] = None]
    /\ UNCHANGED <<chan, content, answer, about, panicked>>

\* Mutant of Lookup: whoever waits gets the answer.
LookupAny(k) ==
    /\ ~(Reading /\ \E c \in Caller : pc[c] \in {"register", "delete"})
    /\ Move(k, "lookup", IF responses # {} THEN "send" ELSE "top")
    /\ IF responses = {} THEN answer' = [answer EXCEPT ![k] = None]
       ELSE \E r \in responses : answer' = [answer EXCEPT ![k] = r]
    /\ UNCHANGED <<chan, content, source, about, panicked>>

\* RLock and the test of the map.  Go lets no new reader in while a writer
\* waits for the readers inside.
Lookup(k) ==
    /\ ~(Reading /\ \E c \in Caller : pc[c] \in {"register", "delete"})
    /\ Move(k, "lookup", IF answer[k] \in responses THEN "send" ELSE "top")
    /\ answer' = [answer EXCEPT ![k] = IF @ \in responses THEN @ ELSE None]
    /\ about' = [about EXCEPT ![k] = IF answer[k] \in responses THEN @ ELSE None]
    /\ UNCHANGED <<chan, content, source, panicked>>

\* Mutant of Send: the send has no default case.
SendBlocking(k) ==
    /\ Move(k, "send", "top")
    /\ chan[answer[k]] # "full"
    /\ panicked' = (chan[answer[k]] = "closed")
    /\ chan' = [chan EXCEPT ![answer[k]] = IF @ = "empty" THEN "full" ELSE @]
    /\ content' = [content EXCEPT ![answer[k]] =
                       IF chan[answer[k]] = "empty" THEN about[k] ELSE @]
    /\ answer' = [answer EXCEPT ![k] = None]
    /\ about' = [about EXCEPT ![k] = None]
    /\ UNCHANGED source

\* The send that never blocks, and RUnlock.
Send(k) ==
    /\ Move(k, "send", "top")
    /\ panicked' = (chan[answer[k]] = "closed")
    /\ chan' = [chan EXCEPT ![answer[k]] = IF @ = "empty" THEN "full" ELSE @]
    /\ content' = [content EXCEPT ![answer[k]] =
                       IF chan[answer[k]] = "empty" THEN about[k] ELSE @]
    /\ answer' = [answer EXCEPT ![k] = None]
    /\ about' = [about EXCEPT ![k] = None]
    /\ UNCHANGED source

-----------------------------------------------------------------------------

CallStep(c) ==
    \/ CopyConn(c) \/ Register(c) \/ Write(c) \/ WriteFails(c)
    \/ TakeResponse(c) \/ TimeOut(c) \/ SeeShutdown(c)
    \/ Delete(c) \/ CloseChan(c) \/ CancelContext(c) \/ CloseConn(c)
ListenerStep(k) ==
    \/ CheckContext(k) \/ CopySource(k) \/ ReadAnswer(k) \/ ReadNothing(k)
    \/ Lookup(k) \/ Send(k)

Next ==
    /\ ~panicked
    /\ \/ \E c \in Caller : CallStep(c) \/ SendCommand(c)
       \/ \E c \in Caller, k \in Socket : ConnectCommand(c, k) \/ QuickCommand(c, k)
       \/ \E k \in Socket : ListenerStep(k)

Spec == Init /\ [][Next]_vars

\* A call in progress and a running listener go on; timers fire.  Nobody has
\* to issue a command, and the network has to deliver nothing.  Strong fairness
\* for callers: a waiting writer of a Go RWMutex gets the lock as soon as the
\* readers inside have left.
FairSpec ==
    /\ Spec
    /\ \A c \in Caller : SF_vars(~panicked /\ CallStep(c))
    /\ \A k \in Socket : WF_vars(~panicked /\ ListenerStep(k))

-----------------------------------------------------------------------------
(* What the client guarantees.                                              *)

TypeOK ==
    /\ conn \in Socket \union {None} /\ closed \subseteq Socket
    /\ cancelled \in BOOLEAN /\ panicked \in BOOLEAN
    /\ responses \subseteq Request
    /\ chan \in [Request -> {"none", "empty", "full", "closed"}]
    /\ sent \subseteq Request \X Socket
    /\ pc \in [Caller -> {"idle", "request", "register", "write", "wait",
                          "delete", "close", "cancel", "closeConn"}]
    /\ req \in [Caller -> Request \union {None}]
    /\ sock \in [Caller -> Socket \union {None}]
    /\ quick \in [Caller -> BOOLEAN]
    /\ outcome \in [Request -> Outcomes]
    /\ content \in [Request -> Request \union {None}]
    /\ returned \in [Request -> Request \union {None}]
    /\ listener \in [Socket -> {"none", "top", "copy", "read", "lookup", "send",
                                "gone"}]
    /\ source \in [Socket -> Socket \union {None}]
    /\ answer \in [Socket -> Request \union {None}]
    /\ about \in [Socket -> Request \union {None}]

\* An answer that arrives while its caller times out, is cancelled or has
\* gone never hits the closed channel: the entry leaves the map under the lock
\* before the close, and the listener sends under the same lock (lines
\* 101-106, 161-168).
NoSendOnClosed == ~panicked

\* The map holds exactly the calls in progress: no call leaves an entry
\* behind, whichever way it ends, and none loses its entry early.
MapExact ==
    responses = {req[c] : c \in {d \in Caller : pc[d] \in {"write", "wait", "delete"}}}

\* What a call returns, and what lies in its channel, is the answer the server
\* made for its own request, which it has written: late, doubled and foreign
\* answers, on whichever connection, never take its place (lines 96-121, 156-167).
AnswerIsMine ==
    \A r \in Request :
        /\ chan[r] = "full" => content[r] = r
        /\ outcome[r] = "response" => returned[r] = r
        /\ chan[r] = "full" \/ outcome[r] = "response" =>
              \E k \in Socket : <<r, k>> \in sent

\* Every call comes back, answered or not: duplicates cannot block a listener
\* on a full channel while it keeps the lock the callers need.
CallsReturn == \A c \in Caller : pc[c] # "idle" ~> pc[c] = "idle"

\* After Disconnect every listener ends, those of later Connects too.
ListenersEnd == [](cancelled => <>(\A k \in Socket : listener[k] \in {"none", "gone"}))

-----------------------------------------------------------------------------
(* What the documentation says and the code does not do.                    *)

\* lab4/README.md:184-232: one quick command after the other gets a response;
\* none is told "client shutdown".
QuickCommandsWork == \A r \in Request : outcome[r] # "shutdown"

=============================================================================
