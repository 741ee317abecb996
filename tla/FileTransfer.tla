------------------------------ MODULE FileTransfer ------------------------------
(***************************************************************************)
(* lab1's TCP file transfer: the handler of a connection                    *)
(* (src/lab1/internal/infrastructure/network/tcp_server.go), the client     *)
(* (tcp_client.go) driven by cmd/client, and the files of the upload        *)
(* directory.  A connection is two byte streams; commands, replies and file *)
(* data share them, and a read may return any piece of what has arrived.    *)
(* A stream is a sequence of items: lines, of a long line what one read can *)
(* hold and pieces of the rest, and blocks of files.  A read takes any      *)
(* number of whole items.                                                   *)
(***************************************************************************)
EXTENDS Integers, Sequences, FiniteSets

CONSTANTS
    Client,        \* client processes, each connects once
    File,          \* names in the upload directory
    Stored,        \* names of files that are there from the start
    Blocks,        \* blocks of every file a client uploads; bound: pieces
                   \* of the rest of a long line
    MaxCommands,   \* bound: commands typed at each client
    Window,        \* items a stream holds before a write blocks
    None

ASSUME TransferAssumption ==
    /\ Stored \subseteq File /\ None \notin Client
    /\ MaxCommands \in [Client -> Nat]
    /\ Blocks \in Nat \ {0} /\ Window \in Nat \ {0}

VARIABLES
    client,        \* program counter of each client
    count,         \* commands typed so far
    cur,           \* the command it works on
    response,      \* first item of the response collected by readResponse
    progress,      \* blocks sendFile has written, or pieces of a long line
    want, got,     \* content announced to receiveFile, items it has written
    lost,          \* items that came in one read with the FILE_INFO line
    handler,       \* program counter of each connection's handler
    job,           \* the command the handler works on
    left,          \* what sendFile of the server has still to write
    up, down,      \* the streams to the server and to the client
    files,         \* content of each name; empty: no such file
    answer,        \* history: the command whose reply each command took; 0 if
                   \* none yet or an error, -1 for bytes that are no reply
    clean,         \* history: no transfer tried, no long line, no reply given up
    success        \* history: upload commands the server reported successful

clientVars == <<client, count, cur, response, progress, want, got, lost>>
handlerVars == <<handler, job, left>>
history == <<answer, clean, success>>
vars == <<clientVars, handlerVars, up, down, files, history>>

\* A block or a piece is text that is not taken for a command that is known.
Command(op, f, c, n) == [kind |-> "command", op |-> op, file |-> f, by |-> c, n |-> n]
Block(c, of, n) == [kind |-> "block", by |-> c, of |-> of, n |-> n]
Piece(c, of) == [kind |-> "piece", by |-> c, of |-> of]
Line(kind, n) == [kind |-> kind, to |-> n, content |-> <<>>]
Header(n, content) == [kind |-> "header", to |-> n, content |-> content]

\* strings.Contains(data, "\r\n"): every line does, a block or a piece does not.
IsRaw(item) == item.kind \in {"block", "piece"}
HasBreak(items) == \E i \in DOMAIN items : ~IsRaw(items[i])
Asks(item, op) == item.kind = "command" /\ item.op = op
Number(item) == IF item.kind = "command" THEN item.n ELSE item.of

\* A read returns the first n items.
Part(stream, n) == SubSeq(stream, 1, n)
Rest(stream, n) == SubSeq(stream, n + 1, Len(stream))

Gone(c) == client[c] = "gone"              \* the client's end is closed
Closed(c) == handler[c] = "gone"           \* the server's end is closed
Put(stream, c, item) ==
    /\ Len(stream[c]) < Window
    /\ stream' = [stream EXCEPT ![c] = Append(@, item)]
\* A write of the handler; to a client that has gone it may succeed, and be lost.
Tell(c, item) == IF Gone(c) THEN UNCHANGED down ELSE Put(down, c, item)
Empty(stream, c) == [stream EXCEPT ![c] = <<>>]
Nothing(local, c) == [local EXCEPT ![c] = None]

Init ==
    /\ client = [c \in Client |-> "off"] /\ count = [c \in Client |-> 0]
    /\ cur = [c \in Client |-> None] /\ response = [c \in Client |-> None]
    /\ progress = [c \in Client |-> 0]
    /\ want = [c \in Client |-> <<>>] /\ got = [c \in Client |-> <<>>]
    /\ lost = [c \in Client |-> 0]
    /\ handler = [c \in Client |-> "none"] /\ job = [c \in Client |-> None]
    /\ left = [c \in Client |-> <<>>]
    /\ up = [c \in Client |-> <<>>] /\ down = [c \in Client |-> <<>>]
    /\ files = [f \in File |->
           IF f \in Stored THEN [i \in 1..Blocks |-> Block(None, f, i)] ELSE <<>>]
    /\ answer = [c \in Client |-> [k \in 1..MaxCommands[c] |-> 0]]
    /\ clean = [c \in Client |-> TRUE] /\ success = {}

-----------------------------------------------------------------------------
(* HandleConnection.                                                        *)

HandlerGoes(c, from, to) ==
    /\ handler[c] = from
    /\ handler' = [handler EXCEPT ![c] = to]

\* Accept, and a goroutine for the connection.
Connect(c) ==
    /\ client[c] = "off"
    /\ client' = [client EXCEPT ![c] = "idle"]
    /\ HandlerGoes(c, "none", "read")
    /\ UNCHANGED <<count, cur, response, progress, want, got, lost, job, left,
                   up, down, files, history>>

\* What the command loop does with the first line of a read.  File data is an
\* unknown command; a missing file is an error; both are answered.
Branch(item) ==
    IF Asks(item, "upload") THEN "ready"
    ELSE IF Asks(item, "download") /\ files[item.file] # <<>> THEN "load"
    ELSE "reply"

\* Whatever came with the line becomes its arguments and is not looked at.
ReadCommand(c) ==
    /\ up[c] # <<>>
    /\ HandlerGoes(c, "read", Branch(Head(up[c])))
    /\ job' = [job EXCEPT ![c] = Head(up[c])]
    /\ \E n \in 1..Len(up[c]) : up' = [up EXCEPT ![c] = Rest(@, n)]
    /\ UNCHANGED <<clientVars, left, down, files, history>>

\* A piece of data or of a long line that is blank is not answered.
ReadBlank(c) ==
    /\ handler[c] = "read"
    /\ \E n \in 1..Len(up[c]) :
          /\ \A i \in 1..n : IsRaw(up[c][i])
          /\ up' = [up EXCEPT ![c] = Rest(@, n)]
    /\ UNCHANGED <<clientVars, handler, job, left, down, files, history>>

\* SessionTimeout without a command, the end of the stream, or a reset.
HandlerLeaves(c) ==
    /\ up[c] = <<>> \/ Gone(c)
    /\ HandlerGoes(c, "read", "gone")
    /\ up' = Empty(up, c)
    /\ UNCHANGED <<clientVars, job, left, down, files, history>>

\* Mutant of WriteReply: the command answers, and the loop answers again.
WriteReplyTwice(c) ==
    /\ HandlerGoes(c, "reply", IF Asks(job[c], "close") THEN "gone" ELSE "read")
    /\ Len(down[c]) + 2 <= Window /\ ~Gone(c)
    /\ LET line == Line("reply", Number(job[c])) IN
          down' = [down EXCEPT ![c] = @ \o <<line, line>>]
    /\ job' = [job EXCEPT ![c] = None]
    /\ up' = IF Asks(job[c], "close") THEN Empty(up, c) ELSE up
    /\ UNCHANGED <<clientVars, left, files, history>>

\* The reply of every command, its error or the summary of a transfer.
WriteReply(c) ==
    /\ HandlerGoes(c, "reply", IF Asks(job[c], "close") THEN "gone" ELSE "read")
    /\ Tell(c, Line("reply", Number(job[c])))
    /\ job' = [job EXCEPT ![c] = None]
    /\ up' = IF Asks(job[c], "close") THEN Empty(up, c) ELSE up
    /\ UNCHANGED <<clientVars, left, files, history>>

\* A write to a client that has gone ends the handler, after the attempt to
\* reply in the case of a transfer.
WriteFails(c) ==
    /\ Gone(c)
    /\ \E pc \in {"reply", "ready", "load", "send"} : HandlerGoes(c, pc, "gone")
    /\ job' = [job EXCEPT ![c] = None]
    /\ left' = Empty(left, c) /\ up' = Empty(up, c)
    /\ UNCHANGED <<clientVars, down, files, history>>

\* handleUpload: READY_TO_RECEIVE.
SendReady(c) ==
    /\ HandlerGoes(c, "ready", "receive")
    /\ Tell(c, Line("ready", Number(job[c])))
    /\ UNCHANGED <<clientVars, job, left, up, files, history>>

\* Mutant of Receive: a short read is stored from its second item.
ReceiveSkips(c) ==
    /\ HandlerGoes(c, "receive", "receive")
    /\ \E n \in 1..Len(up[c]) :
          /\ files' = [files EXCEPT ![job[c].file] = @ \o Tail(Part(up[c], n))]
          /\ up' = [up EXCEPT ![c] = Rest(@, n)]
    /\ UNCHANGED <<clientVars, job, left, down, history>>

\* receiveFile: everything that arrives is appended to the file.  O_APPEND
\* makes the offset given to SaveFile ineffective.
Receive(c) ==
    /\ HandlerGoes(c, "receive", "receive")
    /\ \E n \in 1..Len(up[c]) :
          /\ files' = [files EXCEPT ![job[c].file] = @ \o Part(up[c], n)]
          /\ up' = [up EXCEPT ![c] = Rest(@, n)]
    /\ UNCHANGED <<clientVars, job, left, down, history>>

\* Mutant of ReceiveEnd: the end is seen before the data in front of it.
ReceiveEndEarly(c) ==
    /\ Gone(c)
    /\ HandlerGoes(c, "receive", "reply")
    /\ success' = success \union {job[c]}
    /\ UNCHANGED <<clientVars, job, left, up, down, files, answer, clean>>

\* Only the end of the stream ends an upload with success.
ReceiveEnd(c) ==
    /\ up[c] = <<>> /\ Gone(c)
    /\ HandlerGoes(c, "receive", "reply")
    /\ success' = success \union {job[c]}
    /\ UNCHANGED <<clientVars, job, left, up, down, files, answer, clean>>

\* The read deadline of the UPLOAD command passes (receiveFile does not renew
\* it), the connection is reset, or SaveFile fails and what was read is lost.
ReceiveFails(c) ==
    /\ HandlerGoes(c, "receive", "reply")
    /\ \E n \in 0..Len(up[c]) : up' = [up EXCEPT ![c] = Rest(@, n)]
    /\ UNCHANGED <<clientVars, job, left, down, files, history>>

\* handleDownload and sendFile: read the whole file, write FILE_INFO.
SendHeader(c) ==
    /\ HandlerGoes(c, "load", "send")
    /\ left' = [left EXCEPT ![c] = files[job[c].file]]
    /\ Tell(c, Header(Number(job[c]), files[job[c].file]))
    /\ UNCHANGED <<clientVars, job, up, files, history>>

\* ReadFile fails although GetFileInfo found the file.
LoadFails(c) ==
    /\ HandlerGoes(c, "load", "reply")
    /\ UNCHANGED <<clientVars, job, left, up, down, files, history>>

\* Mutant of SendBlock: the slice starts one block too far.
SendBlockSkips(c) ==
    /\ HandlerGoes(c, "send", IF Len(left[c]) <= 1 THEN "reply" ELSE "send")
    /\ Tell(c, left[c][Len(left[c])])
    /\ left' = [left EXCEPT ![c] = Tail(@)]
    /\ UNCHANGED <<clientVars, job, up, files, history>>

\* The loop of sendFile; behind the last block comes the summary.
SendBlock(c) ==
    /\ HandlerGoes(c, "send", IF Len(left[c]) = 1 THEN "reply" ELSE "send")
    /\ Tell(c, Head(left[c]))
    /\ left' = [left EXCEPT ![c] = Tail(@)]
    /\ UNCHANGED <<clientVars, job, up, files, history>>

-----------------------------------------------------------------------------
(* The client.                                                              *)

ClientGoes(c, from, to) ==
    /\ client[c] = from
    /\ client' = [client EXCEPT ![c] = to]

\* The next command typed; SendCommand writes the line.  A line with a file name is
\* short, any other may be longer than what the server reads at once, and is then
\* written on.  On a connection the server has closed the write fails, or succeeds
\* and leads nowhere.
SendCommand(c, op, f, to) ==
    /\ client[c] = "idle" /\ count[c] < MaxCommands[c]
    /\ count' = [count EXCEPT ![c] = @ + 1]
    /\ progress' = [progress EXCEPT ![c] = 0]
    /\ LET line == Command(op, f, c, count[c] + 1) IN
          \/ Closed(c) /\ UNCHANGED <<client, cur, up>>
          \/ /\ client' = [client EXCEPT ![c] = to]
             /\ cur' = [cur EXCEPT ![c] = line]
             /\ IF Closed(c) THEN UNCHANGED up ELSE Put(up, c, line)
    /\ clean' = [clean EXCEPT ![c] = @ /\ op \notin {"upload", "download"} /\ to = "await"]
    /\ UNCHANGED <<response, want, got, lost, handlerVars, down,
                   files, answer, success>>

\* The next piece of a long line, which may be the last.
SendRest(c) ==
    /\ ~Closed(c) /\ progress[c] < Blocks
    /\ \E to \in {"writing", "await"} :
          /\ ClientGoes(c, "writing", to)
          /\ progress[c] + 1 = Blocks => to = "await"
    /\ progress' = [progress EXCEPT ![c] = @ + 1]
    /\ Put(up, c, Piece(c, cur[c].n))
    /\ UNCHANGED <<count, cur, response, want, got, lost, handlerVars, down,
                   files, history>>

\* Write of a long line fails, or the last of it leads nowhere.
RestFails(c) ==
    /\ Closed(c)
    /\ \/ ClientGoes(c, "writing", "idle") /\ cur' = Nothing(cur, c)
       \/ ClientGoes(c, "writing", "await") /\ UNCHANGED cur
    /\ UNCHANGED <<count, response, progress, want, got, lost, handlerVars, up, down,
                   files, history>>

Answer(c, value) == answer' = [answer EXCEPT ![c][cur[c].n] = value]
First(c) == IF response[c] = None THEN Head(down[c]) ELSE response[c]

\* readResponse: a read without a line is kept, and read on.
ReadMore(c) ==
    /\ ClientGoes(c, "await", "await")
    /\ \E n \in 1..Len(down[c]) :
          /\ ~HasBreak(Part(down[c], n))
          /\ down' = [down EXCEPT ![c] = Rest(@, n)]
    /\ response' = [response EXCEPT ![c] = First(c)]
    /\ UNCHANGED <<count, cur, progress, want, got, lost, handlerVars, up,
                   files, history>>

\* What the caller of SendCommand does with a complete response.
After(op, first) ==
    IF op = "upload" /\ first.kind = "ready" THEN "sending"
    ELSE IF op = "download" /\ first.kind = "header" THEN "receiving"
    ELSE "idle"

\* An upload or a download that is told something else ends in an error.
Taken(op, first) ==
    IF After(op, first) = "idle" /\ op \in {"upload", "download"} THEN 0
    ELSE IF first.kind \in {"reply", "ready", "header"} THEN first.to ELSE -1

\* readResponse ends with the first read that contains a line.  All that came
\* with it is part of the response: receiveFile does not see it.
ReadResponse(c) ==
    /\ down[c] # <<>>
    /\ ClientGoes(c, "await", After(cur[c].op, First(c)))
    /\ \E n \in 1..Len(down[c]) :
          /\ HasBreak(Part(down[c], n))
          /\ down' = [down EXCEPT ![c] = Rest(@, n)]
          /\ lost' = [lost EXCEPT ![c] =
                 IF client'[c] = "receiving" THEN n - 1 ELSE 0]
    /\ response' = [response EXCEPT ![c] = None]
    /\ want' = [want EXCEPT ![c] =
           IF client'[c] = "receiving" THEN First(c).content ELSE <<>>]
    /\ got' = [got EXCEPT ![c] = <<>>]
    /\ Answer(c, Taken(cur[c].op, First(c)))
    /\ progress' = [progress EXCEPT ![c] = 0]
    /\ cur' = IF client'[c] = "idle" THEN Nothing(cur, c) ELSE cur
    /\ UNCHANGED <<count, handlerVars, up, files, clean, success>>

\* The deadline of readResponse, or the end of the connection.
AwaitFails(c) ==
    /\ ClientGoes(c, "await", "idle")
    /\ cur' = Nothing(cur, c) /\ response' = Nothing(response, c)
    /\ clean' = [clean EXCEPT ![c] = FALSE]
    /\ UNCHANGED <<count, progress, want, got, lost, handlerVars, up,
                   down, files, answer, success>>

\* The loop of sendFile.
SendData(c) ==
    /\ ~Closed(c) /\ progress[c] < Blocks
    /\ ClientGoes(c, "sending", "sending")
    /\ progress' = [progress EXCEPT ![c] = @ + 1]
    /\ Put(up, c, Block(c, cur[c].n, progress[c] + 1))
    /\ UNCHANGED <<count, cur, response, want, got, lost, handlerVars, down,
                   files, history>>

\* Mutant of SendDataFails: the error of the write is ignored.
SendDataRetries(c) ==
    /\ Closed(c) /\ progress[c] < Blocks
    /\ ClientGoes(c, "sending", "sending")
    /\ UNCHANGED <<count, cur, response, progress, want, got, lost,
                   handlerVars, up, down, files, history>>

SendDataFails(c) ==
    /\ Closed(c) /\ progress[c] < Blocks
    /\ ClientGoes(c, "sending", "idle")
    /\ cur' = Nothing(cur, c)
    /\ UNCHANGED <<count, response, progress, want, got, lost,
                   handlerVars, up, down, files, history>>

\* The file has no more to read: UploadFile returns, without a reply.
SendDone(c) ==
    /\ progress[c] = Blocks
    /\ ClientGoes(c, "sending", "idle")
    /\ cur' = Nothing(cur, c)
    /\ UNCHANGED <<count, response, progress, want, got, lost,
                   handlerVars, up, down, files, history>>

\* Mutant of ReceiveData: the last read takes whatever is there.
ReceiveDataOverruns(c) ==
    /\ ClientGoes(c, "receiving", "receiving") /\ Len(got[c]) < Len(want[c])
    /\ \E n \in 1..Len(down[c]) :
          /\ got' = [got EXCEPT ![c] = @ \o Part(down[c], n)]
          /\ down' = [down EXCEPT ![c] = Rest(@, n)]
    /\ UNCHANGED <<count, cur, response, progress, want, lost, handlerVars, up,
                   files, history>>

\* receiveFile counts what it writes, and reads no more than is missing.
ReceiveData(c) ==
    /\ \E n \in 1..Len(down[c]) :
          /\ n <= Len(want[c]) - Len(got[c])
          /\ got' = [got EXCEPT ![c] = @ \o Part(down[c], n)]
          /\ down' = [down EXCEPT ![c] = Rest(@, n)]
    /\ ClientGoes(c, "receiving", "receiving")
    /\ UNCHANGED <<count, cur, response, progress, want, lost, handlerVars, up,
                   files, history>>

\* DownloadFile returns: all is there, or the deadline of readResponse, which
\* still holds, has passed, or the connection has ended.
ReceiveDone(c) ==
    /\ ClientGoes(c, "receiving", "idle")
    /\ cur' = Nothing(cur, c) /\ lost' = [lost EXCEPT ![c] = 0]
    /\ want' = Empty(want, c) /\ got' = Empty(got, c)
    /\ UNCHANGED <<count, response, progress, handlerVars, up, down, files,
                   history>>

\* EXIT (CLOSE was a command before), an interrupt or a crash, at any moment;
\* what the client has not read is dropped with the connection.
Leave(c) ==
    /\ client[c] \notin {"off", "gone"}
    /\ client' = [client EXCEPT ![c] = "gone"]
    /\ response' = [response EXCEPT ![c] = None]
    /\ want' = Empty(want, c) /\ got' = Empty(got, c) /\ down' = Empty(down, c)
    /\ cur' = Nothing(cur, c) /\ lost' = [lost EXCEPT ![c] = 0]
    /\ UNCHANGED <<count, progress, handlerVars, up, files, history>>

-----------------------------------------------------------------------------

HandlerStep(c) ==
    \/ ReadCommand(c) \/ ReadBlank(c) \/ HandlerLeaves(c) \/ WriteReply(c) \/ WriteFails(c)
    \/ SendReady(c) \/ Receive(c) \/ ReceiveEnd(c) \/ ReceiveFails(c)
    \/ SendHeader(c) \/ LoadFails(c) \/ SendBlock(c)
ClientStep(c) ==
    \/ SendRest(c) \/ RestFails(c)
    \/ ReadMore(c) \/ ReadResponse(c) \/ AwaitFails(c) \/ SendData(c)
    \/ SendDataFails(c) \/ SendDone(c) \/ ReceiveData(c) \/ ReceiveDone(c)
Type(c) ==
    \/ \E op \in {"simple", "close"}, to \in {"writing", "await"} : SendCommand(c, op, None, to)
    \/ \E op \in {"upload", "download"}, f \in File : SendCommand(c, op, f, "await")

\* A signal, or an Accept that fails: main returns and every handler ends
\* with the process, wherever it is.
ServerExits ==
    /\ handler' = [c \in Client |-> "gone"] /\ job' = [c \in Client |-> None]
    /\ left' = [c \in Client |-> <<>>] /\ up' = [c \in Client |-> <<>>]
    /\ UNCHANGED <<clientVars, down, files, history>>

Next ==
    \/ ServerExits
    \/ \E c \in Client :
          Connect(c) \/ Type(c) \/ Leave(c) \/ HandlerStep(c) \/ ClientStep(c)

Spec == Init /\ [][Next]_vars

\* Goroutines that can move do and deadlines pass, whoever is slow.  Nobody has
\* to connect, to type or to leave.
FairSpec ==
    /\ Spec
    /\ \A c \in Client : WF_vars(HandlerStep(c)) /\ WF_vars(ClientStep(c))

-----------------------------------------------------------------------------
(* What the file transfer guarantees.                                       *)

ClientPC == {"off", "idle", "writing", "await", "sending", "receiving", "gone"}
HandlerPC == {"none", "read", "reply", "ready", "receive", "load", "send", "gone"}

TypeOK ==
    /\ client \in [Client -> ClientPC] /\ handler \in [Client -> HandlerPC]
    /\ progress \in [Client -> 0..Blocks] /\ lost \in [Client -> Nat]
    /\ \A c \in Client :
          /\ count[c] \in 0..MaxCommands[c]
          /\ answer[c] \in [1..MaxCommands[c] -> -1..MaxCommands[c]]
          /\ Len(up[c]) <= Window /\ Len(down[c]) <= Window
          /\ Len(got[c]) <= Len(want[c])
          /\ handler[c] = "send" => left[c] # <<>>
          /\ client[c] \in {"writing", "await"} => cur[c].n = count[c]
    /\ clean \in [Client -> BOOLEAN]

\* A block of the n-th command of c.
IsOf(item, c, n) == item.kind = "block" /\ item.by = c /\ item.of = n

\* What a file holds of one upload is a piece of it, in order, each block once:
\* nothing is lost in the middle, repeated or overtaken, whoever else appends
\* to the same file and whatever fails on the way (lines 239-262).  The front
\* can be missing only if the client took the READY of an earlier upload for
\* its own and sent too soon.
UploadInOrder ==
    \A f \in File, c \in Client : \A n \in 1..MaxCommands[c], i, j \in DOMAIN files[f] :
        LET x == files[f][i]
            y == files[f][j]
        IN  IsOf(x, c, n) /\ IsOf(y, c, n) =>
                /\ i < j => /\ x.n < y.n
                            /\ \E k \in i + 1..j : files[f][k] = Block(c, n, x.n + 1)
                /\ answer[c][n] = n =>
                       \E k \in 1..i : files[f][k] = Block(c, n, 1)

\* The file f has the block b.
InFile(f, b) == \E k \in DOMAIN files[f] : files[f][k] = b

\* An upload the server reports as successful is complete, if the client has
\* finished sending it: the end of the stream is not seen before the data.
SuccessIsComplete ==
    \A j \in success :
        answer[j.by][j.n] = j.n /\ (count[j.by] > j.n \/ progress[j.by] = Blocks)
        => \A i \in 1..Blocks : InFile(j.file, Block(j.by, j.n, i))

\* Replies may come late, because a transfer leaves a summary behind that
\* nobody waits for, and a line that is longer than the server's buffer is
\* answered more than once; but never early and never out of the order of their
\* commands, and a session of short lines without transfers is exact.
RepliesInOrder ==
    \A c \in Client : \A k \in 1..MaxCommands[c] :
        /\ answer[c][k] <= k
        /\ clean[c] => answer[c][k] \in {0, k}
        /\ \A m \in 1..k : answer[c][m] > 0 /\ answer[c][k] > 0
                               => answer[c][m] <= answer[c][k]

\* A downloaded file is the announced content without a piece at its front,
\* what came in one read with FILE_INFO; up to its end nothing is missing,
\* doubled or foreign.
OnlyFrontMissing ==
    \A c \in Client : \A i \in DOMAIN got[c] :
        lost[c] + i <= Len(want[c]) => got[c][i] = want[c][lost[c] + i]

\* A command comes back, with a reply or an error.  The exception: neither side
\* sets a write deadline, so when the client sends a file or a long line and the
\* server's own writes are not read, both can be blocked for ever.
CommandsReturn ==
    \A c \in Client :
        client[c] \in {"writing", "await", "sending", "receiving"}
            ~> \/ client[c] \in {"idle", "gone"}
               \/ Len(up[c]) = Window /\ Len(down[c]) = Window

=============================================================================
