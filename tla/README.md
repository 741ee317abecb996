# A verification project for NSSaDS

NSSaDS is a set of four network programs in Go, one per directory: a TCP file
server (`lab1`), its UDP successor (`lab2`), a TCP server built on `select`
(`lab3`) and a UDP multiservice server with a dynamic thread pool (`lab4`).
The four share no code at run time. This project models them in TLA+, checks
the models with TLC and proves the most important results with TLAPS.

All four are modelled. `lab4` is where most of the repository's own concurrency is:
lock-free counters, channels, a WaitGroup shared by two kinds of goroutines, and a
client whose timeouts race with late answers. `lab1` is a protocol without framing,
`lab2` a reliability layer over UDP, `lab3` one loop that serves everybody. Every
safety invariant that a run checks is also proved, for all values of the constants.

    tlc -workers 2 -config MCThreadPool.cfg MCThreadPool
    tlapm ThreadPool_proofs.tla

## 1. Inventory

### lab4: UDP multiservice server

| Part | State | Operations |
|---|---|---|
| thread pool, `thread_pool.go` | channels `taskQueue` and `workerQueue`, four atomic counters, a WaitGroup, a context | `Start`, `Submit` (with `checkAndExpand`, `addWorker`), `Stop`, `Stats`; goroutines: workers, `manager` |
| registry, `service_registry.go` | maps `services` and `ports`, an RWMutex | `RegisterService`, `GetService`, `ListServices`, `GetServicePort`, `GetServiceByPort` |
| server, `udp_server.go` | listeners, one buffer each, `stats`, a WaitGroup, a context | `RegisterService`, `Start`, `Stop`; goroutines: one listener per service, the closures run by the pool |
| client, `udp_client.go` | connection, map of response channels, a context | `Connect`, `Disconnect`, `SendRequest`; goroutine `listenResponses` per `Connect` |
| services, `usecase/` | none | `Process`: arithmetic and texts |
| configuration, `pkg/config` | none | constants |

*Interactions.* `cmd/server` registers the services, calls `Start`, waits for a
signal and calls `Stop`. A listener reads a datagram, adds one to the server's
WaitGroup and submits a closure to the pool; a worker runs it, which parses the
request, processes it, answers and takes one off the WaitGroup. `Stop` cancels
the context, closes the sockets, stops the pool (which cancels, closes the queue
and waits for its workers) and waits for the WaitGroup. `cmd/client` runs one
command after the other; a *quick* command is `Connect`, `SendRequest` and
`Disconnect`.

*What is hard.* No lock protects the pool's counters, so every decision is made
on copies that may be old. `Submit` may meet the close of the channel. Workers
leave on a timer that competes with the queue. `optimize` changes a counter and
sends a token that nobody receives. The listener's buffer is shared with the
closures. The client's answers may be late, repeated, reordered or lost, while
its caller times out and closes the channel; its context is never renewed.

*What makes it correct.* No accepted task is lost or run twice; the counters are
exact, or their drift is known; the number of workers is bounded; `Stop` returns
and nothing runs after it; every request is answered or counted as refused; a
handler works on its own bytes; a caller gets its own answer or an error, always
comes back, and leaves nothing in the map.

### lab1: TCP file server and client

State: two byte streams per connection, their deadlines, the files of the upload
directory, transfer sessions (`file_manager.go`). Operations: on the server
`HandleConnection`, `handleUpload` with `receiveFile`, `handleDownload` with
`sendFile`, `SaveFile`, `ReadFile`; on the client `SendCommand` with
`readResponse`, `UploadFile`, `DownloadFile`. Each connection has a goroutine of its
own; the handlers share nothing but the files. Commands, replies and file data go
over the same streams without any framing, and a read may return any piece of
them. Hard: what a read takes with it, an upload that ends only with its
connection, the summary behind every transfer, a deadline in the middle, two
uploads to one name. Correct: what is stored or received of a file is in order and
has no hole, a success is a success, a reply belongs to its command, every command
returns.

The sessions are created, updated and expired every five minutes, but
`GetTransferSession` has no caller: nothing is resumed, although
`lab1/README.md:10` lists it as a feature. They have no effect and are left out.

### lab2: reliable UDP

State: packets that wait for an acknowledgement, keyed by sequence number, a sliding
window for each peer, upload sessions, counters (`packet.go`, `reliability.go`,
`udp_connection.go`, `udp_server.go`). Operations: `Serialize` and
`DeserializePacket`, `SendPacket`, `ReceivePacket`, the retransmission loop,
`SendReliablePacket`, `HandleAckPacket`, a goroutine for each packet received.
Hard: the layout of the packet, sequence arithmetic modulo 2^32, loss and
duplication, two peers in one table, the handlers of the packets of one upload,
`Stop` called twice. Correct: a packet is rejected or is what was sent, the window
holds what is outstanding and never more than its size, every packet sent is
accounted for, an orderly end of the process.

### lab3: select multiplexer

State: the map of clients, a descriptor and `LastPing` for each, `running`.
Operations: the loop (`processSelectLoop`), `handleNewConnection`,
`handleClientRead`, a goroutine for each command, `checkPingTimeouts`,
`RemoveConnection`, `Stop`. Hard: descriptors taken from closed files, a blocking
call in the only loop, answers written by goroutines to connections that the loop
removes. Correct: no client is passed over, each is answered its own lines, once,
and what is sent is read.

The hazards of all four programs, at their lines, are listed in `PROJECT.json`.

## 2. Modules

| Module | Models | Depends on |
|---|---|---|
| `TaskPool` | the interface `domain.ThreadPool`: what a caller may rely on | |
| `ThreadPool` | `thread_pool.go`, one step per atomic or channel operation | refines `TaskPool` |
| `ThreadPool_proofs` | theorems about `ThreadPool` | `ThreadPool`, TLAPS |
| `ServiceRegistry` | `service_registry.go` | |
| `ServiceRegistry_proofs` | theorem about `ServiceRegistry` | `ServiceRegistry`, TLAPS |
| `MultiServer` | `udp_server.go` and `cmd/server` | `ServiceRegistry`, `TaskPool` |
| `MultiServer_proofs` | theorems about `MultiServer` | `MultiServer`, TLAPS |
| `UDPClient` | `udp_client.go` and the commands of `cmd/client` | |
| `UDPClient_proofs` | theorems about `UDPClient` | `UDPClient`, TLAPS |
| `FileTransfer` | lab1: `tcp_server.go`, `tcp_client.go`, `cmd/client`, the files of `file_manager.go` | |
| `FileTransfer_proofs` | theorems about `FileTransfer` | `FileTransfer`, TLAPS |
| `SlidingWindow` | the window of lab2's `packet.go`, as operators on its fields | |
| `PacketCodec` | `Serialize`, `DeserializePacket` and the checksum of lab2's `packet.go` | |
| `Packet_proofs` | theorem about the codec, lemmas about the window | `PacketCodec`, `SlidingWindow`, TLAPS |
| `Reliability` | lab2: `reliability.go` and `udp_connection.go` | `SlidingWindow` |
| `UDPFileServer` | lab2: `udp_server.go`, `cmd/server`, and what a sender of files asks of the window | `Reliability`, `PacketCodec` |
| `UDPFileServer_proofs` | theorems about `UDPFileServer` | `UDPFileServer`, `Packet_proofs` |
| `SelectMux` | lab3: `select_multiplexer.go`, `unix_select.go`, `cmd/server`, the clients | |
| `SelectMux_proofs` | theorems about `SelectMux` | `SelectMux`, TLAPS |
| `MC*` | model values, symmetry | the module of that name |

Operators named as mutants in a comment ("Mutant of ...") are faulty variants of
the definition that follows them; no specification uses them. `PROJECT.json`
pairs each with a property that refutes it.

### TaskPool

A bounded first-in first-out queue. `Accept` needs room and a gate that is not
closed; `Refuse` needs a full queue or a pool that stops; a task begins in order
and once; `Stop` passes its last stage only when nothing is running. How many
workers there are is not part of it, so the server can be checked on top of it
without the pool's 30 actions.

### ThreadPool

`taskQueue` is the buffered channel; `workerQueue` is the number of tokens in the
channel nobody receives from. `worker[w]` is the program counter of a goroutine
in a slot: `select` is the select of line 100, `took` to `completed` are lines
106-110, `leave` is between the return and the deferred calls of lines 96-97.
`submitter[s]` runs through lines 66, 124, 125, 88, 92 and 93-95. `manager` and
`view` are lines 141-160. `stage` is the progress of `Start` and `Stop`. A send
on the closed queue sets `process` to "panicked", after which nothing moves.

The two deferred calls of a worker are one step: the first writes only
`currentWorkers`, the second only `wg`, and no goroutine reads both. `Start`'s
loop is one step because the callers of `Submit` are started after it returns.
The idle timer may fire whenever a worker is at its select, so any relation
between the timer and the queue is covered. `Task` is the set of closures that
are ever submitted, each once. `accepted` is a history variable: the tasks that were
sent on the queue. Without it a task that is dropped could not be told from one that
was never submitted.

### ServiceRegistry

Each operation holds the mutex all the way and is one step. `Name` and `Port` are
operators, so the proof covers every assignment of names and ports.

### MultiServer

The pool is the abstract one; what the server relies on is exactly what
`ThreadPool` is shown to keep (`KeepsPromise`). A listener's `read` is the
blocking `ReadFromUDP`, `submit` lines 163-167, `refused` lines 168-172. The
buffer of a listener holds the datagram of its last read. The handler has four
steps: count (line 178), parse (the closure reads the buffer *now*), count again,
answer and `wg.Done`. `RecordService` is line 65, after the listener is already
running and without the mutex; a map access of another goroutine at that moment
may stop the process, which is modelled as a choice. UDP may deliver the
datagrams in any order or not at all. `GiveUp` is the timeout of `cmd/server`, which
waits 30 seconds for `Stop` and then ends the process under whatever still runs.
`log` and `early` are history variables.

The abstract pool has an `End` that removes the task from `running`; the handler
of the server performs it with its last step.

### UDPClient

The ids are model values (`uuid.New`); `Blank` are the requests to the stats
service, whose answers carry the id "". `responses` is the key set of the map,
`chan` the state of each channel. A listener holds the read lock of the mutex
between `Lookup` and `Send`; writers wait for it, and no reader enters while a
writer waits, as Go's RWMutex does. A write may fail on an open socket, too. The history
variables `about`, `content` and `returned` record for which request the server made
the answer that a listener has read, that lies in a channel, and that a call has
returned; the code looks only at `answer`, the id in the datagram. Answers are never removed from `sent`, so
the network may deliver each of them any number of times, late or never.

### FileTransfer

A stream is a sequence of items, a line or a block of a file; a write appends one
and waits for room (`Window`), a read takes any number from the front. `handler[c]`
is the program counter of `HandleConnection` and what it calls: `read` is line 104,
`reply` line 150, `ready` the write of `READY_TO_RECEIVE`, `receive` the loop of
`receiveFile`, `load` and `send` those of `sendFile`. `client[c]` is that of
`cmd/client`: `idle` at its prompt, `await` in `readResponse`, `sending` and
`receiving` in the loops of the transfers. `files[f]` is the content of a name as
the items appended to it: `SaveFile` opens with `O_APPEND`, so its offset plays no
part. Every item carries the command and the client it comes from, which is what
the properties compare and what the actions do not look at.

The server's buffer is 8192 bytes and the prompt takes lines up to 64 K, so a command
line may be longer than one read. Such a line is its head, a command item, and pieces
that `SendRest` writes behind it. The server takes any items in one read, and what a read
begins with is a command to it: a piece on its own is answered once more (with "unknown
command"), and the replies of the session are then late. A piece of spaces, like one of
a file, is not answered (`ReadBlank`).

The handler drops what one read brings behind a command line, as the code makes
arguments of it. `readResponse` stops at the first read with a line break and hands
everything it has read to its caller; `lost` is the number of items `receiveFile`
will therefore miss. `receiveFile` of the server ends with the connection, so the
handler answers with success when the client has gone. `Leave` is an exit, an
interrupt or a crash of the client at any moment; `ServerExits` ends the server's
process with all its handlers; deadlines may pass at any moment. A write towards an
end that has just closed may fail or seem to succeed.

Abstractions: a block of a file and a piece of a line hold no line break and do not begin
with the name of a command, and a read cuts neither a block nor a piece. A line with a
file name is short, and a long line has at most `Blocks` pieces behind its head. A line cut between its
carriage return and its line feed would escape `readResponse` for a while; it takes
a segment boundary inside one small write.

### SlidingWindow and PacketCodec

A window is a record of the fields of the code; the two maps are the sets of their
keys. `AckPacket` marks a number and moves `BaseSeq` over the numbers marked so far;
`Run` says how far that goes, once around at most because the marks are taken away
on the way. `Modulus` is 2^32 in the code. `Exact` is what a window promises to a
caller that numbers its packets one after the other (`FitsAdd`) and acknowledges
nothing it would send next (`FitsAck`). `AckPacket` checks neither.

The codec keeps apart what the code treats differently. `Serialize` puts the
checksum at bytes 21 and 22, where the low byte of the length and the first byte of
the data are, and `DeserializePacket` adds those two bytes up with the rest instead
of zeroing them. So a packet becomes `rest` (the sum of all other words), the two
bytes of the length, and the first byte of data. The length of the data and the
checksum are computed as in the code, on bytes of `Base` values, 256 in the code.
The result is that the receiver rejects nearly every packet; what it accepts is what
was sent, but for one corner: when the low byte of the length and the first byte of
the data have all bits on and the checksum is 0, it takes a packet that is
`Base - 1` bytes shorter and begins with 0.

### Reliability and UDPFileServer

`pending` is the map of `reliability.go`: one packet for each number, whatever its
peer. `checkRetransmissions` finds the overdue ones; `getRetransmitCount` is always 0,
so none is given up, and the write goes to a nil address (line 123), which fails, so
none is sent again. `windows` are the connection manager's, one for each peer.

A behaviour of `UDPFileServer` has one of three roles. A *server* has a handler for
each packet that `ReceivePacket` accepted, with the program counter in `at`:
`enter` and `write` are the two halves of `SendPacket`, `lookup` and `insert` the two
locks of `handleDataPacket`, `save` and `delete` what follows. `SaveFile` is called with a
file name that nobody sets; it opens the upload directory for writing and fails, so no
DATA packet is ever acknowledged. `MainStep` is `cmd/server` after the signal;
`StartStops` is the second `Stop`, which closes `stopChan` again and panics. An
acknowledgement names the number after the one it confirms (`AckNum` is the received
number and the answer's own number is one more), and `Release` goes by the number
alone.

A *sender* is a caller of the package that sends blocks as `sendFile` of
`udp_client.go` does, from number 0 for each file, with `testBufferSizes` between
blocks, and with the two calls that no program of lab2 makes, `HandleAckPacket` and
`CleanupExpiredClients`. It is a use of the package and not `cmd/client`, because
`Connect` calls `net.DialUDP("udp", nil, nil)` (`udp_client.go:38`), which always
fails: lab2's client ends before its first command. The third role, *codec*, passes one
packet through the codec.

`written`, `replaced`, `released` and `misused` are history variables. `misused` is the
set of peers whose window has been given a packet or an acknowledgement that does not
fit; it is emptied for a peer when its window is forgotten.

### SelectMux

`loop` is the program counter of `Start`: `top` its head, `accept` and `insert`
`handleNewConnection`, `copy`, `serve` and `read` the way through `processReadyFDs`
and `handleClientRead`, `stop` and `close` the call of `Stop` when the context is
done. The descriptor sets are modelled as `unix_select.go` computes them. `Start`
and `handleNewConnection` close a file before they ask for its descriptor and get
-1; that sets one bit of the first word, `maxFD + 1` is 0, so `select` watches
nothing, leaves all words as they were when its timeout is over, and the loop takes
the listener and every client for ready. It then blocks in `Accept` and in `Read`. Since `select` never
reports zero, `checkPingTimeouts` is never reached, nor are `handleClientWrite` and
`handleFileTransfer`; theorem `SelectNeverIdle` shows this for any set of clients.
(`syscall.Select` with one result is that of Darwin; with a limit of 0 the kernel
copies no word back. A `select` that a signal interrupts changes nothing and is a
stuttering step; the timeout is the default of 10 ms or another one below a second.)

`Accept` may fail on an open listener, too (`AcceptError`); the pass goes on as when it is
closed. A read takes some of the lines that have arrived, and `parseCommand` makes one
command of them, or none of a blank one. Each command has a goroutine (`jobs`) that looks the client up and writes after
the unlock. CLOSE, EXIT and QUIT are answered and close nothing. `running` is read
without a lock, so the loop may see `Stop`'s write late: at `top` it may pass, leave or
stop as the values then allow, and steps of main may come between any two of its own.
`heads` and `owed` are history variables. A client of which nothing is left may connect
again under its name (`Forget`), so connections never cease to arrive in the runs; nothing of
a former connection is left to be confused, as its goroutines must have ended. A line longer
than the buffer of a read is two lines here.

## 3. Runs

| Run | Instance | Size | Shows |
|---|---|---|---|
| `pool_safety` | 2 submitters, 3 tasks, 4 slots, min 1, max 2, queue 2 | 360 000 states, under 1 min | counters, bounds, no accepted task lost or doubled, refinement of `TaskPool` |
| `pool_live` | 1 submitter, 2 tasks, 3 slots, queue 1 | 137 000 states, 72 s | accepted tasks get done, `Stop` returns, counters settle, the manager ends |
| `pool_bounds` | as `pool_safety` | violation | finding 1 |
| `server` | 3 services (one without an object), 2 datagrams, queue 1 | 149 000 states, 1 min | registry, WaitGroup, statistics, quiet after `Stop`, no bytes older than the handler's own, a datagram read is dealt with once a worker has it, `Stop` returns |
| `server_echo` | as `server`, 3 datagrams | violation | finding 2 |
| `client` | 2 callers, 2 connections, 2 requests, one of them to stats | 391 000 states, 3 min 30 s | no send on a closed channel, exact map, answers made for the call that returns them, calls return, listeners end |
| `client_quick` | 1 user, 2 requests, 2 connections | violation | finding 3 |
| `files` | 2 clients (2 commands and 1), 1 file, 2 blocks, window 2 | 2.8 million states, 165 s | stored and received files in order, replies in the order of the commands |
| `files_live` | 1 client, 3 commands, 2 files, window 2 | 252 000 states, 1 min | every command returns |
| `udp_server` | 2 peers, 3 arrivals, numbers modulo 4, window 2, 5 packets sent, bytes of 4 values | 2.6 million states, 1 min | packets accounted for, windows exact, the codec safe |
| `mux` | 3 clients (2, 1 and no lines), 2 places, any number of connections of each | 980 000 states, 2 min 45 s | no client passed over, answers to their own lines, lines read |
| `mux_session` | 2 clients (2 and 1 lines), 2 places | violation | finding 4 |

*Why the bounds suffice.* Two submitters are the smallest number that can pass
the test against `maxWorkers` together. A `Submit` adds at most one worker, so
`MinWorkers + |Task|` slots always leave one free for `Spawn`, and the proof of
`WorkersBounded` gives a bound for all runs. Three tasks fill a queue of two and
leave one to be refused; with `ExpandAbove = 0` a single task may trigger an
expansion. `MaxWorkers = 2` lets `optimize` shrink a pool of one idle worker above
the minimum, and with phantom decrements do so more than once. With two datagrams
to one listener the buffer can be overwritten, and the second finds the queue of one full
or waits in it while `Stop` comes. Two connections are enough for a listener
to read from a later connection, two callers for one to hold up the other. In `files` two commands on one connection are enough
for the second to end up in the file of the first, or to read its summary, and the
second client appends to the file that the first uploads or downloads. Two blocks
and a window of two let a read merge a line with data, or data with the next
command. `files_live` has a third command: with two the streams never fill up on
both sides while the client sends, and with three they do, so that the exception in
`CommandsReturn` is needed. In `udp_server` three handlers, of which two may have the
same peer and number, are enough to replace an entry of the table, to look a session
up twice before it is inserted, and to release what another peer is owed. Numbers
modulo 4 wrap within five packets, a window of two is full and is passed by an
acknowledgement out of order, and two of the four numbers are always outside it. Bytes of four values contain every case of the
carry and the corner; the theorem covers the real size. In `mux` the third client is
the one there is no room for, or the arrival that gives the others their next turn;
two lines of one client can come in one read or in two. A client that
comes and goes for ever gives the others any number of turns: the exception of
`CommandsRead`, a loop that waits for ever, is then left unused in infinitely many
behaviours, and dropping a client from a pass is found. Safety and liveness of the
server, of its client and of lab3's loop are checked on one instance each, small enough for
the liveness; the safety of larger ones is what the theorems are for.

*Deadlock* is not checked, since each system may really stop: after `Stop`, after
a panic, and when the tasks, datagrams or request ids of the instance are used up.
That nothing waits in vain before that is what the liveness properties say.

*Symmetry* is used in the two runs that check invariants of the pool and its
refinement; no run with a liveness property uses it.

### Fairness

Weak fairness for each goroutine: the Go scheduler runs whatever can run. In
detail:

* *Workers* have it for all their steps together, so a worker whose select is
  ready cannot sleep for ever, but which case it takes stays open: the task, the
  context or the timer. Task functions return, since the services only compute
  and send. `NoStrandedTask` allows for the pool that has no worker left, which
  finding 1 makes possible.
* *Manager*: the ticker owes no tick, so nothing in the liveness properties rests on
  `optimize`; a pass that has begun goes on. Strong fairness for its exit. Between two ticks `ctx.Done()` is the
  only ready case of its select, and Go picks a ready case at random, so it cannot
  take the ticks for ever.
* *Client callers*: strong fairness. A writer waiting on Go's RWMutex keeps new
  readers out, and gets the lock as soon as those inside have left. Timers fire.
* *Server*: the listeners, `Start`, `Stop` and every handler that a worker has begun. That a
  queued task begins is *not* assumed, open pool or not: finding 1 leaves an open pool
  without workers, and after `Stop` the workers may leave the rest of the queue behind. So
  `ReadIsAnswered` excepts a datagram that stays in the queue for good; `NoStrandedTask` says
  of the pool itself when that may happen. The 30 seconds of `GiveUp` need not pass.
* *lab1*: weak fairness for each handler and each client, which both have a
  goroutine of their own, deadlines on every read and none on a write. So reads end
  and a write waits as long as the other end does not read. No client has to type or
  to leave, and the server need not end.
* *lab3*: weak fairness for the loop, for the goroutines together and for main once
  it is stopping. A blocked `Accept` or `Read` is not enabled; `CommandsRead` excepts a
  loop that waits for ever. Nobody has to connect, and no `Accept` has to fail.
* Nobody has to submit, to call `Stop` or to type a command, and the network has
  to deliver nothing.

### What the runs found

1. **`pool_bounds`.** Each idle worker compares `currentWorkers` with `minWorkers`
   (line 115) before it has taken itself off. Two workers that both read 2 both
   leave. With `minWorkers = 1` none is left and a queued task waits until the next
   `Submit` happens to expand the pool. Also `optimize` (line 158) takes one off
   the counter for which no worker leaves; the real number of workers is then above
   what the counter says, and may pass `maxWorkers`. `lab4/README.md:67` promises
   "Configurable bounds: Min/max worker limits".
2. **`server_echo`.** The closure of `udp_server.go:165` keeps a slice of the
   listener's only buffer. A datagram read before the worker has parsed the first
   one replaces its bytes, so that the first sender gets an answer to the second
   request, or to a mixture. `lab4/README.md:47`: "Echoes back received text".
   `SeenNotOlder` shows the limit of the damage: never bytes of an older request.
3. **`client_quick`.** `Disconnect` cancels the client's only context. From the
   second quick command on, the select of `SendRequest` has `ctx.Done()` ready and
   may fail with "client shutdown", and the new listener exits at once, so that no
   answer is ever read. `lab4/README.md:184-232` shows a session of such commands,
   each with its response.
4. **`mux_session`.** Every pass of lab3's loop blocks in `Accept` (line 172), so the second
   command of a session is not read until somebody else connects, and a silent client
   holds up all the others. `lab3/README.md:87`: "Чтение данных от клиентов не блокирует
   других" (reading does not block the others); lines 175-193 show a session of four
   commands, each answered.

`StopReturns` and `ReadIsAnswered` name more ways things can end: `Submit` on
the queue that `Stop` has just closed panics; tasks that the workers leave in
the queue keep the server's WaitGroup above zero, so that its `Stop` hangs; and
`cmd/server` ends the process when 30 seconds have not been enough. No
text of the repository promises otherwise; they are in the properties as the
cases that are excepted.

Three more statements of the documentation are wrong. Each is decided by a statement or two
of the code, read on their own, and by no order of events, so they have no run:

* `lab2/README.md:10` lists "Packet Loss Handling: Automatic retransmission with configurable
  timeouts" (also lines 8 and 227, and `cmd/server/main.go:64`). `reliability.go:123` writes the
  retransmission to a nil address, which fails, and `getRetransmitCount` (line 133) is always 0:
  what is overdue is neither sent again nor given up. The properties do not take this for
  right: `PendingAccounted` holds of a loop that does send again and give up, too.
* `lab4/README.md:206-216` shows `client> stats all` with its `Response: {`.
  `stats_service.go:73`, and every other command of that service but an unknown one, answers
  with the id "". No call waits under that id, so the listener drops the answer and the call
  times out. `AnswerIsMine` does not forbid that a request to stats gets its answer.
* lab2's client cannot connect (`udp_client.go:38`), and its server accepts almost no packet,
  as the codec shows, and acknowledges no data.

### Properties worth a second look

* `CurrentExact`: `currentWorkers` is the live workers, plus those between lines 92
  and 93, minus *all* the decrements of `optimize` ever made. The counter never
  recovers from one.
* `QueuedExact`: `queuedTasks` may be negative, by at most the submitters between
  the send and the increment.
* `CurrentBounded`: with every race, the counter exceeds `maxWorkers` by fewer than
  the number of submitters.
* `ManagerEnds`: after `maxWorkers` tokens the manager blocks for good on line 159.
* `TaskOnce`: the accepted tasks are *exactly* those queued, in a hand before line 108, or
  finished. A task that vanishes is missed in `accepted`, one that is run twice is in two
  places.
* `ReadIsAnswered`: nothing on the way of a datagram into the queue, and nothing behind the
  worker that takes it, loses it or holds it up. Whether a worker takes it is the pool's part.
* `AnswerIsMine`: about whose answer it is and not what id it carries: `content` and `returned`
  come from the request the server answered.
* `MapExact` and `NoSendOnClosed`: the entry leaves the map under the lock before
  the channel is closed, and the listener sends under the same lock.

* `UploadInOrder`: whatever is appended in between and whatever breaks off, the
  blocks of one upload stay in order and none is missing in the middle. Its front
  may be missing when the client took the `READY_TO_RECEIVE` of an earlier upload
  for the reply to this one; the history variable `answer` tells when.
* `RepliesInOrder`: a client never gets a reply before the command it belongs to,
  nor two replies in the wrong order, but after the first transfer, timeout or line
  longer than the server's buffer each may be late by any number. Without these three
  the replies are exact.
* `OnlyFrontMissing`: a downloaded file can lack its front, which came in one read
  with the `FILE_INFO` line, and is then filled up with what follows on the stream.
  Up to its end the bytes are right.
* `CommandsReturn` excepts two ends blocked in writes to each other: the handler
  answers file data as commands once the deadline has cut the upload, the client
  does not read while it sends, and neither sets a write deadline.

* `PendingAccounted`: sent packets are those still pending, plus those that another one
  of the same number pushed out, plus those released, possibly by another peer, plus those
  given up; and every datagram is a send or a counted retransmission. The middle two terms
  are silent losses of the table's purpose, and nothing else is lost. It says nothing of
  whether anything *is* sent again.
* `WindowExact`: under the caller's obligations, whatever the order and repetition of
  the acknowledgements, and across the wrap. A packet acknowledged before it is sent
  is what breaks it: `BaseSeq` passes `NextSeq`, the unsigned difference is huge,
  and `CanSend` stays false.
* `NobodyPassedOver`: `processReadyFDs` removes a client whose read fails in the middle of its
  loop; the others still have their turn. How long a turn takes is `LinesRead` and finding 4.
* `AnswersExact`: a goroutine that looks a client up and writes after the loop or
  `Stop` has closed the connection writes to a closed connection, never to another
  client.

`FileTransfer` also shows what is certain to go wrong in the session of
`lab1/README.md:150-161`, a download behind an upload on one connection:
`receiveFile` (line 244) appends the command to the stored file, and nothing answers
until a deadline passes.

## 4. Proofs

Assumptions: those that the modules state about their constants, and nothing else.
For the pool that is `PoolAssumption` (finite sets of submitters and slots,
`MinWorkers <= MaxWorkers`, positive capacity, `NoTask` is not a task). All the
constants are otherwise arbitrary, so each theorem holds for any number of
submitters, workers and tasks. Likewise for lab2 any number of peers, arrivals and packets, any
modulus, any window size below it and any number of values of a byte from 2 on; for
lab3 any finite set of clients, any `MaxClients` and any number of lines; for lab1 any
set of clients and files (`None` is not a client), any number of commands and blocks and
any window; for lab4's server any finite sets of services and datagrams, for its client any
sets of callers, requests and connections.

`ThreadPool_proofs` proves, for `Spec`:

| Theorem | Property |
|---|---|
| `TypeCorrect` | `TypeOK` |
| `WaitGroupCounts` | `WaitGroupExact` |
| `CurrentCounts` | `CurrentExact` |
| `CurrentIsBounded` | `CurrentBounded` |
| `WorkersAreBounded` | `WorkersBounded`: at most `2 * MaxWorkers + \|Submitter\|` workers |
| `QueuedCounts` | `QueuedExact` |
| `StatsCount` | `StatsExact` |
| `TasksRunOnce` | `TaskOnce` |
| `PoolKeepsPromise` | `KeepsPromise`: `ThreadPool` implements `TaskPool` |

`ServiceRegistry_proofs` proves `RegistryIsConsistent`: the two maps are inverse
to each other.

*Argument.* The inductive invariant `TypeInv` adds two facts to `TypeOK`.
`HandMatches`: a worker holds a task exactly while its program counter is between
the receive and line 110. Without it `Uncount` might clear an empty hand and
`QueuedExact` would not be preserved. `NewInv`: before `Start` nothing is counted
and no worker lives, so `Start` may set the counters. The counting theorems rest
on the lemma `Flip` (a set comprehension changes its cardinality by one when one
element changes sides) and on `SpawnCounts`, `LeaveCounts` and `SubmitterMoves`,
which apply it to the actions. `CurrentIsBounded` counts the submitters that are
past the test against `maxWorkers` with those that may still pass it.
`WorkersAreBounded` combines it with `CurrentExact` and the capacity of
`workerQueue`. `TasksRunOnce` follows each task through the queue (lemmas
`AppendFacts` and `TailFacts`), where `Submit` adds to `accepted` and to the queue at once. The refinement maps a worker at `took` or `run` to
a running task; `Invisible` shows that the bookkeeping steps leave the mapped
state as it is, and `TaskOnce` is what makes `RunTask` an `End` of that task alone.

`StatsCount` needs `TaskOnce`: the worker that finishes a task adds it to `finished`, and
`completedTasks` stays exact only if it was not there before.

`Packet_proofs` proves `AcceptedIsSent`: `SafePacket` of every packet. The
checksum of what was sent and that of what arrives are folded sums; both agree only
if the two sums are congruent modulo `WordSize - 1`, and as the overwritten bytes can
change the sum by less than `WordSize`, it has either not changed at all or changed by
exactly `WordSize - 1` (the corner, and its mirror image, which cannot be).

The same module has the lemmas about the window. `DistanceAfterStep` is the
arithmetic of the wrap. `RunFacts` shows that the loop of `AckPacket` ends: the
distances up to which everything is marked are an initial segment of the numbers,
and its size is where the loop stops. `AddKeepsSound` and `AckKeepsSound` keep the
invariant `Sound`, which says of `NextSeq - BaseSeq` what `Exact` says of the buffer; the
size of the buffer follows by an injection (`IntervalSize`).

`UDPFileServer_proofs`:

| Theorem | Property |
|---|---|
| `TypeCorrect` | `TypeOK` |
| `PendingIsAccounted` | `PendingAccounted` |
| `WindowIsExact` | `WindowExact` |
| `CodecIsSafe` | `RoundTrip` |
| `PanicsAtExitOnly` | the second `Stop` panics only when the first one has returned and main is past its last deferred call |

`PendingAccounted` needs `Budget`: the datagrams written and the handlers between the
two halves of `SendPacket` are together no more than the packets sent. `WindowIsExact`
is the induction over `WindowInv`, the soundness of every window not in `misused`.
`PanicsAtExitOnly` needs that the context is cancelled by main's deferred call alone.

`SelectMux_proofs`:

| Theorem | Property |
|---|---|
| `SelectNeverIdle` | what `select` leaves is the listener and every client, for any set of clients |
| `TypeCorrect` | `TypeOK` |
| `NobodyIsPassedOver` | `NobodyPassedOver` |
| `AnswersAreExact` | `AnswersExact` |

`LoopInv` ties the loop's variables together: those to be served and the one being
read are clients, and the connection just accepted is not yet one. `ConnInv` says who
is open, pending and in the backlog, so that a connection joins once and with an empty history.
`JobInv` says that each goroutine works on a line of its own, which came first in a read.

`UDPClient_proofs`:

| Theorem | Property |
|---|---|
| `TypeCorrect` | `TypeOK` |
| `NeverSendsOnClosed` | `NoSendOnClosed` |
| `MapIsExact` | `MapExact` |
| `AnswersAreMine` | `AnswerIsMine` |

`OwnerInv` says that a caller has a request exactly while it is in `SendRequest`, and that
no two have the same one; so the request is the owner of its map entry and its channel.
`MapInv` is `MapExact` request by request, `ChanInv` gives the state of a channel
wherever its caller is: it is closed only behind the `delete`. `SendInv` is the heart of
`NoSendOnClosed`: between its lookup and its send a listener holds the read lock, so
`Delete` cannot come between, and the entry it found is still in the map. `AnswerInv`
says of an answer in flight that it names a request which was written; with `MapInv` it can
then reach the channel of that request alone. `about` is tied to `answer` when it is read, so
what reaches a channel was made for its owner, and so is what the call returns.

`MultiServer_proofs`:

| Theorem | Property |
|---|---|
| `TypeCorrect` | `TypeOK` |
| `RegistryStaysConsistent` | `RegistryConsistent` |
| `WaitGroupCounts` | `WaitGroupExact` |
| `StopEndsAll` | `StopIsFinal` |
| `HandlersSeeNoOlder` | `SeenNotOlder` |
| `StatsAddUp` | `StatsExact` |

`TodoInv` is about the loop of `Start`, `PoolInv` about the pool's tasks, each of which is
queued once and not while it runs, and `ReadInv` says that whatever is in hand, queued or
handled has been read. With them the WaitGroup counts listeners, datagrams in hand and
tasks, by the same lemma `Flip` as for the pool. `NothingLost` (a datagram read is in a
listener's hand, with the pool, finished or refused) and `StoppedInv` (the counter stays
at zero behind `Stop`, since nobody is left who could add) give `StopEndsAll`. `LogInv`
ties the buffer of a listener to the end of its log, in which each datagram read stands, so
that bytes read later are not older. `CountInv` bounds the counters between the handlers
past their line with and without those of `early`, the datagrams read before Start made
the entry; `ErrorInv` is exact because a refusal without an entry ends the process.

`FileTransfer_proofs`:

| Theorem | Property |
|---|---|
| `TypeCorrect` | `TypeOK` |
| `OnlyTheFrontIsMissing` | `OnlyFrontMissing` |
| `RepliesKeepOrder` | `RepliesInOrder` |
| `UploadsKeepOrder` | `UploadInOrder` |
| `SuccessMeansComplete` | `SuccessIsComplete` |

The clients, files, commands and blocks are any number, the streams hold any number of
items, and reads cut them anywhere. Besides the types (`TypeInv`) and what each program
counter says about the locals (`LocalInv`) the invariant has five strands.

* *Download.* `Stream`: from a `FILE_INFO` line on, wherever it is (on the stream or taken
  by the client), the stream and what `sendFile` has left are the announced content
  (`Carries`), until the handler ends. So each item written by `receiveFile` is the one at
  its place behind those that are `lost`.
* *Order.* `Before` orders what a client writes: a command, then its blocks. `Order` says
  that the stream is sorted, behind the job of the handler, and that everything on it has
  been written (`Written`); `Filed` says the same of the client's blocks in any
  file. Others append to the same file, but only items of their own (`ForeignStep`).
* *Replies.* `Handled(c, v)`: the handler has read command `v`, and nothing behind `v` was
  read before it. Each line on the way back and each answer taken names a handled command, and
  they are sorted (`Reply`). `Clean` is the stronger statement about a session of short
  lines without transfers: at most one item is on its way, a command or its reply.
* *No hole.* `UpGap`, `FileGap` and `Whole` say that if a block and a later one of the same
  upload are in the stream, on the way from it into the file, or in the file, the next
  block is there, too. `UpGap` stands alone; a read moves blocks out of the stream into the
  file, so `FileGap` needs it, and `Whole` needs both. `FileGap` speaks of uploads from the handler's job on, as
  the blocks of earlier ones may have been taken for commands.
* *Completeness.* `Uploading`: while the handler receives an upload whose `READY` its client took
  (`Own`), everything the client has written of it is coming or in the file. It holds since
  the client sends only behind that `READY`, when the handler already receives. When the
  stream is empty behind the client, all is in the file; `DoneInv` then freezes the client.

`UploadInOrder` follows: two blocks in a file are in order by `Filed`, and if the second is not the
next one, `Whole` has the next one, which by `Filed` lies between them.

*Model-checked only.* Liveness and fairness (`NoStrandedTask`, `StopReturns`,
`StatsSettle`, `ManagerEnds`, `ReadIsAnswered`, `CallsReturn`, `ListenersEnd`,
`CommandsReturn`, `CommandsRead`), which the provers do not treat, and the four violations,
which are counterexamples.

## 5. Not modelled

Formatting, logging and the arithmetic of the services; `AvgResponseTime`,
`LastActivity` and the other values of the statistics that are times; `config`;
socket options. The bytes of a datagram are a model value, with one more for a
mixture of two. The errors of `Start` for a port that cannot be opened are the
same as a service that is skipped. In lab1: the texts of ECHO and TIME, keep-alive,
`DeleteFile`, which has no caller, the sessions, and the end of a line or a block
between two reads. In lab2: the commands of `cmd/client`, which are never reached since
it cannot connect, `performance.go`, a tool that measures, what of `file_manager.go` and
of the reliability manager has no caller (`SimulatePacketLoss`, the setters), the
contents of the sessions, and the texts of the answers. In lab3: `checkPingTimeouts`,
`handleClientWrite` and `handleFileTransfer`, which the loop cannot reach, and the
texts of the answers.

## 6. Plan

Done: `TaskPool`, `ThreadPool` and its proofs, `ServiceRegistry` and its proof,
`MultiServer`, `UDPClient`, because the pool decides about every request; then
`FileTransfer` for lab1; then `SlidingWindow`, `PacketCodec`, `Reliability` and
`UDPFileServer` for lab2 and `SelectMux` for lab3, with their proofs; then the proofs of
`UDPClient`, `MultiServer`, the pool's statistics and `FileTransfer`, so that no safety
invariant of a run is without its theorem.

Next, in this order:

1. Action properties of the same modules from the invariants proved: what a step of one
   goroutine leaves to the others (the counters of the pool, the log of a listener, the
   files, which only grow).
2. The safety part of the exceptions in the liveness properties: that a server which
   cannot move is in one of the named cases.
3. The hazards without a property.
