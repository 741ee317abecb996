--------------------------- MODULE FileTransfer_proofs ---------------------------
(***************************************************************************)
(* Proofs about lab1's file transfer: the types, the order of the replies,  *)
(* what a download and an upload deliver, for any number of clients, files, *)
(* blocks and commands, and streams of any length.                          *)
(***************************************************************************)
EXTENDS FileTransfer, TLAPS

Ops == {"simple", "close", "upload", "download"}
Positive == Nat \ {0}

\* What goes up, what a file can hold, and what goes down.
CommandItem ==
    [kind : {"command"}, op : {"simple", "close"}, file : {None}, by : Client, n : Positive]
    \union [kind : {"command"}, op : {"upload", "download"}, file : File, by : Client,
            n : Positive]
UpBlock == [kind : {"block"}, by : Client, of : Positive, n : 1..Blocks]
StoredBlock == [kind : {"block"}, by : {None}, of : File, n : 1..Blocks]
UpPiece == [kind : {"piece"}, by : Client, of : Positive]
UpItem == CommandItem \union UpBlock \union UpPiece
FileItem == UpItem \union StoredBlock
LineItem == [kind : {"reply", "ready"}, to : Positive, content : {<<>>}]
HeaderItem == [kind : {"header"}, to : Positive, content : Seq(FileItem)]
DownItem == LineItem \union HeaderItem \union FileItem
IsLine(item) == item.kind \in {"reply", "ready", "header"}

Working == {"reply", "ready", "receive", "load", "send"}
Busy(c) == handler[c] \in Working

\* A line is written on, or its answer awaited; only some lines can be long.
Onward == {"writing", "await"}
Plain == {"simple", "close"}
Sized(op, to) == to = "await" \/ op \in Plain

TypeInv ==
    /\ client \in [Client -> ClientPC] /\ handler \in [Client -> HandlerPC]
    /\ count \in [Client -> Nat] /\ cur \in [Client -> CommandItem \union {None}]
    /\ response \in [Client -> FileItem \union {None}]
    /\ progress \in [Client -> 0..Blocks] /\ lost \in [Client -> Nat]
    /\ want \in [Client -> Seq(FileItem)] /\ got \in [Client -> Seq(DownItem)]
    /\ left \in [Client -> Seq(FileItem)] /\ job \in [Client -> UpItem \union {None}]
    /\ up \in [Client -> Seq(UpItem)] /\ down \in [Client -> Seq(DownItem)]
    /\ files \in [File -> Seq(FileItem)] /\ success \subseteq CommandItem
    /\ clean \in [Client -> BOOLEAN] /\ answer = [c \in Client |-> answer[c]]

Local(c) ==
    /\ count[c] <= MaxCommands[c] /\ Len(got[c]) <= Len(want[c])
    /\ Len(up[c]) <= Window /\ Len(down[c]) <= Window
    /\ answer[c] \in [1..MaxCommands[c] -> -1..MaxCommands[c]]
    /\ client[c] \in {"writing", "await", "sending", "receiving"} =>
           cur[c] \in CommandItem /\ cur[c].by = c /\ cur[c].n = count[c]
    /\ client[c] = "writing" => cur[c].op \in Plain
    /\ client[c] = "sending" => cur[c].op = "upload"
    /\ client[c] = "receiving" => cur[c].op = "download"
    /\ response[c] = None \/ IsRaw(response[c])
    /\ Busy(c) => job[c] \in UpItem
    /\ handler[c] \in {"ready", "receive"} => Asks(job[c], "upload")
    /\ handler[c] \in {"load", "send"} => Asks(job[c], "download")
    /\ handler[c] = "load" => files[job[c].file] # <<>>
    /\ handler[c] = "send" => left[c] # <<>>
    /\ Gone(c) => down[c] = <<>>
    /\ Closed(c) => up[c] = <<>>

LocalInv == \A c \in Client : Local(c)

\* The stream to a client carries the content, from its r-th item on.
Carries(c, content, r) ==
    /\ \A i \in DOMAIN down[c] :
           r + i \in DOMAIN content => down[c][i] = content[r + i]
    /\ r + Len(down[c]) < Len(content) =>
           \/ Closed(c)
           \/ /\ handler[c] = "send"
              /\ Len(left[c]) = Len(content) - (r + Len(down[c]))
              /\ \A i \in DOMAIN left[c] :
                     left[c][i] = content[r + Len(down[c]) + i]

Stream(c) ==
    /\ \A p \in DOMAIN down[c] : down[c][p].kind = "header" =>
           Carries(c, down[c][p].content, 0 - p)
    /\ client[c] = "receiving" => Carries(c, want[c], lost[c] + Len(got[c]))
    /\ \A i \in DOMAIN got[c] :
           lost[c] + i \in DOMAIN want[c] => got[c][i] = want[c][lost[c] + i]

StreamInv == \A c \in Client : Stream(c)

\* The order of the items of a client: a command, then its blocks or pieces.
Before(a, b) ==
    \/ Number(a) < Number(b)
    \/ /\ Number(a) = Number(b)
       /\ \/ a.kind = "command" /\ IsRaw(b)
          \/ a.kind = "block" /\ b.kind = "block" /\ a.n < b.n
          \/ a.kind = "piece" /\ b.kind = "piece"

\* The client has written the item.
Written(c, a) ==
    /\ a.by = c /\ Number(a) <= count[c]
    /\ Number(a) = count[c] =>
           IF a.kind = "block" THEN client[c] \notin Onward /\ a.n <= progress[c]
           ELSE client[c] \in {"writing", "await", "sending", "receiving"} =>
                    IF a.kind = "command" THEN a = cur[c] ELSE cur[c].op \in Plain

Order(c) ==
    /\ \A i \in DOMAIN up[c] :
          /\ Written(c, up[c][i])
          /\ \A j \in DOMAIN up[c] : i < j => Before(up[c][i], up[c][j])
          /\ Busy(c) => Before(job[c], up[c][i])
    /\ Busy(c) => Written(c, job[c])

OrderInv == \A c \in Client : Order(c)

\* What the file f has of the client.
Filed(c, f) ==
    \A k \in DOMAIN files[f] : files[f][k].by = c =>
        LET x == files[f][k]
        IN  /\ Written(c, x)
            /\ \A i \in DOMAIN up[c] : Before(x, up[c][i])
            /\ handler[c] = "ready" => Number(x) < job[c].n
            /\ \A m \in DOMAIN files[f] :
                   m > k /\ files[f][m].by = c => Before(x, files[f][m])

FileInv == \A c \in Client, f \in File : Filed(c, f)

\* The command with this number has been read, and nothing behind it.
Handled(c, v) ==
    /\ v <= count[c]
    /\ \A i \in DOMAIN up[c] :
           v <= Number(up[c][i]) /\ (up[c][i].kind = "command" => v < Number(up[c][i]))
    /\ Busy(c) => v <= Number(job[c])
    /\ handler[c] = "ready" => v < job[c].n

Reply(c) ==
    /\ \A i \in DOMAIN down[c] : IsLine(down[c][i]) =>
          /\ Handled(c, down[c][i].to)
          /\ \A j \in DOMAIN down[c] :
                 i < j /\ IsLine(down[c][j]) => down[c][i].to <= down[c][j].to
    /\ \A k \in 1..MaxCommands[c] : answer[c][k] > 0 =>
          /\ Handled(c, answer[c][k]) /\ answer[c][k] <= k
          /\ \A i \in DOMAIN down[c] :
                 IsLine(down[c][i]) => answer[c][k] <= down[c][i].to
          /\ \A m \in k..MaxCommands[c] : answer[c][m] > 0 => answer[c][k] <= answer[c][m]
    /\ \A k \in 1..MaxCommands[c] :
          k > count[c] \/ (client[c] \in Onward /\ k = count[c]) => answer[c][k] = 0

ReplyInv == \A c \in Client : Reply(c)

\* A session of short lines without transfers: at most one item is on its way.
Clean(c) ==
    /\ \A k \in 1..MaxCommands[c] : answer[c][k] \in {0, k}
    /\ Gone(c) \/
          /\ client[c] \in {"off", "idle", "await"} /\ response[c] = None
          /\ client[c] = "await" => cur[c].op \in {"simple", "close"}
          /\ up[c] # <<>> =>
                client[c] = "await" /\ up[c] = <<cur[c]>> /\ down[c] = <<>> /\ ~Busy(c)
          /\ down[c] # <<>> =>
                client[c] = "await" /\ down[c] = <<Line("reply", count[c])>> /\ ~Busy(c)
          /\ Busy(c) => client[c] = "await" /\ handler[c] = "reply" /\ job[c] = cur[c]

CleanInv == \A c \in Client : clean[c] => Clean(c)

InUp(c, b) == \E i \in DOMAIN up[c] : up[c][i] = b
\* On the way into the file the handler writes, or in it.
Coming(c, b) == InUp(c, b) \/ InFile(job[c].file, b)
\* The client has written the block, and it may still be read.
Ahead(c, n, w) == InUp(c, Block(c, n, w)) \/ (n = count[c] /\ w <= progress[c])

\* Nothing of an upload is missing between two of its blocks: in the stream,
\* from the file being written to the stream, in a file.
UpGap(c) ==
    \A n \in 1..MaxCommands[c], v \in 1..Blocks : InUp(c, Block(c, n, v)) =>
        \A w \in v + 1..Blocks : Ahead(c, n, w) => InUp(c, Block(c, n, v + 1))
FileGap(c) ==
    handler[c] = "receive" =>
        \A n \in 1..MaxCommands[c], v \in 1..Blocks :
            n >= job[c].n /\ InFile(job[c].file, Block(c, n, v)) =>
                \A w \in v + 1..Blocks : Ahead(c, n, w) => Coming(c, Block(c, n, v + 1))
Whole(c, f) ==
    \A n \in 1..MaxCommands[c], v \in 1..Blocks : InFile(f, Block(c, n, v)) =>
        /\ \A w \in v + 1..Blocks :
               InFile(f, Block(c, n, w)) => InFile(f, Block(c, n, v + 1))
        /\ answer[c][n] = n => \A u \in 1..v : InFile(f, Block(c, n, u))

GapInv == \A c \in Client : UpGap(c) /\ FileGap(c) /\ \A f \in File : Whole(c, f)

\* The handler receives an upload whose READY the client took for its own.
Own(c) == handler[c] = "receive" /\ answer[c][job[c].n] = job[c].n
Sent(c, n) == IF count[c] > n THEN Blocks ELSE progress[c]

\* Then all that the client has written of it is coming.
Uploading(c) ==
    Own(c) =>
        /\ \A v \in 1..Sent(c, job[c].n) : Coming(c, Block(c, job[c].n, v))
        /\ client[c] = "idle" /\ count[c] = job[c].n => progress[c] = Blocks

UploadInv == \A c \in Client : Uploading(c)

DoneInv ==
    \A j \in success : Gone(j.by) /\ j.n \in 1..count[j.by] /\ j.op = "upload"

IInv ==
    /\ TypeInv /\ LocalInv /\ StreamInv /\ OrderInv /\ FileInv /\ ReplyInv
    /\ CleanInv /\ GapInv /\ UploadInv /\ DoneInv /\ SuccessIsComplete

-----------------------------------------------------------------------------
(* Streams.                                                                 *)

LEMMA RestFacts ==
    ASSUME NEW S, NEW s \in Seq(S), NEW n \in 0..Len(s)
    PROVE  /\ Rest(s, n) \in Seq(S) /\ Len(Rest(s, n)) = Len(s) - n
           /\ \A i \in 1..Len(s) - n : Rest(s, n)[i] = s[i + n]
  BY DEF Rest

LEMMA PartFacts ==
    ASSUME NEW S, NEW s \in Seq(S), NEW n \in 0..Len(s)
    PROVE  /\ Part(s, n) \in Seq(S) /\ Len(Part(s, n)) = n
           /\ \A i \in 1..n : Part(s, n)[i] = s[i]
  BY DEF Part

LEMMA AppendFacts ==
    ASSUME NEW S, NEW s \in Seq(S), NEW x \in S
    PROVE  /\ Append(s, x) \in Seq(S) /\ Len(Append(s, x)) = Len(s) + 1
           /\ \A i \in 1..Len(s) : Append(s, x)[i] = s[i]
           /\ Append(s, x)[Len(s) + 1] = x
  OBVIOUS

LEMMA JoinFacts ==
    ASSUME NEW S, NEW s \in Seq(S), NEW t \in Seq(S)
    PROVE  /\ s \o t \in Seq(S) /\ Len(s \o t) = Len(s) + Len(t)
           /\ \A i \in 1..Len(s) : (s \o t)[i] = s[i]
           /\ \A i \in 1..Len(t) : (s \o t)[Len(s) + i] = t[i]
  OBVIOUS

LEMMA HeadFacts ==
    ASSUME NEW S, NEW s \in Seq(S), s # <<>>
    PROVE  /\ Len(s) \in Nat \ {0} /\ Head(s) = s[1] /\ Head(s) \in S
           /\ Tail(s) \in Seq(S) /\ Len(Tail(s)) = Len(s) - 1
           /\ \A i \in 1..Len(s) - 1 : Tail(s)[i] = s[i + 1]
  OBVIOUS

LEMMA NoneFacts ==
    ASSUME NEW S
    PROVE  <<>> \in Seq(S) /\ Len(<<>>) = 0
  OBVIOUS

-----------------------------------------------------------------------------
(* Types.                                                                   *)

LEMMA ItemFacts ==
    /\ CommandItem \subseteq UpItem /\ UpBlock \subseteq UpItem /\ UpPiece \subseteq UpItem
    /\ UpItem \subseteq FileItem /\ FileItem \subseteq DownItem
    /\ LineItem \subseteq DownItem /\ HeaderItem \subseteq DownItem
  BY DEF UpItem, FileItem, DownItem

LEMMA CommandFacts ==
    ASSUME NEW x \in CommandItem
    PROVE  /\ x.kind = "command" /\ ~IsRaw(x) /\ x.n \in Positive /\ x.by \in Client
           /\ Number(x) = x.n /\ x.op \in Ops
           /\ x.op \in {"upload", "download"} => x.file \in File
  BY DEF CommandItem, Number, Ops, IsRaw

LEMMA BlockFacts ==
    ASSUME NEW x \in UpBlock
    PROVE  /\ x.kind = "block" /\ IsRaw(x) /\ x.of \in Positive /\ x.by \in Client
           /\ Number(x) = x.of /\ x.n \in 1..Blocks /\ x = Block(x.by, x.of, x.n)
  BY DEF UpBlock, Number, Block, IsRaw

LEMMA PieceFacts ==
    ASSUME NEW x \in UpPiece
    PROVE  /\ x.kind = "piece" /\ IsRaw(x) /\ x.of \in Positive /\ x.by \in Client
           /\ Number(x) = x.of
  BY DEF UpPiece, Number, IsRaw

LEMMA UpFacts ==
    ASSUME NEW x \in UpItem
    PROVE  /\ Number(x) \in Positive /\ x.by \in Client
           /\ x.kind \in {"command", "block", "piece"} /\ (IsRaw(x) <=> x.kind # "command")
           /\ x.kind = "command" => x \in CommandItem
           /\ x.kind = "block" => x \in UpBlock
  BY CommandFacts, BlockFacts, PieceFacts DEF UpItem

LEMMA FileFacts ==
    ASSUME NEW x \in FileItem
    PROVE  ~IsLine(x) /\ (x.by \in Client => x \in UpItem)
<1>1. CASE x \in UpItem
  BY <1>1, UpFacts DEF IsLine
<1>2. CASE x \in StoredBlock
  BY <1>2, TransferAssumption DEF TransferAssumption, StoredBlock, IsLine
<1> QED
  BY <1>1, <1>2 DEF FileItem

LEMMA DownFacts ==
    ASSUME NEW x \in DownItem
    PROVE  /\ IsLine(x) => x.to \in Positive
           /\ x.kind = "header" => x.to \in Positive /\ x.content \in Seq(FileItem)
           /\ ~IsLine(x) => x \in FileItem
<1>1. CASE x \in LineItem
  BY <1>1 DEF LineItem, IsLine
<1>2. CASE x \in HeaderItem
  BY <1>2 DEF HeaderItem, IsLine
<1>3. CASE x \in FileItem
  BY <1>3, FileFacts DEF IsLine
<1> QED
  BY <1>1, <1>2, <1>3 DEF DownItem

\* A step of another client leaves everything of d alone but the files.
Same(d) ==
    /\ client'[d] = client[d] /\ count'[d] = count[d] /\ cur'[d] = cur[d]
    /\ response'[d] = response[d] /\ progress'[d] = progress[d]
    /\ want'[d] = want[d] /\ got'[d] = got[d] /\ lost'[d] = lost[d]
    /\ handler'[d] = handler[d] /\ job'[d] = job[d] /\ left'[d] = left[d]
    /\ up'[d] = up[d] /\ down'[d] = down[d]
    /\ answer'[d] = answer[d] /\ clean'[d] = clean[d]

LEMMA HandlerElsewhere ==
    ASSUME TypeInv, NEW c \in Client, NEW d \in Client, c # d, HandlerStep(c)
    PROVE  Same(d)
<1> USE DEF TypeInv, Same, clientVars, handlerVars, history, HandlerGoes, Tell, Put, Empty
<1>1. CASE ReadCommand(c)
  BY <1>1 DEF ReadCommand
<1>2. CASE HandlerLeaves(c)
  BY <1>2 DEF HandlerLeaves
<1>3. CASE WriteReply(c)
  BY <1>3 DEF WriteReply
<1>4. CASE WriteFails(c)
  BY <1>4 DEF WriteFails
<1>5. CASE SendReady(c)
  BY <1>5 DEF SendReady
<1>6. CASE Receive(c)
  BY <1>6 DEF Receive
<1>7. CASE ReceiveEnd(c)
  BY <1>7 DEF ReceiveEnd
<1>8. CASE ReceiveFails(c)
  BY <1>8 DEF ReceiveFails
<1>9. CASE SendHeader(c)
  BY <1>9 DEF SendHeader
<1>10. CASE LoadFails(c)
  BY <1>10 DEF LoadFails
<1>11. CASE SendBlock(c)
  BY <1>11 DEF SendBlock
<1>12. CASE ReadBlank(c)
  BY <1>12 DEF ReadBlank
<1> QED
  BY <1>1, <1>2, <1>3, <1>4, <1>5, <1>6, <1>7, <1>8, <1>9, <1>10, <1>11, <1>12
     DEF HandlerStep

LEMMA ClientElsewhere ==
    ASSUME TypeInv, NEW c \in Client, NEW d \in Client, c # d,
           Connect(c) \/ Type(c) \/ Leave(c) \/ ClientStep(c)
    PROVE  Same(d)
<1> USE DEF TypeInv, Same, clientVars, handlerVars, history, HandlerGoes, ClientGoes, Put,
            Empty, Nothing, Answer
<1>1. CASE Connect(c)
  BY <1>1 DEF Connect
<1>2. CASE Leave(c)
  BY <1>2 DEF Leave
<1>3. CASE ReadMore(c)
  BY <1>3 DEF ReadMore
<1>4. CASE ReadResponse(c)
  BY <1>4 DEF ReadResponse
<1>5. CASE AwaitFails(c)
  BY <1>5 DEF AwaitFails
<1>6. CASE SendData(c)
  BY <1>6 DEF SendData
<1>7. CASE SendDataFails(c)
  BY <1>7 DEF SendDataFails
<1>8. CASE SendDone(c)
  BY <1>8 DEF SendDone
<1>9. CASE ReceiveData(c)
  BY <1>9 DEF ReceiveData
<1>10. CASE ReceiveDone(c)
  BY <1>10 DEF ReceiveDone
<1>11. ASSUME NEW op, NEW f, NEW to, SendCommand(c, op, f, to)
      PROVE  Same(d)
  <2>1. client'[d] = client[d] /\ cur'[d] = cur[d] /\ up'[d] = up[d]
    BY <1>11 DEF SendCommand
  <2>2. count'[d] = count[d] /\ clean'[d] = clean[d] /\ progress'[d] = progress[d]
    BY <1>11 DEF SendCommand
  <2>3. UNCHANGED <<response, want, got, lost, handlerVars, down, answer>>
    BY <1>11 DEF SendCommand
  <2> QED
    BY <2>1, <2>2, <2>3
<1>12. CASE SendRest(c)
  BY <1>12 DEF SendRest
<1>13. CASE RestFails(c)
  BY <1>13 DEF RestFails
<1> QED
  BY <1>1, <1>2, <1>3, <1>4, <1>5, <1>6, <1>7, <1>8, <1>9, <1>10, <1>11, <1>12, <1>13
     DEF ClientStep, Type

\* The handler writes x, or to a client that has gone.
Sends(c, x) ==
    \/ Gone(c) /\ down' = down
    \/ ~Gone(c) /\ Len(down[c]) < Window /\ down' = [down EXCEPT ![c] = Append(@, x)]

LEMMA SendsFacts ==
    ASSUME TypeInv, NEW c \in Client, NEW x \in DownItem, Sends(c, x)
    PROVE  /\ down' \in [Client -> Seq(DownItem)]
           /\ \A d \in Client : d # c => down'[d] = down[d]
           /\ \/ Gone(c) /\ down'[c] = down[c]
              \/ /\ ~Gone(c) /\ Len(down[c]) < Window
                 /\ down'[c] = Append(down[c], x) /\ Len(down'[c]) = Len(down[c]) + 1
                 /\ \A i \in 1..Len(down[c]) : down'[c][i] = down[c][i]
                 /\ down'[c][Len(down[c]) + 1] = x
<1>1. down \in [Client -> Seq(DownItem)] /\ down[c] \in Seq(DownItem)
  BY DEF TypeInv
<1>2. CASE Gone(c) /\ down' = down
  BY <1>1, <1>2
<1>3. CASE ~Gone(c) /\ Len(down[c]) < Window /\ down' = [down EXCEPT ![c] = Append(@, x)]
  <2>1. /\ Append(down[c], x) \in Seq(DownItem)
        /\ Len(Append(down[c], x)) = Len(down[c]) + 1
        /\ \A i \in 1..Len(down[c]) : Append(down[c], x)[i] = down[c][i]
        /\ Append(down[c], x)[Len(down[c]) + 1] = x
    BY <1>1, AppendFacts
  <2>2. down'[c] = Append(down[c], x)
    BY <1>1, <1>3
  <2> QED
    BY <1>1, <1>3, <2>1, <2>2
<1> QED
  BY <1>2, <1>3 DEF Sends

\* What the handler writes.
LEMMA LineType ==
    ASSUME NEW kind \in {"reply", "ready"}, NEW n \in Positive
    PROVE  Line(kind, n) \in DownItem
  BY DEF Line, LineItem, DownItem

LEMMA HeaderType ==
    ASSUME NEW n \in Positive, NEW s \in Seq(FileItem)
    PROVE  Header(n, s) \in DownItem
  BY DEF Header, HeaderItem, DownItem

\* The client types a command.
LEMMA CommandType ==
    ASSUME NEW c \in Client, NEW n \in Nat, NEW op, NEW f,
           \/ op \in {"simple", "close"} /\ f = None
           \/ op \in {"upload", "download"} /\ f \in File
    PROVE  Command(op, f, c, n + 1) \in CommandItem
<1>1. n + 1 \in Positive
  BY DEF Positive
<1> QED
  BY <1>1 DEF Command, CommandItem

LEMMA BlockType ==
    ASSUME NEW c \in Client, NEW n \in Positive, NEW v \in 1..Blocks
    PROVE  Block(c, n, v) \in UpBlock
  BY DEF Block, UpBlock

LEMMA PieceType ==
    ASSUME NEW c \in Client, NEW n \in Positive
    PROVE  Piece(c, n) \in UpPiece /\ Piece(c, n) \in UpItem
  BY ItemFacts DEF Piece, UpPiece

LEMMA JobType ==
    ASSUME TypeInv, LocalInv, NEW c \in Client, Busy(c)
    PROVE  /\ job[c] \in UpItem /\ Number(job[c]) \in Positive
           /\ handler[c] \in {"ready", "receive", "load", "send"} =>
                  /\ job[c] \in CommandItem /\ job[c].n \in Positive /\ job[c].file \in File
                  /\ Number(job[c]) = job[c].n
<1>1. job[c] \in UpItem
  BY DEF LocalInv, Local
<1>2. handler[c] \in {"ready", "receive", "load", "send"} =>
          job[c].kind = "command" /\ job[c].op \in {"upload", "download"}
  BY DEF LocalInv, Local, Asks
<1> QED
  BY <1>1, <1>2, UpFacts, CommandFacts

LEMMA WriteReplySends ==
    ASSUME TypeInv, LocalInv, NEW c \in Client, WriteReply(c)
    PROVE  \E x \in DownItem : x = Line("reply", Number(job[c])) /\ Sends(c, x)
<1>1. Line("reply", Number(job[c])) \in DownItem
  BY JobType, LineType DEF WriteReply, HandlerGoes, Busy, Working
<1> QED
  BY <1>1 DEF WriteReply, Sends, Tell, Put

LEMMA SendReadySends ==
    ASSUME TypeInv, LocalInv, NEW c \in Client, SendReady(c)
    PROVE  \E x \in DownItem : x = Line("ready", Number(job[c])) /\ Sends(c, x)
<1>1. Line("ready", Number(job[c])) \in DownItem
  BY JobType, LineType DEF SendReady, HandlerGoes, Busy, Working
<1> QED
  BY <1>1 DEF SendReady, Sends, Tell, Put

LEMMA SendHeaderSends ==
    ASSUME TypeInv, LocalInv, NEW c \in Client, SendHeader(c)
    PROVE  \E x \in DownItem :
               x = Header(Number(job[c]), files[job[c].file]) /\ Sends(c, x)
<1>1. files[job[c].file] \in Seq(FileItem)
  BY JobType DEF TypeInv, SendHeader, HandlerGoes, Busy, Working
<1>2. Header(Number(job[c]), files[job[c].file]) \in DownItem
  BY <1>1, JobType, HeaderType DEF SendHeader, HandlerGoes, Busy, Working
<1> QED
  BY <1>2 DEF SendHeader, Sends, Tell, Put

LEMMA SendBlockSends ==
    ASSUME TypeInv, LocalInv, NEW c \in Client, SendBlock(c)
    PROVE  /\ left[c] \in Seq(FileItem) /\ left[c] # <<>>
           /\ \E x \in DownItem : x = Head(left[c]) /\ Sends(c, x)
<1>1. left[c] \in Seq(FileItem) /\ left[c] # <<>>
  BY DEF TypeInv, LocalInv, Local, SendBlock, HandlerGoes
<1>2. Head(left[c]) \in DownItem
  BY <1>1, HeadFacts, ItemFacts
<1> QED
  BY <1>1, <1>2 DEF SendBlock, Sends, Tell, Put

LEMMA HandlerTypes ==
    ASSUME TypeInv, LocalInv, NEW c \in Client, HandlerStep(c)
    PROVE  TypeInv'
<1> USE DEF TypeInv, clientVars, handlerVars, history, HandlerGoes, HandlerPC
<1>1. CASE ReadCommand(c)
  <2>1. up[c] \in Seq(UpItem) /\ up[c] # <<>>
    BY <1>1 DEF ReadCommand
  <2>2. Head(up[c]) \in UpItem
    BY <2>1, HeadFacts
  <2>3. up' \in [Client -> Seq(UpItem)]
    BY <1>1, <2>1, RestFacts DEF ReadCommand
  <2>4. handler' \in [Client -> HandlerPC]
    BY <1>1 DEF ReadCommand, Branch
  <2> QED
    BY <1>1, <2>2, <2>3, <2>4 DEF ReadCommand
<1>2. CASE HandlerLeaves(c)
  BY <1>2 DEF HandlerLeaves, Empty
<1>3. CASE WriteReply(c)
  <2>1. down' \in [Client -> Seq(DownItem)]
    BY <1>3, WriteReplySends, SendsFacts
  <2>2. handler' \in [Client -> HandlerPC]
    BY <1>3 DEF WriteReply
  <2>3. up' \in [Client -> Seq(UpItem)]
    BY <1>3 DEF WriteReply, Empty
  <2>4. job' \in [Client -> UpItem \union {None}]
    BY <1>3 DEF WriteReply
  <2> QED
    BY <1>3, <2>1, <2>2, <2>3, <2>4 DEF WriteReply
<1>4. CASE WriteFails(c)
  BY <1>4 DEF WriteFails, Empty
<1>5. CASE SendReady(c)
  <2>1. down' \in [Client -> Seq(DownItem)]
    BY <1>5, SendReadySends, SendsFacts
  <2> QED
    BY <1>5, <2>1 DEF SendReady
<1>6. CASE Receive(c)
  <2>1. PICK n \in 1..Len(up[c]) :
            /\ files' = [files EXCEPT ![job[c].file] = @ \o Part(up[c], n)]
            /\ up' = [up EXCEPT ![c] = Rest(@, n)]
    BY <1>6 DEF Receive
  <2>2. job[c].file \in File
    BY <1>6, JobType DEF Receive, Busy, Working
  <2>3. Part(up[c], n) \in Seq(FileItem) /\ Rest(up[c], n) \in Seq(UpItem)
    BY PartFacts, RestFacts, ItemFacts
  <2>4. files' \in [File -> Seq(FileItem)]
    BY <2>1, <2>2, <2>3, JoinFacts
  <2> QED
    BY <1>6, <2>1, <2>3, <2>4 DEF Receive
<1>7. CASE ReceiveEnd(c)
  <2>1. job[c] \in CommandItem
    BY <1>7, JobType DEF ReceiveEnd, Busy, Working
  <2> QED
    BY <1>7, <2>1 DEF ReceiveEnd
<1>8. CASE ReceiveFails(c)
  <2>1. up' \in [Client -> Seq(UpItem)]
    BY <1>8, RestFacts DEF ReceiveFails
  <2> QED
    BY <1>8, <2>1 DEF ReceiveFails
<1>9. CASE SendHeader(c)
  <2>1. down' \in [Client -> Seq(DownItem)]
    BY <1>9, SendHeaderSends, SendsFacts
  <2>2. files[job[c].file] \in Seq(FileItem)
    BY <1>9, JobType DEF SendHeader, Busy, Working
  <2> QED
    BY <1>9, <2>1, <2>2 DEF SendHeader
<1>10. CASE LoadFails(c)
  BY <1>10 DEF LoadFails
<1>11. CASE SendBlock(c)
  <2>1. down' \in [Client -> Seq(DownItem)]
    BY <1>11, SendBlockSends, SendsFacts
  <2>2. Tail(left[c]) \in Seq(FileItem)
    BY <1>11, SendBlockSends, HeadFacts
  <2> QED
    BY <1>11, <2>1, <2>2 DEF SendBlock
<1>12. CASE ReadBlank(c)
  <2>1. up[c] \in Seq(UpItem) /\ up' \in [Client -> Seq(UpItem)]
    BY <1>12, RestFacts DEF ReadBlank
  <2> QED
    BY <1>12, <2>1 DEF ReadBlank
<1> QED
  BY <1>1, <1>2, <1>3, <1>4, <1>5, <1>6, <1>7, <1>8, <1>9, <1>10, <1>11, <1>12
     DEF HandlerStep

LEMMA FirstFacts ==
    ASSUME TypeInv, LocalInv, NEW c \in Client, down[c] # <<>>
    PROVE  /\ Head(down[c]) \in DownItem /\ Head(down[c]) = down[c][1]
           /\ First(c) \in DownItem
           /\ IsLine(First(c)) => First(c) = down[c][1]
           /\ First(c).kind = "header" => First(c).content \in Seq(FileItem)
<1>1. Head(down[c]) \in DownItem /\ Head(down[c]) = down[c][1]
  BY HeadFacts DEF TypeInv
<1>2. CASE response[c] = None
  BY <1>1, <1>2, DownFacts DEF First
<1>3. CASE response[c] # None
  <2>1. response[c] \in DownItem /\ IsRaw(response[c])
    BY <1>3, ItemFacts DEF TypeInv, LocalInv, Local
  <2> QED
    BY <1>1, <1>3, <2>1 DEF First, IsLine, IsRaw
<1> QED
  BY <1>2, <1>3

\* The items that a read takes.
LEMMA ReadFacts ==
    ASSUME TypeInv, NEW c \in Client, NEW n \in 1..Len(down[c])
    PROVE  /\ down[c] \in Seq(DownItem) /\ down[c] # <<>> /\ Len(down[c]) \in Nat
           /\ Part(down[c], n) \in Seq(DownItem) /\ Rest(down[c], n) \in Seq(DownItem)
           /\ Len(Part(down[c], n)) = n /\ Len(Rest(down[c], n)) = Len(down[c]) - n
           /\ \A i \in 1..n : Part(down[c], n)[i] = down[c][i]
           /\ \A i \in 1..Len(down[c]) - n : Rest(down[c], n)[i] = down[c][i + n]
<1>1. down[c] \in Seq(DownItem)
  BY DEF TypeInv
<1>2. Len(down[c]) \in Nat /\ n \in 0..Len(down[c]) /\ down[c] # <<>>
  BY <1>1
<1> QED
  BY <1>1, <1>2, PartFacts, RestFacts

\* A read without a line begins with a block or a piece.
LEMMA NoBreakFacts ==
    ASSUME TypeInv, LocalInv, NEW c \in Client, NEW n \in 1..Len(down[c]),
           ~HasBreak(Part(down[c], n))
    PROVE  First(c) \in FileItem /\ IsRaw(First(c))
<1>1. Part(down[c], n)[1] = down[c][1] /\ 1 \in DOMAIN Part(down[c], n) /\ down[c] # <<>>
  BY ReadFacts
<1>2. IsRaw(down[c][1])
  BY <1>1 DEF HasBreak
<1>3. Head(down[c]) = down[c][1] /\ Head(down[c]) \in DownItem
  BY <1>1, FirstFacts
<1>4. Head(down[c]) \in FileItem
  BY <1>2, <1>3, DownFacts DEF IsLine, IsRaw
<1> QED
  BY <1>2, <1>3, <1>4 DEF First, TypeInv, LocalInv, Local

LEMMA TypeFacts ==
    ASSUME NEW c \in Client, Type(c)
    PROVE  \E op \in Ops, f \in File \union {None}, to \in Onward :
              /\ SendCommand(c, op, f, to) /\ Sized(op, to)
              /\ \/ op \in {"simple", "close"} /\ f = None
                 \/ op \in {"upload", "download"} /\ f \in File
  BY DEF Type, Ops, Onward, Sized, Plain

LEMMA ClientTypes ==
    ASSUME TypeInv, LocalInv, NEW c \in Client,
           Connect(c) \/ Type(c) \/ Leave(c) \/ ClientStep(c)
    PROVE  TypeInv'
<1> USE DEF TypeInv, clientVars, handlerVars, history, HandlerGoes, ClientGoes, HandlerPC,
            ClientPC
<1>1. CASE Connect(c)
  BY <1>1 DEF Connect
<1>2. ASSUME NEW op, NEW f, NEW to \in Onward, SendCommand(c, op, f, to),
             \/ op \in {"simple", "close"} /\ f = None
             \/ op \in {"upload", "download"} /\ f \in File
      PROVE  TypeInv'
  <2>1. Command(op, f, c, count[c] + 1) \in CommandItem
    BY <1>2, CommandType
  <2>2. PICK line \in CommandItem : line = Command(op, f, c, count[c] + 1)
    BY <2>1
  <2>3. /\ client' \in [Client -> ClientPC] /\ cur' \in [Client -> CommandItem \union {None}]
        /\ up' \in [Client -> Seq(UpItem)]
    <3>1. Append(up[c], line) \in Seq(UpItem)
      BY <2>2, AppendFacts, ItemFacts
    <3>2. \/ UNCHANGED <<client, cur, up>>
          \/ /\ client' = [client EXCEPT ![c] = to]
             /\ cur' = [cur EXCEPT ![c] = line]
             /\ up' = up \/ up' = [up EXCEPT ![c] = Append(@, line)]
      BY <1>2, <2>2 DEF SendCommand, Put
    <3>3. CASE UNCHANGED <<client, cur, up>>
      BY <3>3
    <3>4. CASE /\ client' = [client EXCEPT ![c] = to]
               /\ cur' = [cur EXCEPT ![c] = line]
               /\ up' = up \/ up' = [up EXCEPT ![c] = Append(@, line)]
      <4>1. client' \in [Client -> ClientPC] /\ cur' \in [Client -> CommandItem \union {None}]
        BY <1>2, <3>4 DEF Onward
      <4>2. up' \in [Client -> Seq(UpItem)]
        BY <3>1, <3>4
      <4> QED
        BY <4>1, <4>2
    <3> QED
      BY <3>2, <3>3, <3>4
  <2>4. /\ count' \in [Client -> Nat] /\ clean' \in [Client -> BOOLEAN]
        /\ progress' \in [Client -> 0..Blocks]
    BY <1>2, TransferAssumption DEF SendCommand, TransferAssumption
  <2> QED
    BY <1>2, <2>3, <2>4 DEF SendCommand
<1>3. CASE Leave(c)
  BY <1>3, NoneFacts DEF Leave, Empty, Nothing
<1>4. CASE ReadMore(c)
  <2>1. PICK n \in 1..Len(down[c]) :
            ~HasBreak(Part(down[c], n)) /\ down' = [down EXCEPT ![c] = Rest(@, n)]
    BY <1>4 DEF ReadMore
  <2>2. Rest(down[c], n) \in Seq(DownItem)
    BY ReadFacts
  <2>3. First(c) \in FileItem
    BY <2>1, NoBreakFacts
  <2> QED
    BY <1>4, <2>1, <2>2, <2>3 DEF ReadMore
<1>5. CASE ReadResponse(c)
  <2>1. PICK n \in 1..Len(down[c]) :
            /\ down' = [down EXCEPT ![c] = Rest(@, n)]
            /\ lost' = [lost EXCEPT ![c] = IF client'[c] = "receiving" THEN n - 1 ELSE 0]
    BY <1>5 DEF ReadResponse
  <2>2. Rest(down[c], n) \in Seq(DownItem)
    BY ReadFacts
  <2>3. /\ First(c) \in DownItem
        /\ First(c).kind = "header" => First(c).content \in Seq(FileItem)
    BY <1>5, FirstFacts DEF ReadResponse
  <2>4. client' \in [Client -> ClientPC] /\ client'[c] = After(cur[c].op, First(c))
    BY <1>5 DEF ReadResponse, After
  <2>5. client'[c] = "receiving" => First(c).content \in Seq(FileItem)
    BY <2>3, <2>4 DEF After
  <2>6. want' \in [Client -> Seq(FileItem)] /\ got' \in [Client -> Seq(DownItem)]
    BY <1>5, <2>5, NoneFacts DEF ReadResponse
  <2>7. lost' \in [Client -> Nat] /\ down' \in [Client -> Seq(DownItem)]
    BY <2>1, <2>2
  <2>8. answer' = [d \in Client |-> answer'[d]]
    BY <1>5 DEF ReadResponse, Answer
  <2>9. progress' \in [Client -> 0..Blocks] /\ response' \in [Client -> FileItem \union {None}]
    BY <1>5, TransferAssumption DEF ReadResponse, TransferAssumption
  <2>10. cur' \in [Client -> CommandItem \union {None}]
    BY <1>5 DEF ReadResponse, Nothing
  <2> QED
    BY <1>5, <2>4, <2>6, <2>7, <2>8, <2>9, <2>10 DEF ReadResponse
<1>6. CASE AwaitFails(c)
  BY <1>6 DEF AwaitFails, Nothing
<1>7. CASE SendData(c)
  <2>1. cur[c].n \in Positive /\ progress[c] + 1 \in 1..Blocks
    BY <1>7, CommandFacts, TransferAssumption DEF SendData, LocalInv, Local, TransferAssumption
  <2>2. PICK b \in UpItem : b = Block(c, cur[c].n, progress[c] + 1)
    BY <2>1, BlockType, ItemFacts
  <2>3. Append(up[c], b) \in Seq(UpItem)
    BY AppendFacts
  <2> QED
    BY <1>7, <2>1, <2>2, <2>3 DEF SendData, Put
<1>8. CASE SendDataFails(c)
  BY <1>8 DEF SendDataFails, Nothing
<1>9. CASE SendDone(c)
  BY <1>9 DEF SendDone, Nothing
<1>10. CASE ReceiveData(c)
  <2>1. PICK n \in 1..Len(down[c]) :
            /\ got' = [got EXCEPT ![c] = @ \o Part(down[c], n)]
            /\ down' = [down EXCEPT ![c] = Rest(@, n)]
    BY <1>10 DEF ReceiveData
  <2>2. Part(down[c], n) \in Seq(DownItem) /\ Rest(down[c], n) \in Seq(DownItem)
    BY ReadFacts
  <2>3. got[c] \o Part(down[c], n) \in Seq(DownItem)
    BY <2>2, JoinFacts
  <2> QED
    BY <1>10, <2>1, <2>2, <2>3 DEF ReceiveData
<1>11. CASE ReceiveDone(c)
  BY <1>11, NoneFacts DEF ReceiveDone, Empty, Nothing
<1>12. CASE SendRest(c)
  <2>1. cur[c].n \in Positive /\ progress[c] + 1 \in 1..Blocks
    BY <1>12, CommandFacts, TransferAssumption DEF SendRest, LocalInv, Local, TransferAssumption
  <2>2. PICK b \in UpItem : b = Piece(c, cur[c].n)
    BY <2>1, PieceType
  <2>3. Append(up[c], b) \in Seq(UpItem)
    BY AppendFacts
  <2>4. client' \in [Client -> ClientPC]
    BY <1>12 DEF SendRest
  <2> QED
    BY <1>12, <2>1, <2>2, <2>3, <2>4 DEF SendRest, Put
<1>13. CASE RestFails(c)
  BY <1>13 DEF RestFails, Nothing
<1> QED
  <2>1. CASE Type(c)
    <3>1. PICK op \in Ops, f \in File \union {None}, to \in Onward :
              /\ SendCommand(c, op, f, to) /\ Sized(op, to)
              /\ \/ op \in {"simple", "close"} /\ f = None
                 \/ op \in {"upload", "download"} /\ f \in File
      BY <2>1, TypeFacts
    <3> QED
      BY <1>2, <3>1
  <2> QED
    BY <2>1, <1>1, <1>3, <1>4, <1>5, <1>6, <1>7, <1>8, <1>9, <1>10, <1>11, <1>12, <1>13
       DEF ClientStep

\* A signal ends the process.
LEMMA ExitFacts ==
    ASSUME TypeInv, ServerExits, NEW d \in Client
    PROVE  /\ TypeInv'
           /\ handler'[d] = "gone" /\ up'[d] = <<>>
           /\ client' = client /\ count' = count /\ cur' = cur /\ response' = response
           /\ progress' = progress /\ want' = want /\ got' = got /\ lost' = lost
           /\ down' = down /\ files' = files
           /\ answer' = answer /\ clean' = clean /\ success' = success
<1>1. handler' \in [Client -> HandlerPC] /\ job' \in [Client -> UpItem \union {None}]
  BY DEF ServerExits, HandlerPC
<1>2. left' \in [Client -> Seq(FileItem)] /\ up' \in [Client -> Seq(UpItem)]
  BY NoneFacts DEF ServerExits
<1> QED
  BY <1>1, <1>2 DEF TypeInv, ServerExits, clientVars, history

ClientAct(c) == Connect(c) \/ Type(c) \/ Leave(c) \/ ClientStep(c)

LEMMA NextCases ==
    ASSUME Next
    PROVE  ServerExits \/ \E c \in Client : HandlerStep(c) \/ ClientAct(c)
  BY DEF Next, ClientAct

LEMMA TypeStep ==
    ASSUME TypeInv, LocalInv, [Next]_vars
    PROVE  TypeInv'
<1>1. CASE UNCHANGED vars
  BY <1>1 DEF TypeInv, vars, clientVars, handlerVars, history
<1>2. CASE ServerExits
  <2>1. CASE Client = {}
    BY <1>2, <2>1, NoneFacts DEF TypeInv, ServerExits, clientVars, history
  <2> QED
    BY <1>2, <2>1, ExitFacts
<1>3. ASSUME NEW c \in Client, HandlerStep(c) \/ ClientAct(c)
      PROVE  TypeInv'
  BY <1>3, HandlerTypes, ClientTypes DEF ClientAct
<1> QED
  BY <1>1, <1>2, <1>3, NextCases

-----------------------------------------------------------------------------
(* Files only grow, and only by what their receiver reads.                  *)

\* The first n items of the stream of c go to the end of the file f.
Moves(c, f, n) ==
    /\ Len(up'[c]) = Len(up[c]) - n
    /\ \A i \in 1..Len(up[c]) - n : up'[c][i] = up[c][i + n]
    /\ Len(files'[f]) = Len(files[f]) + n
    /\ \A k \in 1..Len(files[f]) : files'[f][k] = files[f][k]
    /\ \A i \in 1..n : files'[f][Len(files[f]) + i] = up[c][i]
    /\ \A g \in File : g # f => files'[g] = files[g]

LEMMA ReceiveFacts ==
    ASSUME TypeInv, LocalInv, NEW c \in Client, Receive(c)
    PROVE  /\ job[c].file \in File /\ handler[c] = "receive" /\ handler' = handler /\ job' = job
           /\ \E n \in 1..Len(up[c]) : Moves(c, job[c].file, n)
<1>1. job[c].file \in File
  BY JobType DEF Receive, HandlerGoes, Busy, Working
<1>2. PICK n \in 1..Len(up[c]) :
            /\ files' = [files EXCEPT ![job[c].file] = @ \o Part(up[c], n)]
            /\ up' = [up EXCEPT ![c] = Rest(@, n)]
  BY DEF Receive
<1>3. PICK f \in File : f = job[c].file
  BY <1>1
<1>4. up[c] \in Seq(UpItem) /\ files[f] \in Seq(FileItem) /\ Len(up[c]) \in Nat
      /\ n \in 0..Len(up[c])
  BY DEF TypeInv
<1>5. /\ Part(up[c], n) \in Seq(UpItem) /\ Len(Part(up[c], n)) = n
      /\ \A i \in 1..n : Part(up[c], n)[i] = up[c][i]
  BY <1>4, PartFacts
<1>6. /\ Len(Rest(up[c], n)) = Len(up[c]) - n
      /\ \A i \in 1..Len(up[c]) - n : Rest(up[c], n)[i] = up[c][i + n]
  BY <1>4, RestFacts
<1>7. Part(up[c], n) \in Seq(FileItem)
  BY <1>5, ItemFacts
<1>8. up'[c] = Rest(up[c], n) /\ files'[f] = files[f] \o Part(up[c], n)
      /\ \A g \in File : g # f => files'[g] = files[g]
  BY <1>2, <1>3 DEF TypeInv
<1>9. /\ Len(files'[f]) = Len(files[f]) + n
      /\ \A k \in 1..Len(files[f]) : files'[f][k] = files[f][k]
      /\ \A i \in 1..n : files'[f][Len(files[f]) + i] = Part(up[c], n)[i]
  <2>1. PICK s \in Seq(FileItem), t \in Seq(FileItem) : s = files[f] /\ t = Part(up[c], n)
    BY <1>4, <1>7
  <2>2. /\ Len(s \o t) = Len(s) + Len(t)
        /\ \A k \in 1..Len(s) : (s \o t)[k] = s[k]
        /\ \A i \in 1..Len(t) : (s \o t)[Len(s) + i] = t[i]
    BY JoinFacts
  <2>3. Len(t) = n /\ files'[f] = s \o t
    BY <1>5, <1>8, <2>1
  <2> QED
    BY <2>1, <2>2, <2>3
<1>10. Moves(c, f, n)
  BY <1>5, <1>6, <1>8, <1>9 DEF Moves
<1>11. handler[c] = "receive" /\ handler' = handler /\ job' = job
  BY DEF Receive, HandlerGoes, TypeInv, handlerVars
<1> QED
  BY <1>1, <1>3, <1>10, <1>11

LEMMA FilesKept ==
    ASSUME NEW c \in Client, HandlerStep(c) \/ ClientAct(c), ~Receive(c)
    PROVE  files' = files
<1> USE DEF clientVars, handlerVars, history
<1>1. CASE HandlerStep(c)
  BY <1>1 DEF HandlerStep, ReadCommand, ReadBlank, HandlerLeaves, WriteReply, WriteFails, SendReady,
              ReceiveEnd, ReceiveFails, SendHeader, LoadFails, SendBlock
<1>2. CASE ClientStep(c)
  BY <1>2 DEF ClientStep, ReadMore, ReadResponse, AwaitFails, SendData, SendDataFails,
              SendDone, ReceiveData, ReceiveDone, SendRest, RestFails
<1>3. CASE Connect(c) \/ Leave(c)
  BY <1>3 DEF Connect, Leave
<1>4. CASE Type(c)
  BY <1>4 DEF Type, SendCommand
<1> QED
  BY <1>1, <1>2, <1>3, <1>4 DEF ClientAct

LEMMA FilesGrow ==
    ASSUME TypeInv, LocalInv, NEW c \in Client, HandlerStep(c) \/ ClientAct(c), NEW f \in File
    PROVE  /\ Len(files[f]) \in Nat /\ Len(files'[f]) \in Nat
           /\ Len(files[f]) <= Len(files'[f])
           /\ \A k \in 1..Len(files[f]) : files'[f][k] = files[f][k]
<1>1. Len(files[f]) \in Nat
  BY DEF TypeInv
<1>2. CASE ~Receive(c)
  BY <1>1, <1>2, FilesKept
<1>3. CASE Receive(c)
  <2>1. PICK g \in File, n \in 1..Len(up[c]) : Moves(c, g, n)
    BY <1>3, ReceiveFacts
  <2> QED
    BY <1>1, <2>1 DEF Moves
<1> QED
  BY <1>2, <1>3

-----------------------------------------------------------------------------
(* What each step does, seen at its client.                                 *)

LEMMA Lengths ==
    ASSUME TypeInv, NEW c \in Client
    PROVE  /\ Len(up[c]) \in Nat /\ DOMAIN up[c] = 1..Len(up[c])
           /\ Len(down[c]) \in Nat /\ DOMAIN down[c] = 1..Len(down[c])
           /\ Len(left[c]) \in Nat /\ DOMAIN left[c] = 1..Len(left[c])
           /\ Len(want[c]) \in Nat /\ DOMAIN want[c] = 1..Len(want[c])
           /\ Len(got[c]) \in Nat /\ DOMAIN got[c] = 1..Len(got[c])
           /\ \A i \in 1..Len(up[c]) : up[c][i] \in UpItem
           /\ \A i \in 1..Len(down[c]) : down[c][i] \in DownItem
           /\ count[c] \in Nat /\ progress[c] \in 0..Blocks /\ lost[c] \in Nat
  BY DEF TypeInv

LEMMA NextLengths ==
    ASSUME TypeInv', NEW c \in Client
    PROVE  /\ Len(up'[c]) \in Nat /\ DOMAIN up'[c] = 1..Len(up'[c])
           /\ Len(down'[c]) \in Nat /\ DOMAIN down'[c] = 1..Len(down'[c])
           /\ Len(left'[c]) \in Nat /\ DOMAIN left'[c] = 1..Len(left'[c])
           /\ Len(want'[c]) \in Nat /\ DOMAIN want'[c] = 1..Len(want'[c])
           /\ Len(got'[c]) \in Nat /\ DOMAIN got'[c] = 1..Len(got'[c])
           /\ \A i \in 1..Len(up'[c]) : up'[c][i] \in UpItem
           /\ \A i \in 1..Len(down'[c]) : down'[c][i] \in DownItem
           /\ count'[c] \in Nat /\ progress'[c] \in 0..Blocks /\ lost'[c] \in Nat
  BY DEF TypeInv

LEMMA FileLengths ==
    ASSUME TypeInv, NEW f \in File
    PROVE  /\ Len(files[f]) \in Nat /\ DOMAIN files[f] = 1..Len(files[f])
           /\ \A k \in 1..Len(files[f]) : files[f][k] \in FileItem
  BY DEF TypeInv

LEMMA NextFileLengths ==
    ASSUME TypeInv', NEW f \in File
    PROVE  /\ Len(files'[f]) \in Nat /\ DOMAIN files'[f] = 1..Len(files'[f])
           /\ \A k \in 1..Len(files'[f]) : files'[f][k] \in FileItem
  BY DEF TypeInv

\* What the two sides keep, and what a stream loses or gets.
ClientKept(c) ==
    /\ client'[c] = client[c] /\ count'[c] = count[c] /\ cur'[c] = cur[c]
    /\ response'[c] = response[c] /\ progress'[c] = progress[c]
    /\ want'[c] = want[c] /\ got'[c] = got[c] /\ lost'[c] = lost[c]
    /\ answer'[c] = answer[c] /\ clean'[c] = clean[c]
HandlerKept(c) == handler'[c] = handler[c] /\ job'[c] = job[c] /\ left'[c] = left[c]

UpRest(c, n) ==
    /\ Len(up'[c]) = Len(up[c]) - n
    /\ \A i \in 1..Len(up[c]) - n : up'[c][i] = up[c][i + n]
UpPut(c, x) ==
    /\ Len(up[c]) < Window /\ Len(up'[c]) = Len(up[c]) + 1
    /\ \A i \in 1..Len(up[c]) : up'[c][i] = up[c][i]
    /\ up'[c][Len(up[c]) + 1] = x
DownRest(c, n) ==
    /\ Len(down'[c]) = Len(down[c]) - n
    /\ \A i \in 1..Len(down[c]) - n : down'[c][i] = down[c][i + n]

LEMMA UpRestFacts ==
    ASSUME TypeInv, NEW c \in Client, NEW n \in 0..Len(up[c]),
           up' = [up EXCEPT ![c] = Rest(@, n)]
    PROVE  UpRest(c, n)
<1>1. up[c] \in Seq(UpItem) /\ up'[c] = Rest(up[c], n)
  BY DEF TypeInv
<1> QED
  BY <1>1, RestFacts DEF UpRest

LEMMA UpPutFacts ==
    ASSUME TypeInv, NEW c \in Client, NEW x \in UpItem, Len(up[c]) < Window,
           up' = [up EXCEPT ![c] = Append(@, x)]
    PROVE  UpPut(c, x)
<1>1. up[c] \in Seq(UpItem) /\ up'[c] = Append(up[c], x)
  BY DEF TypeInv
<1> QED
  BY <1>1, AppendFacts DEF UpPut

LEMMA DownRestFacts ==
    ASSUME TypeInv, NEW c \in Client, NEW n \in 1..Len(down[c]),
           down' = [down EXCEPT ![c] = Rest(@, n)]
    PROVE  DownRest(c, n)
<1>1. down[c] \in Seq(DownItem) /\ down'[c] = Rest(down[c], n)
  BY DEF TypeInv
<1>2. n \in 0..Len(down[c])
  BY <1>1
<1>3. /\ Len(Rest(down[c], n)) = Len(down[c]) - n
      /\ \A i \in 1..Len(down[c]) - n : Rest(down[c], n)[i] = down[c][i + n]
  BY <1>1, <1>2, RestFacts
<1> QED
  BY <1>1, <1>3 DEF DownRest

LEMMA HandlerKeeps ==
    ASSUME NEW c \in Client, HandlerStep(c)
    PROVE  UNCHANGED <<clientVars, answer, clean>>
  BY DEF HandlerStep, ReadCommand, ReadBlank, HandlerLeaves, WriteReply, WriteFails,
         SendReady, Receive,
         ReceiveEnd, ReceiveFails, SendHeader, LoadFails, SendBlock, history

LEMMA HandlerKeepsAt ==
    ASSUME NEW c \in Client, HandlerStep(c)
    PROVE  ClientKept(c)
  BY HandlerKeeps DEF ClientKept, clientVars

LEMMA ReadCommandAt ==
    ASSUME TypeInv, NEW c \in Client, ReadCommand(c)
    PROVE  /\ handler[c] = "read" /\ left'[c] = left[c] /\ down'[c] = down[c]
           /\ Len(up[c]) > 0 /\ up[c][1] \in UpItem /\ job'[c] = up[c][1]
           /\ handler'[c] = Branch(up[c][1])
           /\ \E n \in 1..Len(up[c]) : UpRest(c, n)
           /\ files' = files /\ success' = success
<1>1. up[c] \in Seq(UpItem) /\ up[c] # <<>>
  BY DEF TypeInv, ReadCommand
<1>2. Head(up[c]) = up[c][1] /\ up[c][1] \in UpItem /\ Len(up[c]) \in Nat \ {0}
  BY <1>1, HeadFacts
<1>3. PICK n \in 1..Len(up[c]) : up' = [up EXCEPT ![c] = Rest(@, n)]
  BY DEF ReadCommand
<1>4. UpRest(c, n)
  <2>1. n \in 0..Len(up[c])
    BY <1>2
  <2> QED
    BY <1>3, <2>1, UpRestFacts
<1>5. handler[c] = "read" /\ handler'[c] = Branch(Head(up[c])) /\ job'[c] = Head(up[c])
      /\ left' = left /\ down' = down /\ files' = files /\ success' = success
  BY DEF TypeInv, ReadCommand, HandlerGoes, history
<1>6. Branch(Head(up[c])) = Branch(up[c][1])
  BY <1>2 DEF Branch
<1> QED
  BY <1>2, <1>4, <1>5, <1>6

LEMMA ReadBlankAt ==
    ASSUME TypeInv, NEW c \in Client, ReadBlank(c)
    PROVE  /\ handler[c] = "read" /\ HandlerKept(c) /\ down'[c] = down[c]
           /\ \E n \in 1..Len(up[c]) : UpRest(c, n) /\ IsRaw(up[c][1])
           /\ files' = files /\ success' = success
<1>1. PICK n \in 1..Len(up[c]) :
          (\A i \in 1..n : IsRaw(up[c][i])) /\ up' = [up EXCEPT ![c] = Rest(@, n)]
  BY DEF ReadBlank
<1>2. n \in 0..Len(up[c]) /\ 1 \in 1..n
  BY Lengths
<1>3. UpRest(c, n) /\ IsRaw(up[c][1])
  BY <1>1, <1>2, UpRestFacts
<1> QED
  BY <1>3 DEF ReadBlank, HandlerKept, history

LEMMA HandlerLeavesAt ==
    ASSUME TypeInv, NEW c \in Client, HandlerLeaves(c)
    PROVE  /\ handler[c] = "read" /\ handler'[c] = "gone" /\ up'[c] = <<>> /\ Len(up'[c]) = 0
           /\ job'[c] = job[c] /\ left'[c] = left[c] /\ down'[c] = down[c]
           /\ files' = files /\ success' = success
  BY DEF TypeInv, HandlerLeaves, HandlerGoes, Empty, history

LEMMA WriteReplyAt ==
    ASSUME TypeInv, LocalInv, NEW c \in Client, WriteReply(c)
    PROVE  /\ handler[c] = "reply" /\ left'[c] = left[c]
           /\ (handler'[c] = "gone" /\ up'[c] = <<>>) \/ (handler'[c] = "read" /\ up'[c] = up[c])
           /\ \E x \in DownItem : x = Line("reply", Number(job[c])) /\ Sends(c, x)
           /\ files' = files /\ success' = success
<1>1. \E x \in DownItem : x = Line("reply", Number(job[c])) /\ Sends(c, x)
  BY WriteReplySends
<1>2. handler[c] = "reply" /\ left'[c] = left[c] /\ files' = files /\ success' = success
      /\ handler'[c] = (IF Asks(job[c], "close") THEN "gone" ELSE "read")
  BY DEF TypeInv, WriteReply, HandlerGoes, history
<1>3. up'[c] = IF Asks(job[c], "close") THEN <<>> ELSE up[c]
  BY DEF TypeInv, WriteReply, Empty
<1> QED
  BY <1>1, <1>2, <1>3

LEMMA WriteFailsAt ==
    ASSUME TypeInv, NEW c \in Client, WriteFails(c)
    PROVE  /\ Gone(c) /\ handler'[c] = "gone" /\ handler[c] \in {"reply", "ready", "load", "send"}
           /\ up'[c] = <<>> /\ down'[c] = down[c]
           /\ files' = files /\ success' = success
  BY DEF TypeInv, WriteFails, HandlerGoes, Empty, history

LEMMA SendReadyAt ==
    ASSUME TypeInv, LocalInv, NEW c \in Client, SendReady(c)
    PROVE  /\ handler[c] = "ready" /\ handler'[c] = "receive"
           /\ left'[c] = left[c] /\ job'[c] = job[c] /\ up'[c] = up[c]
           /\ \E x \in DownItem : x = Line("ready", Number(job[c])) /\ Sends(c, x)
           /\ files' = files /\ success' = success
<1>1. \E x \in DownItem : x = Line("ready", Number(job[c])) /\ Sends(c, x)
  BY SendReadySends
<1> QED
  BY <1>1 DEF TypeInv, SendReady, HandlerGoes, history

LEMMA ReceiveAt ==
    ASSUME TypeInv, LocalInv, NEW c \in Client, Receive(c)
    PROVE  /\ handler[c] = "receive" /\ handler'[c] = "receive"
           /\ left'[c] = left[c] /\ job'[c] = job[c] /\ down'[c] = down[c]
           /\ \E n \in 1..Len(up[c]) : UpRest(c, n) /\ Moves(c, job[c].file, n)
           /\ success' = success
<1>1. /\ handler[c] = "receive" /\ handler'[c] = "receive" /\ job'[c] = job[c]
      /\ \E n \in 1..Len(up[c]) : Moves(c, job[c].file, n)
  BY ReceiveFacts
<1>2. left' = left /\ down' = down /\ success' = success
  BY DEF Receive, history
<1>3. \A n \in 1..Len(up[c]) : Moves(c, job[c].file, n) => UpRest(c, n)
  BY DEF Moves, UpRest
<1> QED
  BY <1>1, <1>2, <1>3

LEMMA ReceiveEndAt ==
    ASSUME TypeInv, NEW c \in Client, ReceiveEnd(c)
    PROVE  /\ handler[c] = "receive" /\ handler'[c] = "reply" /\ Gone(c) /\ up[c] = <<>>
           /\ left'[c] = left[c] /\ job'[c] = job[c] /\ up'[c] = up[c] /\ down'[c] = down[c]
           /\ files' = files /\ success' = success \union {job[c]}
  BY DEF TypeInv, ReceiveEnd, HandlerGoes

LEMMA ReceiveFailsAt ==
    ASSUME TypeInv, NEW c \in Client, ReceiveFails(c)
    PROVE  /\ handler[c] = "receive" /\ handler'[c] = "reply"
           /\ left'[c] = left[c] /\ job'[c] = job[c] /\ down'[c] = down[c]
           /\ \E n \in 0..Len(up[c]) : UpRest(c, n)
           /\ files' = files /\ success' = success
<1>1. PICK n \in 0..Len(up[c]) : up' = [up EXCEPT ![c] = Rest(@, n)]
  BY DEF ReceiveFails
<1>2. UpRest(c, n)
  BY <1>1, UpRestFacts
<1> QED
  BY <1>2 DEF TypeInv, ReceiveFails, HandlerGoes, history

LEMMA SendHeaderAt ==
    ASSUME TypeInv, LocalInv, NEW c \in Client, SendHeader(c)
    PROVE  /\ handler[c] = "load" /\ handler'[c] = "send" /\ job'[c] = job[c] /\ up'[c] = up[c]
           /\ job[c].file \in File /\ left'[c] = files[job[c].file]
           /\ \E x \in DownItem :
                 x = Header(Number(job[c]), files[job[c].file]) /\ Sends(c, x)
           /\ files' = files /\ success' = success
<1>1. \E x \in DownItem : x = Header(Number(job[c]), files[job[c].file]) /\ Sends(c, x)
  BY SendHeaderSends
<1>2. handler[c] = "load" /\ handler'[c] = "send" /\ job'[c] = job[c] /\ up'[c] = up[c]
      /\ left'[c] = files[job[c].file] /\ files' = files /\ success' = success
  BY DEF TypeInv, SendHeader, HandlerGoes, history
<1>3. job[c].file \in File
  BY <1>2, JobType DEF Busy, Working
<1> QED
  BY <1>1, <1>2, <1>3

LEMMA LoadFailsAt ==
    ASSUME TypeInv, NEW c \in Client, LoadFails(c)
    PROVE  /\ handler[c] = "load" /\ handler'[c] = "reply"
           /\ left'[c] = left[c] /\ job'[c] = job[c] /\ up'[c] = up[c] /\ down'[c] = down[c]
           /\ files' = files /\ success' = success
  BY DEF TypeInv, LoadFails, HandlerGoes, history

LEMMA SendBlockAt ==
    ASSUME TypeInv, LocalInv, NEW c \in Client, SendBlock(c)
    PROVE  /\ handler[c] = "send" /\ job'[c] = job[c] /\ up'[c] = up[c]
           /\ IF Len(left[c]) = 1 THEN handler'[c] = "reply" ELSE handler'[c] = "send"
           /\ Len(left[c]) \in Nat \ {0} /\ Len(left'[c]) = Len(left[c]) - 1
           /\ \A i \in 1..Len(left[c]) - 1 : left'[c][i] = left[c][i + 1]
           /\ left[c][1] \in DownItem /\ ~IsLine(left[c][1]) /\ Sends(c, left[c][1])
           /\ files' = files /\ success' = success
<1>1. left[c] \in Seq(FileItem) /\ left[c] # <<>>
  BY SendBlockSends
<1>2. PICK x \in DownItem : x = Head(left[c]) /\ Sends(c, x)
  BY SendBlockSends
<1>3. /\ Len(left[c]) \in Nat \ {0} /\ Head(left[c]) = left[c][1] /\ left[c][1] \in FileItem
      /\ Len(Tail(left[c])) = Len(left[c]) - 1
      /\ \A i \in 1..Len(left[c]) - 1 : Tail(left[c])[i] = left[c][i + 1]
  BY <1>1, HeadFacts
<1>4. left'[c] = Tail(left[c]) /\ handler[c] = "send" /\ job'[c] = job[c] /\ up'[c] = up[c]
      /\ handler'[c] = (IF Len(left[c]) = 1 THEN "reply" ELSE "send")
      /\ files' = files /\ success' = success
  BY DEF TypeInv, SendBlock, HandlerGoes, history
<1>5. Sends(c, left[c][1])
  BY <1>2, <1>3 DEF Sends
<1>6. left[c][1] \in DownItem /\ ~IsLine(left[c][1])
  BY <1>3, FileFacts, ItemFacts
<1> QED
  BY <1>1, <1>3, <1>4, <1>5, <1>6

LEMMA ConnectAt ==
    ASSUME TypeInv, NEW c \in Client, Connect(c)
    PROVE  /\ client[c] = "off" /\ client'[c] = "idle"
           /\ handler[c] = "none" /\ handler'[c] = "read"
           /\ count'[c] = count[c] /\ cur'[c] = cur[c]
           /\ response'[c] = response[c] /\ progress'[c] = progress[c]
           /\ want'[c] = want[c] /\ got'[c] = got[c] /\ lost'[c] = lost[c]
           /\ answer'[c] = answer[c] /\ clean'[c] = clean[c]
           /\ job'[c] = job[c] /\ left'[c] = left[c] /\ up'[c] = up[c] /\ down'[c] = down[c]
           /\ files' = files /\ success' = success
  BY DEF TypeInv, Connect, HandlerGoes, history

LEMMA SendCommandAt ==
    ASSUME TypeInv, NEW c \in Client, NEW op, NEW f, NEW to \in Onward,
           SendCommand(c, op, f, to), Command(op, f, c, count[c] + 1) \in CommandItem
    PROVE  /\ client[c] = "idle" /\ count[c] < MaxCommands[c] /\ count'[c] = count[c] + 1
           /\ HandlerKept(c)
           /\ response'[c] = response[c] /\ progress'[c] = 0
           /\ want'[c] = want[c] /\ got'[c] = got[c] /\ lost'[c] = lost[c]
           /\ answer'[c] = answer[c] /\ down'[c] = down[c]
           /\ clean'[c] => clean[c] /\ op \notin {"upload", "download"} /\ to = "await"
           /\ \E line \in CommandItem :
                 /\ line = Command(op, f, c, count[c] + 1)
                 /\ \/ Closed(c) /\ client'[c] = "idle" /\ cur'[c] = cur[c] /\ up'[c] = up[c]
                    \/ Closed(c) /\ client'[c] = to /\ cur'[c] = line /\ up'[c] = up[c]
                    \/ ~Closed(c) /\ client'[c] = to /\ cur'[c] = line /\ UpPut(c, line)
           /\ files' = files /\ success' = success
<1>1. PICK line \in CommandItem : line = Command(op, f, c, count[c] + 1)
  OBVIOUS
<1>2. \/ Closed(c) /\ client'[c] = "idle" /\ cur'[c] = cur[c] /\ up'[c] = up[c]
      \/ Closed(c) /\ client'[c] = to /\ cur'[c] = line /\ up'[c] = up[c]
      \/ ~Closed(c) /\ client'[c] = to /\ cur'[c] = line /\ UpPut(c, line)
  <2>1. client[c] = "idle"
    BY DEF SendCommand
  <2>2. CASE Closed(c) /\ UNCHANGED <<client, cur, up>>
    BY <2>1, <2>2
  <2>3. CASE /\ client' = [client EXCEPT ![c] = to]
             /\ cur' = [cur EXCEPT ![c] = line]
             /\ IF Closed(c) THEN UNCHANGED up ELSE Put(up, c, line)
    <3>1. client'[c] = to /\ cur'[c] = line
      BY <2>3 DEF TypeInv
    <3>2. CASE Closed(c)
      BY <2>3, <3>1, <3>2
    <3>3. CASE ~Closed(c)
      <4>1. Len(up[c]) < Window /\ up' = [up EXCEPT ![c] = Append(@, line)]
        BY <2>3, <3>3 DEF Put
      <4> QED
        BY <3>1, <3>3, <4>1, UpPutFacts, ItemFacts
    <3> QED
      BY <3>2, <3>3
  <2> QED
    BY <1>1, <2>2, <2>3 DEF SendCommand
<1>3. /\ client[c] = "idle" /\ count[c] < MaxCommands[c] /\ count'[c] = count[c] + 1
      /\ clean'[c] => clean[c] /\ op \notin {"upload", "download"} /\ to = "await"
      /\ progress'[c] = 0
  BY DEF TypeInv, SendCommand
<1>4. HandlerKept(c) /\ response'[c] = response[c]
      /\ want'[c] = want[c] /\ got'[c] = got[c] /\ lost'[c] = lost[c]
      /\ answer'[c] = answer[c] /\ down'[c] = down[c]
      /\ files' = files /\ success' = success
  BY DEF SendCommand, HandlerKept, handlerVars
<1> QED
  BY <1>1, <1>2, <1>3, <1>4

LEMMA LeaveAt ==
    ASSUME TypeInv, NEW c \in Client, Leave(c)
    PROVE  /\ client[c] \notin {"off", "gone"} /\ client'[c] = "gone"
           /\ count'[c] = count[c] /\ progress'[c] = progress[c]
           /\ response'[c] = None /\ down'[c] = <<>> /\ Len(down'[c]) = 0
           /\ want'[c] = <<>> /\ got'[c] = <<>> /\ Len(got'[c]) = 0 /\ Len(want'[c]) = 0
           /\ answer'[c] = answer[c] /\ clean'[c] = clean[c] /\ HandlerKept(c)
           /\ up'[c] = up[c] /\ files' = files /\ success' = success
  BY DEF TypeInv, Leave, Empty, Nothing, HandlerKept, handlerVars, history

LEMMA ReadMoreAt ==
    ASSUME TypeInv, LocalInv, NEW c \in Client, ReadMore(c)
    PROVE  /\ client[c] = "await" /\ client'[c] = "await"
           /\ count'[c] = count[c] /\ cur'[c] = cur[c] /\ progress'[c] = progress[c]
           /\ want'[c] = want[c] /\ got'[c] = got[c] /\ lost'[c] = lost[c]
           /\ IsRaw(response'[c])
           /\ \E n \in 1..Len(down[c]) : DownRest(c, n) /\ IsRaw(down[c][1])
           /\ answer'[c] = answer[c] /\ clean'[c] = clean[c] /\ HandlerKept(c)
           /\ up'[c] = up[c] /\ files' = files /\ success' = success
<1>1. PICK n \in 1..Len(down[c]) :
          ~HasBreak(Part(down[c], n)) /\ down' = [down EXCEPT ![c] = Rest(@, n)]
  BY DEF ReadMore
<1>2. IsRaw(First(c))
  BY <1>1, NoBreakFacts
<1>3. DownRest(c, n)
  BY <1>1, DownRestFacts
<1>4. response'[c] = First(c) /\ client[c] = "await" /\ client'[c] = "await"
  BY DEF TypeInv, ReadMore, ClientGoes
<1>5. IsRaw(down[c][1])
  <2>1. Part(down[c], n)[1] = down[c][1] /\ 1 \in DOMAIN Part(down[c], n)
    BY ReadFacts
  <2> QED
    BY <1>1, <2>1 DEF HasBreak
<1> QED
  BY <1>2, <1>3, <1>4, <1>5 DEF ReadMore, HandlerKept, handlerVars, history

LEMMA ReadResponseAt ==
    ASSUME TypeInv, LocalInv, NEW c \in Client, ReadResponse(c)
    PROVE  /\ client[c] = "await" /\ client'[c] = After(cur[c].op, First(c))
           /\ count'[c] = count[c] /\ progress'[c] = 0 /\ response'[c] = None
           /\ client'[c] = "idle" \/ cur'[c] = cur[c]
           /\ got'[c] = <<>> /\ Len(got'[c]) = 0
           /\ client'[c] = "receiving" => want'[c] = First(c).content
           /\ \E n \in 1..Len(down[c]) :
                 /\ DownRest(c, n)
                 /\ client'[c] = "receiving" => lost'[c] = n - 1
           /\ First(c) \in DownItem
           /\ IsLine(First(c)) => First(c) = down[c][1]
           /\ answer'[c] = [answer[c] EXCEPT ![cur[c].n] = Taken(cur[c].op, First(c))]
           /\ clean'[c] = clean[c] /\ HandlerKept(c)
           /\ up'[c] = up[c] /\ files' = files /\ success' = success
<1>1. PICK n \in 1..Len(down[c]) :
          /\ down' = [down EXCEPT ![c] = Rest(@, n)]
          /\ lost' = [lost EXCEPT ![c] = IF client'[c] = "receiving" THEN n - 1 ELSE 0]
  BY DEF ReadResponse
<1>2. DownRest(c, n) /\ (client'[c] = "receiving" => lost'[c] = n - 1)
  BY <1>1, DownRestFacts DEF TypeInv
<1>3. First(c) \in DownItem /\ (IsLine(First(c)) => First(c) = down[c][1])
  BY FirstFacts DEF ReadResponse
<1>4. client[c] = "await" /\ client'[c] = After(cur[c].op, First(c))
  BY DEF TypeInv, ReadResponse, ClientGoes
<1>5. answer'[c] = [answer[c] EXCEPT ![cur[c].n] = Taken(cur[c].op, First(c))]
  BY DEF TypeInv, ReadResponse, Answer
<1>6. /\ progress'[c] = 0 /\ response'[c] = None /\ got'[c] = <<>> /\ Len(got'[c]) = 0
      /\ client'[c] = "receiving" => want'[c] = First(c).content
      /\ client'[c] = "idle" \/ cur'[c] = cur[c]
  BY DEF TypeInv, ReadResponse
<1>7. count'[c] = count[c] /\ clean'[c] = clean[c] /\ HandlerKept(c)
      /\ up'[c] = up[c] /\ files' = files /\ success' = success
  BY DEF ReadResponse, HandlerKept, handlerVars
<1> QED
  BY <1>2, <1>3, <1>4, <1>5, <1>6, <1>7

LEMMA AwaitFailsAt ==
    ASSUME TypeInv, NEW c \in Client, AwaitFails(c)
    PROVE  /\ client[c] = "await" /\ client'[c] = "idle"
           /\ count'[c] = count[c] /\ progress'[c] = progress[c] /\ response'[c] = None
           /\ want'[c] = want[c] /\ got'[c] = got[c] /\ lost'[c] = lost[c]
           /\ answer'[c] = answer[c] /\ clean'[c] = FALSE /\ HandlerKept(c)
           /\ down'[c] = down[c] /\ up'[c] = up[c] /\ files' = files /\ success' = success
  BY DEF TypeInv, AwaitFails, ClientGoes, Nothing, HandlerKept, handlerVars

LEMMA SendDataAt ==
    ASSUME TypeInv, LocalInv, NEW c \in Client, SendData(c)
    PROVE  /\ client[c] = "sending" /\ client'[c] = "sending" /\ ~Closed(c)
           /\ progress[c] < Blocks /\ progress'[c] = progress[c] + 1
           /\ count'[c] = count[c] /\ cur'[c] = cur[c] /\ response'[c] = response[c]
           /\ cur[c].n = count[c] /\ count[c] \in Positive /\ progress[c] + 1 \in 1..Blocks
           /\ want'[c] = want[c] /\ got'[c] = got[c] /\ lost'[c] = lost[c]
           /\ UpPut(c, Block(c, count[c], progress[c] + 1))
           /\ answer'[c] = answer[c] /\ clean'[c] = clean[c] /\ HandlerKept(c)
           /\ down'[c] = down[c] /\ files' = files /\ success' = success
<1>1. client[c] = "sending" /\ client'[c] = "sending" /\ ~Closed(c)
      /\ progress[c] < Blocks /\ progress'[c] = progress[c] + 1
      /\ Len(up[c]) < Window
      /\ up' = [up EXCEPT ![c] = Append(@, Block(c, cur[c].n, progress[c] + 1))]
  BY DEF TypeInv, SendData, ClientGoes, Put
<1>2. cur[c].n = count[c] /\ count[c] \in Positive
  BY <1>1, CommandFacts DEF LocalInv, Local
<1>3. progress[c] + 1 \in 1..Blocks
  BY <1>1, TransferAssumption DEF TypeInv, TransferAssumption
<1>4. PICK b \in UpItem : b = Block(c, count[c], progress[c] + 1)
  BY <1>2, <1>3, BlockType, ItemFacts
<1>5. UpPut(c, b)
  BY <1>1, <1>2, <1>4, UpPutFacts
<1>6. UpPut(c, Block(c, count[c], progress[c] + 1))
  BY <1>4, <1>5 DEF UpPut
<1> QED
  BY <1>1, <1>2, <1>3, <1>6 DEF SendData, HandlerKept, handlerVars, history

LEMMA SendRestAt ==
    ASSUME TypeInv, LocalInv, NEW c \in Client, SendRest(c)
    PROVE  /\ client[c] = "writing" /\ client'[c] \in Onward /\ ~Closed(c)
           /\ progress[c] < Blocks /\ progress'[c] = progress[c] + 1
           /\ count'[c] = count[c] /\ cur'[c] = cur[c] /\ response'[c] = response[c]
           /\ cur[c].n = count[c] /\ count[c] \in Positive /\ progress[c] + 1 \in 1..Blocks
           /\ want'[c] = want[c] /\ got'[c] = got[c] /\ lost'[c] = lost[c]
           /\ UpPut(c, Piece(c, count[c]))
           /\ answer'[c] = answer[c] /\ clean'[c] = clean[c] /\ HandlerKept(c)
           /\ down'[c] = down[c] /\ files' = files /\ success' = success
<1>1. client[c] = "writing" /\ client'[c] \in Onward /\ ~Closed(c)
      /\ progress[c] < Blocks /\ progress'[c] = progress[c] + 1
      /\ Len(up[c]) < Window
      /\ up' = [up EXCEPT ![c] = Append(@, Piece(c, cur[c].n))]
  BY DEF TypeInv, SendRest, ClientGoes, Put, Onward
<1>2. cur[c].n = count[c] /\ count[c] \in Positive
  BY <1>1, CommandFacts DEF LocalInv, Local
<1>3. progress[c] + 1 \in 1..Blocks
  BY <1>1, TransferAssumption DEF TypeInv, TransferAssumption
<1>4. PICK b \in UpItem : b = Piece(c, count[c])
  BY <1>2, PieceType
<1>5. UpPut(c, b)
  BY <1>1, <1>2, <1>4, UpPutFacts
<1>6. UpPut(c, Piece(c, count[c]))
  BY <1>4, <1>5 DEF UpPut
<1> QED
  BY <1>1, <1>2, <1>3, <1>6 DEF SendRest, HandlerKept, handlerVars, history

LEMMA RestFailsAt ==
    ASSUME TypeInv, NEW c \in Client, RestFails(c)
    PROVE  /\ client[c] = "writing" /\ Closed(c)
           /\ client'[c] = "idle" \/ (client'[c] = "await" /\ cur'[c] = cur[c])
           /\ count'[c] = count[c] /\ progress'[c] = progress[c]
           /\ response'[c] = response[c]
           /\ want'[c] = want[c] /\ got'[c] = got[c] /\ lost'[c] = lost[c]
           /\ answer'[c] = answer[c] /\ clean'[c] = clean[c] /\ HandlerKept(c)
           /\ down'[c] = down[c] /\ up'[c] = up[c] /\ files' = files /\ success' = success
  BY DEF TypeInv, RestFails, ClientGoes, HandlerKept, handlerVars, history

LEMMA SendEndsAt ==
    ASSUME TypeInv, NEW c \in Client, SendDataFails(c) \/ SendDone(c)
    PROVE  /\ client[c] = "sending" /\ client'[c] = "idle"
           /\ Closed(c) \/ progress[c] = Blocks
           /\ count'[c] = count[c] /\ progress'[c] = progress[c]
           /\ response'[c] = response[c]
           /\ want'[c] = want[c] /\ got'[c] = got[c] /\ lost'[c] = lost[c]
           /\ answer'[c] = answer[c] /\ clean'[c] = clean[c] /\ HandlerKept(c)
           /\ down'[c] = down[c] /\ up'[c] = up[c] /\ files' = files /\ success' = success
<1> USE DEF TypeInv, ClientGoes, HandlerKept, handlerVars, history
<1>1. CASE SendDataFails(c)
  BY <1>1 DEF SendDataFails
<1>2. CASE SendDone(c)
  BY <1>2 DEF SendDone
<1> QED
  BY <1>1, <1>2

LEMMA ReceiveDataAt ==
    ASSUME TypeInv, NEW c \in Client, ReceiveData(c)
    PROVE  /\ client[c] = "receiving" /\ client'[c] = "receiving"
           /\ count'[c] = count[c] /\ cur'[c] = cur[c] /\ progress'[c] = progress[c]
           /\ response'[c] = response[c] /\ want'[c] = want[c] /\ lost'[c] = lost[c]
           /\ \E n \in 1..Len(down[c]) :
                 /\ DownRest(c, n) /\ n <= Len(want[c]) - Len(got[c])
                 /\ Len(got'[c]) = Len(got[c]) + n
                 /\ \A i \in 1..Len(got[c]) : got'[c][i] = got[c][i]
                 /\ \A i \in 1..n : got'[c][Len(got[c]) + i] = down[c][i]
           /\ answer'[c] = answer[c] /\ clean'[c] = clean[c] /\ HandlerKept(c)
           /\ up'[c] = up[c] /\ files' = files /\ success' = success
<1>1. PICK n \in 1..Len(down[c]) :
          /\ n <= Len(want[c]) - Len(got[c])
          /\ got' = [got EXCEPT ![c] = @ \o Part(down[c], n)]
          /\ down' = [down EXCEPT ![c] = Rest(@, n)]
  BY DEF ReceiveData
<1>2. DownRest(c, n)
  BY <1>1, DownRestFacts
<1>3. PICK s \in Seq(DownItem), t \in Seq(DownItem) : s = got[c] /\ t = Part(down[c], n)
  BY ReadFacts DEF TypeInv
<1>4. Len(t) = n /\ \A i \in 1..n : t[i] = down[c][i]
  BY <1>3, ReadFacts
<1>5. /\ Len(s \o t) = Len(s) + Len(t)
      /\ \A i \in 1..Len(s) : (s \o t)[i] = s[i]
      /\ \A i \in 1..Len(t) : (s \o t)[Len(s) + i] = t[i]
  BY JoinFacts
<1>6. got'[c] = s \o t
  BY <1>1, <1>3 DEF TypeInv
<1>7. /\ Len(got'[c]) = Len(got[c]) + n
      /\ \A i \in 1..Len(got[c]) : got'[c][i] = got[c][i]
      /\ \A i \in 1..n : got'[c][Len(got[c]) + i] = down[c][i]
  BY <1>3, <1>4, <1>5, <1>6
<1> QED
  BY <1>1, <1>2, <1>7
     DEF TypeInv, ReceiveData, ClientGoes, HandlerKept, handlerVars, history

LEMMA ReceiveDoneAt ==
    ASSUME TypeInv, NEW c \in Client, ReceiveDone(c)
    PROVE  /\ client[c] = "receiving" /\ client'[c] = "idle"
           /\ count'[c] = count[c] /\ progress'[c] = progress[c]
           /\ response'[c] = response[c]
           /\ want'[c] = <<>> /\ got'[c] = <<>> /\ Len(got'[c]) = 0 /\ Len(want'[c]) = 0
           /\ answer'[c] = answer[c] /\ clean'[c] = clean[c] /\ HandlerKept(c)
           /\ down'[c] = down[c] /\ up'[c] = up[c] /\ files' = files /\ success' = success
  BY DEF TypeInv, ReceiveDone, ClientGoes, Empty, HandlerKept, handlerVars, history

\* The cases of a client's step.
LEMMA ClientCases ==
    ASSUME TypeInv, NEW c \in Client, ClientAct(c)
    PROVE  \/ Connect(c) \/ Leave(c) \/ ReadMore(c) \/ ReadResponse(c) \/ AwaitFails(c)
           \/ SendData(c) \/ SendDataFails(c) \/ SendDone(c) \/ ReceiveData(c)
           \/ ReceiveDone(c) \/ SendRest(c) \/ RestFails(c)
           \/ \E op \in Ops, f \in File \union {None}, to \in Onward :
                 /\ SendCommand(c, op, f, to) /\ Sized(op, to)
                 /\ Command(op, f, c, count[c] + 1) \in CommandItem
<1>1. ASSUME Type(c)
      PROVE  \E op \in Ops, f \in File \union {None}, to \in Onward :
                 /\ SendCommand(c, op, f, to) /\ Sized(op, to)
                 /\ Command(op, f, c, count[c] + 1) \in CommandItem
  <2>1. PICK op \in Ops, f \in File \union {None}, to \in Onward :
              /\ SendCommand(c, op, f, to) /\ Sized(op, to)
              /\ \/ op \in {"simple", "close"} /\ f = None
                 \/ op \in {"upload", "download"} /\ f \in File
    BY <1>1, TypeFacts
  <2>2. count[c] \in Nat
    BY DEF TypeInv
  <2>3. Command(op, f, c, count[c] + 1) \in CommandItem
    BY <2>1, <2>2, CommandType
  <2> QED
    BY <2>1, <2>3
<1> QED
  BY <1>1 DEF ClientAct, ClientStep

-----------------------------------------------------------------------------
(* What holds of each client and its handler.                               *)

LEMMA LocalSame ==
    ASSUME TypeInv, LocalInv, NEW d \in Client, Same(d),
           \A f \in File : files[f] # <<>> => files'[f] # <<>>
    PROVE  Local(d)'
<1>1. Local(d)
  BY DEF LocalInv
<1>2. handler[d] = "load" => job[d].file \in File
  BY JobType DEF Busy, Working
<1>3. handler'[d] = "load" => files'[job'[d].file] # <<>>
  BY <1>1, <1>2 DEF Local, Same
<1> QED
  BY <1>1, <1>3 DEF Local, Same, Busy, Gone, Closed

LEMMA FilesStay ==
    ASSUME TypeInv, LocalInv, NEW c \in Client, HandlerStep(c) \/ ClientAct(c)
    PROVE  \A f \in File : files[f] # <<>> => files'[f] # <<>>
<1>1. SUFFICES ASSUME NEW f \in File, files[f] # <<>>
               PROVE  files'[f] # <<>>
  OBVIOUS
<1>2. Len(files[f]) > 0
  BY <1>1 DEF TypeInv
<1>3. Len(files'[f]) > 0
  BY <1>2, FilesGrow
<1> QED
  BY <1>3

LEMMA DownLength ==
    ASSUME TypeInv, LocalInv, NEW c \in Client, NEW x \in DownItem, Sends(c, x)
    PROVE  Len(down'[c]) <= Window /\ (Gone(c) => down'[c] = <<>>)
<1>1. Len(down[c]) \in Nat /\ Len(down[c]) <= Window /\ (Gone(c) => down[c] = <<>>)
      /\ Window \in Nat
  BY TransferAssumption DEF LocalInv, Local, TransferAssumption, TypeInv
<1> QED
  BY <1>1, SendsFacts

LEMMA HandlerLocal ==
    ASSUME TypeInv, LocalInv, TypeInv', NEW c \in Client, HandlerStep(c)
    PROVE  Local(c)'
<1> USE DEF Local, Busy, Working, Gone, Closed
<1>a. Local(c) /\ ClientKept(c)
  BY HandlerKeepsAt DEF LocalInv
<1>b. \A x \in DownItem : Sends(c, x) => Len(down'[c]) <= Window /\ (Gone(c) => down'[c] = <<>>)
  BY DownLength
<1>c. /\ Len(up[c]) \in Nat /\ Len(down[c]) \in Nat /\ Len(left[c]) \in Nat
      /\ Len(up'[c]) \in Nat /\ Window \in Nat
      /\ handler[c] \in HandlerPC
  BY Lengths, NextLengths, TransferAssumption DEF TransferAssumption, TypeInv
<1>e. up'[c] = <<>> => Len(up'[c]) = 0
  BY NoneFacts
<1>f. /\ handler[c] \in {"ready", "receive", "load", "send"} =>
            job[c] \in CommandItem /\ job[c].file \in File
      /\ Busy(c) => job[c] \in UpItem
  BY JobType
<1>d. \A f \in File : files[f] # <<>> => files'[f] # <<>>
  BY FilesStay
<1> USE DEF ClientKept, UpRest, Asks, Branch
<1>1. CASE ReadCommand(c)
  BY <1>a, <1>b, <1>c, <1>d, <1>e, <1>f, <1>1, ReadCommandAt
<1>2. CASE HandlerLeaves(c)
  BY <1>a, <1>b, <1>c, <1>d, <1>e, <1>f, <1>2, HandlerLeavesAt
<1>3. CASE WriteReply(c)
  BY <1>a, <1>b, <1>c, <1>d, <1>e, <1>f, <1>3, WriteReplyAt
<1>4. CASE WriteFails(c)
  BY <1>a, <1>b, <1>c, <1>d, <1>e, <1>f, <1>4, WriteFailsAt
<1>5. CASE SendReady(c)
  BY <1>a, <1>b, <1>c, <1>d, <1>e, <1>f, <1>5, SendReadyAt
<1>6. CASE Receive(c)
  BY <1>a, <1>b, <1>c, <1>d, <1>e, <1>f, <1>6, ReceiveAt
<1>7. CASE ReceiveEnd(c)
  BY <1>a, <1>b, <1>c, <1>d, <1>e, <1>f, <1>7, ReceiveEndAt
<1>8. CASE ReceiveFails(c)
  BY <1>a, <1>b, <1>c, <1>d, <1>e, <1>f, <1>8, ReceiveFailsAt
<1>9. CASE SendHeader(c)
  BY <1>a, <1>b, <1>c, <1>d, <1>e, <1>f, <1>9, SendHeaderAt
<1>10. CASE LoadFails(c)
  BY <1>a, <1>b, <1>c, <1>d, <1>e, <1>f, <1>10, LoadFailsAt
<1>11. CASE SendBlock(c)
  <2>1. /\ handler'[c] \in {"reply", "send"} /\ handler[c] = "send"
        /\ handler'[c] = "send" => Len(left'[c]) > 0
        /\ job'[c] = job[c] /\ up'[c] = up[c] /\ files' = files
        /\ Len(down'[c]) <= Window /\ (Gone(c) => down'[c] = <<>>)
    <3>1. left[c][1] \in DownItem /\ Sends(c, left[c][1])
      BY <1>11, SendBlockAt
    <3>2. Len(down'[c]) <= Window /\ (Gone(c) => down'[c] = <<>>)
      BY <3>1, DownLength
    <3>3. /\ handler[c] = "send" /\ job'[c] = job[c] /\ up'[c] = up[c] /\ files' = files
          /\ IF Len(left[c]) = 1 THEN handler'[c] = "reply" ELSE handler'[c] = "send"
          /\ Len(left[c]) \in Nat \ {0} /\ Len(left'[c]) = Len(left[c]) - 1
      BY <1>11, SendBlockAt
    <3>4. CASE Len(left[c]) = 1
      BY <3>2, <3>3, <3>4
    <3>5. CASE Len(left[c]) # 1
      <4>1. Len(left[c]) \in Nat /\ Len(left[c]) # 0 /\ Len(left'[c]) = Len(left[c]) - 1
        BY <3>3
      <4>2. Len(left'[c]) > 0
        <5>1. PICK m \in Nat : m = Len(left[c])
          BY <4>1
        <5>2. m # 0 /\ m # 1 /\ Len(left'[c]) = m - 1
          BY <3>5, <4>1, <5>1
        <5>3. m - 1 > 0
          BY <5>2
        <5> QED
          BY <5>2, <5>3
      <4> QED
        BY <3>2, <3>3, <3>5, <4>2
    <3> QED
      BY <3>4, <3>5
  <2>2. handler'[c] = "send" => left'[c] # <<>>
    BY <2>1, NoneFacts
  <2> QED
    BY <1>a, <1>c, <1>f, <2>1, <2>2
<1>12. CASE ReadBlank(c)
  BY <1>a, <1>b, <1>c, <1>d, <1>e, <1>f, <1>12, ReadBlankAt DEF HandlerKept
<1> QED
  BY <1>1, <1>2, <1>3, <1>4, <1>5, <1>6, <1>7, <1>8, <1>9, <1>10, <1>11, <1>12
     DEF HandlerStep

LEMMA TakenFacts ==
    ASSUME TypeInv, LocalInv, ReplyInv, NEW c \in Client, ReadResponse(c)
    PROVE  /\ Taken(cur[c].op, First(c)) \in -1..MaxCommands[c]
           /\ Taken(cur[c].op, First(c)) > 0 =>
                 /\ IsLine(down[c][1]) /\ 1 \in DOMAIN down[c]
                 /\ Taken(cur[c].op, First(c)) = down[c][1].to
<1>1. MaxCommands[c] \in Nat /\ count[c] \in Nat /\ count[c] <= MaxCommands[c]
  BY TransferAssumption DEF TransferAssumption, TypeInv, LocalInv, Local
<1>2. /\ First(c) \in DownItem
      /\ IsLine(First(c)) => First(c) = down[c][1]
      /\ 1 \in DOMAIN down[c]
  <2>1. First(c) \in DownItem /\ (IsLine(First(c)) => First(c) = down[c][1])
    BY ReadResponseAt
  <2>2. PICK n \in 1..Len(down[c]) : DownRest(c, n)
    BY ReadResponseAt
  <2>3. 1 \in DOMAIN down[c]
    BY <2>2, Lengths
  <2> QED
    BY <2>1, <2>3
<1>3. IsLine(First(c)) => down[c][1].to \in Positive /\ down[c][1].to <= count[c]
  BY <1>2, DownFacts DEF ReplyInv, Reply, Handled
<1> QED
  BY <1>1, <1>2, <1>3 DEF Taken, IsLine, Positive

LEMMA ClientLocal ==
    ASSUME TypeInv, LocalInv, ReplyInv, TypeInv', NEW c \in Client, ClientAct(c)
    PROVE  Local(c)'
<1> USE DEF Local, Busy, Working, Gone, Closed, HandlerKept, UpRest, UpPut, DownRest
<1>a. Local(c)
  BY DEF LocalInv
<1>c. /\ Len(up[c]) \in Nat /\ Len(down[c]) \in Nat /\ Len(up'[c]) \in Nat
      /\ Len(got[c]) \in Nat /\ Len(want[c]) \in Nat /\ Len(want'[c]) \in Nat
      /\ Window \in Nat /\ client[c] \in ClientPC /\ count[c] \in Nat /\ MaxCommands[c] \in Nat
      /\ Len(down'[c]) \in Nat
  BY Lengths, NextLengths, TransferAssumption DEF TransferAssumption, TypeInv
<1>1. CASE Connect(c)
  BY <1>a, <1>c, <1>1, ConnectAt
<1>2. CASE Leave(c)
  BY <1>a, <1>c, <1>2, LeaveAt
<1>3. CASE ReadMore(c)
  <2>1. PICK n \in 1..Len(down[c]) : DownRest(c, n)
    BY <1>3, ReadMoreAt
  <2>2. Len(down'[c]) <= Window
    BY <1>a, <1>c, <2>1 DEF DownRest
  <2>3. IsRaw(response'[c])
    BY <1>3, ReadMoreAt
  <2> QED
    BY <1>a, <1>c, <2>2, <2>3, <1>3, ReadMoreAt
<1>4. CASE ReadResponse(c)
  <2>1. PICK n \in 1..Len(down[c]) : DownRest(c, n)
    BY <1>4, ReadResponseAt
  <2>2. Len(down'[c]) <= Window
    BY <1>a, <1>c, <2>1 DEF DownRest
  <2>3. cur[c] \in CommandItem /\ cur[c].n = count[c] /\ cur[c].n \in 1..MaxCommands[c]
    <3>1. cur[c] \in CommandItem /\ cur[c].n = count[c]
      BY <1>a, <1>4, ReadResponseAt
    <3>2. cur[c].n \in Positive
      BY <3>1, CommandFacts
    <3> QED
      BY <1>a, <1>c, <3>1, <3>2 DEF Positive
  <2>4. Taken(cur[c].op, First(c)) \in -1..MaxCommands[c]
    BY <1>4, <2>3, TakenFacts
  <2>5. answer'[c] \in [1..MaxCommands[c] -> -1..MaxCommands[c]]
    <3>1. answer'[c] = [answer[c] EXCEPT ![cur[c].n] = Taken(cur[c].op, First(c))]
      BY <1>4, ReadResponseAt
    <3>2. PICK v \in -1..MaxCommands[c] : v = Taken(cur[c].op, First(c))
      BY <2>4
    <3> QED
      BY <1>a, <2>3, <3>1, <3>2
  <2>6. client'[c] \in {"sending", "receiving", "idle"} /\ client'[c] # "writing"
        /\ (client'[c] = "sending" => cur[c].op = "upload")
        /\ (client'[c] = "receiving" => cur[c].op = "download")
    BY <1>4, ReadResponseAt DEF After
  <2> QED
    <3>1. /\ count'[c] = count[c] /\ response'[c] = None /\ Len(got'[c]) = 0
          /\ client'[c] = "idle" \/ cur'[c] = cur[c]
          /\ HandlerKept(c) /\ up'[c] = up[c] /\ files' = files
          /\ client[c] = "await"
      BY <1>4, ReadResponseAt
    <3>2. /\ client'[c] \in {"writing", "await", "sending", "receiving"} =>
                 cur'[c] \in CommandItem /\ cur'[c].by = c /\ cur'[c].n = count'[c]
          /\ client'[c] = "sending" => cur'[c].op = "upload"
          /\ client'[c] = "receiving" => cur'[c].op = "download"
      BY <1>a, <2>6, <3>1
    <3>3. /\ Busy(c)' => job'[c] \in UpItem
          /\ handler'[c] \in {"ready", "receive"} => Asks(job'[c], "upload")
          /\ handler'[c] \in {"load", "send"} => Asks(job'[c], "download")
          /\ handler'[c] = "load" => files'[job'[c].file] # <<>>
          /\ handler'[c] = "send" => left'[c] # <<>>
      BY <1>a, <3>1
    <3>4. /\ count'[c] <= MaxCommands[c] /\ Len(got'[c]) <= Len(want'[c])
          /\ Len(up'[c]) <= Window /\ Len(down'[c]) <= Window
      BY <1>a, <1>c, <2>2, <3>1
    <3>5. (Gone(c)' => down'[c] = <<>>) /\ (Closed(c)' => up'[c] = <<>>)
      BY <1>a, <2>6, <3>1
    <3> QED
      BY <2>5, <2>6, <3>1, <3>2, <3>3, <3>4, <3>5
<1>5. CASE AwaitFails(c)
  BY <1>a, <1>c, <1>5, AwaitFailsAt
<1>6. CASE SendData(c)
  <2>1. Len(up'[c]) <= Window
    BY <1>c, <1>6, SendDataAt
  <2>2. /\ client[c] = "sending" /\ client'[c] = "sending" /\ ~Closed(c)
        /\ count'[c] = count[c] /\ cur'[c] = cur[c] /\ response'[c] = response[c]
        /\ want'[c] = want[c] /\ got'[c] = got[c] /\ answer'[c] = answer[c]
        /\ HandlerKept(c) /\ down'[c] = down[c] /\ files' = files
    BY <1>6, SendDataAt
  <2> QED
    BY <1>a, <1>c, <2>1, <2>2
<1>7. CASE SendDataFails(c) \/ SendDone(c)
  BY <1>a, <1>c, <1>7, SendEndsAt
<1>8. CASE ReceiveData(c)
  <2>1. PICK n \in 1..Len(down[c]) :
            DownRest(c, n) /\ n <= Len(want[c]) - Len(got[c]) /\ Len(got'[c]) = Len(got[c]) + n
    BY <1>8, ReceiveDataAt
  <2>2. Len(down'[c]) <= Window /\ Len(got'[c]) <= Len(want[c])
    BY <1>a, <1>c, <2>1 DEF DownRest
  <2> QED
    BY <1>a, <1>c, <2>2, <1>8, ReceiveDataAt
<1>9. CASE ReceiveDone(c)
  BY <1>a, <1>c, <1>9, ReceiveDoneAt
<1>10. ASSUME NEW op \in Ops, NEW f \in File \union {None}, NEW to \in Onward,
             SendCommand(c, op, f, to), Sized(op, to),
             Command(op, f, c, count[c] + 1) \in CommandItem
       PROVE  Local(c)'
  <2>1. PICK line \in CommandItem :
            /\ line = Command(op, f, c, count[c] + 1)
            /\ \/ Closed(c) /\ client'[c] = "idle" /\ cur'[c] = cur[c] /\ up'[c] = up[c]
               \/ Closed(c) /\ client'[c] = to /\ cur'[c] = line /\ up'[c] = up[c]
               \/ ~Closed(c) /\ client'[c] = to /\ cur'[c] = line /\ UpPut(c, line)
    BY <1>10, SendCommandAt
  <2>2. line.by = c /\ line.n = count[c] + 1 /\ line.op = op
    BY <2>1 DEF Command
  <2>3. Len(up'[c]) <= Window /\ (Closed(c) => up'[c] = up[c])
    BY <1>a, <1>c, <2>1 DEF UpPut
  <2>4. client'[c] = "idle" \/ (client'[c] = to /\ cur'[c] = line)
    BY <2>1
  <2>5. count'[c] = count[c] + 1 /\ count'[c] <= MaxCommands[c]
    BY <1>c, <1>10, SendCommandAt
  <2>6. /\ HandlerKept(c) /\ response'[c] = response[c] /\ progress'[c] = 0
        /\ want'[c] = want[c] /\ got'[c] = got[c]
        /\ answer'[c] = answer[c] /\ down'[c] = down[c] /\ files' = files
    BY <1>10, SendCommandAt
  <2> QED
    BY <1>a, <1>c, <1>10, <2>2, <2>3, <2>4, <2>5, <2>6 DEF Onward, Sized
<1>11. CASE SendRest(c)
  <2>1. Len(up'[c]) <= Window
    BY <1>c, <1>11, SendRestAt
  <2>2. /\ client[c] = "writing" /\ client'[c] \in Onward /\ ~Closed(c)
        /\ count'[c] = count[c] /\ cur'[c] = cur[c] /\ response'[c] = response[c]
        /\ want'[c] = want[c] /\ got'[c] = got[c] /\ answer'[c] = answer[c]
        /\ HandlerKept(c) /\ down'[c] = down[c] /\ files' = files
    BY <1>11, SendRestAt
  <2> QED
    BY <1>a, <1>c, <2>1, <2>2 DEF Onward
<1>12. CASE RestFails(c)
  BY <1>a, <1>c, <1>12, RestFailsAt
<1> QED
  BY <1>1, <1>2, <1>3, <1>4, <1>5, <1>6, <1>7, <1>8, <1>9, <1>10, <1>11, <1>12, ClientCases

LEMMA LocalStep ==
    ASSUME TypeInv, LocalInv, ReplyInv, TypeInv', [Next]_vars
    PROVE  LocalInv'
<1>1. CASE UNCHANGED vars
  BY <1>1 DEF LocalInv, Local, Busy, Gone, Closed, vars, clientVars, handlerVars, history
<1>2. CASE ServerExits
  <2>1. SUFFICES ASSUME NEW d \in Client
                 PROVE  Local(d)'
    BY DEF LocalInv
  <2>2. Len(up'[d]) = 0 /\ Window \in Nat /\ Local(d)
    BY <1>2, ExitFacts, NoneFacts, TransferAssumption DEF TransferAssumption, LocalInv
  <2> QED
    BY <1>2, <2>2, ExitFacts DEF Local, Busy, Working, Gone, Closed
<1>3. ASSUME NEW c \in Client, HandlerStep(c) \/ ClientAct(c)
      PROVE  LocalInv'
  <2>1. \A d \in Client : d # c => Same(d)
    BY <1>3, HandlerElsewhere, ClientElsewhere DEF ClientAct
  <2>2. \A d \in Client : d # c => Local(d)'
    BY <1>3, <2>1, LocalSame, FilesStay
  <2>3. Local(c)'
    BY <1>3, HandlerLocal, ClientLocal
  <2> QED
    BY <2>2, <2>3 DEF LocalInv
<1> QED
  BY <1>1, <1>2, <1>3, NextCases

-----------------------------------------------------------------------------
(* What a client downloads.                                                 *)

LEMMA CarrySame ==
    ASSUME TypeInv, TypeInv', NEW c \in Client, NEW content \in Seq(FileItem), NEW r \in Int,
           Carries(c, content, r), down'[c] = down[c],
           \/ handler'[c] = "gone" \/ handler[c] \notin {"send", "gone"}
           \/ handler'[c] = handler[c] /\ left'[c] = left[c]
    PROVE  Carries(c, content, r)'
<1>1. \A i \in DOMAIN down'[c] :
          r + i \in DOMAIN content => down'[c][i] = content[r + i]
  BY DEF Carries
<1>2. CASE handler'[c] = "gone"
  BY <1>1, <1>2 DEF Carries, Closed
<1>3. CASE handler[c] \notin {"send", "gone"}
  BY <1>1, <1>3 DEF Carries, Closed
<1>4. CASE handler'[c] = handler[c] /\ left'[c] = left[c]
  BY <1>1, <1>4 DEF Carries, Closed
<1> QED
  BY <1>2, <1>3, <1>4

LEMMA CarryRest ==
    ASSUME TypeInv, TypeInv', NEW c \in Client, NEW content \in Seq(FileItem), NEW r \in Int,
           Carries(c, content, r), HandlerKept(c), NEW n \in 1..Len(down[c]), DownRest(c, n)
    PROVE  Carries(c, content, r + n)'
<1>1. PICK m \in Nat : m = Len(down[c]) /\ n \in 1..m
  BY Lengths
<1>2. Len(down'[c]) = m - n /\ \A i \in 1..m - n : down'[c][i] = down[c][i + n]
  BY <1>1 DEF DownRest
<1>3. DOMAIN down'[c] = 1..m - n /\ DOMAIN down[c] = 1..m
  BY <1>1, <1>2, Lengths, NextLengths
<1>4. ASSUME NEW i \in 1..m - n, r + n + i \in DOMAIN content
      PROVE  down'[c][i] = content[r + n + i]
  <2>1. i + n \in 1..m /\ r + (i + n) = r + n + i
    BY <1>1
  <2>2. down[c][i + n] = content[r + (i + n)]
    BY <1>3, <1>4, <2>1 DEF Carries
  <2> QED
    BY <1>2, <2>1, <2>2
<1>5. r + n + Len(down'[c]) = r + Len(down[c])
  <2>1. PICK a \in Int : a = n
    BY <1>1
  <2>2. r + a + (m - a) = r + m
    OBVIOUS
  <2> QED
    BY <1>1, <1>2, <2>1, <2>2
<1>6. (r + n + Len(down'[c]) < Len(content)) =>
           \/ Closed(c)
           \/ /\ handler[c] = "send"
              /\ Len(left[c]) = Len(content) - (r + n + Len(down'[c]))
              /\ \A i \in DOMAIN left[c] :
                     left[c][i] = content[r + n + Len(down'[c]) + i]
  BY <1>5 DEF Carries
<1> QED
  BY <1>3, <1>4, <1>6 DEF Carries, Closed, HandlerKept

LEMMA CarryLine ==
    ASSUME TypeInv, TypeInv', NEW c \in Client, NEW content \in Seq(FileItem), NEW r \in Int,
           Carries(c, content, r), handler[c] \notin {"send", "gone"},
           NEW x \in DownItem, Sends(c, x), ~Gone(c)
    PROVE  Carries(c, content, r)'
<1>1. PICK m \in Nat : m = Len(down[c])
  BY Lengths
<1>2. Len(down'[c]) = m + 1 /\ \A i \in 1..m : down'[c][i] = down[c][i]
  BY <1>1, SendsFacts
<1>3. DOMAIN down'[c] = 1..m + 1 /\ DOMAIN down[c] = 1..m
  BY <1>1, <1>2, Lengths, NextLengths
<1>4. PICK k \in Nat : k = Len(content) /\ DOMAIN content = 1..k
  OBVIOUS
<1>5. r + m >= k
  <2>1. r + Len(down[c]) < Len(content) => Closed(c) \/ handler[c] = "send"
    BY Zenon DEF Carries
  <2>2. ~(r + Len(down[c]) < Len(content))
    BY <2>1 DEF Closed
  <2>3. ~(r + m < k)
    BY <1>1, <1>4, <2>2
  <2> QED
    BY <2>3
<1>6. ASSUME NEW i \in 1..m + 1, r + i \in 1..k
      PROVE  down'[c][i] = content[r + i]
  <2>1. i \in 1..m
    BY <1>5, <1>6
  <2>2. down[c][i] = content[r + i]
    BY <1>3, <1>4, <1>6, <2>1 DEF Carries
  <2> QED
    BY <1>2, <2>1, <2>2
<1>7. ~(r + Len(down'[c]) < Len(content))
  BY <1>2, <1>4, <1>5
<1> QED
  BY <1>3, <1>4, <1>6, <1>7 DEF Carries

LEMMA CarryBlock ==
    ASSUME TypeInv, LocalInv, TypeInv', NEW c \in Client, NEW content \in Seq(FileItem),
           NEW r \in Int, Carries(c, content, r), SendBlock(c), ~Gone(c)
    PROVE  Carries(c, content, r)'
<1>1. PICK m \in Nat : m = Len(down[c])
  BY Lengths
<1>2. Len(down'[c]) = m + 1 /\ (\A i \in 1..m : down'[c][i] = down[c][i])
      /\ down'[c][m + 1] = left[c][1]
  <2>1. left[c][1] \in DownItem /\ Sends(c, left[c][1])
    BY SendBlockAt
  <2>2. PICK x \in DownItem : x = left[c][1] /\ Sends(c, x)
    BY <2>1
  <2> QED
    BY <1>1, <2>2, SendsFacts
<1>3. DOMAIN down'[c] = 1..m + 1 /\ DOMAIN down[c] = 1..m
  BY <1>1, <1>2, Lengths, NextLengths
<1>4. PICK k \in Nat : k = Len(content) /\ DOMAIN content = 1..k
  OBVIOUS
<1>5. PICK l \in Nat : l = Len(left[c]) /\ l # 0 /\ DOMAIN left[c] = 1..l
  BY SendBlockAt, Lengths
<1>6. /\ Len(left'[c]) = l - 1 /\ DOMAIN left'[c] = 1..l - 1 /\ handler[c] = "send"
      /\ \A i \in 1..l - 1 : left'[c][i] = left[c][i + 1]
      /\ l # 1 => handler'[c] = "send"
  BY <1>5, SendBlockAt, NextLengths
<1>7. r + m < k => l = k - (r + m) /\ \A i \in 1..l : left[c][i] = content[r + m + i]
  BY <1>1, <1>4, <1>5, <1>6 DEF Carries, Closed
<1>8. ASSUME NEW i \in 1..m + 1, r + i \in 1..k
      PROVE  down'[c][i] = content[r + i]
  <2>1. CASE i \in 1..m
    BY <1>2, <1>3, <1>4, <1>8, <2>1 DEF Carries
  <2>2. CASE i = m + 1
    <3>1. r + m < k /\ 1 \in 1..l /\ r + m + 1 = r + i
      BY <1>5, <1>8, <2>2
    <3>2. left[c][1] = content[r + m + 1]
      BY <1>7, <3>1
    <3> QED
      BY <1>2, <2>2, <3>1, <3>2
  <2> QED
    BY <2>1, <2>2
<1>9. ASSUME r + (m + 1) < k
      PROVE  /\ handler'[c] = "send" /\ l - 1 = k - (r + (m + 1))
             /\ \A i \in 1..l - 1 : left'[c][i] = content[r + (m + 1) + i]
  <2>1. r + m < k
    BY <1>9
  <2>2. l = k - (r + m) /\ \A i \in 1..l : left[c][i] = content[r + m + i]
    BY <1>7, <2>1
  <2>3. l # 1 /\ l - 1 = k - (r + (m + 1))
    BY <1>9, <2>2
  <2>4. ASSUME NEW i \in 1..l - 1
        PROVE  left'[c][i] = content[r + (m + 1) + i]
    <3>1. i + 1 \in 1..l /\ r + m + (i + 1) = r + (m + 1) + i
      OBVIOUS
    <3>2. left[c][i + 1] = content[r + m + (i + 1)]
      BY <2>2, <3>1
    <3> QED
      BY <1>6, <3>1, <3>2
  <2> QED
    BY <1>6, <2>3, <2>4
<1> QED
  BY <1>2, <1>3, <1>4, <1>6, <1>8, <1>9 DEF Carries

\* The client reads into the same target, or into none.
TargetKept(c) ==
    /\ client'[c] = "receiving" =>
           client[c] = "receiving" /\ want'[c] = want[c] /\ got'[c] = got[c] /\ lost'[c] = lost[c]
    /\ \/ Len(got'[c]) = 0
       \/ want'[c] = want[c] /\ got'[c] = got[c] /\ lost'[c] = lost[c]

LEMMA StreamIntro ==
    ASSUME TypeInv', NEW c \in Client,
           \A p \in DOMAIN down'[c], s \in Seq(FileItem) :
               down'[c][p].kind = "header" /\ down'[c][p].content = s => Carries(c, s, 0 - p)',
           \A s \in Seq(FileItem), r \in Int :
               client'[c] = "receiving" /\ want'[c] = s /\ lost'[c] + Len(got'[c]) = r
                   => Carries(c, s, r)',
           \A i \in DOMAIN got'[c] :
               lost'[c] + i \in DOMAIN want'[c] => got'[c][i] = want'[c][lost'[c] + i]
    PROVE  Stream(c)'
<1>1. ASSUME NEW p \in DOMAIN down'[c], down'[c][p].kind = "header"
      PROVE  down'[c][p].content \in Seq(FileItem)
  BY <1>1, NextLengths, DownFacts
<1>2. want'[c] \in Seq(FileItem) /\ lost'[c] + Len(got'[c]) \in Int
  BY NextLengths DEF TypeInv
<1> QED
  BY <1>1, <1>2 DEF Stream, Carries, Closed

LEMMA TargetFacts ==
    ASSUME TypeInv, TypeInv', NEW c \in Client, Stream(c), TargetKept(c),
           \A content \in Seq(FileItem), r \in Int :
               Carries(c, content, r) => Carries(c, content, r)',
           \A p \in DOMAIN down'[c] : down'[c][p].kind = "header" =>
               (p \in DOMAIN down[c] /\ down'[c][p] = down[c][p])
    PROVE  Stream(c)'
<1>1. ASSUME NEW p \in DOMAIN down'[c], NEW s \in Seq(FileItem),
             down'[c][p].kind = "header", down'[c][p].content = s
      PROVE  Carries(c, s, 0 - p)'
  <2>1. p \in DOMAIN down[c] /\ down'[c][p] = down[c][p]
    BY <1>1
  <2>2. p \in Int /\ 0 - p \in Int
    BY <2>1, Lengths
  <2>3. PICK r \in Int : r = 0 - p
    BY <2>2
  <2>4. Carries(c, s, r)
    BY <1>1, <2>1, <2>3 DEF Stream
  <2> QED
    BY <2>3, <2>4
<1>2. ASSUME NEW s \in Seq(FileItem), NEW r \in Int, client'[c] = "receiving",
             want'[c] = s, lost'[c] + Len(got'[c]) = r
      PROVE  Carries(c, s, r)'
  <2>1. client[c] = "receiving" /\ want[c] = s /\ lost[c] + Len(got[c]) = r
    BY <1>2 DEF TargetKept
  <2>2. Carries(c, s, r)
    BY <2>1 DEF Stream
  <2> QED
    BY <2>2
<1>3. ASSUME NEW i \in DOMAIN got'[c], lost'[c] + i \in DOMAIN want'[c]
      PROVE  got'[c][i] = want'[c][lost'[c] + i]
  <2>1. Len(got'[c]) # 0
    BY <1>3, NextLengths
  <2> QED
    BY <1>3, <2>1 DEF TargetKept, Stream
<1> QED
  BY <1>1, <1>2, <1>3, StreamIntro

LEMMA StreamKept ==
    ASSUME TypeInv, TypeInv', NEW c \in Client, Stream(c), TargetKept(c), down'[c] = down[c],
           \/ handler'[c] = "gone" \/ handler[c] \notin {"send", "gone"}
           \/ handler'[c] = handler[c] /\ left'[c] = left[c]
    PROVE  Stream(c)'
<1>1. \A content \in Seq(FileItem), r \in Int :
               Carries(c, content, r) => Carries(c, content, r)'
  BY CarrySame
<1> QED
  BY <1>1, TargetFacts

LEMMA StreamEnds ==
    ASSUME TypeInv', NEW c \in Client, Len(down'[c]) = 0, client'[c] # "receiving",
           Len(got'[c]) = 0 \/ (want'[c] = want[c] /\ got'[c] = got[c] /\ lost'[c] = lost[c]),
           Stream(c)
    PROVE  Stream(c)'
<1>1. DOMAIN down'[c] = {}
  BY NextLengths
<1>2. ASSUME NEW i \in DOMAIN got'[c], lost'[c] + i \in DOMAIN want'[c]
      PROVE  got'[c][i] = want'[c][lost'[c] + i]
  <2>1. Len(got'[c]) # 0
    BY <1>2, NextLengths
  <2> QED
    BY <1>2, <2>1 DEF Stream
<1> QED
  BY <1>1, <1>2 DEF Stream

LEMMA StreamLine ==
    ASSUME TypeInv, TypeInv', NEW c \in Client, Stream(c), TargetKept(c),
           handler[c] \notin {"send", "gone"}, ~Gone(c),
           NEW x \in DownItem, x.kind # "header", Sends(c, x)
    PROVE  Stream(c)'
<1>1. \A content \in Seq(FileItem), r \in Int :
               Carries(c, content, r) => Carries(c, content, r)'
  BY CarryLine
<1>2. Len(down'[c]) = Len(down[c]) + 1 /\ (\A i \in 1..Len(down[c]) : down'[c][i] = down[c][i])
      /\ down'[c][Len(down[c]) + 1] = x
  BY SendsFacts
<1>3. ASSUME NEW p \in DOMAIN down'[c], down'[c][p].kind = "header"
      PROVE  p \in DOMAIN down[c] /\ down'[c][p] = down[c][p]
  <2>1. p \in 1..Len(down[c]) + 1 /\ Len(down[c]) \in Nat
    BY <1>2, Lengths, NextLengths
  <2>2. p # Len(down[c]) + 1
    BY <1>2, <1>3
  <2> QED
    BY <1>2, <2>1, <2>2, Lengths
<1> QED
  BY <1>1, <1>3, TargetFacts

LEMMA StreamBlock ==
    ASSUME TypeInv, LocalInv, TypeInv', NEW c \in Client, Stream(c), TargetKept(c),
           ~Gone(c), SendBlock(c)
    PROVE  Stream(c)'
<1>1. \A content \in Seq(FileItem), r \in Int :
               Carries(c, content, r) => Carries(c, content, r)'
  BY CarryBlock
<1>2. PICK x \in DownItem : x = left[c][1] /\ ~IsLine(x) /\ Sends(c, x)
  BY SendBlockAt
<1>3. Len(down'[c]) = Len(down[c]) + 1 /\ (\A i \in 1..Len(down[c]) : down'[c][i] = down[c][i])
      /\ down'[c][Len(down[c]) + 1] = x
  BY <1>2, SendsFacts
<1>4. ASSUME NEW p \in DOMAIN down'[c], down'[c][p].kind = "header"
      PROVE  p \in DOMAIN down[c] /\ down'[c][p] = down[c][p]
  <2>1. p \in 1..Len(down[c]) + 1 /\ Len(down[c]) \in Nat
    BY <1>3, Lengths, NextLengths
  <2>2. p # Len(down[c]) + 1
    BY <1>2, <1>3, <1>4 DEF IsLine
  <2> QED
    BY <1>3, <2>1, <2>2, Lengths
<1> QED
  BY <1>1, <1>4, TargetFacts

LEMMA StreamHeader ==
    ASSUME TypeInv, LocalInv, TypeInv', NEW c \in Client, Stream(c), ClientKept(c), ~Gone(c),
           SendHeader(c)
    PROVE  Stream(c)'
<1>1. PICK f \in File : f = job[c].file
  BY SendHeaderAt
<1>2. files[f] \in Seq(FileItem)
  BY DEF TypeInv
<1>3. handler[c] = "load" /\ handler'[c] = "send" /\ left'[c] = files[f]
  BY <1>1, SendHeaderAt
<1>4. PICK x \in DownItem : x = Header(Number(job[c]), files[job[c].file]) /\ Sends(c, x)
  BY SendHeaderAt
<1>5. x.content = files[f]
  BY <1>1, <1>4 DEF Header
<1>6. PICK m \in Nat : m = Len(down[c]) /\ DOMAIN down[c] = 1..m
  BY Lengths
<1>7. Len(down'[c]) = m + 1 /\ DOMAIN down'[c] = 1..m + 1
      /\ (\A i \in 1..m : down'[c][i] = down[c][i]) /\ down'[c][m + 1] = x
  BY <1>4, <1>6, SendsFacts, NextLengths
<1>8. \A content \in Seq(FileItem), r \in Int :
               Carries(c, content, r) => Carries(c, content, r)'
  BY <1>3, <1>4, CarryLine
<1>9. ASSUME NEW s \in Seq(FileItem), s = files[f], NEW r \in Int, r = 0 - (m + 1)
      PROVE  Carries(c, s, r)'
  <2>1. PICK k \in Nat : k = Len(s) /\ DOMAIN s = 1..k
    OBVIOUS
  <2>2. \A i \in 1..m + 1 : r + i \notin 1..k
    BY <1>9
  <2>3. r + Len(down'[c]) = 0
    BY <1>7, <1>9
  <2>4. Len(left'[c]) = k - 0 /\ \A i \in DOMAIN left'[c] : left'[c][i] = s[0 + i]
    BY <1>3, <1>9, <2>1
  <2> QED
    BY <1>3, <1>7, <2>1, <2>2, <2>3, <2>4 DEF Carries
<1>10. ASSUME NEW p \in DOMAIN down'[c], NEW s \in Seq(FileItem),
              down'[c][p].kind = "header", down'[c][p].content = s
       PROVE  Carries(c, s, 0 - p)'
  <2>1. p \in 1..m + 1
    BY <1>7
  <2>2. PICK r \in Int : r = 0 - p
    BY <2>1
  <2>3. CASE p = m + 1
    <3>1. s = files[f] /\ r = 0 - (m + 1)
      BY <1>5, <1>7, <1>10, <2>2, <2>3
    <3> QED
      BY <1>9, <2>2, <3>1
  <2>4. CASE p # m + 1
    <3>1. p \in DOMAIN down[c] /\ down'[c][p] = down[c][p]
      BY <1>6, <1>7, <2>1, <2>4
    <3>2. Carries(c, s, r)
      BY <1>10, <2>2, <3>1 DEF Stream
    <3> QED
      BY <1>8, <2>2, <3>2
  <2> QED
    BY <2>3, <2>4
<1>11. ASSUME NEW s \in Seq(FileItem), NEW r \in Int, client'[c] = "receiving",
              want'[c] = s, lost'[c] + Len(got'[c]) = r
       PROVE  Carries(c, s, r)'
  <2>1. client[c] = "receiving" /\ want[c] = s /\ lost[c] + Len(got[c]) = r
    BY <1>11 DEF ClientKept
  <2>2. Carries(c, s, r)
    BY <2>1 DEF Stream
  <2> QED
    BY <1>8, <2>2
<1>12. \A i \in DOMAIN got'[c] :
           lost'[c] + i \in DOMAIN want'[c] => got'[c][i] = want'[c][lost'[c] + i]
  BY DEF Stream, ClientKept
<1> QED
  BY <1>10, <1>11, <1>12, StreamIntro

LEMMA HeadersRest ==
    ASSUME TypeInv, TypeInv', NEW c \in Client, Stream(c), HandlerKept(c),
           NEW n \in 1..Len(down[c]), DownRest(c, n),
           NEW p \in DOMAIN down'[c], NEW s \in Seq(FileItem),
           down'[c][p].kind = "header", down'[c][p].content = s
    PROVE  Carries(c, s, 0 - p)'
<1>1. PICK m \in Nat : m = Len(down[c]) /\ DOMAIN down[c] = 1..m /\ n \in 1..m
  BY Lengths
<1>2. p \in 1..m - n /\ down'[c][p] = down[c][p + n]
  BY <1>1, NextLengths DEF DownRest
<1>3. p + n \in 1..m
  BY <1>1, <1>2
<1>4. PICK r \in Int : r = 0 - (p + n)
  BY <1>3
<1>5. Carries(c, s, r)
  BY <1>1, <1>2, <1>3, <1>4 DEF Stream
<1>6. Carries(c, s, r + n)'
  BY <1>5, CarryRest
<1>7. r + n = 0 - p
  <2>1. PICK a \in Int, b \in Int : a = p /\ b = n
    BY <1>1, <1>2
  <2>2. 0 - (a + b) + b = 0 - a
    OBVIOUS
  <2> QED
    BY <1>4, <2>1, <2>2
<1> QED
  BY <1>6, <1>7

LEMMA StreamMore ==
    ASSUME TypeInv, LocalInv, TypeInv', NEW c \in Client, Stream(c), ReadMore(c)
    PROVE  Stream(c)'
<1>1. PICK n \in 1..Len(down[c]) : DownRest(c, n)
  BY ReadMoreAt
<1>2. HandlerKept(c) /\ client'[c] # "receiving"
      /\ want'[c] = want[c] /\ got'[c] = got[c] /\ lost'[c] = lost[c]
  BY ReadMoreAt
<1>3. \A p \in DOMAIN down'[c], s \in Seq(FileItem) :
          down'[c][p].kind = "header" /\ down'[c][p].content = s => Carries(c, s, 0 - p)'
  BY <1>1, <1>2, HeadersRest
<1> QED
  BY <1>2, <1>3, StreamIntro DEF Stream

LEMMA StreamResponse ==
    ASSUME TypeInv, LocalInv, TypeInv', NEW c \in Client, Stream(c), ReadResponse(c)
    PROVE  Stream(c)'
<1>1. PICK n \in 1..Len(down[c]) :
          DownRest(c, n) /\ (client'[c] = "receiving" => lost'[c] = n - 1)
  BY ReadResponseAt
<1>2. HandlerKept(c) /\ Len(got'[c]) = 0 /\ client'[c] = After(cur[c].op, First(c))
      /\ (client'[c] = "receiving" => want'[c] = First(c).content)
      /\ (IsLine(First(c)) => First(c) = down[c][1])
  BY ReadResponseAt
<1>3. \A p \in DOMAIN down'[c], s \in Seq(FileItem) :
          down'[c][p].kind = "header" /\ down'[c][p].content = s => Carries(c, s, 0 - p)'
  BY <1>1, <1>2, HeadersRest
<1>4. ASSUME NEW s \in Seq(FileItem), NEW r \in Int, client'[c] = "receiving",
             want'[c] = s, lost'[c] + Len(got'[c]) = r
      PROVE  Carries(c, s, r)'
  <2>1. First(c).kind = "header"
    BY <1>2, <1>4 DEF After
  <2>2. down[c][1].kind = "header" /\ down[c][1].content = s
    BY <1>2, <1>4, <2>1 DEF IsLine
  <2>3. 1 \in DOMAIN down[c]
    BY Lengths
  <2>4. PICK q \in Int : q = 0 - 1
    OBVIOUS
  <2>5. Carries(c, s, q)
    BY <2>2, <2>3, <2>4 DEF Stream
  <2>6. Carries(c, s, q + n)'
    BY <1>1, <1>2, <2>5, CarryRest
  <2>7. q + n = r
    <3>1. PICK b \in Int : b = n
      BY Lengths
    <3>2. r = b - 1
      BY <1>1, <1>2, <1>4, <3>1
    <3> QED
      BY <2>4, <3>1, <3>2
  <2> QED
    BY <2>6, <2>7
<1>5. DOMAIN got'[c] = {}
  BY <1>2, NextLengths
<1> QED
  BY <1>3, <1>4, <1>5, StreamIntro

LEMMA StreamData ==
    ASSUME TypeInv, LocalInv, TypeInv', NEW c \in Client, Stream(c), ReceiveData(c)
    PROVE  Stream(c)'
<1>1. PICK n \in 1..Len(down[c]) :
          /\ DownRest(c, n) /\ Len(got'[c]) = Len(got[c]) + n
          /\ \A i \in 1..Len(got[c]) : got'[c][i] = got[c][i]
          /\ \A i \in 1..n : got'[c][Len(got[c]) + i] = down[c][i]
  BY ReceiveDataAt
<1>2. HandlerKept(c) /\ want'[c] = want[c] /\ lost'[c] = lost[c] /\ client[c] = "receiving"
  BY ReceiveDataAt
<1>3. \A p \in DOMAIN down'[c], s \in Seq(FileItem) :
          down'[c][p].kind = "header" /\ down'[c][p].content = s => Carries(c, s, 0 - p)'
  BY <1>1, <1>2, HeadersRest
<1>4. PICK w \in Seq(FileItem), q \in Int, b \in Nat, g \in Nat, a \in Nat :
          w = want[c] /\ q = lost[c] + Len(got[c]) /\ b = n /\ g = Len(got[c]) /\ a = lost[c]
  <2>1. want[c] \in Seq(FileItem) /\ Len(got[c]) \in Nat /\ lost[c] \in Nat
        /\ lost[c] + Len(got[c]) \in Int
    <3>1. want[c] \in Seq(FileItem)
      BY DEF TypeInv
    <3>2. Len(got[c]) \in Nat /\ lost[c] \in Nat
      BY Lengths
    <3> QED
      BY <3>1, <3>2
  <2>2. n \in Nat
    BY Lengths
  <2> QED
    BY <2>1, <2>2
<1>5. Carries(c, w, q) /\ q = a + g
  BY <1>2, <1>4 DEF Stream
<1>6. Carries(c, w, q + n)'
  BY <1>1, <1>2, <1>5, CarryRest
<1>7. lost'[c] + Len(got'[c]) = a + (g + b) /\ q + n = a + (g + b)
  BY <1>1, <1>2, <1>4, <1>5
<1>8. \A s \in Seq(FileItem), r \in Int :
          client'[c] = "receiving" /\ want'[c] = s /\ lost'[c] + Len(got'[c]) = r
              => Carries(c, s, r)'
  BY <1>2, <1>4, <1>6, <1>7
<1>9. ASSUME NEW i \in DOMAIN got'[c], lost'[c] + i \in DOMAIN want'[c]
      PROVE  got'[c][i] = want'[c][lost'[c] + i]
  <2>1. i \in 1..g + b
    BY <1>1, <1>4, NextLengths
  <2>2. CASE i \in 1..g
    <3>1. i \in DOMAIN got[c] /\ got'[c][i] = got[c][i]
      BY <1>1, <1>4, <2>2, Lengths
    <3> QED
      BY <1>2, <1>9, <3>1 DEF Stream
  <2>3. CASE i > g
    <3>1. PICK j \in 1..b : i = g + j
      <4>1. i - g \in 1..b /\ i = g + (i - g)
        BY <2>1, <2>3
      <4> QED
        BY <4>1
    <3>2. got'[c][i] = down[c][j] /\ j \in DOMAIN down[c]
      BY <1>1, <1>4, <3>1, Lengths
    <3>3. q + j = a + i
      BY <1>5, <3>1
    <3>4. q + j \in DOMAIN w
      BY <1>2, <1>4, <1>9, <3>3
    <3>5. down[c][j] = w[q + j]
      BY <1>5, <3>2, <3>4 DEF Carries
    <3> QED
      BY <1>2, <1>4, <3>2, <3>3, <3>5
  <2> QED
    BY <2>1, <2>2, <2>3
<1> QED
  BY <1>3, <1>8, <1>9, StreamIntro

LEMMA HandlerStream ==
    ASSUME TypeInv, LocalInv, TypeInv', NEW c \in Client, Stream(c), HandlerStep(c)
    PROVE  Stream(c)'
<1>1. ClientKept(c) /\ TargetKept(c)
  BY HandlerKeepsAt DEF ClientKept, TargetKept
<1>2. ASSUME NEW x \in DownItem, Sends(c, x), Gone(c)
      PROVE  Stream(c)'
  <2>1. Len(down[c]) = 0 /\ down'[c] = down[c]
    BY <1>2, SendsFacts, NoneFacts DEF LocalInv, Local
  <2> QED
    BY <1>1, <1>2, <2>1, StreamEnds DEF ClientKept, Gone
<1>3. CASE ReadCommand(c)
  BY <1>1, <1>3, ReadCommandAt, StreamKept
<1>4. CASE HandlerLeaves(c)
  BY <1>1, <1>4, HandlerLeavesAt, StreamKept
<1>5. CASE WriteReply(c)
  <2>1. PICK x \in DownItem : x = Line("reply", Number(job[c])) /\ Sends(c, x)
    BY <1>5, WriteReplyAt
  <2>2. x.kind # "header" /\ handler[c] \notin {"send", "gone"}
    BY <1>5, <2>1, WriteReplyAt DEF Line
  <2> QED
    BY <1>1, <1>2, <2>1, <2>2, StreamLine
<1>6. CASE WriteFails(c)
  BY <1>1, <1>6, WriteFailsAt, StreamKept
<1>7. CASE SendReady(c)
  <2>1. PICK x \in DownItem : x = Line("ready", Number(job[c])) /\ Sends(c, x)
    BY <1>7, SendReadyAt
  <2>2. x.kind # "header" /\ handler[c] \notin {"send", "gone"}
    BY <1>7, <2>1, SendReadyAt DEF Line
  <2> QED
    BY <1>1, <1>2, <2>1, <2>2, StreamLine
<1>8. CASE Receive(c)
  BY <1>1, <1>8, ReceiveAt, StreamKept
<1>9. CASE ReceiveEnd(c)
  BY <1>1, <1>9, ReceiveEndAt, StreamKept
<1>10. CASE ReceiveFails(c)
  BY <1>1, <1>10, ReceiveFailsAt, StreamKept
<1>11. CASE SendHeader(c)
  <2>1. PICK x \in DownItem : Sends(c, x)
    BY <1>11, SendHeaderAt
  <2> QED
    BY <1>1, <1>2, <1>11, <2>1, StreamHeader
<1>12. CASE LoadFails(c)
  BY <1>1, <1>12, LoadFailsAt, StreamKept
<1>13. CASE SendBlock(c)
  <2>1. PICK x \in DownItem : x = left[c][1] /\ Sends(c, x)
    BY <1>13, SendBlockAt
  <2> QED
    BY <1>1, <1>2, <1>13, <2>1, StreamBlock
<1>14. CASE ReadBlank(c)
  BY <1>1, <1>14, ReadBlankAt, StreamKept DEF HandlerKept
<1> QED
  BY <1>14, <1>3, <1>4, <1>5, <1>6, <1>7, <1>8, <1>9, <1>10, <1>11, <1>12, <1>13 DEF HandlerStep

LEMMA ClientStream ==
    ASSUME TypeInv, LocalInv, TypeInv', NEW c \in Client, Stream(c), ClientAct(c)
    PROVE  Stream(c)'
<1> USE DEF TargetKept, HandlerKept
<1>1. CASE Connect(c)
  BY <1>1, ConnectAt, StreamKept
<1>2. CASE Leave(c)
  <2>1. Len(down'[c]) = 0 /\ client'[c] # "receiving" /\ Len(got'[c]) = 0
    BY <1>2, LeaveAt
  <2> QED
    BY <2>1, StreamEnds
<1>3. CASE ReadMore(c)
  BY <1>3, StreamMore
<1>4. CASE ReadResponse(c)
  BY <1>4, StreamResponse
<1>5. CASE AwaitFails(c)
  BY <1>5, AwaitFailsAt, StreamKept
<1>6. CASE SendData(c)
  BY <1>6, SendDataAt, StreamKept
<1>7. CASE SendDataFails(c) \/ SendDone(c)
  BY <1>7, SendEndsAt, StreamKept
<1>8. CASE ReceiveData(c)
  BY <1>8, StreamData
<1>9. CASE ReceiveDone(c)
  BY <1>9, ReceiveDoneAt, StreamKept
<1>10. ASSUME NEW op \in Ops, NEW f \in File \union {None}, NEW to \in Onward,
              SendCommand(c, op, f, to),
              Command(op, f, c, count[c] + 1) \in CommandItem
       PROVE  Stream(c)'
  BY <1>10, SendCommandAt, StreamKept DEF Onward
<1>11. CASE SendRest(c)
  BY <1>11, SendRestAt, StreamKept DEF Onward
<1>12. CASE RestFails(c)
  BY <1>12, RestFailsAt, StreamKept
<1> QED
  BY <1>11, <1>12, <1>1, <1>2, <1>3, <1>4, <1>5, <1>6, <1>7, <1>8, <1>9, <1>10, ClientCases

LEMMA StreamStep ==
    ASSUME TypeInv, LocalInv, StreamInv, TypeInv', [Next]_vars
    PROVE  StreamInv'
<1>1. CASE UNCHANGED vars
  BY <1>1 DEF StreamInv, Stream, Carries, Closed, vars, clientVars, handlerVars, history
<1>2. SUFFICES ASSUME Next, NEW d \in Client
               PROVE  Stream(d)'
  BY <1>1 DEF StreamInv
<1>3. Stream(d)
  BY DEF StreamInv
<1>4. CASE ServerExits
  BY <1>3, <1>4, ExitFacts, StreamKept DEF TargetKept
<1>5. ASSUME NEW c \in Client, HandlerStep(c) \/ ClientAct(c)
      PROVE  Stream(d)'
  <2>1. CASE c = d
    BY <1>3, <1>5, <2>1, HandlerStream, ClientStream
  <2>2. CASE c # d
    <3>1. Same(d)
      BY <1>5, <2>2, HandlerElsewhere, ClientElsewhere DEF ClientAct
    <3> QED
      BY <1>3, <3>1, StreamKept DEF Same, TargetKept
  <2> QED
    BY <2>1, <2>2
<1> QED
  BY <1>2, <1>4, <1>5, NextCases

-----------------------------------------------------------------------------
(* The order of what a client writes.                                       *)

\* What the handler does with the commands: it takes the next one and drops
\* what came in the same read, or it goes on with the one it has.
Fetches(c, n) ==
    /\ n > 0 /\ handler[c] = "read" /\ job'[c] = up[c][1] /\ up[c][1] \in UpItem
    /\ handler'[c] = Branch(up[c][1]) /\ files' = files
Continues(c) ==
    /\ handler'[c] # "ready"
    /\ handler'[c] \in Working => handler[c] \in Working /\ job'[c] = job[c]

LEMMA UpRestAll ==
    ASSUME TypeInv, TypeInv', NEW c \in Client
    PROVE  /\ up'[c] = up[c] => UpRest(c, 0)
           /\ up'[c] = <<>> => UpRest(c, Len(up[c]))
           /\ 0 \in 0..Len(up[c]) /\ Len(up[c]) \in 0..Len(up[c])
<1>1. PICK m \in Nat : m = Len(up[c])
  BY Lengths
<1>2. Len(<<>>) = 0
  OBVIOUS
<1> QED
  BY <1>1, <1>2 DEF UpRest

LEMMA HandlerUp ==
    ASSUME TypeInv, LocalInv, TypeInv', NEW c \in Client, HandlerStep(c)
    PROVE  \E n \in 0..Len(up[c]) :
              /\ UpRest(c, n)
              /\ \/ Fetches(c, n)
                 \/ /\ Continues(c)
                    /\ \/ files' = files
                       \/ /\ Moves(c, job[c].file, n) /\ job[c].file \in File
                          /\ handler[c] = "receive" /\ handler'[c] = "receive"
<1> USE DEF Continues, Working
<1>1. CASE ReadCommand(c)
  <2>1. PICK n \in 1..Len(up[c]) : UpRest(c, n)
    BY <1>1, ReadCommandAt
  <2>2. n \in 0..Len(up[c]) /\ n > 0
    BY <2>1, Lengths
  <2>3. Fetches(c, n)
    BY <1>1, <2>2, ReadCommandAt DEF Fetches
  <2> QED
    BY <2>1, <2>2, <2>3
<1>2. CASE HandlerLeaves(c)
  BY <1>2, HandlerLeavesAt, UpRestAll
<1>3. CASE WriteReply(c)
  BY <1>3, WriteReplyAt, UpRestAll
<1>4. CASE WriteFails(c)
  BY <1>4, WriteFailsAt, UpRestAll
<1>5. CASE SendReady(c)
  BY <1>5, SendReadyAt, UpRestAll
<1>6. CASE Receive(c)
  <2>1. PICK n \in 1..Len(up[c]) : UpRest(c, n) /\ Moves(c, job[c].file, n)
    BY <1>6, ReceiveAt
  <2>2. n \in 0..Len(up[c])
    BY <2>1, Lengths
  <2>3. job[c].file \in File
    BY <1>6, ReceiveFacts
  <2> QED
    BY <1>6, <2>1, <2>2, <2>3, ReceiveAt
<1>7. CASE ReceiveEnd(c)
  BY <1>7, ReceiveEndAt, UpRestAll
<1>8. CASE ReceiveFails(c)
  BY <1>8, ReceiveFailsAt, UpRestAll
<1>9. CASE SendHeader(c)
  BY <1>9, SendHeaderAt, UpRestAll
<1>10. CASE LoadFails(c)
  BY <1>10, LoadFailsAt, UpRestAll
<1>11. CASE SendBlock(c)
  BY <1>11, SendBlockAt, UpRestAll
<1>12. CASE ReadBlank(c)
  <2>1. PICK n \in 1..Len(up[c]) : UpRest(c, n)
    BY <1>12, ReadBlankAt
  <2>2. n \in 0..Len(up[c])
    BY <2>1, Lengths
  <2> QED
    BY <1>12, <2>1, <2>2, ReadBlankAt DEF HandlerKept
<1> QED
  BY <1>1, <1>2, <1>3, <1>4, <1>5, <1>6, <1>7, <1>8, <1>9, <1>10, <1>11, <1>12
     DEF HandlerStep

\* What a client has written stays written.
LEMMA WrittenStays ==
    ASSUME TypeInv, LocalInv, TypeInv', NEW c \in Client, ClientAct(c) \/ ClientKept(c),
           NEW a \in UpItem, Written(c, a)
    PROVE  Written(c, a)'
<1> USE DEF Written, Onward
<1>1. Number(a) \in Nat /\ count[c] \in Nat /\ progress[c] \in Nat
      /\ (a.kind = "block" => a.n \in Nat) /\ Number(a) <= count[c]
  BY UpFacts, BlockFacts, Lengths, TransferAssumption DEF TransferAssumption, Positive
<1>2. CASE ClientKept(c)
  BY <1>2 DEF ClientKept
<1>3. CASE Connect(c)
  BY <1>3, ConnectAt
<1>4. CASE Leave(c)
  BY <1>4, LeaveAt
<1>5. CASE ReadMore(c)
  BY <1>5, ReadMoreAt
<1>6. CASE ReadResponse(c)
  <2>1. client[c] = "await" /\ count'[c] = count[c]
    BY <1>6, ReadResponseAt
  <2>2. client'[c] = "idle" \/ (client'[c] \notin Onward /\ cur'[c] = cur[c])
    BY <1>6, ReadResponseAt DEF After
  <2> QED
    BY <2>1, <2>2
<1>7. CASE AwaitFails(c)
  BY <1>7, AwaitFailsAt
<1>8. CASE SendData(c)
  <2>1. client[c] = "sending" /\ client'[c] = "sending" /\ count'[c] = count[c]
        /\ cur'[c] = cur[c] /\ progress'[c] = progress[c] + 1
    BY <1>8, SendDataAt
  <2> QED
    BY <1>1, <2>1
<1>9. CASE SendDataFails(c) \/ SendDone(c)
  BY <1>9, SendEndsAt
<1>10. CASE ReceiveData(c)
  BY <1>10, ReceiveDataAt
<1>11. CASE ReceiveDone(c)
  BY <1>11, ReceiveDoneAt
<1>12. ASSUME NEW op \in Ops, NEW f \in File \union {None}, NEW to \in Onward,
              SendCommand(c, op, f, to),
              Command(op, f, c, count[c] + 1) \in CommandItem
       PROVE  Written(c, a)'
  <2>1. count'[c] = count[c] + 1
    BY <1>12, SendCommandAt
  <2> QED
    BY <1>1, <2>1
<1>13. CASE SendRest(c)
  <2>1. client[c] = "writing" /\ client'[c] \in Onward /\ count'[c] = count[c]
        /\ cur'[c] = cur[c]
    BY <1>13, SendRestAt
  <2> QED
    BY <1>1, <2>1
<1>14. CASE RestFails(c)
  BY <1>14, RestFailsAt
<1> QED
  BY <1>2, <1>3, <1>4, <1>5, <1>6, <1>7, <1>8, <1>9, <1>10, <1>11, <1>12, <1>13, <1>14,
     ClientCases

\* What a client writes comes behind all it has written.
LEMMA ClientUp ==
    ASSUME TypeInv, LocalInv, TypeInv', NEW c \in Client, ClientAct(c)
    PROVE  \/ up'[c] = up[c]
           \/ /\ ~Closed(c)
              /\ \E x \in UpItem :
                    /\ UpPut(c, x) /\ Written(c, x)' /\ Number(x) = count'[c]
                    /\ x.kind = "command" => count'[c] = count[c] + 1
                    /\ \A a \in UpItem : Written(c, a) => Before(a, x)
<1>1. CASE Connect(c) \/ Leave(c) \/ ReadMore(c) \/ ReadResponse(c) \/ AwaitFails(c)
           \/ SendDataFails(c) \/ SendDone(c) \/ ReceiveData(c) \/ ReceiveDone(c)
           \/ RestFails(c)
  <2>1. CASE Connect(c) \/ Leave(c) \/ ReadMore(c)
    BY <2>1, ConnectAt, LeaveAt, ReadMoreAt
  <2>2. CASE ReadResponse(c) \/ AwaitFails(c)
    BY <2>2, ReadResponseAt, AwaitFailsAt
  <2>3. CASE SendDataFails(c) \/ SendDone(c)
    BY <2>3, SendEndsAt
  <2>4. CASE ReceiveData(c) \/ ReceiveDone(c)
    BY <2>4, ReceiveDataAt, ReceiveDoneAt
  <2>5. CASE RestFails(c)
    BY <2>5, RestFailsAt
  <2> QED
    BY <1>1, <2>1, <2>2, <2>3, <2>4, <2>5
<1>4. CASE SendRest(c)
  <2>1. /\ UpPut(c, Piece(c, count[c])) /\ ~Closed(c) /\ client[c] = "writing"
        /\ count'[c] = count[c] /\ cur'[c] = cur[c] /\ count[c] \in Positive
    BY <1>4, SendRestAt
  <2>2. PICK x \in UpItem : x = Piece(c, count[c])
    BY <2>1, PieceType
  <2>3. UpPut(c, x) /\ cur[c].op \in Plain
    BY <2>1, <2>2 DEF LocalInv, Local
  <2>4. x.kind = "piece" /\ x.by = c /\ Number(x) = count[c]
    BY <2>2 DEF Piece, Number
  <2>5. Written(c, x)'
    BY <2>1, <2>3, <2>4, Lengths DEF Written
  <2>6. ASSUME NEW a \in UpItem, Written(c, a)
        PROVE  Before(a, x)
    <3>1. a.kind \in {"command", "block", "piece"} /\ Number(a) \in Nat /\ count[c] \in Nat
      BY UpFacts, Lengths DEF Positive
    <3>2. IsRaw(x)
      BY <2>4 DEF IsRaw
    <3> QED
      BY <2>1, <2>4, <2>6, <3>1, <3>2 DEF Written, Before, Onward
  <2> QED
    BY <2>1, <2>3, <2>4, <2>5, <2>6
<1>2. CASE SendData(c)
  <2>1. /\ UpPut(c, Block(c, count[c], progress[c] + 1)) /\ ~Closed(c)
        /\ client[c] = "sending" /\ client'[c] = "sending" /\ cur[c].op = "upload"
        /\ count'[c] = count[c] /\ progress'[c] = progress[c] + 1
        /\ count[c] \in Positive /\ progress[c] + 1 \in 1..Blocks
    BY <1>2, SendDataAt DEF LocalInv, Local
  <2>2. PICK x \in UpItem : x = Block(c, count[c], progress[c] + 1)
    BY <2>1, BlockType, ItemFacts
  <2>3. UpPut(c, x)
    BY <2>1, <2>2
  <2>4. x.kind = "block" /\ x.by = c /\ Number(x) = count[c] /\ x.n = progress[c] + 1
    BY <2>2 DEF Block, Number
  <2>5. Written(c, x)'
    BY <2>1, <2>4, Lengths DEF Written, Onward
  <2>6. ASSUME NEW a \in UpItem, Written(c, a)
        PROVE  Before(a, x)
    <3>1. a.kind \in {"command", "block", "piece"} /\ Number(a) \in Nat /\ count[c] \in Nat
          /\ (a.kind = "block" => a.n \in Nat) /\ progress[c] \in Nat
      BY UpFacts, BlockFacts, Lengths, TransferAssumption DEF TransferAssumption, Positive
    <3>2. IsRaw(x)
      BY <2>4 DEF IsRaw
    <3> QED
      BY <2>1, <2>4, <2>6, <3>1, <3>2 DEF Written, Before, Plain
  <2> QED
    BY <2>1, <2>3, <2>4, <2>5, <2>6
<1>3. ASSUME NEW op \in Ops, NEW f \in File \union {None}, NEW to \in Onward,
              SendCommand(c, op, f, to),
              Command(op, f, c, count[c] + 1) \in CommandItem
       PROVE  up'[c] = up[c] \/
              /\ ~Closed(c)
              /\ \E x \in UpItem :
                    /\ UpPut(c, x) /\ Written(c, x)' /\ Number(x) = count'[c]
                    /\ x.kind = "command" => count'[c] = count[c] + 1
                    /\ \A a \in UpItem : Written(c, a) => Before(a, x)
  <2>1. PICK line \in CommandItem :
                 /\ line = Command(op, f, c, count[c] + 1)
                 /\ \/ up'[c] = up[c]
                    \/ ~Closed(c) /\ cur'[c] = line /\ UpPut(c, line)
    BY <1>3, SendCommandAt
  <2>2. count'[c] = count[c] + 1 /\ count[c] \in Nat
    BY <1>3, SendCommandAt, Lengths
  <2>3. line.by = c /\ line.n = count[c] + 1 /\ line.kind = "command" /\ Number(line) = line.n
    BY <2>1 DEF Command, Number
  <2>4. cur'[c] = line => Written(c, line)'
    BY <2>2, <2>3 DEF Written
  <2>5. \A a \in UpItem : Written(c, a) => Before(a, line)
    BY <2>2, <2>3, UpFacts DEF Written, Before, Positive
  <2>6. line \in UpItem
    BY ItemFacts
  <2> QED
    BY <2>1, <2>2, <2>3, <2>4, <2>5, <2>6
<1> QED
  BY <1>1, <1>2, <1>3, <1>4, ClientCases

LEMMA OrderIntro ==
    ASSUME TypeInv', NEW c \in Client,
           \A i \in DOMAIN up'[c], a \in UpItem : up'[c][i] = a => Written(c, a)',
           \A i \in DOMAIN up'[c], j \in DOMAIN up'[c] :
               i < j => Before(up'[c][i], up'[c][j]),
           handler'[c] \in Working =>
               /\ job'[c] \in UpItem
               /\ \A a \in UpItem : job'[c] = a => Written(c, a)'
               /\ \A i \in DOMAIN up'[c] : Before(job'[c], up'[c][i])
    PROVE  Order(c)'
<1>1. \A i \in DOMAIN up'[c] : up'[c][i] \in UpItem
  BY NextLengths
<1> QED
  BY <1>1 DEF Order, Written, Busy

LEMMA OrderRest ==
    ASSUME TypeInv, LocalInv, TypeInv', NEW c \in Client, Order(c), ClientKept(c),
           NEW n \in 0..Len(up[c]), UpRest(c, n), Fetches(c, n) \/ Continues(c)
    PROVE  Order(c)'
<1>1. PICK m \in Nat : m = Len(up[c]) /\ n \in 0..m /\ DOMAIN up[c] = 1..m
      /\ \A i \in 1..m : up[c][i] \in UpItem
  BY Lengths
<1>2. DOMAIN up'[c] = 1..m - n /\ \A i \in 1..m - n : up'[c][i] = up[c][i + n] /\ i + n \in 1..m
  <2>1. Len(up'[c]) = m - n /\ \A i \in 1..m - n : up'[c][i] = up[c][i + n]
    BY <1>1 DEF UpRest
  <2> QED
    BY <1>1, <2>1, NextLengths
<1>3. \A i \in DOMAIN up'[c], a \in UpItem : up'[c][i] = a => Written(c, a)'
  BY <1>1, <1>2, WrittenStays DEF Order
<1>4. \A i \in DOMAIN up'[c], j \in DOMAIN up'[c] :
               i < j => Before(up'[c][i], up'[c][j])
  <2>1. SUFFICES ASSUME NEW i \in 1..m - n, NEW j \in 1..m - n, i < j
                 PROVE  Before(up'[c][i], up'[c][j])
    BY <1>2
  <2>2. i + n \in 1..m /\ j + n \in 1..m /\ i + n < j + n
    BY <1>1, <2>1
  <2>3. Before(up[c][i + n], up[c][j + n])
    BY <1>1, <2>2 DEF Order
  <2> QED
    BY <1>2, <2>3
<1>5. ASSUME handler'[c] \in Working
      PROVE  /\ job'[c] \in UpItem
             /\ \A a \in UpItem : job'[c] = a => Written(c, a)'
             /\ \A i \in DOMAIN up'[c] : Before(job'[c], up'[c][i])
  <2>1. CASE Fetches(c, n)
    <3>1. 1 \in 1..m /\ job'[c] = up[c][1] /\ \A i \in 1..m - n : i + n \in 1..m /\ 1 < i + n
      BY <1>1, <2>1 DEF Fetches
    <3>2. \A i \in 1..m - n : Before(job'[c], up[c][i + n])
      BY <1>1, <3>1 DEF Order
    <3>3. \A a \in UpItem : job'[c] = a => Written(c, a)'
      BY <1>1, <3>1, WrittenStays DEF Order
    <3> QED
      BY <1>1, <1>2, <3>1, <3>2, <3>3
  <2>2. CASE Continues(c)
    <3>1. Busy(c) /\ job'[c] = job[c]
      BY <1>5, <2>2 DEF Continues, Busy
    <3>2. job[c] \in UpItem
      BY <3>1, JobType
    <3>3. \A a \in UpItem : job'[c] = a => Written(c, a)'
      BY <3>1, WrittenStays DEF Order
    <3> QED
      BY <1>1, <1>2, <3>1, <3>2, <3>3 DEF Order
  <2> QED
    BY <2>1, <2>2
<1> QED
  BY <1>3, <1>4, <1>5, OrderIntro

\* The handler of c is where it was, or has just begun.
Stays(c) ==
    /\ handler'[c] = handler[c] \/ handler'[c] = "read"
    /\ handler'[c] \in Working => job'[c] = job[c]

LEMMA ClientStays ==
    ASSUME TypeInv, LocalInv, NEW c \in Client, ClientAct(c)
    PROVE  Stays(c) /\ files' = files
<1> USE DEF HandlerKept, Stays
<1>0. CASE Connect(c)
  BY <1>0, ConnectAt DEF Working
<1>1. CASE Leave(c) \/ ReadMore(c) \/ ReadResponse(c) \/ AwaitFails(c)
  <2>1. CASE Leave(c) \/ ReadMore(c)
    BY <2>1, LeaveAt, ReadMoreAt
  <2>2. CASE ReadResponse(c)
    BY <2>2, ReadResponseAt
  <2>3. CASE AwaitFails(c)
    BY <2>3, AwaitFailsAt
  <2> QED
    BY <1>1, <2>1, <2>2, <2>3
<1>3. CASE SendDataFails(c) \/ SendDone(c) \/ ReceiveData(c) \/ ReceiveDone(c) \/ SendData(c)
  <2>1. HandlerKept(c) /\ files' = files
    BY <1>3, SendEndsAt, ReceiveDataAt, ReceiveDoneAt, SendDataAt
  <2> QED
    BY <2>1
<1>4. CASE SendRest(c) \/ RestFails(c)
  <2>1. HandlerKept(c) /\ files' = files
    BY <1>4, SendRestAt, RestFailsAt
  <2> QED
    BY <2>1
<1>2. ASSUME NEW op \in Ops, NEW f \in File \union {None}, NEW to \in Onward,
             SendCommand(c, op, f, to),
              Command(op, f, c, count[c] + 1) \in CommandItem
      PROVE  Stays(c) /\ files' = files
  BY <1>2, SendCommandAt
<1> QED
  BY <1>0, <1>1, <1>2, <1>3, <1>4, ClientCases

LEMMA OrderClient ==
    ASSUME TypeInv, LocalInv, TypeInv', NEW c \in Client, Order(c), ClientAct(c)
    PROVE  Order(c)'
<1>1. handler'[c] \in Working => Busy(c) /\ job'[c] = job[c] /\ job[c] \in UpItem
  BY ClientStays, JobType DEF Stays, Busy, Working
<1>2. PICK m \in Nat : m = Len(up[c]) /\ DOMAIN up[c] = 1..m
      /\ \A i \in 1..m : up[c][i] \in UpItem
  BY Lengths
<1>3. handler'[c] \in Working => \A a \in UpItem : job'[c] = a => Written(c, a)'
  BY <1>1, WrittenStays DEF Order
<1>4. \A i \in 1..m : \A a \in UpItem : up[c][i] = a => Written(c, a)'
  BY <1>2, WrittenStays DEF Order
<1>5. CASE up'[c] = up[c]
  BY <1>1, <1>2, <1>3, <1>4, <1>5, OrderIntro DEF Order
<1>6. ASSUME NEW x \in UpItem, UpPut(c, x), Written(c, x)',
             \A a \in UpItem : Written(c, a) => Before(a, x)
      PROVE  Order(c)'
  <2>1. DOMAIN up'[c] = 1..m + 1 /\ up'[c][m + 1] = x
        /\ \A i \in 1..m : up'[c][i] = up[c][i]
    <3>1. Len(up'[c]) = m + 1
      BY <1>2, <1>6 DEF UpPut
    <3> QED
      BY <1>2, <1>6, <3>1, NextLengths DEF UpPut
  <2>2. \A i \in 1..m : Before(up[c][i], x)
    BY <1>2, <1>6 DEF Order
  <2>3. handler'[c] \in Working => Before(job[c], x)
    BY <1>1, <1>6 DEF Order
  <2>4. \A i \in 1..m + 1 : i \in 1..m \/ i = m + 1
    OBVIOUS
  <2>5. \A i \in DOMAIN up'[c], a \in UpItem : up'[c][i] = a => Written(c, a)'
    BY <1>4, <1>6, <2>1, <2>4
  <2>6. ASSUME NEW i \in DOMAIN up'[c], NEW j \in DOMAIN up'[c], i < j
        PROVE  Before(up'[c][i], up'[c][j])
    <3>1. i \in 1..m
      BY <2>1, <2>6
    <3> QED
      BY <1>2, <2>1, <2>2, <2>4, <2>6, <3>1 DEF Order
  <2>7. handler'[c] \in Working => \A i \in DOMAIN up'[c] : Before(job'[c], up'[c][i])
    BY <1>1, <1>2, <2>1, <2>3, <2>4 DEF Order
  <2> QED
    BY <1>1, <1>3, <2>5, <2>6, <2>7, OrderIntro
<1> QED
  BY <1>5, <1>6, ClientUp

LEMMA OrderStep ==
    ASSUME TypeInv, LocalInv, OrderInv, TypeInv', [Next]_vars
    PROVE  OrderInv'
<1>1. CASE UNCHANGED vars
  BY <1>1 DEF OrderInv, Order, Written, Busy, vars, clientVars, handlerVars, history
<1>2. SUFFICES ASSUME Next, NEW d \in Client
               PROVE  Order(d)'
  BY <1>1 DEF OrderInv
<1>3. Order(d)
  BY DEF OrderInv
<1>4. CASE ServerExits
  <2>1. Continues(d) /\ ClientKept(d) /\ UpRest(d, Len(up[d]))
    BY <1>4, ExitFacts, UpRestAll DEF Continues, Working, ClientKept
  <2> QED
    BY <1>3, <2>1, UpRestAll, OrderRest
<1>5. ASSUME NEW c \in Client, HandlerStep(c) \/ ClientAct(c)
      PROVE  Order(d)'
  <2>1. CASE c = d /\ HandlerStep(c)
    <3>1. PICK n \in 0..Len(up[d]) : UpRest(d, n) /\ (Fetches(d, n) \/ Continues(d))
      BY <2>1, HandlerUp
    <3> QED
      BY <1>3, <2>1, <3>1, OrderRest, HandlerKeepsAt
  <2>2. CASE c = d /\ ClientAct(c)
    BY <1>3, <2>2, OrderClient
  <2>3. CASE c # d
    <3>1. Same(d)
      BY <1>5, <2>3, HandlerElsewhere, ClientElsewhere DEF ClientAct
    <3> QED
      BY <1>3, <3>1 DEF Same, Order, Written, Busy
  <2> QED
    BY <1>5, <2>1, <2>2, <2>3
<1> QED
  BY <1>2, <1>4, <1>5, NextCases

-----------------------------------------------------------------------------
(* The order of what a client has in a file.                                *)

LEMMA FiledIntro ==
    ASSUME TypeInv', NEW c \in Client, NEW f \in File,
           \A k \in DOMAIN files'[f], x \in UpItem : files'[f][k] = x /\ x.by = c =>
               /\ Written(c, x)'
               /\ \A i \in DOMAIN up'[c] : Before(x, up'[c][i])
               /\ handler'[c] = "ready" => Number(x) < job'[c].n
               /\ \A m \in DOMAIN files'[f] :
                      m > k /\ files'[f][m].by = c => Before(x, files'[f][m])
    PROVE  Filed(c, f)'
<1>1. \A k \in DOMAIN files'[f] : files'[f][k].by = c => files'[f][k] \in UpItem
  BY NextFileLengths, FileFacts
<1> QED
  BY <1>1 DEF Filed, Written

\* What is new in the file is not of c.
Foreign(c, f) ==
    /\ Len(files[f]) <= Len(files'[f])
    /\ \A k \in 1..Len(files[f]) : files'[f][k] = files[f][k]
    /\ \A k \in Len(files[f]) + 1..Len(files'[f]) : files'[f][k].by # c

LEMMA ForeignSame ==
    ASSUME TypeInv, NEW c \in Client, NEW f \in File, files'[f] = files[f]
    PROVE  Foreign(c, f)
<1>1. PICK a \in Nat : a = Len(files[f])
  BY FileLengths
<1>2. a + 1..a = {}
  OBVIOUS
<1> QED
  BY <1>1, <1>2 DEF Foreign

LEMMA ForeignFacts ==
    ASSUME TypeInv, TypeInv', NEW c \in Client, NEW f \in File, Foreign(c, f),
           NEW k \in DOMAIN files'[f], files'[f][k].by = c
    PROVE  k \in DOMAIN files[f] /\ files'[f][k] = files[f][k]
<1>1. PICK a \in Nat, b \in Nat : a = Len(files[f]) /\ b = Len(files'[f])
  BY FileLengths, NextFileLengths
<1>2. k \in 1..b /\ ~(k \in a + 1..b)
  BY <1>1, NextFileLengths DEF Foreign
<1>3. k \in 1..a
  BY <1>2
<1> QED
  BY <1>1, <1>3, FileLengths DEF Foreign

\* The file has nothing new of c, and the streams only what comes later.
LEMMA FiledKept ==
    ASSUME TypeInv, TypeInv', NEW c \in Client, NEW f \in File, Filed(c, f), Foreign(c, f),
           \A x \in UpItem : Written(c, x) => Written(c, x)',
           \A x \in UpItem : Written(c, x) /\ (\A i \in DOMAIN up[c] : Before(x, up[c][i]))
               /\ (handler[c] = "ready" => Number(x) < job[c].n) =>
                     /\ \A i \in DOMAIN up'[c] : Before(x, up'[c][i])
                     /\ handler'[c] = "ready" => Number(x) < job'[c].n
    PROVE  Filed(c, f)'
<1>1. SUFFICES ASSUME NEW k \in DOMAIN files'[f], NEW x \in UpItem,
                      files'[f][k] = x, x.by = c
      PROVE  /\ Written(c, x)'
             /\ \A i \in DOMAIN up'[c] : Before(x, up'[c][i])
             /\ handler'[c] = "ready" => Number(x) < job'[c].n
             /\ \A m \in DOMAIN files'[f] :
                      m > k /\ files'[f][m].by = c => Before(x, files'[f][m])
  BY FiledIntro
<1>2. k \in DOMAIN files[f] /\ files[f][k] = x
  BY <1>1, ForeignFacts
<1>3. /\ Written(c, x)
      /\ \A i \in DOMAIN up[c] : Before(x, up[c][i])
      /\ handler[c] = "ready" => Number(x) < job[c].n
      /\ \A m \in DOMAIN files[f] : m > k /\ files[f][m].by = c => Before(x, files[f][m])
  BY <1>1, <1>2 DEF Filed
<1>4. \A m \in DOMAIN files'[f] :
          m > k /\ files'[f][m].by = c => Before(x, files'[f][m])
  BY <1>3, ForeignFacts
<1> QED
  BY <1>3, <1>4

\* What the handler puts into the file comes behind what is there.
LEMMA FiledMoves ==
    ASSUME TypeInv, LocalInv, TypeInv', NEW c \in Client, NEW f \in File, Filed(c, f), Order(c),
           ClientKept(c), NEW n \in 0..Len(up[c]), Moves(c, f, n), handler'[c] # "ready"
    PROVE  Filed(c, f)'
<1>1. PICK a \in Nat, l \in Nat : a = Len(files[f]) /\ l = Len(up[c]) /\ n \in 0..l
      /\ DOMAIN files[f] = 1..a /\ DOMAIN up[c] = 1..l
      /\ \A i \in 1..l : up[c][i] \in UpItem
  BY FileLengths, Lengths
<1>2. /\ DOMAIN files'[f] = 1..a + n
      /\ \A k \in 1..a : files'[f][k] = files[f][k]
      /\ \A i \in 1..n : files'[f][a + i] = up[c][i]
      /\ DOMAIN up'[c] = 1..l - n
      /\ \A i \in 1..l - n : up'[c][i] = up[c][i + n]
  <2>1. Len(files'[f]) = a + n /\ Len(up'[c]) = l - n
    BY <1>1 DEF Moves
  <2> QED
    BY <1>1, <2>1, NextFileLengths, NextLengths DEF Moves
<1>3. \A k \in 1..a + n : k \in 1..a \/ \E i \in 1..n : k = a + i
  <2>1. ASSUME NEW k \in 1..a + n, ~(k \in 1..a)
        PROVE  \E i \in 1..n : k = a + i
    <3>1. k - a \in 1..n /\ k = a + (k - a)
      BY <1>1, <2>1
    <3> QED
      BY <3>1
  <2> QED
    BY <2>1
<1>4. ASSUME NEW k \in 1..a, NEW x \in UpItem, files[f][k] = x, x.by = c
      PROVE  /\ Written(c, x)'
             /\ \A i \in 1..l - n : Before(x, up'[c][i])
             /\ \A m \in 1..a + n : m > k /\ files'[f][m].by = c => Before(x, files'[f][m])
  <2>1. /\ Written(c, x) /\ \A i \in 1..l : Before(x, up[c][i])
        /\ \A m \in 1..a : m > k /\ files[f][m].by = c => Before(x, files[f][m])
    BY <1>1, <1>4 DEF Filed
  <2>2. \A i \in 1..l - n : i + n \in 1..l
    BY <1>1
  <2>3. \A i \in 1..n : i \in 1..l
    BY <1>1
  <2>4. Written(c, x)'
    BY <2>1, WrittenStays
  <2>5. \A i \in 1..l - n : Before(x, up'[c][i])
    BY <1>2, <2>1, <2>2
  <2>6. ASSUME NEW m \in 1..a + n, m > k, files'[f][m].by = c
        PROVE  Before(x, files'[f][m])
    <3>1. CASE m \in 1..a
      BY <1>2, <2>1, <2>6, <3>1
    <3>2. ASSUME NEW i \in 1..n, m = a + i
          PROVE  Before(x, files'[f][m])
      BY <1>2, <2>1, <2>3, <3>2
    <3> QED
      BY <1>3, <3>1, <3>2
  <2> QED
    BY <2>4, <2>5, <2>6
<1>5. ASSUME NEW k \in 1..n, NEW x \in UpItem, up[c][k] = x
      PROVE  /\ Written(c, x)'
             /\ \A i \in 1..l - n : Before(x, up'[c][i])
             /\ \A m \in 1..a + n : m > a + k => Before(x, files'[f][m])
  <2>1. k \in 1..l /\ Written(c, x) /\ \A i \in 1..l : k < i => Before(x, up[c][i])
    BY <1>1, <1>5 DEF Order
  <2>2. \A i \in 1..l - n : i + n \in 1..l /\ k < i + n
    BY <1>1
  <2>3. ASSUME NEW m \in 1..a + n, m > a + k
        PROVE  \E i \in 1..n : m = a + i /\ k < i /\ i \in 1..l
    <3>1. ~(m \in 1..a)
      BY <2>3
    <3>2. PICK i \in 1..n : m = a + i
      BY <1>3, <3>1
    <3>3. n \in Nat /\ i \in 1..l
      BY <1>1
    <3>4. k < i
      BY <2>3, <3>2, <3>3
    <3> QED
      BY <3>2, <3>3, <3>4
  <2> QED
    BY <1>2, <2>1, <2>2, <2>3, WrittenStays
<1>6. ASSUME NEW k \in DOMAIN files'[f], NEW x \in UpItem, files'[f][k] = x, x.by = c
      PROVE  /\ Written(c, x)'
             /\ \A i \in DOMAIN up'[c] : Before(x, up'[c][i])
             /\ \A m \in DOMAIN files'[f] :
                      m > k /\ files'[f][m].by = c => Before(x, files'[f][m])
  <2>1. CASE k \in 1..a
    BY <1>2, <1>4, <1>6, <2>1
  <2>2. ASSUME NEW i \in 1..n, k = a + i
        PROVE  /\ Written(c, x)'
               /\ \A j \in DOMAIN up'[c] : Before(x, up'[c][j])
               /\ \A m \in DOMAIN files'[f] :
                      m > k /\ files'[f][m].by = c => Before(x, files'[f][m])
    BY <1>2, <1>5, <1>6, <2>2
  <2> QED
    BY <1>2, <1>3, <2>1, <2>2
<1> QED
  BY <1>6, FiledIntro

LEMMA FiledHandler ==
    ASSUME TypeInv, LocalInv, TypeInv', NEW c \in Client, NEW f \in File, Filed(c, f), Order(c),
           HandlerStep(c)
    PROVE  Filed(c, f)'
<1>1. ClientKept(c)
  BY HandlerKeepsAt
<1>2. PICK n \in 0..Len(up[c]) :
              /\ UpRest(c, n)
              /\ \/ Fetches(c, n)
                 \/ /\ Continues(c)
                    /\ \/ files' = files
                       \/ /\ Moves(c, job[c].file, n) /\ job[c].file \in File
                          /\ handler[c] = "receive" /\ handler'[c] = "receive"
  BY HandlerUp
<1>3. ASSUME files'[f] = files[f]
      PROVE  Filed(c, f)'
  <2>1. PICK l \in Nat : l = Len(up[c]) /\ n \in 0..l /\ DOMAIN up[c] = 1..l
    BY Lengths
  <2>2. DOMAIN up'[c] = 1..l - n /\ \A i \in 1..l - n : up'[c][i] = up[c][i + n]
    <3>1. Len(up'[c]) = l - n /\ \A i \in 1..l - n : up'[c][i] = up[c][i + n]
      BY <1>2, <2>1 DEF UpRest
    <3> QED
      BY <3>1, NextLengths
  <2>3. ASSUME NEW x \in UpItem, \A i \in DOMAIN up[c] : Before(x, up[c][i])
        PROVE  /\ \A i \in DOMAIN up'[c] : Before(x, up'[c][i])
               /\ handler'[c] = "ready" => Number(x) < job'[c].n
    <3>1. \A i \in 1..l - n : i + n \in 1..l
      BY <2>1
    <3>2. \A i \in DOMAIN up'[c] : Before(x, up'[c][i])
      BY <2>1, <2>2, <2>3, <3>1
    <3>3. ASSUME handler'[c] = "ready"
          PROVE  Number(x) < job'[c].n
      <4>1. Fetches(c, n)
        BY <1>2, <3>3 DEF Continues
      <4>2. 1 \in 1..l
        BY <2>1, <4>1 DEF Fetches
      <4>3. job'[c] = up[c][1] /\ job'[c].kind = "command"
        BY <3>3, <4>1 DEF Fetches, Branch, Asks
      <4>4. Before(x, job'[c])
        BY <2>1, <2>3, <4>2, <4>3
      <4> QED
        BY <4>3, <4>4 DEF Before, Number, IsRaw
    <3> QED
      BY <3>2, <3>3
  <2>4. \A x \in UpItem : Written(c, x) => Written(c, x)'
    BY <1>1, WrittenStays
  <2> QED
    BY <1>3, <2>3, <2>4, FiledKept, ForeignSame
<1>4. CASE Fetches(c, n)
  BY <1>3, <1>4 DEF Fetches
<1>5. ASSUME Continues(c), Moves(c, job[c].file, n), job[c].file \in File, handler'[c] = "receive"
      PROVE  Filed(c, f)'
  <2>1. CASE f = job[c].file
    BY <1>1, <1>5, <2>1, FiledMoves
  <2>2. CASE f # job[c].file
    BY <1>3, <1>5, <2>2 DEF Moves
  <2> QED
    BY <2>1, <2>2
<1> QED
  BY <1>2, <1>3, <1>4, <1>5

LEMMA FiledClient ==
    ASSUME TypeInv, LocalInv, TypeInv', NEW c \in Client, NEW f \in File, Filed(c, f),
           ClientAct(c)
    PROVE  Filed(c, f)'
<1>1. Foreign(c, f)
  BY ClientStays, ForeignSame
<1>2. \A x \in UpItem : Written(c, x) => Written(c, x)'
  BY WrittenStays
<1>3. handler'[c] = "ready" => handler[c] = "ready" /\ job'[c] = job[c]
  BY ClientStays DEF Stays, Working
<1>4. PICK m \in Nat : m = Len(up[c]) /\ DOMAIN up[c] = 1..m
  BY Lengths
<1>5. ASSUME NEW a \in UpItem, Written(c, a), \A i \in 1..m : Before(a, up[c][i])
      PROVE  \A i \in DOMAIN up'[c] : Before(a, up'[c][i])
  <2>1. CASE up'[c] = up[c]
    BY <1>4, <1>5, <2>1
  <2>2. ASSUME NEW x \in UpItem, UpPut(c, x), Before(a, x)
        PROVE  \A i \in DOMAIN up'[c] : Before(a, up'[c][i])
    <3>1. DOMAIN up'[c] = 1..m + 1 /\ up'[c][m + 1] = x
          /\ \A i \in 1..m : up'[c][i] = up[c][i]
      <4>1. Len(up'[c]) = m + 1
        BY <1>4, <2>2 DEF UpPut
      <4> QED
        BY <1>4, <2>2, <4>1, NextLengths DEF UpPut
    <3>2. \A i \in 1..m + 1 : i \in 1..m \/ i = m + 1
      OBVIOUS
    <3> QED
      BY <1>5, <2>2, <3>1, <3>2
  <2> QED
    BY <1>5, <2>1, <2>2, ClientUp
<1> QED
  BY <1>1, <1>2, <1>3, <1>4, <1>5, FiledKept

\* Whatever another client's handler appends is not of c.
LEMMA ForeignStep ==
    ASSUME TypeInv, LocalInv, OrderInv, TypeInv', NEW c \in Client, NEW d \in Client, c # d,
           HandlerStep(d) \/ ClientAct(d), NEW f \in File
    PROVE  Foreign(c, f)
<1>1. CASE files'[f] = files[f]
  BY <1>1, ForeignSame
<1>2. ASSUME NEW n \in 0..Len(up[d]), Moves(d, f, n)
      PROVE  Foreign(c, f)
  <2>1. PICK a \in Nat, l \in Nat : a = Len(files[f]) /\ l = Len(up[d]) /\ n \in 0..l
        /\ DOMAIN up[d] = 1..l
    BY FileLengths, Lengths
  <2>2. /\ Len(files'[f]) = a + n
        /\ \A k \in 1..a : files'[f][k] = files[f][k]
        /\ \A i \in 1..n : files'[f][a + i] = up[d][i]
    BY <1>2, <2>1 DEF Moves
  <2>3. ASSUME NEW k \in a + 1..a + n
        PROVE  files'[f][k].by # c
    <3>1. k - a \in 1..n /\ k = a + (k - a) /\ k - a \in 1..l
      BY <2>1
    <3>2. files'[f][k] = up[d][k - a] /\ k - a \in DOMAIN up[d]
      BY <2>1, <2>2, <3>1
    <3>3. up[d][k - a].by = d
      BY <3>2 DEF OrderInv, Order, Written
    <3> QED
      BY <3>2, <3>3
  <2>4. a <= a + n
    BY <2>1
  <2> QED
    BY <2>1, <2>2, <2>3, <2>4 DEF Foreign
<1>3. CASE HandlerStep(d)
  <2>1. PICK n \in 0..Len(up[d]) :
            files' = files \/ (Moves(d, job[d].file, n) /\ job[d].file \in File)
    BY <1>3, HandlerUp DEF Fetches
  <2>2. CASE f = job[d].file
    BY <1>1, <1>2, <2>1, <2>2
  <2>3. CASE f # job[d].file
    BY <1>1, <2>1, <2>3 DEF Moves
  <2> QED
    BY <2>2, <2>3
<1>4. CASE ClientAct(d)
  BY <1>1, <1>4, ClientStays
<1> QED
  BY <1>3, <1>4

LEMMA FileStep ==
    ASSUME TypeInv, LocalInv, OrderInv, FileInv, TypeInv', [Next]_vars
    PROVE  FileInv'
<1>1. CASE UNCHANGED vars
  BY <1>1 DEF FileInv, Filed, Written, vars, clientVars, handlerVars, history
<1>2. SUFFICES ASSUME Next, NEW d \in Client, NEW f \in File
               PROVE  Filed(d, f)'
  BY <1>1 DEF FileInv
<1>3. Filed(d, f) /\ Order(d)
  BY DEF FileInv, OrderInv
<1>4. CASE ServerExits
  <2>1. ClientKept(d) /\ handler'[d] = "gone" /\ up'[d] = <<>> /\ files' = files
    BY <1>4, ExitFacts DEF ClientKept
  <2>2. DOMAIN up'[d] = {}
    BY <2>1
  <2>3. \A x \in UpItem : Written(d, x) => Written(d, x)'
    BY <2>1, WrittenStays
  <2> QED
    BY <1>3, <2>1, <2>2, <2>3, ForeignSame, FiledKept
<1>5. ASSUME NEW c \in Client, HandlerStep(c) \/ ClientAct(c)
      PROVE  Filed(d, f)'
  <2>1. CASE c = d
    BY <1>3, <1>5, <2>1, FiledHandler, FiledClient
  <2>2. CASE c # d
    <3>1. Same(d)
      BY <1>5, <2>2, HandlerElsewhere, ClientElsewhere DEF ClientAct
    <3>2. Foreign(d, f)
      BY <1>5, <2>2, ForeignStep
    <3>3. \A x \in UpItem : Written(d, x) => Written(d, x)'
      BY <3>1 DEF Same, Written
    <3> QED
      BY <1>3, <3>1, <3>2, <3>3, FiledKept DEF Same
  <2> QED
    BY <2>1, <2>2
<1> QED
  BY <1>2, <1>4, <1>5, NextCases

-----------------------------------------------------------------------------
(* The order of the replies.                                                *)

LEMMA HandledIntro ==
    ASSUME TypeInv', NEW c \in Client, NEW v \in Nat, v <= count'[c],
           \A i \in DOMAIN up'[c] :
               v <= Number(up'[c][i]) /\ (up'[c][i].kind = "command" => v < Number(up'[c][i])),
           handler'[c] \in Working => v <= Number(job'[c]),
           handler'[c] = "ready" => v < job'[c].n
    PROVE  Handled(c, v)'
  BY DEF Handled, Busy

LEMMA HandledRest ==
    ASSUME TypeInv, LocalInv, TypeInv', NEW c \in Client, ClientKept(c), NEW v \in Nat,
           Handled(c, v), NEW n \in 0..Len(up[c]), UpRest(c, n), Fetches(c, n) \/ Continues(c)
    PROVE  Handled(c, v)'
<1>1. PICK m \in Nat : m = Len(up[c]) /\ n \in 0..m /\ DOMAIN up[c] = 1..m
  BY Lengths
<1>2. DOMAIN up'[c] = 1..m - n /\ \A i \in 1..m - n : up'[c][i] = up[c][i + n] /\ i + n \in 1..m
  <2>1. Len(up'[c]) = m - n /\ \A i \in 1..m - n : up'[c][i] = up[c][i + n]
    BY <1>1 DEF UpRest
  <2> QED
    BY <1>1, <2>1, NextLengths
<1>3. \A i \in DOMAIN up'[c] :
          v <= Number(up'[c][i]) /\ (up'[c][i].kind = "command" => v < Number(up'[c][i]))
  BY <1>1, <1>2 DEF Handled
<1>4. v <= count'[c]
  BY DEF Handled, ClientKept
<1>5. CASE Fetches(c, n)
  <2>1. 1 \in 1..m /\ job'[c] = up[c][1]
    BY <1>1, <1>5 DEF Fetches
  <2>2. v <= Number(job'[c]) /\ (job'[c].kind = "command" => v < Number(job'[c]))
    BY <1>1, <2>1 DEF Handled
  <2>3. handler'[c] = "ready" => v < job'[c].n
    BY <1>5, <2>1, <2>2 DEF Fetches, Branch, Asks, Number
  <2> QED
    BY <1>3, <1>4, <2>2, <2>3, HandledIntro
<1>6. CASE Continues(c)
  <2>1. handler'[c] \in Working => v <= Number(job'[c])
    BY <1>6 DEF Continues, Handled, Busy
  <2> QED
    BY <1>3, <1>4, <1>6, <2>1, HandledIntro DEF Continues
<1> QED
  BY <1>5, <1>6

LEMMA CountGrows ==
    ASSUME TypeInv, LocalInv, NEW c \in Client, ClientAct(c)
    PROVE  /\ count[c] \in Nat /\ count'[c] \in {count[c], count[c] + 1}
           /\ client'[c] \in Onward => client[c] \in Onward \/ count'[c] = count[c] + 1
<1>0. count[c] \in Nat
  BY Lengths
<1> USE DEF Onward
<1>1. CASE Connect(c) \/ Leave(c) \/ ReadMore(c) \/ AwaitFails(c)
  BY <1>0, <1>1, ConnectAt, LeaveAt, ReadMoreAt, AwaitFailsAt
<1>2. CASE SendDataFails(c) \/ SendDone(c) \/ ReceiveData(c) \/ ReceiveDone(c) \/ SendData(c)
  BY <1>0, <1>2, SendEndsAt, ReceiveDataAt, ReceiveDoneAt, SendDataAt
<1>3. CASE ReadResponse(c)
  BY <1>0, <1>3, ReadResponseAt
<1>5. CASE SendRest(c) \/ RestFails(c)
  BY <1>0, <1>5, SendRestAt, RestFailsAt
<1>4. ASSUME NEW op \in Ops, NEW f \in File \union {None}, NEW to \in Onward,
             SendCommand(c, op, f, to),
              Command(op, f, c, count[c] + 1) \in CommandItem
      PROVE  count'[c] = count[c] + 1
  BY <1>4, SendCommandAt
<1> QED
  BY <1>0, <1>1, <1>2, <1>3, <1>4, <1>5, ClientCases

LEMMA HandledClient ==
    ASSUME TypeInv, LocalInv, TypeInv', NEW c \in Client, ClientAct(c), NEW v \in Nat,
           Handled(c, v)
    PROVE  Handled(c, v)'
<1>1. v <= count[c] /\ count[c] \in Nat /\ count'[c] \in {count[c], count[c] + 1}
  BY CountGrows DEF Handled
<1>2. v <= count'[c]
  BY <1>1
<1>3. /\ handler'[c] \in Working => v <= Number(job'[c])
      /\ handler'[c] = "ready" => v < job'[c].n
  BY ClientStays DEF Stays, Handled, Busy, Working
<1>4. PICK m \in Nat : m = Len(up[c]) /\ DOMAIN up[c] = 1..m
  BY Lengths
<1>5. CASE up'[c] = up[c]
  BY <1>2, <1>3, <1>5, HandledIntro DEF Handled
<1>6. ASSUME NEW x \in UpItem, UpPut(c, x), Number(x) = count'[c],
             x.kind = "command" => count'[c] = count[c] + 1
      PROVE  Handled(c, v)'
  <2>1. DOMAIN up'[c] = 1..m + 1 /\ up'[c][m + 1] = x
        /\ \A i \in 1..m : up'[c][i] = up[c][i]
    <3>1. Len(up'[c]) = m + 1
      BY <1>4, <1>6 DEF UpPut
    <3> QED
      BY <1>4, <1>6, <3>1, NextLengths DEF UpPut
  <2>2. v <= Number(x) /\ (x.kind = "command" => v < Number(x))
    BY <1>1, <1>6
  <2>3. \A i \in 1..m + 1 : i \in 1..m \/ i = m + 1
    OBVIOUS
  <2>4. \A i \in DOMAIN up'[c] :
          v <= Number(up'[c][i]) /\ (up'[c][i].kind = "command" => v < Number(up'[c][i]))
    BY <1>4, <2>1, <2>2, <2>3 DEF Handled
  <2> QED
    BY <1>2, <1>3, <2>4, HandledIntro
<1> QED
  BY <1>5, <1>6, ClientUp

LEMMA HandledHandler ==
    ASSUME TypeInv, LocalInv, TypeInv', NEW c \in Client, HandlerStep(c), NEW v \in Nat,
           Handled(c, v)
    PROVE  Handled(c, v)'
<1>1. PICK n \in 0..Len(up[c]) : UpRest(c, n) /\ (Fetches(c, n) \/ Continues(c))
  BY HandlerUp
<1> QED
  BY <1>1, HandledRest, HandlerKeepsAt

\* The command that the handler answers.
LEMMA JobHandled ==
    ASSUME TypeInv, LocalInv, TypeInv', NEW c \in Client, Order(c), Busy(c), ClientKept(c),
           up'[c] = up[c] \/ up'[c] = <<>>, handler'[c] # "ready",
           handler'[c] \in Working => job'[c] = job[c]
    PROVE  \E v \in Nat : v = Number(job[c]) /\ Handled(c, v)'
<1>1. job[c] \in UpItem /\ Number(job[c]) \in Nat
  BY JobType DEF Positive
<1>2. PICK v \in Nat : v = Number(job[c])
  BY <1>1
<1>3. v <= count'[c]
  BY <1>2 DEF Order, Written, ClientKept
<1>4. \A i \in DOMAIN up[c] :
          v <= Number(up[c][i]) /\ (up[c][i].kind = "command" => v < Number(up[c][i]))
  <2>1. SUFFICES ASSUME NEW i \in DOMAIN up[c]
        PROVE  v <= Number(up[c][i]) /\ (up[c][i].kind = "command" => v < Number(up[c][i]))
    OBVIOUS
  <2>2. up[c][i] \in UpItem /\ Number(up[c][i]) \in Nat
    BY Lengths, UpFacts DEF Positive
  <2>3. Before(job[c], up[c][i])
    BY DEF Order
  <2> QED
    BY <1>2, <2>2, <2>3 DEF Before, IsRaw
<1>5. \A i \in DOMAIN up'[c] :
          v <= Number(up'[c][i]) /\ (up'[c][i].kind = "command" => v < Number(up'[c][i]))
  BY <1>4
<1>6. Handled(c, v)'
  BY <1>2, <1>3, <1>5, HandledIntro
<1> QED
  BY <1>2, <1>6

LEMMA ReplyIntro ==
    ASSUME TypeInv', LocalInv', NEW c \in Client,
           \A i \in DOMAIN down'[c], v \in Nat : IsLine(down'[c][i]) /\ down'[c][i].to = v =>
               /\ Handled(c, v)'
               /\ \A j \in DOMAIN down'[c] :
                      i < j /\ IsLine(down'[c][j]) => v <= down'[c][j].to,
           \A k \in 1..MaxCommands[c], v \in Nat : answer'[c][k] = v /\ v > 0 =>
               /\ Handled(c, v)' /\ v <= k
               /\ \A i \in DOMAIN down'[c] : IsLine(down'[c][i]) => v <= down'[c][i].to
               /\ \A m \in k..MaxCommands[c] : answer'[c][m] > 0 => v <= answer'[c][m],
           \A k \in 1..MaxCommands[c] :
               k > count'[c] \/ (client'[c] \in Onward /\ k = count'[c]) => answer'[c][k] = 0
    PROVE  Reply(c)'
<1>1. \A i \in DOMAIN down'[c] : IsLine(down'[c][i]) => down'[c][i].to \in Nat
  BY NextLengths, DownFacts DEF Positive
<1>2. \A k \in 1..MaxCommands[c] : answer'[c][k] > 0 => answer'[c][k] \in Nat
  <2>1. answer'[c] \in [1..MaxCommands[c] -> -1..MaxCommands[c]] /\ MaxCommands[c] \in Nat
    BY TransferAssumption DEF LocalInv, Local, TransferAssumption
  <2> QED
    BY <2>1
<1>3. \A i \in DOMAIN down'[c] : IsLine(down'[c][i]) =>
          /\ down'[c][i].to <= count'[c]
          /\ \A k \in DOMAIN up'[c] :
                 /\ down'[c][i].to <= Number(up'[c][k])
                 /\ up'[c][k].kind = "command" => down'[c][i].to < Number(up'[c][k])
          /\ handler'[c] \in Working => down'[c][i].to <= Number(job'[c])
          /\ handler'[c] = "ready" => down'[c][i].to < job'[c].n
  BY <1>1 DEF Handled, Busy
<1>4. \A k \in 1..MaxCommands[c] : answer'[c][k] > 0 =>
          /\ answer'[c][k] <= count'[c]
          /\ \A i \in DOMAIN up'[c] :
                 /\ answer'[c][k] <= Number(up'[c][i])
                 /\ up'[c][i].kind = "command" => answer'[c][k] < Number(up'[c][i])
          /\ handler'[c] \in Working => answer'[c][k] <= Number(job'[c])
          /\ handler'[c] = "ready" => answer'[c][k] < job'[c].n
  BY <1>2 DEF Handled, Busy
<1>5. /\ \A i \in DOMAIN down'[c], j \in DOMAIN down'[c] :
             IsLine(down'[c][i]) /\ i < j /\ IsLine(down'[c][j])
                 => down'[c][i].to <= down'[c][j].to
      /\ \A k \in 1..MaxCommands[c] : answer'[c][k] > 0 =>
             /\ answer'[c][k] <= k
             /\ \A i \in DOMAIN down'[c] :
                    IsLine(down'[c][i]) => answer'[c][k] <= down'[c][i].to
             /\ \A m \in k..MaxCommands[c] : answer'[c][m] > 0 => answer'[c][k] <= answer'[c][m]
  BY <1>1, <1>2
<1> QED
  BY <1>3, <1>4, <1>5 DEF Reply, Handled, Busy

LEMMA DownRestAll ==
    ASSUME TypeInv, TypeInv', NEW c \in Client
    PROVE  /\ down'[c] = down[c] => DownRest(c, 0)
           /\ down'[c] = <<>> => DownRest(c, Len(down[c]))
           /\ 0 \in 0..Len(down[c]) /\ Len(down[c]) \in 0..Len(down[c])
<1>1. PICK m \in Nat : m = Len(down[c])
  BY Lengths
<1>2. Len(<<>>) = 0
  OBVIOUS
<1> QED
  BY <1>1, <1>2 DEF DownRest

LEMMA DownRestDomain ==
    ASSUME TypeInv, TypeInv', NEW c \in Client, NEW n \in 0..Len(down[c]), DownRest(c, n)
    PROVE  \A i \in DOMAIN down'[c] : i + n \in DOMAIN down[c] /\ down'[c][i] = down[c][i + n]
                                      /\ i \in Nat /\ n \in Nat
<1>1. PICK m \in Nat : m = Len(down[c]) /\ n \in 0..m /\ DOMAIN down[c] = 1..m
  BY Lengths
<1>2. Len(down'[c]) = m - n /\ \A i \in 1..m - n : down'[c][i] = down[c][i + n]
  BY <1>1 DEF DownRest
<1>3. DOMAIN down'[c] = 1..m - n
  BY <1>2, NextLengths
<1> QED
  BY <1>1, <1>2, <1>3

\* No command takes a reply.
LEMMA ReplyKept ==
    ASSUME TypeInv, LocalInv, TypeInv', LocalInv', NEW c \in Client, Reply(c),
           NEW n \in 0..Len(down[c]), DownRest(c, n), answer'[c] = answer[c],
           \A v \in Nat : Handled(c, v) => Handled(c, v)',
           \A k \in 1..MaxCommands[c] :
               k > count'[c] \/ (client'[c] \in Onward /\ k = count'[c]) =>
                   k > count[c] \/ (client[c] \in Onward /\ k = count[c])
    PROVE  Reply(c)'
<1>1. \A i \in DOMAIN down'[c] : i + n \in DOMAIN down[c] /\ down'[c][i] = down[c][i + n]
                                 /\ i \in Nat /\ n \in Nat
  BY DownRestDomain
<1>2. ASSUME NEW i \in DOMAIN down'[c], NEW v \in Nat, IsLine(down'[c][i]), down'[c][i].to = v
      PROVE  /\ Handled(c, v)'
             /\ \A j \in DOMAIN down'[c] : i < j /\ IsLine(down'[c][j]) => v <= down'[c][j].to
  <2>1. Handled(c, v)
    BY <1>1, <1>2 DEF Reply
  <2>2. \A j \in DOMAIN down'[c] : i < j => i + n < j + n
    BY <1>1, <1>2
  <2>3. \A j \in DOMAIN down'[c] : i < j /\ IsLine(down'[c][j]) => v <= down'[c][j].to
    BY <1>1, <1>2, <2>2 DEF Reply
  <2> QED
    BY <2>1, <2>3
<1>3. ASSUME NEW k \in 1..MaxCommands[c], NEW v \in Nat, answer'[c][k] = v, v > 0
      PROVE  /\ Handled(c, v)' /\ v <= k
             /\ \A i \in DOMAIN down'[c] : IsLine(down'[c][i]) => v <= down'[c][i].to
             /\ \A m \in k..MaxCommands[c] : answer'[c][m] > 0 => v <= answer'[c][m]
  <2>1. Handled(c, v)
    BY <1>3 DEF Reply
  <2> QED
    BY <1>1, <1>3, <2>1 DEF Reply
<1>4. \A k \in 1..MaxCommands[c] :
          k > count'[c] \/ (client'[c] \in Onward /\ k = count'[c]) => answer'[c][k] = 0
  BY DEF Reply
<1> QED
  BY <1>2, <1>3, <1>4, ReplyIntro

\* The handler writes the reply of its command, or something else than a line.
LEMMA ReplyPut ==
    ASSUME TypeInv, LocalInv, TypeInv', LocalInv', NEW c \in Client, Reply(c), ClientKept(c),
           NEW x \in DownItem, Sends(c, x), ~Gone(c),
           IsLine(x) => /\ Busy(c) /\ x.to = Number(job[c])
                        /\ \A v \in Nat : v = x.to => Handled(c, v)',
           \A v \in Nat : Handled(c, v) => Handled(c, v)'
    PROVE  Reply(c)'
<1>1. PICK m \in Nat : m = Len(down[c]) /\ DOMAIN down[c] = 1..m
  BY Lengths
<1>2. DOMAIN down'[c] = 1..m + 1 /\ down'[c][m + 1] = x
      /\ \A i \in 1..m : down'[c][i] = down[c][i]
  <2>1. Len(down'[c]) = m + 1 /\ down'[c][m + 1] = x
        /\ \A i \in 1..m : down'[c][i] = down[c][i]
    BY <1>1, SendsFacts
  <2> QED
    BY <2>1, NextLengths
<1>3. \A i \in 1..m + 1 : i \in 1..m \/ i = m + 1
  OBVIOUS
<1>4. IsLine(x) => \A v \in Nat : Handled(c, v) => v <= x.to
  BY DEF Handled
<1>5. \A i \in 1..m : IsLine(down[c][i]) => down[c][i].to \in Nat /\ down[c][i].to \in Nat
  BY <1>1, Lengths, DownFacts DEF Positive
<1>6. ASSUME NEW i \in DOMAIN down'[c], NEW v \in Nat, IsLine(down'[c][i]), down'[c][i].to = v
      PROVE  /\ Handled(c, v)'
             /\ \A j \in DOMAIN down'[c] : i < j /\ IsLine(down'[c][j]) => v <= down'[c][j].to
  <2>1. CASE i \in 1..m
    <3>1. Handled(c, v)
      BY <1>1, <1>2, <1>6, <2>1 DEF Reply
    <3>2. ASSUME NEW j \in DOMAIN down'[c], i < j, IsLine(down'[c][j])
          PROVE  v <= down'[c][j].to
      <4>1. CASE j \in 1..m
        BY <1>1, <1>2, <1>6, <2>1, <3>2, <4>1 DEF Reply
      <4>2. CASE j = m + 1
        BY <1>2, <1>4, <3>1, <3>2, <4>2
      <4> QED
        BY <1>2, <1>3, <4>1, <4>2
    <3> QED
      BY <3>1, <3>2
  <2>2. CASE i = m + 1
    <3>1. Handled(c, v)'
      BY <1>2, <1>6, <2>2
    <3>2. \A j \in 1..m + 1 : ~(i < j)
      BY <2>2
    <3> QED
      BY <1>2, <3>1, <3>2
  <2> QED
    BY <1>2, <1>3, <2>1, <2>2
<1>7. ASSUME NEW k \in 1..MaxCommands[c], NEW v \in Nat, answer'[c][k] = v, v > 0
      PROVE  /\ Handled(c, v)' /\ v <= k
             /\ \A i \in DOMAIN down'[c] : IsLine(down'[c][i]) => v <= down'[c][i].to
             /\ \A l \in k..MaxCommands[c] : answer'[c][l] > 0 => v <= answer'[c][l]
  <2>1. answer[c][k] = v
    BY <1>7 DEF ClientKept
  <2>2. /\ Handled(c, v) /\ v <= k
        /\ \A i \in DOMAIN down[c] : IsLine(down[c][i]) => v <= down[c][i].to
        /\ \A l \in k..MaxCommands[c] : answer[c][l] > 0 => v <= answer[c][l]
    BY <1>7, <2>1 DEF Reply
  <2>3. ASSUME NEW i \in DOMAIN down'[c], IsLine(down'[c][i])
        PROVE  v <= down'[c][i].to
    <3>1. CASE i \in 1..m
      BY <1>1, <1>2, <2>2, <2>3, <3>1
    <3>2. CASE i = m + 1
      BY <1>2, <1>4, <2>2, <2>3, <3>2
    <3> QED
      BY <1>2, <1>3, <3>1, <3>2
  <2> QED
    BY <2>2, <2>3 DEF ClientKept
<1>8. \A k \in 1..MaxCommands[c] :
          k > count'[c] \/ (client'[c] \in Onward /\ k = count'[c]) => answer'[c][k] = 0
  BY DEF Reply, ClientKept
<1> QED
  BY <1>6, <1>7, <1>8, ReplyIntro

\* A command takes the reply in front.
LEMMA ReplyTaken ==
    ASSUME TypeInv, LocalInv, ReplyInv, TypeInv', LocalInv', NEW c \in Client, ReadResponse(c)
    PROVE  Reply(c)'
<1>0. Reply(c)
  BY DEF ReplyInv
<1>1. PICK n \in 1..Len(down[c]) : DownRest(c, n)
  BY ReadResponseAt
<1>2. n \in 0..Len(down[c])
  BY Lengths
<1>3. \A i \in DOMAIN down'[c] : i + n \in DOMAIN down[c] /\ down'[c][i] = down[c][i + n]
                                 /\ i \in Nat /\ n \in Nat
  BY <1>1, <1>2, DownRestDomain
<1>4. 1 \in DOMAIN down[c] /\ \A i \in DOMAIN down'[c] : 1 < i + n
  <2>1. n \in Nat /\ n > 0 /\ 1 \in DOMAIN down[c]
    BY Lengths
  <2>2. \A i \in DOMAIN down'[c] : i \in Nat /\ i > 0
    BY NextLengths
  <2> QED
    BY <2>1, <2>2
<1>5. ClientAct(c)
  BY DEF ClientAct, ClientStep
<1>6. \A v \in Nat : Handled(c, v) => Handled(c, v)'
  BY <1>5, HandledClient
<1>7. /\ client[c] = "await" /\ client'[c] \notin Onward /\ count'[c] = count[c]
      /\ count[c] \in 1..MaxCommands[c] /\ MaxCommands[c] \in Nat /\ cur[c].n = count[c]
  <2>1. client[c] = "await" /\ client'[c] = After(cur[c].op, First(c)) /\ count'[c] = count[c]
    BY ReadResponseAt
  <2>2. cur[c] \in CommandItem /\ cur[c].n = count[c] /\ count[c] <= MaxCommands[c]
    BY <2>1 DEF LocalInv, Local
  <2>3. count[c] \in Positive /\ MaxCommands[c] \in Nat
    BY <2>2, CommandFacts, TransferAssumption DEF TransferAssumption
  <2> QED
    BY <2>1, <2>2, <2>3 DEF After, Positive, Onward
<1>8. PICK w \in -1..MaxCommands[c] :
          /\ answer'[c] = [answer[c] EXCEPT ![count[c]] = w]
          /\ w > 0 => IsLine(down[c][1]) /\ w = down[c][1].to
  <2>1. PICK w \in -1..MaxCommands[c] :
            /\ w = Taken(cur[c].op, First(c))
            /\ w > 0 => IsLine(down[c][1]) /\ w = down[c][1].to
    BY TakenFacts
  <2>2. answer'[c] = [answer[c] EXCEPT ![cur[c].n] = Taken(cur[c].op, First(c))]
    BY ReadResponseAt
  <2> QED
    BY <1>7, <2>1, <2>2
<1>9. answer[c] \in [1..MaxCommands[c] -> -1..MaxCommands[c]]
  BY DEF LocalInv, Local
<1>10. answer'[c][count[c]] = w
       /\ \A k \in 1..MaxCommands[c] : k # count[c] => answer'[c][k] = answer[c][k]
  BY <1>7, <1>8, <1>9
<1>11. ASSUME NEW i \in DOMAIN down'[c], NEW v \in Nat, IsLine(down'[c][i]), down'[c][i].to = v
       PROVE  /\ Handled(c, v)'
              /\ \A j \in DOMAIN down'[c] : i < j /\ IsLine(down'[c][j]) => v <= down'[c][j].to
  <2>1. Handled(c, v)
    BY <1>0, <1>3, <1>11 DEF Reply
  <2>2. \A j \in DOMAIN down'[c] : i < j => i + n < j + n
    BY <1>3, <1>11
  <2>3. \A j \in DOMAIN down'[c] : i < j /\ IsLine(down'[c][j]) => v <= down'[c][j].to
    BY <1>0, <1>3, <1>11, <2>2 DEF Reply
  <2> QED
    BY <1>6, <2>1, <2>3
<1>12. ASSUME NEW k \in 1..MaxCommands[c], NEW v \in Nat, answer'[c][k] = v, v > 0
       PROVE  /\ Handled(c, v)' /\ v <= k
              /\ \A i \in DOMAIN down'[c] : IsLine(down'[c][i]) => v <= down'[c][i].to
              /\ \A m \in k..MaxCommands[c] : answer'[c][m] > 0 => v <= answer'[c][m]
  <2>1. CASE k = count[c]
    <3>1. IsLine(down[c][1]) /\ v = down[c][1].to
      BY <1>8, <1>10, <1>12, <2>1
    <3>2. Handled(c, v)
      BY <1>0, <1>4, <3>1 DEF Reply
    <3>3. \A i \in DOMAIN down'[c] : IsLine(down'[c][i]) => v <= down'[c][i].to
      BY <1>0, <1>3, <1>4, <3>1 DEF Reply
    <3>4. v <= k
      BY <2>1, <3>2 DEF Handled
    <3>5. ASSUME NEW m \in k..MaxCommands[c], answer'[c][m] > 0
          PROVE  v <= answer'[c][m]
      <4>1. CASE m = k
        BY <1>12, <4>1
      <4>2. CASE m # k
        <5>1. m \in 1..MaxCommands[c] /\ m > count[c]
          BY <1>7, <2>1, <4>2
        <5>2. answer[c][m] = 0
          BY <1>0, <5>1 DEF Reply
        <5> QED
          BY <1>10, <2>1, <3>5, <4>2, <5>1, <5>2
      <4> QED
        BY <4>1, <4>2
    <3> QED
      BY <1>6, <3>2, <3>3, <3>4, <3>5
  <2>2. CASE k # count[c]
    <3>1. answer[c][k] = v
      BY <1>10, <1>12, <2>2
    <3>2. /\ Handled(c, v) /\ v <= k
          /\ \A i \in DOMAIN down[c] : IsLine(down[c][i]) => v <= down[c][i].to
          /\ \A m \in k..MaxCommands[c] : answer[c][m] > 0 => v <= answer[c][m]
      BY <1>0, <1>12, <3>1 DEF Reply
    <3>3. ASSUME NEW m \in k..MaxCommands[c], answer'[c][m] > 0
          PROVE  v <= answer'[c][m]
      <4>1. CASE m = count[c]
        BY <1>4, <1>8, <1>10, <3>2, <3>3, <4>1
      <4>2. CASE m # count[c]
        <5>1. m \in 1..MaxCommands[c]
          BY <1>7
        <5> QED
          BY <1>10, <3>2, <3>3, <4>2, <5>1
      <4> QED
        BY <4>1, <4>2
    <3> QED
      BY <1>3, <1>6, <3>2, <3>3
  <2> QED
    BY <2>1, <2>2
<1>13. \A k \in 1..MaxCommands[c] :
           k > count'[c] \/ (client'[c] \in Onward /\ k = count'[c]) => answer'[c][k] = 0
  BY <1>0, <1>7, <1>10 DEF Reply
<1> QED
  BY <1>11, <1>12, <1>13, ReplyIntro

\* What the handler writes.
LEMMA HandlerDown ==
    ASSUME TypeInv, LocalInv, NEW c \in Client, HandlerStep(c)
    PROVE  \/ down'[c] = down[c]
           \/ \E x \in DownItem :
                 /\ Sends(c, x)
                 /\ IsLine(x) =>
                        /\ Busy(c) /\ x.to = Number(job[c]) /\ handler'[c] # "ready"
                        /\ up'[c] = up[c] \/ up'[c] = <<>>
                        /\ handler'[c] \in Working => job'[c] = job[c]
<1>1. CASE ReadCommand(c) \/ ReadBlank(c) \/ HandlerLeaves(c) \/ WriteFails(c) \/ Receive(c)
  BY <1>1, ReadCommandAt, ReadBlankAt, HandlerLeavesAt, WriteFailsAt, ReceiveAt
<1>2. CASE ReceiveEnd(c) \/ ReceiveFails(c) \/ LoadFails(c)
  BY <1>2, ReceiveEndAt, ReceiveFailsAt, LoadFailsAt
<1>3. CASE WriteReply(c)
  <2>1. PICK x \in DownItem : x = Line("reply", Number(job[c])) /\ Sends(c, x)
    BY <1>3, WriteReplyAt
  <2>2. x.to = Number(job[c])
    BY <2>1 DEF Line
  <2> QED
    BY <1>3, <2>1, <2>2, WriteReplyAt DEF Busy, Working
<1>4. CASE SendReady(c)
  <2>1. PICK x \in DownItem : x = Line("ready", Number(job[c])) /\ Sends(c, x)
    BY <1>4, SendReadyAt
  <2>2. x.to = Number(job[c])
    BY <2>1 DEF Line
  <2> QED
    BY <1>4, <2>1, <2>2, SendReadyAt DEF Busy, Working
<1>5. CASE SendHeader(c)
  <2>1. PICK x \in DownItem : x = Header(Number(job[c]), files[job[c].file]) /\ Sends(c, x)
    BY <1>5, SendHeaderAt
  <2>2. x.to = Number(job[c])
    BY <2>1 DEF Header
  <2> QED
    BY <1>5, <2>1, <2>2, SendHeaderAt DEF Busy, Working
<1>6. CASE SendBlock(c)
  <2>1. PICK x \in DownItem : x = left[c][1] /\ ~IsLine(x) /\ Sends(c, x)
    BY <1>6, SendBlockAt
  <2> QED
    BY <2>1
<1> QED
  BY <1>1, <1>2, <1>3, <1>4, <1>5, <1>6 DEF HandlerStep

LEMMA ReplyHandler ==
    ASSUME TypeInv, LocalInv, TypeInv', LocalInv', NEW c \in Client, Reply(c), Order(c),
           HandlerStep(c)
    PROVE  Reply(c)'
<1>1. ClientKept(c) /\ \A v \in Nat : Handled(c, v) => Handled(c, v)'
  BY HandlerKeepsAt, HandledHandler
<1>2. CASE down'[c] = down[c]
  BY <1>1, <1>2, DownRestAll, ReplyKept DEF ClientKept
<1>3. ASSUME NEW x \in DownItem, Sends(c, x),
             IsLine(x) =>
                        /\ Busy(c) /\ x.to = Number(job[c]) /\ handler'[c] # "ready"
                        /\ up'[c] = up[c] \/ up'[c] = <<>>
                        /\ handler'[c] \in Working => job'[c] = job[c]
      PROVE  Reply(c)'
  <2>1. CASE Gone(c)
    BY <1>2, <1>3, <2>1 DEF Sends
  <2>2. CASE ~Gone(c)
    <3>1. IsLine(x) => \A v \in Nat : v = x.to => Handled(c, v)'
      BY <1>1, <1>3, JobHandled
    <3> QED
      BY <1>1, <1>3, <2>2, <3>1, ReplyPut
  <2> QED
    BY <2>1, <2>2
<1> QED
  BY <1>2, <1>3, HandlerDown

LEMMA ClientDown ==
    ASSUME TypeInv, LocalInv, TypeInv', NEW c \in Client, ClientAct(c), ~ReadResponse(c)
    PROVE  /\ answer'[c] = answer[c]
           /\ \E n \in 0..Len(down[c]) : DownRest(c, n)
<1>1. CASE Connect(c) \/ AwaitFails(c) \/ SendData(c) \/ SendDataFails(c) \/ SendDone(c)
           \/ ReceiveDone(c) \/ SendRest(c) \/ RestFails(c)
  <2>1. down'[c] = down[c] /\ answer'[c] = answer[c]
    BY <1>1, ConnectAt, AwaitFailsAt, SendDataAt, SendEndsAt, ReceiveDoneAt,
       SendRestAt, RestFailsAt
  <2> QED
    BY <2>1, DownRestAll
<1>2. CASE Leave(c)
  BY <1>2, LeaveAt, DownRestAll
<1>3. CASE ReadMore(c)
  <2>1. PICK n \in 1..Len(down[c]) : DownRest(c, n)
    BY <1>3, ReadMoreAt
  <2>2. n \in 0..Len(down[c])
    BY Lengths
  <2> QED
    BY <1>3, <2>1, <2>2, ReadMoreAt
<1>4. CASE ReceiveData(c)
  <2>1. PICK n \in 1..Len(down[c]) : DownRest(c, n)
    BY <1>4, ReceiveDataAt
  <2>2. n \in 0..Len(down[c])
    BY Lengths
  <2> QED
    BY <1>4, <2>1, <2>2, ReceiveDataAt
<1>5. ASSUME NEW op \in Ops, NEW f \in File \union {None}, NEW to \in Onward,
              SendCommand(c, op, f, to),
              Command(op, f, c, count[c] + 1) \in CommandItem
      PROVE  down'[c] = down[c] /\ answer'[c] = answer[c]
  BY <1>5, SendCommandAt
<1> QED
  BY <1>1, <1>2, <1>3, <1>4, <1>5, ClientCases, DownRestAll

LEMMA ReplyClient ==
    ASSUME TypeInv, LocalInv, ReplyInv, TypeInv', LocalInv', NEW c \in Client, ClientAct(c)
    PROVE  Reply(c)'
<1>1. CASE ReadResponse(c)
  BY <1>1, ReplyTaken
<1>2. CASE ~ReadResponse(c)
  <2>1. PICK n \in 0..Len(down[c]) : DownRest(c, n) /\ answer'[c] = answer[c]
    BY <1>2, ClientDown
  <2>2. \A v \in Nat : Handled(c, v) => Handled(c, v)'
    BY HandledClient
  <2>3. \A k \in 1..MaxCommands[c] :
             k > count'[c] \/ (client'[c] \in Onward /\ k = count'[c]) =>
                   k > count[c] \/ (client[c] \in Onward /\ k = count[c])
    BY CountGrows
  <2> QED
    BY <2>1, <2>2, <2>3, ReplyKept DEF ReplyInv
<1> QED
  BY <1>1, <1>2

LEMMA ReplyStep ==
    ASSUME TypeInv, LocalInv, OrderInv, ReplyInv, TypeInv', LocalInv', [Next]_vars
    PROVE  ReplyInv'
<1>1. CASE UNCHANGED vars
  BY <1>1 DEF ReplyInv, Reply, Handled, Busy, vars, clientVars, handlerVars, history
<1>2. SUFFICES ASSUME Next, NEW d \in Client
               PROVE  Reply(d)'
  BY <1>1 DEF ReplyInv
<1>3. Reply(d) /\ Order(d)
  BY DEF ReplyInv, OrderInv
<1>4. CASE ServerExits
  <2>1. /\ Continues(d) /\ ClientKept(d) /\ UpRest(d, Len(up[d]))
        /\ down'[d] = down[d] /\ answer'[d] = answer[d]
    BY <1>4, ExitFacts, UpRestAll DEF Continues, Working, ClientKept
  <2>2. \A v \in Nat : Handled(d, v) => Handled(d, v)'
    BY <2>1, UpRestAll, HandledRest
  <2> QED
    BY <1>3, <2>1, <2>2, DownRestAll, ReplyKept DEF ClientKept
<1>5. ASSUME NEW c \in Client, HandlerStep(c) \/ ClientAct(c)
      PROVE  Reply(d)'
  <2>1. CASE c = d
    BY <1>3, <1>5, <2>1, ReplyHandler, ReplyClient
  <2>2. CASE c # d
    <3>1. Same(d)
      BY <1>5, <2>2, HandlerElsewhere, ClientElsewhere DEF ClientAct
    <3>2. \A v \in Nat : Handled(d, v) => Handled(d, v)'
      BY <3>1 DEF Same, Handled, Busy
    <3> QED
      BY <1>3, <3>1, <3>2, DownRestAll, ReplyKept DEF Same
  <2> QED
    BY <2>1, <2>2
<1> QED
  BY <1>2, <1>4, <1>5, NextCases

-----------------------------------------------------------------------------
(* A session of short lines without transfers.                              *)

LEMMA SingleFacts ==
    ASSUME NEW S, NEW s \in Seq(S)
    PROVE  /\ Len(s) = 0 => s = <<>>
           /\ \A x \in S : Len(s) = 1 /\ s[1] = x => s = <<x>>
           /\ \A x : s = <<x>> => Len(s) = 1 /\ s[1] = x
           /\ s = <<>> => Len(s) = 0
  OBVIOUS

LEMMA CleanHandler ==
    ASSUME TypeInv, LocalInv, TypeInv', NEW c \in Client, Clean(c), HandlerStep(c)
    PROVE  Clean(c)'
<1>1. ClientKept(c)
  BY HandlerKeepsAt
<1>2. CASE Gone(c)
  BY <1>1, <1>2 DEF Clean, Gone, ClientKept
<1>3. CASE ~Gone(c)
  <2>1. /\ client[c] \in {"off", "idle", "await"} /\ response[c] = None
        /\ client[c] = "await" => cur[c].op \in {"simple", "close"}
        /\ up[c] # <<>> =>
              client[c] = "await" /\ up[c] = <<cur[c]>> /\ down[c] = <<>> /\ ~Busy(c)
        /\ down[c] # <<>> =>
              client[c] = "await" /\ down[c] = <<Line("reply", count[c])>> /\ ~Busy(c)
        /\ Busy(c) => client[c] = "await" /\ handler[c] = "reply" /\ job[c] = cur[c]
    BY <1>3 DEF Clean
  <2>2. client[c] = "await" => cur[c] \in CommandItem /\ cur[c].n = count[c]
                               /\ Number(cur[c]) = count[c]
    BY CommandFacts DEF LocalInv, Local
  <2>3. CASE ReadCommand(c)
    <3>1. up[c] # <<>> /\ up[c][1] = cur[c]
      BY <2>1, <2>3 DEF ReadCommand
    <3>2. client[c] = "await" /\ down[c] = <<>> /\ Len(up[c]) = 1
      BY <2>1, <3>1
    <3>3. job'[c] = cur[c] /\ handler'[c] = Branch(cur[c]) /\ down'[c] = down[c]
      BY <2>3, <3>1, ReadCommandAt
    <3>4. handler'[c] = "reply"
      BY <2>1, <3>2, <3>3 DEF Branch, Asks
    <3>5. PICK n \in 1..Len(up[c]) : UpRest(c, n)
      BY <2>3, ReadCommandAt
    <3>6. Len(up'[c]) = 0 /\ up'[c] \in Seq(UpItem)
      BY <3>2, <3>5 DEF UpRest, TypeInv
    <3>7. up'[c] = <<>>
      BY <3>6, SingleFacts
    <3> QED
      BY <1>1, <2>1, <3>2, <3>3, <3>4, <3>7 DEF Clean, Busy, Working, ClientKept
  <2>9. CASE ReadBlank(c)
    <3>1. IsRaw(up[c][1]) /\ up[c] # <<>>
      <4>1. PICK n \in 1..Len(up[c]) : IsRaw(up[c][1])
        BY <2>9, ReadBlankAt
      <4> QED
        BY <4>1, Lengths, NoneFacts
    <3>2. client[c] = "await" /\ up[c] = <<cur[c]>>
      BY <2>1, <3>1
    <3>3. up[c][1] = cur[c] /\ ~IsRaw(cur[c])
      BY <2>2, <3>2, CommandFacts
    <3> QED
      BY <3>1, <3>3
  <2>4. CASE HandlerLeaves(c)
    BY <1>1, <2>1, <2>4, HandlerLeavesAt DEF Clean, Busy, Working, ClientKept
  <2>5. CASE WriteReply(c)
    <3>1. Busy(c)
      BY <2>5, WriteReplyAt DEF Busy, Working
    <3>2. up[c] = <<>> /\ down[c] = <<>> /\ job[c] = cur[c] /\ client[c] = "await"
      BY <2>1, <3>1
    <3>3. PICK x \in DownItem : x = Line("reply", Number(job[c])) /\ Sends(c, x)
      BY <2>5, WriteReplyAt
    <3>4. x = Line("reply", count[c])
      BY <2>2, <3>2, <3>3
    <3>5. Len(down'[c]) = 1 /\ down'[c][1] = x
      <4>1. Len(down[c]) = 0
        BY <3>2, NoneFacts
      <4>2. Len(down'[c]) = Len(down[c]) + 1 /\ down'[c][Len(down[c]) + 1] = x
        BY <1>3, <3>3, SendsFacts
      <4> QED
        BY <4>1, <4>2
    <3>6. down'[c] = <<x>>
      BY <3>5, SingleFacts DEF TypeInv
    <3>7. up'[c] = <<>> /\ handler'[c] \in {"read", "gone"}
      BY <2>5, <3>2, WriteReplyAt
    <3>8. ~(handler'[c] \in Working)
      BY <3>7 DEF Working
    <3> QED
      BY <1>1, <2>1, <3>2, <3>4, <3>6, <3>7, <3>8 DEF Clean, Busy, ClientKept
  <2>6. CASE WriteFails(c)
    BY <1>3, <2>6, WriteFailsAt
  <2>7. CASE SendReady(c) \/ Receive(c) \/ ReceiveEnd(c) \/ ReceiveFails(c)
    BY <2>1, <2>7, SendReadyAt, ReceiveAt, ReceiveEndAt, ReceiveFailsAt DEF Busy, Working
  <2>8. CASE SendHeader(c) \/ LoadFails(c) \/ SendBlock(c)
    BY <2>1, <2>8, SendHeaderAt, LoadFailsAt, SendBlockAt DEF Busy, Working
  <2> QED
    BY <2>3, <2>4, <2>5, <2>6, <2>7, <2>8, <2>9 DEF HandlerStep
<1> QED
  BY <1>2, <1>3

LEMMA CleanClient ==
    ASSUME TypeInv, LocalInv, TypeInv', NEW c \in Client, Clean(c), ClientAct(c), clean'[c]
    PROVE  Clean(c)'
<1>1. ~Gone(c)
  <2>1. CASE Connect(c) \/ Leave(c) \/ ReadMore(c) \/ ReadResponse(c) \/ AwaitFails(c)
    BY <2>1, ConnectAt, LeaveAt, ReadMoreAt, ReadResponseAt, AwaitFailsAt DEF Gone
  <2>2. CASE SendDataFails(c) \/ SendDone(c) \/ ReceiveData(c) \/ ReceiveDone(c) \/ SendData(c)
    BY <2>2, SendEndsAt, ReceiveDataAt, ReceiveDoneAt, SendDataAt DEF Gone
  <2>3. ASSUME NEW op \in Ops, NEW f \in File \union {None}, NEW to \in Onward,
               SendCommand(c, op, f, to), Command(op, f, c, count[c] + 1) \in CommandItem
        PROVE  ~Gone(c)
    BY <2>3, SendCommandAt DEF Gone
  <2>4. CASE SendRest(c) \/ RestFails(c)
    BY <2>4, SendRestAt, RestFailsAt DEF Gone
  <2> QED
    BY <2>1, <2>2, <2>3, <2>4, ClientCases
<1>2. /\ client[c] \in {"off", "idle", "await"} /\ response[c] = None
      /\ client[c] = "await" => cur[c].op \in {"simple", "close"}
      /\ up[c] # <<>> =>
            client[c] = "await" /\ up[c] = <<cur[c]>> /\ down[c] = <<>> /\ ~Busy(c)
      /\ down[c] # <<>> =>
            client[c] = "await" /\ down[c] = <<Line("reply", count[c])>> /\ ~Busy(c)
      /\ Busy(c) => client[c] = "await" /\ handler[c] = "reply" /\ job[c] = cur[c]
      /\ \A k \in 1..MaxCommands[c] : answer[c][k] \in {0, k}
  BY <1>1 DEF Clean
<1>3. client[c] = "await" => cur[c] \in CommandItem /\ cur[c].n = count[c]
  BY DEF LocalInv, Local
<1>4. CASE Connect(c)
  <2>1. client[c] = "off" /\ client'[c] = "idle" /\ handler'[c] = "read"
        /\ response'[c] = response[c] /\ answer'[c] = answer[c]
        /\ up'[c] = up[c] /\ down'[c] = down[c]
    BY <1>4, ConnectAt
  <2>2. up[c] = <<>> /\ down[c] = <<>>
    BY <1>2, <2>1
  <2> QED
    BY <1>2, <2>1, <2>2 DEF Clean, Busy, Working
<1>5. CASE Leave(c)
  BY <1>2, <1>5, LeaveAt DEF Clean, Gone
<1>6. CASE ReadMore(c)
  <2>1. IsRaw(down[c][1]) /\ down[c] # <<>>
    <3>1. PICK n \in 1..Len(down[c]) : IsRaw(down[c][1])
      BY <1>6, ReadMoreAt
    <3> QED
      BY <3>1, Lengths, NoneFacts
  <2>2. down[c][1] = Line("reply", count[c])
    BY <1>2, <2>1
  <2> QED
    BY <2>1, <2>2 DEF Line, IsRaw
<1>7. CASE ReadResponse(c)
  <2>1. down[c] # <<>> /\ client[c] = "await"
    BY <1>7 DEF ReadResponse, ClientGoes
  <2>2. Len(down[c]) = 1 /\ down[c][1] = Line("reply", count[c]) /\ ~Busy(c) /\ up[c] = <<>>
    <3>1. down[c] = <<Line("reply", count[c])>> /\ ~Busy(c) /\ up[c] = <<>>
      BY <1>2, <2>1
    <3>2. down[c] \in Seq(DownItem)
      BY DEF TypeInv
    <3> QED
      BY <3>1, <3>2, SingleFacts
  <2>3. First(c) = Line("reply", count[c])
    BY <1>2, <2>1, <2>2, FirstFacts DEF First
  <2>4. client'[c] = "idle" /\ response'[c] = None /\ HandlerKept(c) /\ up'[c] = up[c]
    BY <1>2, <1>7, <2>1, <2>3, ReadResponseAt DEF After, Line
  <2>5. Taken(cur[c].op, First(c)) = count[c]
    BY <1>2, <2>1, <2>3 DEF Taken, After, Line
  <2>6. PICK w : w = count[c]
    OBVIOUS
  <2>7. answer'[c] = [answer[c] EXCEPT ![w] = w]
    BY <1>3, <1>7, <2>1, <2>5, <2>6, ReadResponseAt
  <2>8. answer[c] \in [1..MaxCommands[c] -> -1..MaxCommands[c]]
    BY DEF LocalInv, Local
  <2>9. \A k \in 1..MaxCommands[c] : answer'[c][k] \in {0, k}
    BY <1>2, <2>7, <2>8
  <2>10. PICK n \in 1..Len(down[c]) : DownRest(c, n)
    BY <1>7, ReadResponseAt
  <2>11. Len(down'[c]) = 0 /\ down'[c] \in Seq(DownItem)
    BY <2>2, <2>10 DEF DownRest, TypeInv
  <2>12. down'[c] = <<>>
    BY <2>11, SingleFacts
  <2> QED
    BY <2>2, <2>4, <2>9, <2>12 DEF Clean, Busy, HandlerKept
<1>8. CASE AwaitFails(c)
  BY <1>8, AwaitFailsAt
<1>9. CASE SendDataFails(c) \/ SendDone(c) \/ ReceiveData(c) \/ ReceiveDone(c) \/ SendData(c)
  BY <1>2, <1>9, SendEndsAt, ReceiveDataAt, ReceiveDoneAt, SendDataAt
<1>11. CASE SendRest(c) \/ RestFails(c)
  BY <1>2, <1>11, SendRestAt, RestFailsAt
<1>10. ASSUME NEW op \in Ops, NEW f \in File \union {None}, NEW to \in Onward,
              SendCommand(c, op, f, to),
              Command(op, f, c, count[c] + 1) \in CommandItem
       PROVE  Clean(c)'
  <2>1. PICK line \in CommandItem :
             /\ line = Command(op, f, c, count[c] + 1)
             /\ \/ Closed(c) /\ client'[c] = "idle" /\ cur'[c] = cur[c] /\ up'[c] = up[c]
                \/ Closed(c) /\ client'[c] = to /\ cur'[c] = line /\ up'[c] = up[c]
                \/ ~Closed(c) /\ client'[c] = to /\ cur'[c] = line /\ UpPut(c, line)
    BY <1>10, SendCommandAt
  <2>2. /\ client[c] = "idle" /\ HandlerKept(c) /\ response'[c] = response[c]
        /\ answer'[c] = answer[c] /\ down'[c] = down[c] /\ op \notin {"upload", "download"}
        /\ to = "await"
    BY <1>10, SendCommandAt
  <2>3. up[c] = <<>> /\ down[c] = <<>> /\ ~Busy(c)
    BY <1>2, <2>2
  <2>4. line.op \in {"simple", "close"}
    BY <2>1, <2>2 DEF Command, Ops
  <2>5. CASE UpPut(c, line)
    <3>1. Len(up'[c]) = 1 /\ up'[c][1] = line /\ up'[c] \in Seq(UpItem)
      BY <2>3, <2>5, NoneFacts DEF UpPut, TypeInv
    <3>2. up'[c] = <<line>>
      BY <3>1, SingleFacts, ItemFacts
    <3> QED
      BY <1>2, <2>1, <2>2, <2>3, <2>4, <3>2 DEF Clean, Busy, HandlerKept
  <2>6. CASE up'[c] = up[c]
    BY <1>2, <2>1, <2>2, <2>3, <2>4, <2>6 DEF Clean, Busy, HandlerKept
  <2> QED
    BY <2>1, <2>5, <2>6
<1> QED
  BY <1>4, <1>5, <1>6, <1>7, <1>8, <1>9, <1>10, <1>11, ClientCases

LEMMA CleanStep ==
    ASSUME TypeInv, LocalInv, CleanInv, TypeInv', [Next]_vars
    PROVE  CleanInv'
<1>1. CASE UNCHANGED vars
  BY <1>1 DEF CleanInv, Clean, Busy, Gone, vars, clientVars, handlerVars, history
<1>2. SUFFICES ASSUME Next, NEW d \in Client, clean'[d]
               PROVE  Clean(d)'
  BY <1>1 DEF CleanInv
<1>3. CASE ServerExits
  BY <1>2, <1>3, ExitFacts DEF CleanInv, Clean, Busy, Working, Gone
<1>4. ASSUME NEW c \in Client, HandlerStep(c) \/ ClientAct(c)
      PROVE  Clean(d)'
  <2>1. CASE c = d /\ HandlerStep(c)
    <3>1. clean'[d] = clean[d]
      BY <2>1, HandlerKeepsAt DEF ClientKept
    <3> QED
      BY <1>2, <2>1, <3>1, CleanHandler DEF CleanInv
  <2>2. CASE c = d /\ ClientAct(c)
    <3>1. clean[d]
      <4>1. CASE Connect(c) \/ Leave(c) \/ ReadMore(c) \/ ReadResponse(c) \/ AwaitFails(c)
        <5>1. CASE Connect(c) \/ Leave(c) \/ ReadMore(c)
          BY <1>2, <2>2, <5>1, ConnectAt, LeaveAt, ReadMoreAt
        <5>2. CASE ReadResponse(c) \/ AwaitFails(c)
          BY <1>2, <2>2, <5>2, ReadResponseAt, AwaitFailsAt
        <5> QED
          BY <4>1, <5>1, <5>2
      <4>2. CASE SendDataFails(c) \/ SendDone(c) \/ ReceiveData(c) \/ ReceiveDone(c)
                 \/ SendData(c)
        <5>1. CASE SendDataFails(c) \/ SendDone(c)
          BY <1>2, <2>2, <5>1, SendEndsAt
        <5>2. CASE ReceiveData(c) \/ ReceiveDone(c)
          BY <1>2, <2>2, <5>2, ReceiveDataAt, ReceiveDoneAt
        <5>3. CASE SendData(c)
          BY <1>2, <2>2, <5>3, SendDataAt
        <5> QED
          BY <4>2, <5>1, <5>2, <5>3
      <4>3. ASSUME NEW op \in Ops, NEW f \in File \union {None}, NEW to \in Onward,
                   SendCommand(c, op, f, to), Command(op, f, c, count[c] + 1) \in CommandItem
            PROVE  clean[c]
        BY <1>2, <2>2, <4>3, SendCommandAt
      <4>4. CASE SendRest(c) \/ RestFails(c)
        BY <1>2, <2>2, <4>4, SendRestAt, RestFailsAt
      <4> QED
        BY <2>2, <4>1, <4>2, <4>3, <4>4, ClientCases
    <3> QED
      BY <1>2, <2>2, <3>1, CleanClient DEF CleanInv
  <2>3. CASE c # d
    <3>1. Same(d)
      BY <1>4, <2>3, HandlerElsewhere, ClientElsewhere DEF ClientAct
    <3> QED
      BY <1>2, <3>1 DEF Same, CleanInv, Clean, Busy, Gone
  <2> QED
    BY <1>4, <2>1, <2>2, <2>3
<1> QED
  BY <1>2, <1>3, <1>4, NextCases

-----------------------------------------------------------------------------
(* The blocks of an upload.                                                 *)

LEMMA Asymmetric ==
    ASSUME NEW a \in UpItem, NEW b \in UpItem, Before(a, b), a.kind # "piece"
    PROVE  ~Before(b, a) /\ a # b
<1>1. /\ Number(a) \in Nat /\ Number(b) \in Nat
      /\ a.kind \in {"command", "block", "piece"} /\ b.kind \in {"command", "block", "piece"}
      /\ a.kind = "block" => a.n \in Nat
      /\ b.kind = "block" => b.n \in Nat
  BY UpFacts, BlockFacts, TransferAssumption DEF Positive, TransferAssumption
<1> QED
  BY <1>1 DEF Before, IsRaw

LEMMA BlockOrder ==
    ASSUME NEW c \in Client, NEW n \in 1..MaxCommands[c], NEW v \in 1..Blocks
    PROVE  /\ Block(c, n, v) \in UpBlock /\ Block(c, n, v) \in UpItem
           /\ Block(c, n, v).by = c /\ Number(Block(c, n, v)) = n
           /\ Block(c, n, v).n = v /\ Block(c, n, v).kind = "block"
           /\ Block(c, n, v).of = n
           /\ \A w \in 1..Blocks : v < w => Before(Block(c, n, v), Block(c, n, w))
<1>1. n \in Positive
  BY TransferAssumption DEF Positive, TransferAssumption
<1>2. Block(c, n, v) \in UpBlock /\ Block(c, n, v) \in UpItem
  BY <1>1, BlockType, ItemFacts
<1> QED
  BY <1>1, <1>2 DEF Block, Number, Before

\* A stream holds the items of a client in their order.
LEMMA UpPosition ==
    ASSUME TypeInv, NEW c \in Client, Order(c), NEW i \in DOMAIN up[c], NEW j \in DOMAIN up[c],
           Before(up[c][i], up[c][j]), up[c][i].kind # "piece"
    PROVE  i < j
<1>1. up[c][i] \in UpItem /\ up[c][j] \in UpItem /\ i \in Nat /\ j \in Nat
  BY Lengths
<1>2. ~Before(up[c][j], up[c][i]) /\ up[c][i] # up[c][j]
  BY <1>1, Asymmetric
<1>3. ~(j < i) /\ i # j
  BY <1>2 DEF Order
<1> QED
  BY <1>1, <1>3

\* What is known of a block that is in the stream or in a file.
LEMMA WrittenBlock ==
    ASSUME TypeInv, LocalInv, NEW c \in Client, NEW n \in 1..MaxCommands[c], NEW v \in 1..Blocks,
           Written(c, Block(c, n, v))
    PROVE  /\ n <= count[c] /\ count[c] \in Nat /\ n \in Nat
           /\ n = count[c] => client[c] \notin Onward /\ v <= progress[c]
<1>1. Number(Block(c, n, v)) = n /\ Block(c, n, v).kind = "block" /\ Block(c, n, v).n = v
  BY BlockOrder
<1>2. count[c] \in Nat /\ n \in Nat
  BY Lengths, TransferAssumption DEF TransferAssumption
<1> QED
  BY <1>1, <1>2 DEF Written

LEMMA UpWritten ==
    ASSUME NEW c \in Client, Order(c), NEW b, InUp(c, b)
    PROVE  Written(c, b)
  BY DEF Order, InUp

LEMMA FileWritten ==
    ASSUME NEW c \in Client, NEW f \in File, Filed(c, f), NEW b, b.by = c, InFile(f, b)
    PROVE  /\ Written(c, b) /\ (handler[c] = "ready" => Number(b) < job[c].n)
           /\ \A a : InUp(c, a) => Before(b, a)
  BY DEF Filed, InFile, InUp

\* A block stays in its file.
LEMMA InFileStays ==
    ASSUME TypeInv, LocalInv, TypeInv', [Next]_vars, NEW f \in File, NEW b, InFile(f, b)
    PROVE  InFile(f, b)'
<1>1. PICK k \in DOMAIN files[f] : files[f][k] = b
  BY DEF InFile
<1>2. CASE files' = files
  BY <1>1, <1>2 DEF InFile
<1>3. ASSUME NEW c \in Client, HandlerStep(c) \/ ClientAct(c)
      PROVE  InFile(f, b)'
  <2>1. /\ Len(files[f]) \in Nat /\ Len(files'[f]) \in Nat
        /\ Len(files[f]) <= Len(files'[f])
        /\ \A i \in 1..Len(files[f]) : files'[f][i] = files[f][i]
    BY <1>3, FilesGrow
  <2>2. k \in 1..Len(files[f]) /\ DOMAIN files'[f] = 1..Len(files'[f])
    BY FileLengths, NextFileLengths
  <2>3. k \in DOMAIN files'[f] /\ files'[f][k] = b
    BY <1>1, <2>1, <2>2
  <2> QED
    BY <2>3 DEF InFile
<1>4. CASE ServerExits
  <2>1. files' = files
    BY <1>4 DEF ServerExits
  <2> QED
    BY <1>2, <2>1
<1>5. CASE UNCHANGED vars
  BY <1>2, <1>5 DEF vars
<1> QED
  BY <1>3, <1>4, <1>5, NextCases

LEMMA InFileForeign ==
    ASSUME TypeInv, TypeInv', NEW c \in Client, NEW f \in File, Foreign(c, f), NEW b, b.by = c,
           InFile(f, b)'
    PROVE  InFile(f, b)
<1>1. PICK k \in DOMAIN files'[f] : files'[f][k] = b
  BY DEF InFile
<1>2. k \in DOMAIN files[f] /\ files'[f][k] = files[f][k]
  BY <1>1, ForeignFacts
<1> QED
  BY <1>1, <1>2 DEF InFile

\* A read takes what is in front.
LEMMA InUpRest ==
    ASSUME TypeInv, TypeInv', NEW c \in Client, Order(c), NEW n \in 0..Len(up[c]), UpRest(c, n)
    PROVE  /\ \A b : InUp(c, b)' => InUp(c, b)
           /\ \A b, e : InUp(c, b)' /\ InUp(c, e) /\ Before(b, e) /\ b.kind # "piece" => InUp(c, e)'
<1>1. PICK m \in Nat : m = Len(up[c]) /\ n \in 0..m /\ DOMAIN up[c] = 1..m
  BY Lengths
<1>2. DOMAIN up'[c] = 1..m - n /\ \A i \in 1..m - n : up'[c][i] = up[c][i + n]
  <2>1. Len(up'[c]) = m - n /\ \A i \in 1..m - n : up'[c][i] = up[c][i + n]
    BY <1>1 DEF UpRest
  <2> QED
    BY <2>1, NextLengths
<1>3. ASSUME NEW b, InUp(c, b)'
      PROVE  \E i \in 1..m - n : i + n \in DOMAIN up[c] /\ up[c][i + n] = b
  <2>1. PICK i \in DOMAIN up'[c] : up'[c][i] = b
    BY <1>3 DEF InUp
  <2>2. i \in 1..m - n /\ i + n \in 1..m
    BY <1>1, <1>2, <2>1
  <2> QED
    BY <1>1, <1>2, <2>1, <2>2
<1>4. ASSUME NEW b, NEW e, InUp(c, b)', InUp(c, e), Before(b, e), b.kind # "piece"
      PROVE  InUp(c, e)'
  <2>1. PICK i \in 1..m - n : i + n \in DOMAIN up[c] /\ up[c][i + n] = b
    BY <1>3, <1>4
  <2>2. PICK j \in DOMAIN up[c] : up[c][j] = e
    BY <1>4 DEF InUp
  <2>3. i + n < j
    BY <1>4, <2>1, <2>2, UpPosition
  <2>4. j - n \in 1..m - n /\ (j - n) + n = j
    BY <1>1, <2>2, <2>3
  <2>5. up'[c][j - n] = e
    BY <1>2, <2>2, <2>4
  <2> QED
    BY <1>2, <2>4, <2>5 DEF InUp
<1> QED
  BY <1>3, <1>4 DEF InUp

\* What moves from the stream into the file.
Moved(c, n, b) == \E i \in 1..n : i \in DOMAIN up[c] /\ up[c][i] = b

LEMMA MovedFacts ==
    ASSUME TypeInv, TypeInv', NEW c \in Client, Order(c), NEW f \in File,
           NEW n \in 0..Len(up[c]), Moves(c, f, n)
    PROVE  /\ \A b : InFile(f, b)' => InFile(f, b) \/ Moved(c, n, b)
           /\ \A b : Moved(c, n, b) => InUp(c, b) /\ InFile(f, b)'
           /\ \A b : InUp(c, b) => InUp(c, b)' \/ InFile(f, b)'
           /\ \A b, e : Moved(c, n, b) /\ InUp(c, e) /\ Before(e, b) /\ e.kind # "piece" =>
                          InFile(f, e)'
<1>1. PICK a \in Nat, l \in Nat : a = Len(files[f]) /\ l = Len(up[c]) /\ n \in 0..l
      /\ DOMAIN files[f] = 1..a /\ DOMAIN up[c] = 1..l
  BY FileLengths, Lengths
<1>2. /\ DOMAIN files'[f] = 1..a + n
      /\ \A k \in 1..a : files'[f][k] = files[f][k]
      /\ \A i \in 1..n : files'[f][a + i] = up[c][i]
      /\ DOMAIN up'[c] = 1..l - n
      /\ \A i \in 1..l - n : up'[c][i] = up[c][i + n]
  <2>1. Len(files'[f]) = a + n /\ Len(up'[c]) = l - n
    BY <1>1 DEF Moves
  <2> QED
    BY <1>1, <2>1, NextFileLengths, NextLengths DEF Moves
<1>3. ASSUME NEW b, InFile(f, b)'
      PROVE  InFile(f, b) \/ Moved(c, n, b)
  <2>1. PICK k \in 1..a + n : files'[f][k] = b
    BY <1>2, <1>3 DEF InFile
  <2>2. CASE k \in 1..a
    BY <1>1, <1>2, <2>1, <2>2 DEF InFile
  <2>3. CASE ~(k \in 1..a)
    <3>1. k - a \in 1..n /\ k = a + (k - a) /\ k - a \in 1..l
      BY <1>1, <2>1, <2>3
    <3>2. up[c][k - a] = b
      BY <1>2, <2>1, <3>1
    <3> QED
      BY <1>1, <3>1, <3>2 DEF Moved
  <2> QED
    BY <2>2, <2>3
<1>5. ASSUME NEW i \in 1..n, NEW b, up[c][i] = b
      PROVE  InFile(f, b)'
  <2>1. a + i \in 1..a + n
    BY <1>1
  <2>2. a + i \in DOMAIN files'[f] /\ files'[f][a + i] = b
    BY <1>2, <1>5, <2>1
  <2> QED
    BY <2>2 DEF InFile
<1>6. \A b : Moved(c, n, b) => InUp(c, b) /\ InFile(f, b)'
  BY <1>5 DEF Moved, InUp
<1>7. ASSUME NEW b, InUp(c, b)
      PROVE  InUp(c, b)' \/ InFile(f, b)'
  <2>1. PICK j \in 1..l : up[c][j] = b
    BY <1>1, <1>7 DEF InUp
  <2>2. CASE j \in 1..n
    BY <1>5, <2>1, <2>2
  <2>3. CASE ~(j \in 1..n)
    <3>1. j - n \in 1..l - n /\ (j - n) + n = j
      BY <1>1, <2>1, <2>3
    <3>2. up'[c][j - n] = b
      BY <1>2, <2>1, <3>1
    <3> QED
      BY <1>2, <3>1, <3>2 DEF InUp
  <2> QED
    BY <2>2, <2>3
<1>8. ASSUME NEW b, NEW e, Moved(c, n, b), InUp(c, e), Before(e, b), e.kind # "piece"
      PROVE  InFile(f, e)'
  <2>1. PICK i \in 1..n : i \in DOMAIN up[c] /\ up[c][i] = b
    BY <1>8 DEF Moved
  <2>2. PICK j \in DOMAIN up[c] : up[c][j] = e
    BY <1>8 DEF InUp
  <2>3. j < i
    BY <1>8, <2>1, <2>2, UpPosition
  <2>4. j \in 1..n
    BY <1>1, <2>1, <2>2, <2>3
  <2> QED
    BY <1>5, <2>2, <2>4
<1> QED
  BY <1>3, <1>6, <1>7, <1>8

\* The client writes the next block, or nothing that concerns a block.
Adds(c) ==
    /\ count'[c] = count[c] /\ progress'[c] = progress[c] + 1
    /\ progress[c] + 1 \in 1..Blocks /\ count[c] \in 1..MaxCommands[c]
    /\ client'[c] = "sending"
    /\ \A b : InUp(c, b)' <=> InUp(c, b) \/ b = Block(c, count[c], progress[c] + 1)
AddsNone(c) ==
    /\ \A b \in UpBlock : InUp(c, b)' <=> InUp(c, b)
    /\ \/ count'[c] = count[c] /\ progress'[c] \in {0, progress[c]}
       \/ count'[c] = count[c] /\ client[c] = "writing"
       \/ count'[c] = count[c] + 1

LEMMA InUpPut ==
    ASSUME TypeInv, TypeInv', NEW c \in Client, NEW x, UpPut(c, x)
    PROVE  \A b : InUp(c, b)' <=> InUp(c, b) \/ b = x
<1>1. PICK m \in Nat : m = Len(up[c]) /\ DOMAIN up[c] = 1..m
  BY Lengths
<1>2. DOMAIN up'[c] = 1..m + 1 /\ up'[c][m + 1] = x
      /\ \A i \in 1..m : up'[c][i] = up[c][i]
  <2>1. Len(up'[c]) = m + 1
    BY <1>1 DEF UpPut
  <2> QED
    BY <1>1, <2>1, NextLengths DEF UpPut
<1>3. \A i \in 1..m + 1 : i \in 1..m \/ i = m + 1
  OBVIOUS
<1>4. m + 1 \in 1..m + 1 /\ \A i \in 1..m : i \in 1..m + 1
  OBVIOUS
<1> QED
  BY <1>1, <1>2, <1>3, <1>4 DEF InUp

LEMMA ClientBlocks ==
    ASSUME TypeInv, LocalInv, TypeInv', NEW c \in Client, ClientAct(c)
    PROVE  Adds(c) \/ AddsNone(c)
<1>1. CASE up'[c] = up[c] /\ count'[c] = count[c] /\ progress'[c] \in {0, progress[c]}
  BY <1>1 DEF AddsNone, InUp
<1>2. CASE Connect(c) \/ Leave(c) \/ ReadMore(c) \/ AwaitFails(c)
  BY <1>1, <1>2, ConnectAt, LeaveAt, ReadMoreAt, AwaitFailsAt
<1>3. CASE ReadResponse(c) \/ SendDataFails(c) \/ SendDone(c) \/ ReceiveData(c) \/ ReceiveDone(c)
           \/ RestFails(c)
  BY <1>1, <1>3, ReadResponseAt, SendEndsAt, ReceiveDataAt, ReceiveDoneAt, RestFailsAt
<1>4. CASE SendData(c)
  <2>1. /\ UpPut(c, Block(c, count[c], progress[c] + 1)) /\ client'[c] = "sending"
        /\ count'[c] = count[c] /\ progress'[c] = progress[c] + 1
        /\ count[c] \in Positive /\ progress[c] + 1 \in 1..Blocks
    BY <1>4, SendDataAt
  <2>2. PICK x : x = Block(c, count[c], progress[c] + 1)
    OBVIOUS
  <2>3. \A b : InUp(c, b)' <=> InUp(c, b) \/ b = x
    BY <2>1, <2>2, InUpPut
  <2>4. count[c] \in 1..MaxCommands[c]
    <3>1. count[c] <= MaxCommands[c] /\ MaxCommands[c] \in Nat
      BY TransferAssumption DEF TransferAssumption, LocalInv, Local
    <3> QED
      BY <2>1, <3>1 DEF Positive
  <2> QED
    BY <2>1, <2>2, <2>3, <2>4 DEF Adds
<1>6. CASE SendRest(c)
  <2>1. /\ client[c] = "writing" /\ count'[c] = count[c] /\ UpPut(c, Piece(c, count[c]))
        /\ Piece(c, count[c]) \in UpPiece
    BY <1>6, SendRestAt, PieceType
  <2>2. PICK x \in UpPiece : x = Piece(c, count[c])
    BY <2>1
  <2>3. \A b \in UpBlock : b # x
    BY PieceFacts, BlockFacts
  <2> QED
    BY <2>1, <2>2, <2>3, InUpPut DEF AddsNone
<1>5. ASSUME NEW op \in Ops, NEW f \in File \union {None}, NEW to \in Onward,
              SendCommand(c, op, f, to),
              Command(op, f, c, count[c] + 1) \in CommandItem
      PROVE  AddsNone(c)
  <2>1. count'[c] = count[c] + 1
    BY <1>5, SendCommandAt
  <2>2. PICK line \in CommandItem : up'[c] = up[c] \/ UpPut(c, line)
    BY <1>5, SendCommandAt
  <2>3. \A b \in UpBlock : b # line
    BY CommandFacts, BlockFacts
  <2>4. CASE up'[c] = up[c]
    BY <2>1, <2>4 DEF AddsNone, InUp
  <2>5. CASE UpPut(c, line)
    BY <2>1, <2>3, <2>5, InUpPut DEF AddsNone
  <2> QED
    BY <2>2, <2>4, <2>5
<1> QED
  BY <1>2, <1>3, <1>4, <1>5, <1>6, ClientCases

LEMMA UpGapRest ==
    ASSUME TypeInv, LocalInv, TypeInv', NEW c \in Client, Order(c), UpGap(c),
           count'[c] = count[c], progress'[c] = progress[c],
           NEW n \in 0..Len(up[c]), UpRest(c, n)
    PROVE  UpGap(c)'
<1>1. SUFFICES ASSUME NEW k \in 1..MaxCommands[c], NEW v \in 1..Blocks, NEW w \in v + 1..Blocks,
                      InUp(c, Block(c, k, v))', Ahead(c, k, w)'
               PROVE  InUp(c, Block(c, k, v + 1))'
  BY DEF UpGap
<1>2. InUp(c, Block(c, k, v)) /\ Ahead(c, k, w)
  BY <1>1, InUpRest DEF Ahead
<1>3. InUp(c, Block(c, k, v + 1))
  BY <1>2 DEF UpGap
<1>4. v + 1 \in 1..Blocks /\ v < v + 1
  BY TransferAssumption DEF TransferAssumption
<1>5. Before(Block(c, k, v), Block(c, k, v + 1)) /\ Block(c, k, v).kind # "piece"
  BY <1>4, BlockOrder
<1> QED
  BY <1>1, <1>3, <1>5, InUpRest

\* The next block closes the gap behind all that the client has written.
LEMMA UpGapClient ==
    ASSUME TypeInv, LocalInv, TypeInv', NEW c \in Client, Order(c), UpGap(c), ClientAct(c)
    PROVE  UpGap(c)'
<1>1. SUFFICES ASSUME NEW k \in 1..MaxCommands[c], NEW v \in 1..Blocks, NEW w \in v + 1..Blocks,
                      InUp(c, Block(c, k, v))', Ahead(c, k, w)'
               PROVE  InUp(c, Block(c, k, v + 1))'
  BY DEF UpGap
<1>2. /\ v + 1 \in 1..Blocks /\ w \in 1..Blocks /\ v < w /\ k \in Nat /\ count[c] \in Nat
      /\ progress[c] \in Nat /\ v \in Nat /\ w \in Nat
  BY Lengths, TransferAssumption DEF TransferAssumption
<1>3. /\ Block(c, k, v) \in UpBlock /\ Block(c, k, v + 1) \in UpBlock
      /\ Block(c, k, w) \in UpBlock
  BY <1>2, BlockOrder
<1>4. InUp(c, Block(c, k, v)) =>
          k <= count[c] /\ (k = count[c] => v <= progress[c] /\ client[c] # "writing")
  BY UpWritten, WrittenBlock DEF Onward
<1>5. InUp(c, Block(c, k, w)) => k <= count[c] /\ (k = count[c] => w <= progress[c])
  BY <1>2, UpWritten, WrittenBlock
<1>6. CASE AddsNone(c)
  <2>1. InUp(c, Block(c, k, v))
    BY <1>1, <1>3, <1>6 DEF AddsNone
  <2>2. CASE InUp(c, Block(c, k, w))'
    <3>1. Ahead(c, k, w)
      BY <1>3, <1>6, <2>2 DEF AddsNone, Ahead
    <3> QED
      BY <1>3, <1>6, <2>1, <3>1 DEF AddsNone, UpGap
  <2>3. CASE ~InUp(c, Block(c, k, w))'
    <3>1. k = count'[c] /\ w <= progress'[c]
      BY <1>1, <2>3 DEF Ahead
    <3>2. count'[c] = count[c] /\ progress'[c] = progress[c]
      BY <1>2, <1>4, <1>6, <2>1, <3>1 DEF AddsNone
    <3>3. Ahead(c, k, w)
      BY <3>1, <3>2 DEF Ahead
    <3> QED
      BY <1>3, <1>6, <2>1, <3>3 DEF AddsNone, UpGap
  <2> QED
    BY <2>2, <2>3
<1>7. CASE Adds(c)
  <2>1. PICK p \in Nat : p = progress[c] /\ p + 1 \in 1..Blocks /\ progress'[c] = p + 1
    BY <1>2, <1>7 DEF Adds
  <2>2. count'[c] = count[c] /\ count[c] \in 1..MaxCommands[c]
        /\ \A b : InUp(c, b)' <=> InUp(c, b) \/ b = Block(c, count[c], p + 1)
    BY <1>7, <2>1 DEF Adds
  <2>3. CASE k # count[c]
    <3>1. Block(c, k, v) # Block(c, count[c], p + 1) /\ Block(c, k, w) # Block(c, count[c], p + 1)
      BY <2>3 DEF Block
    <3>2. InUp(c, Block(c, k, v)) /\ InUp(c, Block(c, k, w))
      BY <1>1, <2>2, <2>3, <3>1 DEF Ahead
    <3> QED
      BY <2>2, <3>2 DEF UpGap, Ahead
  <2>4. CASE k = count[c]
    <3>1. w <= p + 1
      <4>1. CASE InUp(c, Block(c, k, w))
        BY <1>2, <1>5, <2>1, <2>4, <4>1
      <4>2. CASE Block(c, k, w) = Block(c, count[c], p + 1)
        <5>1. w = p + 1
          BY <4>2 DEF Block
        <5> QED
          BY <5>1
      <4>3. CASE w <= progress'[c]
        BY <2>1, <4>3
      <4> QED
        BY <1>1, <2>2, <4>1, <4>2, <4>3 DEF Ahead
    <3>2. v <= p
      BY <1>2, <3>1
    <3>3. Block(c, k, v) # Block(c, count[c], p + 1)
      BY <3>2 DEF Block
    <3>4. InUp(c, Block(c, k, v))
      BY <1>1, <2>2, <3>3
    <3>5. CASE v = p
      BY <2>2, <2>4, <3>5
    <3>6. CASE v < p
      <4>1. p \in v + 1..Blocks
        BY <1>2, <2>1, <3>6, TransferAssumption DEF TransferAssumption
      <4>2. Ahead(c, k, p)
        BY <2>1, <2>4 DEF Ahead
      <4> QED
        BY <2>2, <3>4, <4>1, <4>2 DEF UpGap
    <3> QED
      BY <1>2, <3>2, <3>5, <3>6
  <2> QED
    BY <2>3, <2>4
<1> QED
  BY <1>6, <1>7, ClientBlocks

\* The upload that the handler receives.
LEMMA ReceiveJob ==
    ASSUME TypeInv, LocalInv, NEW c \in Client, Order(c), handler[c] \in {"ready", "receive"}
    PROVE  /\ job[c] \in CommandItem /\ job[c].file \in File /\ job[c].by = c
           /\ job[c].op = "upload" /\ job[c].n \in 1..MaxCommands[c] /\ job[c].n <= count[c]
           /\ Number(job[c]) = job[c].n /\ Written(c, job[c]) /\ job[c].n \in Nat
           /\ \A b : InUp(c, b) => Before(job[c], b)
<1>1. Busy(c)
  BY DEF Busy, Working
<1>2. job[c] \in CommandItem /\ job[c].file \in File /\ Number(job[c]) = job[c].n
      /\ job[c].n \in Positive
  BY <1>1, JobType
<1>3. Written(c, job[c]) /\ \A b : InUp(c, b) => Before(job[c], b)
  BY <1>1 DEF Order, InUp
<1>4. job[c].op = "upload" /\ count[c] <= MaxCommands[c]
  BY DEF LocalInv, Local, Asks
<1>5. job[c].by = c /\ job[c].n <= count[c]
  BY <1>2, <1>3 DEF Written
<1>6. job[c].n \in Nat /\ count[c] \in Nat /\ MaxCommands[c] \in Nat /\ job[c].n # 0
  BY <1>2, Lengths, TransferAssumption DEF Positive, TransferAssumption
<1>7. job[c].n \in 1..MaxCommands[c]
  BY <1>4, <1>5, <1>6
<1> QED
  BY <1>2, <1>3, <1>4, <1>5, <1>6, <1>7

\* What the handler can do to receive.
LEMMA ToReceive ==
    ASSUME TypeInv, LocalInv, NEW c \in Client, HandlerStep(c), handler'[c] = "receive"
    PROVE  SendReady(c) \/ Receive(c)
<1>1. CASE ReadCommand(c) \/ HandlerLeaves(c) \/ WriteReply(c) \/ WriteFails(c)
  BY <1>1, ReadCommandAt, HandlerLeavesAt, WriteReplyAt, WriteFailsAt DEF Branch
<1>2. CASE ReceiveEnd(c) \/ ReceiveFails(c) \/ SendHeader(c) \/ LoadFails(c) \/ SendBlock(c)
  BY <1>2, ReceiveEndAt, ReceiveFailsAt, SendHeaderAt, LoadFailsAt, SendBlockAt
<1>3. CASE ReadBlank(c)
  BY <1>3, ReadBlankAt DEF HandlerKept
<1> QED
  BY <1>1, <1>2, <1>3 DEF HandlerStep

LEMMA FileGapHandler ==
    ASSUME TypeInv, LocalInv, TypeInv', NEW c \in Client, Order(c), UpGap(c), FileGap(c),
           \A f \in File : Filed(c, f), HandlerStep(c), [Next]_vars
    PROVE  FileGap(c)'
<1>1. SUFFICES ASSUME handler'[c] = "receive"
               PROVE  FileGap(c)'
  BY DEF FileGap
<1>2. CASE SendReady(c)
  <2>1. handler[c] = "ready" /\ job'[c] = job[c] /\ files' = files
    BY <1>2, SendReadyAt
  <2>2. PICK f \in File : f = job[c].file
    BY <2>1, ReceiveJob
  <2>3. ASSUME NEW k \in 1..MaxCommands[c], NEW v \in 1..Blocks, k >= job[c].n,
               InFile(f, Block(c, k, v))
        PROVE  FALSE
    <3>1. Number(Block(c, k, v)) = k /\ Block(c, k, v).by = c
      BY BlockOrder
    <3>2. k < job[c].n
      BY <2>1, <2>3, <3>1, FileWritten
    <3>3. k \in Nat /\ job[c].n \in Nat
      BY <2>1, ReceiveJob, TransferAssumption DEF TransferAssumption
    <3> QED
      BY <2>3, <3>2, <3>3
  <2>4. ASSUME NEW k \in 1..MaxCommands[c], NEW v \in 1..Blocks, k >= job[c].n
        PROVE  ~InFile(f, Block(c, k, v))'
    BY <2>1, <2>3, <2>4 DEF InFile
  <2> QED
    BY <2>1, <2>2, <2>4 DEF FileGap, InFile
<1>3. CASE Receive(c)
  <2>1. handler[c] = "receive" /\ job'[c] = job[c]
    BY <1>3, ReceiveAt
  <2>2. PICK f \in File : f = job[c].file
    BY <2>1, ReceiveJob
  <2>3. PICK n \in 1..Len(up[c]) : UpRest(c, n) /\ Moves(c, f, n)
    BY <1>3, <2>2, ReceiveAt
  <2>4. n \in 0..Len(up[c])
    BY Lengths
  <2>5. ASSUME NEW k \in 1..MaxCommands[c], NEW v \in 1..Blocks, NEW w \in v + 1..Blocks,
               k >= job[c].n, InFile(f, Block(c, k, v))', Ahead(c, k, w)'
        PROVE  InUp(c, Block(c, k, v + 1))' \/ InFile(f, Block(c, k, v + 1))'
    <3>1. Ahead(c, k, w)
      BY <2>3, <2>4, <2>5, InUpRest, HandlerKeepsAt DEF Ahead, ClientKept
    <3>2. InUp(c, Block(c, k, v + 1)) \/ InFile(f, Block(c, k, v + 1))
      <4>1. CASE InFile(f, Block(c, k, v))
        BY <2>1, <2>2, <2>5, <3>1, <4>1 DEF FileGap, Coming
      <4>2. CASE Moved(c, n, Block(c, k, v))
        <5>1. InUp(c, Block(c, k, v))
          BY <2>3, <2>4, <4>2, MovedFacts
        <5> QED
          BY <3>1, <5>1 DEF UpGap
      <4> QED
        BY <2>3, <2>4, <2>5, <4>1, <4>2, MovedFacts
    <3> QED
      BY <2>3, <2>4, <3>2, MovedFacts, InFileStays
  <2> QED
    BY <2>1, <2>2, <2>5 DEF FileGap, Coming, InFile
<1> QED
  BY <1>1, <1>2, <1>3, ToReceive

LEMMA FileGapClient ==
    ASSUME TypeInv, LocalInv, TypeInv', NEW c \in Client, Order(c), FileGap(c),
           \A f \in File : Filed(c, f), ClientAct(c)
    PROVE  FileGap(c)'
<1>1. SUFFICES ASSUME handler'[c] = "receive"
               PROVE  FileGap(c)'
  BY DEF FileGap
<1>2. handler[c] = "receive" /\ job'[c] = job[c] /\ files' = files
  BY <1>1, ClientStays DEF Stays, Working
<1>3. PICK f \in File : f = job[c].file
  BY <1>2, ReceiveJob
<1>4. ASSUME NEW k \in 1..MaxCommands[c], NEW v \in 1..Blocks, NEW w \in v + 1..Blocks,
             k >= job[c].n, InFile(f, Block(c, k, v)), Ahead(c, k, w)'
      PROVE  InUp(c, Block(c, k, v + 1))' \/ InFile(f, Block(c, k, v + 1))
  <2>1. /\ v + 1 \in 1..Blocks /\ w \in 1..Blocks /\ v < w /\ k \in Nat /\ count[c] \in Nat
        /\ progress[c] \in Nat /\ v \in Nat /\ w \in Nat
    BY Lengths, TransferAssumption DEF TransferAssumption
  <2>2. Block(c, k, v).by = c /\ Block(c, k, v + 1) \in UpBlock /\ Block(c, k, w) \in UpBlock
    BY <2>1, BlockOrder
  <2>3. k <= count[c] /\ (k = count[c] => v <= progress[c] /\ client[c] # "writing")
    BY <1>4, <2>2, FileWritten, WrittenBlock DEF Onward
  <2>4. Ahead(c, k, w) => InUp(c, Block(c, k, v + 1)) \/ InFile(f, Block(c, k, v + 1))
    BY <1>2, <1>3, <1>4 DEF FileGap, Coming
  <2>5. CASE AddsNone(c)
    <3>1. Ahead(c, k, w)
      <4>1. CASE InUp(c, Block(c, k, w))'
        BY <2>2, <2>5, <4>1 DEF AddsNone, Ahead
      <4>2. CASE k = count'[c] /\ w <= progress'[c]
        <5>1. count'[c] = count[c] /\ progress'[c] = progress[c]
          BY <2>1, <2>3, <2>5, <4>2 DEF AddsNone
        <5> QED
          BY <4>2, <5>1 DEF Ahead
      <4> QED
        BY <1>4, <4>1, <4>2 DEF Ahead
    <3> QED
      BY <2>2, <2>4, <2>5, <3>1 DEF AddsNone
  <2>6. CASE Adds(c)
    <3>1. PICK p \in Nat : p = progress[c] /\ p + 1 \in 1..Blocks /\ progress'[c] = p + 1
      BY <2>1, <2>6 DEF Adds
    <3>2. count'[c] = count[c] /\ count[c] \in 1..MaxCommands[c]
          /\ \A b : InUp(c, b)' <=> InUp(c, b) \/ b = Block(c, count[c], p + 1)
      BY <2>6, <3>1 DEF Adds
    <3>3. CASE k # count[c]
      <4>1. Block(c, k, w) # Block(c, count[c], p + 1)
        BY <3>3 DEF Block
      <4>2. Ahead(c, k, w)
        BY <1>4, <3>2, <3>3, <4>1 DEF Ahead
      <4> QED
        BY <2>4, <3>2, <4>2
    <3>4. CASE k = count[c] /\ v = p
      BY <3>2, <3>4
    <3>5. CASE k = count[c] /\ v < p
      <4>1. p \in v + 1..Blocks
        BY <2>1, <3>1, <3>5, TransferAssumption DEF TransferAssumption
      <4>2. Ahead(c, k, p)
        BY <3>1, <3>5 DEF Ahead
      <4>3. InUp(c, Block(c, k, v + 1)) \/ InFile(f, Block(c, k, v + 1))
        BY <1>2, <1>3, <1>4, <4>1, <4>2 DEF FileGap, Coming
      <4> QED
        BY <3>2, <4>3
    <3> QED
      BY <2>1, <2>3, <3>1, <3>3, <3>4, <3>5
  <2> QED
    BY <2>5, <2>6, ClientBlocks
<1>5. \A b : InFile(f, b)' <=> InFile(f, b)
  BY <1>2 DEF InFile
<1> QED
  BY <1>2, <1>3, <1>4, <1>5 DEF FileGap, Coming, InFile

\* Nothing of c is new in the file.
LEMMA WholeKept ==
    ASSUME TypeInv, LocalInv, TypeInv', [Next]_vars, NEW c \in Client, NEW f \in File,
           Filed(c, f), Whole(c, f), Foreign(c, f),
           \A n \in 1..MaxCommands[c] :
               answer'[c][n] = n => answer[c][n] = n \/ (n = count[c] /\ client[c] = "await")
    PROVE  Whole(c, f)'
<1>1. SUFFICES ASSUME NEW n \in 1..MaxCommands[c], NEW v \in 1..Blocks,
                      InFile(f, Block(c, n, v))'
               PROVE  /\ \A w \in v + 1..Blocks : InFile(f, Block(c, n, w))' =>
                             InFile(f, Block(c, n, v + 1))'
                      /\ answer'[c][n] = n => \A u \in 1..v : InFile(f, Block(c, n, u))'
  BY DEF Whole
<1>2. \A u \in 1..Blocks : Block(c, n, u).by = c
  BY BlockOrder
<1>3. InFile(f, Block(c, n, v))
  BY <1>1, <1>2, InFileForeign
<1>4. \A w \in v + 1..Blocks : w \in 1..Blocks
  BY TransferAssumption DEF TransferAssumption
<1>5. \A w \in v + 1..Blocks : InFile(f, Block(c, n, w))' =>
           InFile(f, Block(c, n, v + 1))'
  BY <1>2, <1>3, <1>4, InFileForeign, InFileStays DEF Whole
<1>6. ~(n = count[c] /\ client[c] = "await")
  BY <1>2, <1>3, FileWritten, WrittenBlock DEF Onward
<1>7. answer'[c][n] = n => \A u \in 1..v : InFile(f, Block(c, n, u))'
  BY <1>3, <1>6, InFileStays DEF Whole
<1> QED
  BY <1>5, <1>7

\* An answered upload that the handler still receives.
LEMMA StillOwn ==
    ASSUME TypeInv, LocalInv, NEW c \in Client, Order(c), Reply(c), handler[c] = "receive",
           NEW n \in 1..MaxCommands[c], n >= job[c].n, answer[c][n] = n
    PROVE  n = job[c].n /\ Own(c)
<1>1. n \in Nat /\ n > 0
  BY TransferAssumption DEF TransferAssumption
<1>2. Handled(c, n)
  BY <1>1 DEF Reply
<1>3. n <= Number(job[c]) /\ Number(job[c]) = job[c].n /\ job[c].n \in Nat
  BY <1>2, ReceiveJob DEF Handled, Busy, Working
<1>4. n = job[c].n
  BY <1>1, <1>3
<1> QED
  BY <1>4 DEF Own

\* What a client has written of a command, seen at one of its blocks.
LEMMA SentBlock ==
    ASSUME TypeInv, LocalInv, NEW c \in Client, NEW n \in 1..MaxCommands[c], NEW v \in 1..Blocks,
           Written(c, Block(c, n, v))
    PROVE  v <= Sent(c, n) /\ Sent(c, n) \in Nat
<1>1. n <= count[c] /\ count[c] \in Nat /\ n \in Nat /\ (n = count[c] => v <= progress[c])
  BY WrittenBlock
<1>2. progress[c] \in Nat /\ Blocks \in Nat
  BY Lengths, TransferAssumption DEF TransferAssumption
<1> QED
  BY <1>1, <1>2 DEF Sent

LEMMA WholeReceive ==
    ASSUME TypeInv, LocalInv, TypeInv', [Next]_vars, NEW c \in Client, NEW f \in File,
           f = job[c].file, Order(c), Reply(c), Filed(c, f), UpGap(c), FileGap(c), Whole(c, f),
           Uploading(c), HandlerStep(c), Receive(c)
    PROVE  Whole(c, f)'
<1>1. PICK m \in 1..Len(up[c]) : Moves(c, f, m)
  BY ReceiveAt
<1>2. m \in 0..Len(up[c])
  BY Lengths
<1>3. handler[c] = "receive" /\ answer'[c] = answer[c]
  BY ReceiveAt, HandlerKeepsAt DEF ClientKept
<1>4. \A b : InFile(f, b)' => InFile(f, b) \/ Moved(c, m, b)
  BY <1>1, <1>2, MovedFacts
<1>5. \A b : Moved(c, m, b) => InUp(c, b) /\ InFile(f, b)'
  BY <1>1, <1>2, MovedFacts
<1>6. \A b, e : Moved(c, m, b) /\ InUp(c, e) /\ Before(e, b) /\ e.kind # "piece" => InFile(f, e)'
  BY <1>1, <1>2, MovedFacts
<1>7. SUFFICES ASSUME NEW n \in 1..MaxCommands[c], NEW v \in 1..Blocks,
                      InFile(f, Block(c, n, v))'
               PROVE  /\ \A w \in v + 1..Blocks : InFile(f, Block(c, n, w))' =>
                             InFile(f, Block(c, n, v + 1))'
                      /\ answer'[c][n] = n => \A u \in 1..v : InFile(f, Block(c, n, u))'
  BY DEF Whole
<1>8. /\ \A u \in 1..Blocks : Block(c, n, u).by = c /\ Block(c, n, u) \in UpItem
                              /\ Number(Block(c, n, u)) = n /\ Block(c, n, u).kind # "piece"
      /\ \A u, w \in 1..Blocks : u < w => Before(Block(c, n, u), Block(c, n, w))
      /\ Blocks \in Nat /\ n \in Nat /\ job[c].n \in Nat
  <2>1. \A u \in 1..Blocks : Block(c, n, u).by = c /\ Block(c, n, u) \in UpItem
                              /\ Number(Block(c, n, u)) = n /\ Block(c, n, u).kind # "piece"
    BY BlockOrder
  <2>2. ASSUME NEW u \in 1..Blocks, NEW w \in 1..Blocks, u < w
        PROVE  Before(Block(c, n, u), Block(c, n, w))
    BY <2>2, BlockOrder
  <2>3. Blocks \in Nat /\ n \in Nat
    BY TransferAssumption DEF TransferAssumption
  <2>4. job[c].n \in Nat
    BY <1>3, ReceiveJob
  <2> QED
    BY <2>1, <2>2, <2>3, <2>4
<1>9. ASSUME NEW u \in 1..Blocks, InUp(c, Block(c, n, u))
      PROVE  n >= job[c].n
  <2>1. Before(job[c], Block(c, n, u)) /\ Number(job[c]) = job[c].n
    BY <1>3, <1>9, ReceiveJob
  <2> QED
    BY <1>8, <2>1 DEF Before
<1>10. ASSUME NEW w \in v + 1..Blocks, InFile(f, Block(c, n, w))'
       PROVE  InFile(f, Block(c, n, v + 1))'
  <2>1. w \in 1..Blocks /\ v < w /\ v + 1 \in 1..Blocks /\ (w = v + 1 \/ v + 1 < w)
    BY <1>8
  <2>2. CASE InFile(f, Block(c, n, w))
    <3>1. InFile(f, Block(c, n, v))
      <4>1. ASSUME Moved(c, m, Block(c, n, v))
            PROVE  FALSE
        <5>1. Before(Block(c, n, w), Block(c, n, v))
          BY <1>5, <1>8, <2>1, <2>2, <4>1, FileWritten
        <5>2. Before(Block(c, n, v), Block(c, n, w))
          BY <1>8, <2>1
        <5> QED
          BY <1>8, <2>1, <5>1, <5>2, Asymmetric
      <4> QED
        BY <1>4, <1>7, <4>1
    <3> QED
      BY <2>2, <3>1, InFileStays DEF Whole
  <2>3. CASE Moved(c, m, Block(c, n, w))
    <3>1. Ahead(c, n, w)
      BY <1>5, <2>3 DEF Ahead
    <3>2. InUp(c, Block(c, n, v + 1)) \/ InFile(f, Block(c, n, v + 1))
      <4>1. CASE InFile(f, Block(c, n, v))
        <5>1. n >= job[c].n
          BY <1>5, <1>9, <2>1, <2>3
        <5> QED
          BY <1>3, <3>1, <4>1, <5>1 DEF FileGap, Coming
      <4>2. CASE Moved(c, m, Block(c, n, v))
        BY <1>5, <3>1, <4>2 DEF UpGap
      <4> QED
        BY <1>4, <1>7, <4>1, <4>2
    <3>3. CASE w = v + 1
      BY <1>10, <3>3
    <3>4. CASE v + 1 < w
      <4>1. Before(Block(c, n, v + 1), Block(c, n, w))
            /\ Block(c, n, v + 1).kind # "piece"
        BY <1>8, <2>1, <3>4
      <4> QED
        BY <1>6, <2>3, <3>2, <4>1, InFileStays
    <3> QED
      BY <2>1, <3>3, <3>4
  <2> QED
    BY <1>4, <1>10, <2>2, <2>3
<1>11. ASSUME answer'[c][n] = n, NEW u \in 1..v
       PROVE  InFile(f, Block(c, n, u))'
  <2>1. answer[c][n] = n /\ u \in 1..Blocks /\ (u = v \/ u < v)
    BY <1>3, <1>8, <1>11
  <2>2. CASE InFile(f, Block(c, n, v))
    BY <1>11, <2>1, <2>2, InFileStays DEF Whole
  <2>3. CASE Moved(c, m, Block(c, n, v))
    <3>1. InUp(c, Block(c, n, v)) /\ n >= job[c].n
      BY <1>5, <1>9, <2>3
    <3>2. n = job[c].n /\ Own(c)
      BY <1>3, <2>1, <3>1, StillOwn
    <3>3. v <= Sent(c, n) /\ Sent(c, n) \in Nat
      BY <3>1, UpWritten, SentBlock
    <3>4. u \in 1..Sent(c, n)
      BY <3>3
    <3>5. InUp(c, Block(c, n, u)) \/ InFile(f, Block(c, n, u))
      BY <3>2, <3>4 DEF Uploading, Coming
    <3>6. CASE u < v
      <4>1. Before(Block(c, n, u), Block(c, n, v)) /\ Block(c, n, u).kind # "piece"
        BY <1>8, <2>1, <3>6
      <4> QED
        BY <1>6, <2>3, <3>5, <4>1, InFileStays
    <3> QED
      BY <1>7, <2>1, <3>6
  <2> QED
    BY <1>4, <1>7, <2>2, <2>3
<1> QED
  BY <1>10, <1>11

-----------------------------------------------------------------------------
(* An upload whose READY was its own.                                       *)

LEMMA UploadingIntro ==
    ASSUME NEW c \in Client, NEW f \in File, NEW n, job'[c].file = f, job'[c].n = n,
           \A v \in 1..Sent(c, n)' :
               InUp(c, Block(c, n, v))' \/ InFile(f, Block(c, n, v))',
           client'[c] = "idle" /\ count'[c] = n => progress'[c] = Blocks
    PROVE  Uploading(c)'
  BY DEF Uploading, Coming, InUp, InFile, Sent

LEMMA UploadingHandler ==
    ASSUME TypeInv, LocalInv, TypeInv', NEW c \in Client, Order(c), Reply(c), Uploading(c),
           HandlerStep(c), [Next]_vars
    PROVE  Uploading(c)'
<1>1. SUFFICES ASSUME handler'[c] = "receive", answer'[c][job'[c].n] = job'[c].n
               PROVE  Uploading(c)'
  BY DEF Uploading, Own
<1>2. ClientKept(c)
  BY HandlerKeepsAt
<1>3. CASE SendReady(c)
  <2>1. handler[c] = "ready" /\ job'[c] = job[c]
    BY <1>3, SendReadyAt
  <2>2. PICK n \in 1..MaxCommands[c] : n = job[c].n /\ n \in Nat /\ n > 0
    BY <2>1, ReceiveJob, TransferAssumption DEF TransferAssumption
  <2>3. answer[c][n] = n
    BY <1>1, <1>2, <2>1, <2>2 DEF ClientKept
  <2>4. Handled(c, n)
    BY <2>2, <2>3 DEF Reply
  <2> QED
    BY <2>1, <2>2, <2>4 DEF Handled
<1>4. CASE Receive(c)
  <2>1. handler[c] = "receive" /\ job'[c] = job[c]
    BY <1>4, ReceiveAt
  <2>2. PICK f \in File, n \in 1..MaxCommands[c] : f = job[c].file /\ n = job[c].n
    BY <2>1, ReceiveJob
  <2>3. Own(c)
    BY <1>1, <1>2, <2>1 DEF Own, ClientKept
  <2>4. PICK m \in 1..Len(up[c]) : Moves(c, f, m)
    BY <1>4, <2>2, ReceiveAt
  <2>5. m \in 0..Len(up[c])
    BY Lengths
  <2>6. Sent(c, n)' = Sent(c, n)
    BY <1>2 DEF Sent, ClientKept
  <2>7. ASSUME NEW v \in 1..Sent(c, n)
        PROVE  InUp(c, Block(c, n, v))' \/ InFile(f, Block(c, n, v))'
    <3>1. InUp(c, Block(c, n, v)) \/ InFile(f, Block(c, n, v))
      BY <2>2, <2>3, <2>7 DEF Uploading, Coming
    <3> QED
      BY <2>4, <2>5, <3>1, MovedFacts, InFileStays
  <2>8. client'[c] = "idle" /\ count'[c] = n => progress'[c] = Blocks
    BY <1>2, <2>2, <2>3 DEF Uploading, ClientKept
  <2> QED
    BY <2>1, <2>2, <2>6, <2>7, <2>8, UploadingIntro
<1> QED
  BY <1>1, <1>3, <1>4, ToReceive

LEMMA UploadingClient ==
    ASSUME TypeInv, LocalInv, TypeInv', NEW c \in Client, Order(c), Reply(c), Uploading(c),
           ClientAct(c)
    PROVE  Uploading(c)'
<1>1. SUFFICES ASSUME handler'[c] = "receive", answer'[c][job'[c].n] = job'[c].n
               PROVE  Uploading(c)'
  BY DEF Uploading, Own
<1>2. handler[c] = "receive" /\ job'[c] = job[c] /\ files' = files
  BY <1>1, ClientStays DEF Stays, Working
<1>3. PICK f \in File, n \in 1..MaxCommands[c] :
          /\ f = job[c].file /\ n = job[c].n /\ n <= count[c] /\ job[c].op = "upload"
          /\ Number(job[c]) = n /\ Written(c, job[c]) /\ job[c].kind = "command"
  BY <1>2, ReceiveJob, CommandFacts
<1>4. /\ n \in Nat /\ n > 0 /\ count[c] \in Nat /\ progress[c] \in Nat /\ Blocks \in Nat
      /\ answer'[c][n] = n /\ DOMAIN answer[c] = 1..MaxCommands[c]
  BY <1>1, <1>2, <1>3, Lengths, TransferAssumption DEF TransferAssumption, LocalInv, Local
<1>5. \A b : InFile(f, b)' <=> InFile(f, b)
  BY <1>2 DEF InFile
<1>6. answer[c][n] = n =>
          /\ \A v \in 1..Sent(c, n) : InUp(c, Block(c, n, v)) \/ InFile(f, Block(c, n, v))
          /\ client[c] = "idle" /\ count[c] = n => progress[c] = Blocks
          /\ ~(client[c] = "await" /\ count[c] = n)
  BY <1>2, <1>3, <1>4 DEF Uploading, Own, Coming, Reply, Onward
<1>7. SUFFICES /\ \A v \in 1..Sent(c, n)' :
                      InUp(c, Block(c, n, v))' \/ InFile(f, Block(c, n, v))
               /\ client'[c] = "idle" /\ count'[c] = n => progress'[c] = Blocks
  BY <1>2, <1>3, <1>5, UploadingIntro
<1>8. ASSUME answer'[c] = answer[c], count'[c] = count[c], progress'[c] = progress[c],
             up'[c] = up[c],
             client'[c] = "idle" /\ count[c] = n =>
                 client[c] \in {"idle", "await"} \/ progress[c] = Blocks
      PROVE  /\ \A v \in 1..Sent(c, n)' :
                    InUp(c, Block(c, n, v))' \/ InFile(f, Block(c, n, v))
             /\ client'[c] = "idle" /\ count'[c] = n => progress'[c] = Blocks
  BY <1>4, <1>6, <1>8 DEF Sent, InUp
<1>9. ~Connect(c)
  BY <1>2, ConnectAt
<1>10. CASE Leave(c) \/ ReadMore(c) \/ AwaitFails(c) \/ ReceiveDone(c) \/ SendDataFails(c)
            \/ SendDone(c)
  <2>1. ~Closed(c)
    BY <1>2 DEF Closed
  <2>2. client[c] = "receiving" => count[c] # n
    BY <1>3 DEF Written, LocalInv, Local
  <2>3. CASE Leave(c) \/ ReadMore(c) \/ AwaitFails(c)
    BY <1>8, <2>3, LeaveAt, ReadMoreAt, AwaitFailsAt
  <2>4. CASE ReceiveDone(c) \/ SendDataFails(c) \/ SendDone(c)
    BY <1>8, <2>1, <2>2, <2>4, ReceiveDoneAt, SendEndsAt
  <2> QED
    BY <1>10, <2>3, <2>4
<1>11. CASE ReceiveData(c)
  BY <1>8, <1>11, ReceiveDataAt
<1>12. CASE ReadResponse(c)
  <2>1. /\ client[c] = "await" /\ client'[c] = After(cur[c].op, First(c))
        /\ count'[c] = count[c] /\ progress'[c] = 0 /\ up'[c] = up[c]
        /\ answer'[c] = [answer[c] EXCEPT ![cur[c].n] = Taken(cur[c].op, First(c))]
        /\ cur[c].n = count[c]
    BY <1>12, ReadResponseAt DEF LocalInv, Local
  <2>2. CASE n < count[c]
    <3>1. answer[c][n] = n
      BY <1>4, <2>1, <2>2
    <3>2. Sent(c, n)' = Sent(c, n)
      BY <2>1, <2>2 DEF Sent
    <3> QED
      BY <1>4, <1>6, <2>1, <2>2, <3>1, <3>2 DEF InUp
  <2>3. CASE n = count[c]
    <3>1. cur[c].op = "upload"
      BY <1>3, <2>1, <2>3 DEF Written
    <3>2. Taken(cur[c].op, First(c)) = n
      BY <1>4, <2>1, <2>3
    <3>3. client'[c] = "sending"
      BY <1>4, <2>1, <3>1, <3>2 DEF Taken, After
    <3>4. Sent(c, n)' = 0
      BY <1>4, <2>1, <2>3 DEF Sent
    <3> QED
      BY <3>3, <3>4
  <2> QED
    BY <1>3, <1>4, <2>2, <2>3
<1>13. CASE SendData(c)
  <2>1. PICK p \in Nat : p = progress[c]
    BY <1>4
  <2>2. /\ UpPut(c, Block(c, count[c], p + 1)) /\ client[c] = "sending" /\ client'[c] = "sending"
        /\ count'[c] = count[c] /\ progress'[c] = p + 1 /\ answer'[c] = answer[c]
    BY <1>13, <2>1, SendDataAt
  <2>3. PICK x : x = Block(c, count[c], p + 1)
    OBVIOUS
  <2>4. \A b : InUp(c, b)' <=> InUp(c, b) \/ b = x
    BY <2>2, <2>3, InUpPut
  <2>5. CASE n < count[c]
    <3>1. Sent(c, n)' = Sent(c, n)
      BY <2>2, <2>5 DEF Sent
    <3> QED
      BY <1>4, <1>6, <2>2, <2>4, <3>1
  <2>6. CASE n = count[c]
    <3>1. Sent(c, n)' = p + 1 /\ Sent(c, n) = p
      BY <1>4, <2>1, <2>2, <2>6 DEF Sent
    <3>2. \A v \in 1..p + 1 : v \in 1..p \/ v = p + 1
      OBVIOUS
    <3> QED
      BY <1>4, <1>6, <2>2, <2>3, <2>4, <2>6, <3>1, <3>2
  <2> QED
    BY <1>3, <1>4, <2>5, <2>6
<1>15. CASE RestFails(c)
  <2>1. client[c] = "writing" => count[c] # n
    BY <1>3 DEF Written, LocalInv, Local, Plain
  <2> QED
    BY <1>8, <1>15, <2>1, RestFailsAt
<1>16. CASE SendRest(c)
  <2>1. /\ client[c] = "writing" /\ count'[c] = count[c] /\ answer'[c] = answer[c]
        /\ UpPut(c, Piece(c, count[c]))
    BY <1>16, SendRestAt
  <2>2. count[c] # n
    BY <1>3, <2>1 DEF Written, LocalInv, Local, Plain
  <2>3. \A b : InUp(c, b) => InUp(c, b)'
    BY <2>1, InUpPut
  <2>4. Sent(c, n)' = Sent(c, n) /\ count'[c] # n
    BY <1>3, <1>4, <2>1, <2>2 DEF Sent
  <2> QED
    BY <1>4, <1>6, <2>1, <2>3, <2>4
<1>14. ASSUME NEW op \in Ops, NEW g \in File \union {None}, NEW to \in Onward,
              SendCommand(c, op, g, to),
              Command(op, g, c, count[c] + 1) \in CommandItem
       PROVE  /\ \A v \in 1..Sent(c, n)' :
                     InUp(c, Block(c, n, v))' \/ InFile(f, Block(c, n, v))
              /\ client'[c] = "idle" /\ count'[c] = n => progress'[c] = Blocks
  <2>1. /\ client[c] = "idle" /\ count'[c] = count[c] + 1
        /\ answer'[c] = answer[c]
    BY <1>14, SendCommandAt
  <2>2. PICK line \in CommandItem : up'[c] = up[c] \/ UpPut(c, line)
    BY <1>14, SendCommandAt
  <2>3. \A b : InUp(c, b) => InUp(c, b)'
    BY <2>2, InUpPut DEF InUp
  <2>4. Sent(c, n)' = Blocks /\ Sent(c, n) = Blocks /\ count'[c] # n
    <3>1. count[c] = n => progress[c] = Blocks
      BY <1>4, <1>6, <2>1
    <3> QED
      BY <1>3, <1>4, <2>1, <3>1 DEF Sent
  <2> QED
    BY <1>4, <1>6, <2>1, <2>3, <2>4
<1> QED
  BY <1>9, <1>10, <1>11, <1>12, <1>13, <1>14, <1>15, <1>16,
     ClientCases

-----------------------------------------------------------------------------
(* The steps of the rest of the invariant.                                  *)

LEMMA GapElsewhere ==
    ASSUME TypeInv, LocalInv, TypeInv', [Next]_vars, NEW c \in Client, Order(c), Same(c),
           \A f \in File : Foreign(c, f), UpGap(c), FileGap(c), Uploading(c)
    PROVE  UpGap(c)' /\ FileGap(c)' /\ Uploading(c)'
<1>1. /\ count'[c] = count[c] /\ progress'[c] = progress[c] /\ client'[c] = client[c]
      /\ handler'[c] = handler[c] /\ job'[c] = job[c] /\ answer'[c] = answer[c]
      /\ \A b : InUp(c, b)' <=> InUp(c, b)
  BY DEF Same, InUp
<1>2. UpGap(c)'
  BY <1>1 DEF UpGap, Ahead
<1>3. CASE handler[c] # "receive"
  BY <1>1, <1>2, <1>3 DEF FileGap, Uploading, Own
<1>4. CASE handler[c] = "receive"
  <2>1. PICK f \in File, n \in 1..MaxCommands[c] : f = job[c].file /\ n = job[c].n
    BY <1>4, ReceiveJob
  <2>2. ASSUME NEW k \in 1..MaxCommands[c], NEW v \in 1..Blocks, NEW w \in v + 1..Blocks,
               k >= n, InFile(f, Block(c, k, v))', Ahead(c, k, w)'
        PROVE  InUp(c, Block(c, k, v + 1))' \/ InFile(f, Block(c, k, v + 1))'
    <3>1. Ahead(c, k, w)
      BY <1>1, <2>2 DEF Ahead
    <3>2. Block(c, k, v).by = c
      BY BlockOrder
    <3>3. InFile(f, Block(c, k, v))
      BY <2>2, <3>2, InFileForeign
    <3>4. InUp(c, Block(c, k, v + 1)) \/ InFile(f, Block(c, k, v + 1))
      BY <1>4, <2>1, <2>2, <3>1, <3>3 DEF FileGap, Coming
    <3> QED
      BY <1>1, <3>4, InFileStays
  <2>3. FileGap(c)'
    BY <1>1, <1>4, <2>1, <2>2 DEF FileGap, Coming, InFile
  <2>4. CASE ~Own(c)
    <3>1. /\ handler'[c] = handler[c] /\ job'[c] = job[c] /\ answer'[c] = answer[c]
      BY <1>1
    <3>2. ~Own(c)'
      BY <2>4, <3>1 DEF Own
    <3> QED
      BY <1>2, <2>3, <3>2 DEF Uploading
  <2>5. CASE Own(c)
    <3>1. Sent(c, n)' = Sent(c, n)
      BY <1>1 DEF Sent
    <3>2. ASSUME NEW v \in 1..Sent(c, n)
          PROVE  InUp(c, Block(c, n, v))' \/ InFile(f, Block(c, n, v))'
      <4>1. InUp(c, Block(c, n, v)) \/ InFile(f, Block(c, n, v))
        BY <2>1, <2>5, <3>2 DEF Uploading, Coming
      <4> QED
        BY <1>1, <4>1, InFileStays
    <3>3. client'[c] = "idle" /\ count'[c] = n => progress'[c] = Blocks
      BY <1>1, <2>1, <2>5 DEF Uploading
    <3>4. job'[c].file = f /\ job'[c].n = n
      BY <1>1, <2>1
    <3>5. Uploading(c)'
      BY <3>1, <3>2, <3>3, <3>4, UploadingIntro
    <3> QED
      BY <1>2, <2>3, <3>5
  <2> QED
    BY <1>2, <2>3, <2>4, <2>5
<1> QED
  BY <1>2, <1>3, <1>4

\* An answer of its own comes to the command that waits for it.
LEMMA AnswerKept ==
    ASSUME TypeInv, LocalInv, NEW c \in Client, ClientAct(c), NEW n \in 1..MaxCommands[c],
           answer'[c][n] = n
    PROVE  answer[c][n] = n \/ (n = count[c] /\ client[c] = "await")
<1>1. CASE answer'[c] = answer[c]
  BY <1>1
<1>2. CASE ReadResponse(c)
  <2>1. /\ answer'[c] = [answer[c] EXCEPT ![cur[c].n] = Taken(cur[c].op, First(c))]
        /\ client[c] = "await"
    BY <1>2, ReadResponseAt
  <2>2. cur[c].n = count[c] /\ DOMAIN answer[c] = 1..MaxCommands[c]
    BY <2>1 DEF LocalInv, Local
  <2> QED
    BY <2>1, <2>2
<1>3. CASE Connect(c) \/ Leave(c) \/ ReadMore(c) \/ AwaitFails(c)
  BY <1>1, <1>3, ConnectAt, LeaveAt, ReadMoreAt, AwaitFailsAt
<1>4. CASE SendDataFails(c) \/ SendDone(c) \/ ReceiveData(c) \/ ReceiveDone(c) \/ SendData(c)
  BY <1>1, <1>4, SendEndsAt, ReceiveDataAt, ReceiveDoneAt, SendDataAt
<1>5. ASSUME NEW op \in Ops, NEW f \in File \union {None}, NEW to \in Onward,
             SendCommand(c, op, f, to), Command(op, f, c, count[c] + 1) \in CommandItem
      PROVE  answer'[c] = answer[c]
  BY <1>5, SendCommandAt
<1>6. CASE SendRest(c) \/ RestFails(c)
  BY <1>1, <1>6, SendRestAt, RestFailsAt
<1> QED
  BY <1>1, <1>2, <1>3, <1>4, <1>5, <1>6, ClientCases

LEMMA WholeHandler ==
    ASSUME TypeInv, LocalInv, TypeInv', [Next]_vars, NEW c \in Client, NEW f \in File,
           Order(c), Reply(c), Filed(c, f), UpGap(c), FileGap(c), Whole(c, f),
           Uploading(c), HandlerStep(c)
    PROVE  Whole(c, f)'
<1>1. CASE Receive(c) /\ f = job[c].file
  BY <1>1, WholeReceive
<1>2. CASE ~(Receive(c) /\ f = job[c].file)
  <2>1. files'[f] = files[f]
    <3>1. CASE Receive(c)
      <4>1. job[c].file \in File
        BY <3>1, ReceiveFacts
      <4>2. PICK n \in 1..Len(up[c]) : Moves(c, job[c].file, n)
        BY <3>1, ReceiveFacts
      <4> QED
        BY <1>2, <3>1, <4>1, <4>2 DEF Moves
    <3>2. CASE ~Receive(c)
      BY <3>2, FilesKept
    <3> QED
      BY <3>1, <3>2
  <2>2. Foreign(c, f)
    BY <2>1, ForeignSame
  <2>3. answer'[c] = answer[c]
    BY HandlerKeepsAt DEF ClientKept
  <2> QED
    BY <2>2, <2>3, WholeKept
<1> QED
  BY <1>1, <1>2

LEMMA GapStep ==
    ASSUME TypeInv, LocalInv, OrderInv, FileInv, ReplyInv, GapInv, UploadInv, TypeInv', [Next]_vars
    PROVE  GapInv' /\ UploadInv'
<1>1. CASE UNCHANGED vars
  BY <1>1 DEF GapInv, UploadInv, UpGap, FileGap, Whole, Uploading, Own, Sent, Ahead, Coming,
              InUp, InFile, vars, clientVars, handlerVars, history
<1>2. SUFFICES ASSUME Next, NEW d \in Client
               PROVE  /\ UpGap(d)' /\ FileGap(d)' /\ Uploading(d)'
                      /\ \A f \in File : Whole(d, f)'
  BY <1>1 DEF GapInv, UploadInv
<1>3. /\ Order(d) /\ Reply(d) /\ UpGap(d) /\ FileGap(d) /\ Uploading(d)
      /\ \A f \in File : Filed(d, f) /\ Whole(d, f)
  BY DEF OrderInv, ReplyInv, FileInv, GapInv, UploadInv
<1>4. CASE ServerExits
  <2>1. /\ ClientKept(d) /\ handler'[d] = "gone" /\ up'[d] = <<>> /\ files' = files
    BY <1>4, ExitFacts DEF ClientKept
  <2>2. \A f \in File : Whole(d, f)'
    BY <1>3, <2>1, ForeignSame, WholeKept DEF ClientKept
  <2>3. \A b : ~InUp(d, b)'
    BY <2>1 DEF InUp
  <2> QED
    BY <2>1, <2>2, <2>3 DEF UpGap, FileGap, Uploading, Own
<1>5. ASSUME NEW c \in Client, HandlerStep(c) \/ ClientAct(c), c # d
      PROVE  /\ UpGap(d)' /\ FileGap(d)' /\ Uploading(d)'
             /\ \A f \in File : Whole(d, f)'
  <2>1. Same(d)
    BY <1>5, HandlerElsewhere, ClientElsewhere DEF ClientAct
  <2>2. \A f \in File : Foreign(d, f)
    BY <1>5, ForeignStep
  <2>3. UpGap(d)' /\ FileGap(d)' /\ Uploading(d)'
    BY <1>2, <1>3, <2>1, <2>2, GapElsewhere
  <2>4. answer'[d] = answer[d]
    BY <2>1 DEF Same
  <2>5. \A f \in File : Whole(d, f)'
    BY <1>2, <1>3, <2>2, <2>4, WholeKept
  <2> QED
    BY <2>3, <2>5
<1>6. CASE HandlerStep(d)
  <2>1. PICK n \in 0..Len(up[d]) : UpRest(d, n)
    BY <1>6, HandlerUp
  <2>2. count'[d] = count[d] /\ progress'[d] = progress[d]
    BY <1>6, HandlerKeepsAt DEF ClientKept
  <2>3. UpGap(d)'
    BY <1>3, <2>1, <2>2, UpGapRest
  <2>4. FileGap(d)'
    BY <1>2, <1>3, <1>6, FileGapHandler
  <2>5. Uploading(d)'
    BY <1>2, <1>3, <1>6, UploadingHandler
  <2>6. \A f \in File : Whole(d, f)'
    BY <1>2, <1>3, <1>6, WholeHandler
  <2> QED
    BY <2>3, <2>4, <2>5, <2>6
<1>7. CASE ClientAct(d)
  <2>1. UpGap(d)' /\ FileGap(d)' /\ Uploading(d)'
    BY <1>3, <1>7, UpGapClient, FileGapClient, UploadingClient
  <2>2. \A n \in 1..MaxCommands[d] :
            answer'[d][n] = n => answer[d][n] = n \/ (n = count[d] /\ client[d] = "await")
    BY <1>7, AnswerKept
  <2>3. \A f \in File : Whole(d, f)'
    BY <1>2, <1>3, <1>7, <2>2, ClientStays, ForeignSame, WholeKept
  <2> QED
    BY <2>1, <2>3
<1> QED
  BY <1>2, <1>4, <1>5, <1>6, <1>7, NextCases

\* A client that has gone stays as it is.
LEMMA GoneFacts ==
    ASSUME TypeInv, LocalInv, NEW c \in Client, ClientAct(c)
    PROVE  ~Gone(c)
<1> USE DEF Gone
<1>1. CASE Connect(c) \/ Leave(c) \/ ReadMore(c) \/ ReadResponse(c) \/ AwaitFails(c)
  BY <1>1, ConnectAt, LeaveAt, ReadMoreAt, ReadResponseAt, AwaitFailsAt
<1>2. CASE SendDataFails(c) \/ SendDone(c) \/ ReceiveData(c) \/ ReceiveDone(c) \/ SendData(c)
  BY <1>2, SendEndsAt, ReceiveDataAt, ReceiveDoneAt, SendDataAt
<1>3. ASSUME NEW op \in Ops, NEW f \in File \union {None}, NEW to \in Onward,
             SendCommand(c, op, f, to), Command(op, f, c, count[c] + 1) \in CommandItem
      PROVE  ~Gone(c)
  BY <1>3, SendCommandAt
<1>4. CASE SendRest(c) \/ RestFails(c)
  BY <1>4, SendRestAt, RestFailsAt
<1> QED
  BY <1>1, <1>2, <1>3, <1>4, ClientCases

LEMMA GoneStays ==
    ASSUME TypeInv, LocalInv, [Next]_vars, NEW c \in Client, Gone(c)
    PROVE  /\ Gone(c)' /\ count'[c] = count[c] /\ progress'[c] = progress[c]
           /\ answer'[c] = answer[c]
<1> USE DEF Gone
<1>1. CASE UNCHANGED vars
  BY <1>1 DEF vars, clientVars, history
<1>2. CASE ServerExits
  BY <1>2 DEF ServerExits, clientVars, history
<1>3. ASSUME NEW d \in Client, HandlerStep(d) \/ ClientAct(d)
      PROVE  /\ Gone(c)' /\ count'[c] = count[c] /\ progress'[c] = progress[c]
             /\ answer'[c] = answer[c]
  <2>1. CASE HandlerStep(d)
    BY <2>1, HandlerKeeps DEF clientVars
  <2>2. CASE ClientAct(d)
    <3>1. c # d
      BY <2>2, GoneFacts
    <3>2. Same(c)
      BY <2>2, <3>1, ClientElsewhere DEF ClientAct
    <3> QED
      BY <3>2 DEF Same
  <2> QED
    BY <1>3, <2>1, <2>2
<1> QED
  BY <1>1, <1>2, <1>3, NextCases

\* A success is new only when the handler has read the stream to its end.
LEMMA NewSuccess ==
    ASSUME TypeInv, LocalInv, [Next]_vars, NEW j \in success', j \notin success
    PROVE  \E c \in Client : ReceiveEnd(c) /\ j = job[c]
<1>1. CASE UNCHANGED vars
  BY <1>1 DEF vars, history
<1>2. CASE ServerExits
  BY <1>2 DEF ServerExits, history
<1>3. ASSUME NEW c \in Client, HandlerStep(c) \/ ClientAct(c)
      PROVE  ReceiveEnd(c) /\ j = job[c]
  <2>1. CASE ReceiveEnd(c)
    BY <2>1, ReceiveEndAt
  <2>2. CASE ReadCommand(c) \/ HandlerLeaves(c) \/ WriteReply(c) \/ WriteFails(c) \/ SendReady(c)
    BY <2>2, ReadCommandAt, HandlerLeavesAt, WriteReplyAt, WriteFailsAt, SendReadyAt
  <2>3. CASE Receive(c) \/ ReceiveFails(c) \/ SendHeader(c) \/ LoadFails(c) \/ SendBlock(c)
    BY <2>3, ReceiveAt, ReceiveFailsAt, SendHeaderAt, LoadFailsAt, SendBlockAt
  <2>4. CASE Connect(c) \/ Leave(c) \/ ReadMore(c) \/ ReadResponse(c) \/ AwaitFails(c)
    BY <2>4, ConnectAt, LeaveAt, ReadMoreAt, ReadResponseAt, AwaitFailsAt
  <2>5. CASE SendDataFails(c) \/ SendDone(c) \/ ReceiveData(c) \/ ReceiveDone(c) \/ SendData(c)
    BY <2>5, SendEndsAt, ReceiveDataAt, ReceiveDoneAt, SendDataAt
  <2>6. ASSUME NEW op \in Ops, NEW f \in File \union {None}, NEW to \in Onward,
               SendCommand(c, op, f, to), Command(op, f, c, count[c] + 1) \in CommandItem
        PROVE  FALSE
    BY <2>6, SendCommandAt
  <2>7. CASE ReadBlank(c) \/ SendRest(c) \/ RestFails(c)
    BY <2>7, ReadBlankAt, SendRestAt, RestFailsAt
  <2> QED
    BY <1>3, <2>1, <2>2, <2>3, <2>4, <2>5, <2>6, <2>7, ClientCases DEF HandlerStep
<1> QED
  BY <1>1, <1>2, <1>3, NextCases

LEMMA DoneStep ==
    ASSUME TypeInv, LocalInv, OrderInv, DoneInv, TypeInv', [Next]_vars
    PROVE  DoneInv'
<1>1. SUFFICES ASSUME NEW j \in success'
               PROVE  Gone(j.by)' /\ j.n \in 1..count'[j.by] /\ j.op = "upload"
  BY DEF DoneInv
<1>2. j.by \in Client
  BY CommandFacts DEF TypeInv
<1>3. Gone(j.by) /\ j.n \in 1..count[j.by] /\ j.op = "upload"
  <2>1. CASE j \in success
    BY <2>1 DEF DoneInv
  <2>2. CASE j \notin success
    <3>1. PICK c \in Client : ReceiveEnd(c) /\ j = job[c]
      BY <2>2, NewSuccess
    <3>2. Gone(c) /\ handler[c] = "receive"
      BY <3>1, ReceiveEndAt
    <3>3. Order(c)
      BY DEF OrderInv
    <3>4. job[c].by = c /\ job[c].n \in 1..MaxCommands[c] /\ job[c].n <= count[c]
          /\ job[c].n \in Nat /\ count[c] \in Nat /\ job[c].op = "upload"
      BY <3>2, <3>3, ReceiveJob, Lengths
    <3> QED
      BY <3>1, <3>2, <3>4
  <2> QED
    BY <2>1, <2>2
<1>4. Gone(j.by)' /\ count'[j.by] = count[j.by]
  BY <1>2, <1>3, GoneStays
<1> QED
  BY <1>3, <1>4

LEMMA SuccessStep ==
    ASSUME TypeInv, LocalInv, OrderInv, UploadInv, DoneInv, SuccessIsComplete, TypeInv',
           [Next]_vars
    PROVE  SuccessIsComplete'
<1>1. SUFFICES ASSUME NEW j \in success', answer'[j.by][j.n] = j.n,
                      count'[j.by] > j.n \/ progress'[j.by] = Blocks, NEW i \in 1..Blocks
               PROVE  InFile(j.file, Block(j.by, j.n, i))'
  BY DEF SuccessIsComplete
<1>2. j.by \in Client
  BY CommandFacts DEF TypeInv
<1>3. CASE j \in success
  <2>1. Gone(j.by)
    BY <1>3 DEF DoneInv
  <2>2. answer[j.by][j.n] = j.n /\ (count[j.by] > j.n \/ progress[j.by] = Blocks)
    BY <1>1, <1>2, <2>1, GoneStays
  <2>3. PICK b : b = Block(j.by, j.n, i)
    OBVIOUS
  <2>4. InFile(j.file, b)
    BY <1>3, <2>2, <2>3 DEF SuccessIsComplete
  <2>5. j.file \in File
    BY <1>3, CommandFacts DEF TypeInv, DoneInv
  <2>6. InFile(j.file, b)'
    BY <2>4, <2>5, InFileStays
  <2> QED
    BY <2>3, <2>6 DEF InFile
<1>4. CASE j \notin success
  <2>1. PICK c \in Client : ReceiveEnd(c) /\ j = job[c]
    BY <1>4, NewSuccess
  <2>2. Gone(c) /\ handler[c] = "receive" /\ up[c] = <<>>
    BY <2>1, ReceiveEndAt
  <2>3. Order(c) /\ Uploading(c)
    BY DEF OrderInv, UploadInv
  <2>4. PICK f \in File, n \in 1..MaxCommands[c] :
            f = job[c].file /\ n = job[c].n /\ job[c].by = c
    BY <2>2, <2>3, ReceiveJob
  <2>5. answer[c][n] = n /\ (count[c] > n \/ progress[c] = Blocks)
    BY <1>1, <2>1, <2>2, <2>4, GoneStays
  <2>6. Own(c) /\ Sent(c, n) = Blocks
    BY <2>2, <2>4, <2>5 DEF Own, Sent
  <2>7. ~InUp(c, Block(c, n, i))
    BY <2>2 DEF InUp
  <2>8. InFile(f, Block(c, n, i))
    BY <2>3, <2>4, <2>6, <2>7 DEF Uploading, Coming
  <2>9. PICK b : b = Block(c, n, i)
    OBVIOUS
  <2>10. InFile(f, b)'
    BY <2>8, <2>9, InFileStays
  <2> QED
    BY <2>1, <2>4, <2>9, <2>10 DEF InFile
<1> QED
  BY <1>3, <1>4

-----------------------------------------------------------------------------
(* The invariant holds.                                                     *)

LEMMA InitTypes ==
    ASSUME Init
    PROVE  TypeInv
<1> USE DEF Init
<1>1. /\ client \in [Client -> ClientPC] /\ handler \in [Client -> HandlerPC]
      /\ count \in [Client -> Nat] /\ cur \in [Client -> CommandItem \union {None}]
      /\ response \in [Client -> FileItem \union {None}]
      /\ progress \in [Client -> 0..Blocks] /\ lost \in [Client -> Nat]
      /\ job \in [Client -> UpItem \union {None}]
      /\ success \subseteq CommandItem /\ clean \in [Client -> BOOLEAN]
      /\ answer = [c \in Client |-> answer[c]]
  BY TransferAssumption DEF TransferAssumption, ClientPC, HandlerPC
<1>2. /\ want \in [Client -> Seq(FileItem)] /\ got \in [Client -> Seq(DownItem)]
      /\ left \in [Client -> Seq(FileItem)]
      /\ up \in [Client -> Seq(UpItem)] /\ down \in [Client -> Seq(DownItem)]
  BY NoneFacts
<1>3. files \in [File -> Seq(FileItem)]
  <2>1. ASSUME NEW f \in File
        PROVE  [i \in 1..Blocks |-> Block(None, f, i)] \in Seq(FileItem)
    <3>1. \A i \in 1..Blocks : Block(None, f, i) \in FileItem
      BY DEF Block, StoredBlock, FileItem
    <3> QED
      BY <3>1, TransferAssumption DEF TransferAssumption
  <2> QED
    BY <2>1, NoneFacts
<1> QED
  BY <1>1, <1>2, <1>3 DEF TypeInv

LEMMA InitInv ==
    ASSUME Init
    PROVE  IInv
<1>1. TypeInv
  BY InitTypes
<1>2. ASSUME NEW c \in Client
      PROVE  /\ client[c] = "off" /\ handler[c] = "none" /\ count[c] = 0
             /\ got[c] = <<>> /\ want[c] = <<>> /\ response[c] = None
             /\ up[c] = <<>> /\ down[c] = <<>> /\ Len(<<>>) = 0 /\ DOMAIN <<>> = {}
             /\ answer[c] = [k \in 1..MaxCommands[c] |-> 0]
             /\ MaxCommands[c] \in Nat /\ Window \in Nat /\ progress[c] = 0
  BY TransferAssumption DEF TransferAssumption, Init
<1>3. ASSUME NEW c \in Client, NEW f \in File, NEW k \in DOMAIN files[f]
      PROVE  files[f][k].by # c
  BY <1>3, TransferAssumption DEF TransferAssumption, Init, Block
<1>4. LocalInv
  <2>1. ASSUME NEW c \in Client
        PROVE  Local(c)
    <3>1. answer[c] \in [1..MaxCommands[c] -> -1..MaxCommands[c]]
      <4>1. PICK m \in Nat : m = MaxCommands[c]
        BY <1>2
      <4>2. 0 \in -1..m
        OBVIOUS
      <4>3. answer[c] = [k \in 1..m |-> 0]
        BY <1>2, <4>1
      <4> QED
        BY <4>1, <4>2, <4>3
    <3>2. /\ count[c] <= MaxCommands[c] /\ Len(got[c]) <= Len(want[c])
          /\ Len(up[c]) <= Window /\ Len(down[c]) <= Window
      <4>1. /\ got[c] = <<>> /\ want[c] = <<>> /\ up[c] = <<>> /\ down[c] = <<>>
            /\ count[c] = 0
        BY <1>2
      <4>2. Len(<<>>) = 0
        OBVIOUS
      <4>3. PICK m \in Nat, w \in Nat : m = MaxCommands[c] /\ w = Window
        BY <1>2
      <4> QED
        BY <4>1, <4>2, <4>3
    <3>3. ~Busy(c) /\ down[c] = <<>> /\ up[c] = <<>>
      BY <1>2 DEF Busy, Working
    <3> QED
      BY <1>2, <3>1, <3>2, <3>3 DEF Local
  <2> QED
    BY <2>1 DEF LocalInv
<1>5. StreamInv
  BY <1>2 DEF StreamInv, Stream
<1>6. OrderInv
  BY <1>2 DEF OrderInv, Order, Busy, Working
<1>7. FileInv
  BY <1>3 DEF FileInv, Filed
<1>8. ReplyInv
  <2>1. ASSUME NEW c \in Client
        PROVE  /\ DOMAIN down[c] = {} /\ \A k \in 1..MaxCommands[c] : answer[c][k] = 0
    BY <1>2
  <2> QED
    BY <2>1 DEF ReplyInv, Reply
<1>9. CleanInv
  BY <1>2 DEF CleanInv, Clean, Busy, Working
<1>10. GapInv
  <2>1. ASSUME NEW c \in Client, NEW f \in File, NEW n, NEW v
        PROVE  ~InFile(f, Block(c, n, v))
    <3>1. Block(c, n, v).by = c
      BY DEF Block
    <3> QED
      BY <1>3, <3>1 DEF InFile
  <2>2. ASSUME NEW c \in Client, NEW f \in File
        PROVE  Whole(c, f)
    BY <2>1 DEF Whole
  <2>3. ASSUME NEW c \in Client
        PROVE  UpGap(c) /\ FileGap(c)
    BY <1>2 DEF UpGap, FileGap, InUp
  <2> QED
    BY <2>2, <2>3 DEF GapInv
<1>11. UploadInv
  BY <1>2 DEF UploadInv, Uploading, Own
<1>12. DoneInv /\ SuccessIsComplete
  BY DEF Init, DoneInv, SuccessIsComplete
<1> QED
  BY <1>1, <1>4, <1>5, <1>6, <1>7, <1>8, <1>9, <1>10, <1>11, <1>12 DEF IInv

LEMMA IInvStep ==
    ASSUME IInv, [Next]_vars
    PROVE  IInv'
<1>1. /\ TypeInv /\ LocalInv /\ StreamInv /\ OrderInv /\ FileInv /\ ReplyInv
      /\ CleanInv /\ GapInv /\ UploadInv /\ DoneInv /\ SuccessIsComplete
  BY DEF IInv
<1>2. TypeInv'
  BY <1>1, TypeStep
<1>3. LocalInv'
  BY <1>1, <1>2, LocalStep
<1>4. StreamInv' /\ OrderInv' /\ FileInv' /\ ReplyInv' /\ CleanInv'
  BY <1>1, <1>2, <1>3, StreamStep, OrderStep, FileStep, ReplyStep, CleanStep
<1>5. GapInv' /\ UploadInv'
  BY <1>1, <1>2, GapStep
<1>6. DoneInv' /\ SuccessIsComplete'
  BY <1>1, <1>2, DoneStep, SuccessStep
<1> QED
  BY <1>2, <1>3, <1>4, <1>5, <1>6 DEF IInv

LEMMA Invariant ==
    Spec => []IInv
  BY InitInv, IInvStep, PTL DEF Spec

-----------------------------------------------------------------------------
(* What the file transfer guarantees.                                       *)

LEMMA IInvTypes ==
    ASSUME IInv
    PROVE  TypeOK
<1>1. TypeInv /\ LocalInv
  BY DEF IInv
<1>2. ASSUME NEW c \in Client
      PROVE  count[c] \in 0..MaxCommands[c]
  <2>1. count[c] \in Nat /\ MaxCommands[c] \in Nat /\ count[c] <= MaxCommands[c]
    BY <1>1, TransferAssumption DEF TransferAssumption, TypeInv, LocalInv, Local
  <2> QED
    BY <2>1
<1>3. \A c \in Client :
          /\ answer[c] \in [1..MaxCommands[c] -> -1..MaxCommands[c]]
          /\ Len(up[c]) <= Window /\ Len(down[c]) <= Window
          /\ Len(got[c]) <= Len(want[c])
          /\ handler[c] = "send" => left[c] # <<>>
          /\ client[c] \in {"writing", "await"} => cur[c].n = count[c]
  BY <1>1 DEF LocalInv, Local
<1> QED
  BY <1>1, <1>2, <1>3 DEF TypeOK, TypeInv

LEMMA IInvFront ==
    ASSUME IInv
    PROVE  OnlyFrontMissing
<1>1. SUFFICES ASSUME NEW c \in Client, NEW i \in DOMAIN got[c], lost[c] + i <= Len(want[c])
               PROVE  got[c][i] = want[c][lost[c] + i]
  BY DEF OnlyFrontMissing
<1>2. Stream(c) /\ TypeInv
  BY DEF IInv, StreamInv
<1>3. PICK l \in Nat, m \in Nat, g \in Nat :
          /\ l = lost[c] /\ m = Len(want[c]) /\ DOMAIN want[c] = 1..m
          /\ g = Len(got[c]) /\ DOMAIN got[c] = 1..g
  BY <1>2, Lengths
<1>4. l + i \in 1..m
  BY <1>1, <1>3
<1> QED
  BY <1>2, <1>3, <1>4 DEF Stream

LEMMA IInvReplies ==
    ASSUME IInv
    PROVE  RepliesInOrder
<1>1. SUFFICES ASSUME NEW c \in Client, NEW k \in 1..MaxCommands[c]
               PROVE  /\ answer[c][k] <= k
                      /\ clean[c] => answer[c][k] \in {0, k}
                      /\ \A m \in 1..k : answer[c][m] > 0 /\ answer[c][k] > 0
                             => answer[c][m] <= answer[c][k]
  BY DEF RepliesInOrder
<1>2. Reply(c) /\ Local(c) /\ (clean[c] => Clean(c))
  BY DEF IInv, ReplyInv, LocalInv, CleanInv
<1>3. MaxCommands[c] \in Nat /\ k \in Nat /\ k > 0
  BY TransferAssumption DEF TransferAssumption
<1>4. answer[c][k] \in -1..MaxCommands[c]
  BY <1>2 DEF Local
<1>5. answer[c][k] <= k
  <2>1. answer[c][k] > 0 => answer[c][k] <= k
    BY <1>2 DEF Reply
  <2> QED
    BY <1>3, <1>4, <2>1
<1>6. clean[c] => answer[c][k] \in {0, k}
  BY <1>2 DEF Clean
<1>7. ASSUME NEW m \in 1..k, answer[c][m] > 0, answer[c][k] > 0
      PROVE  answer[c][m] <= answer[c][k]
  <2>1. m \in 1..MaxCommands[c] /\ k \in m..MaxCommands[c]
    BY <1>3
  <2> QED
    BY <1>2, <1>7, <2>1 DEF Reply
<1> QED
  BY <1>5, <1>6, <1>7

LEMMA IInvUploads ==
    ASSUME IInv
    PROVE  UploadInOrder
<1>1. SUFFICES ASSUME NEW f \in File, NEW c \in Client, NEW n \in 1..MaxCommands[c],
                      NEW i \in DOMAIN files[f], NEW x, x = files[f][i], IsOf(x, c, n)
               PROVE  /\ \A j \in DOMAIN files[f] : i < j /\ IsOf(files[f][j], c, n) =>
                             /\ x.n < files[f][j].n
                             /\ \E k \in i + 1..j : files[f][k] = Block(c, n, x.n + 1)
                      /\ answer[c][n] = n => \E k \in 1..i : files[f][k] = Block(c, n, 1)
  BY DEF UploadInOrder
<1>2. TypeInv /\ Filed(c, f) /\ Whole(c, f)
  BY DEF IInv, FileInv, GapInv
<1>3. ASSUME NEW j \in DOMAIN files[f], NEW y, y = files[f][j], IsOf(y, c, n)
      PROVE  /\ y = Block(c, n, y.n) /\ y.n \in 1..Blocks /\ y.by = c /\ y \in UpItem
             /\ y.kind = "block" /\ Number(y) = n /\ j \in Nat /\ InFile(f, y)
  <2>1. y \in UpItem /\ y.by = c /\ y.kind = "block" /\ y.of = n /\ j \in Nat
    BY <1>2, <1>3, FileLengths, FileFacts DEF IsOf
  <2>2. y \in UpBlock
    BY <2>1, UpFacts
  <2> QED
    BY <1>3, <2>1, <2>2, BlockFacts DEF InFile
<1>4. ASSUME NEW j \in DOMAIN files[f], NEW y, y = files[f][j], IsOf(y, c, n),
             NEW k \in DOMAIN files[f], NEW z, z = files[f][k], IsOf(z, c, n), j < k
      PROVE  y.n < z.n
  <2>1. y.by = c /\ z.by = c /\ Number(y) = n /\ Number(z) = n /\ n \in Nat
        /\ y.kind = "block"
    BY <1>3, <1>4, TransferAssumption DEF TransferAssumption
  <2>2. Before(y, z)
    BY <1>2, <1>4, <2>1 DEF Filed
  <2> QED
    BY <2>1, <2>2 DEF Before
<1>5. PICK v \in 1..Blocks : v = x.n /\ x = Block(c, n, v) /\ InFile(f, x) /\ i \in Nat
  BY <1>1, <1>3
<1>6. ASSUME NEW j \in DOMAIN files[f], i < j, NEW y, y = files[f][j], IsOf(y, c, n)
      PROVE  /\ x.n < y.n
             /\ \E k \in i + 1..j : files[f][k] = Block(c, n, x.n + 1)
  <2>1. x.n < y.n
    BY <1>1, <1>4, <1>6
  <2>2. PICK w \in 1..Blocks : w = y.n /\ y = Block(c, n, w) /\ InFile(f, y) /\ j \in Nat
    BY <1>3, <1>6
  <2>3. w \in v + 1..Blocks /\ v + 1 \in 1..Blocks
    BY <1>5, <2>1, <2>2, TransferAssumption DEF TransferAssumption
  <2>4. InFile(f, Block(c, n, v + 1))
    BY <1>2, <1>5, <2>2, <2>3 DEF Whole
  <2>5. PICK k \in DOMAIN files[f] : files[f][k] = Block(c, n, v + 1)
    BY <2>4 DEF InFile
  <2>6. PICK z : z = files[f][k] /\ IsOf(z, c, n) /\ z.n = v + 1 /\ k \in Nat
    BY <1>2, <2>5, FileLengths DEF IsOf, Block
  <2>7. i # k /\ ~(k < i)
    <3>0. v + 1 # v /\ ~(v + 1 < v)
      BY <1>5
    <3>1. k < i => z.n < x.n
      BY <1>1, <1>4, <2>5, <2>6
    <3> QED
      BY <1>1, <1>5, <2>5, <2>6, <3>0, <3>1
  <2>8. ~(j < k)
    <3>1. j < k => y.n < z.n
      BY <1>4, <1>6, <2>5, <2>6
    <3> QED
      BY <2>2, <2>3, <2>6, <3>1
  <2>9. k \in i + 1..j
    BY <1>5, <2>2, <2>6, <2>7, <2>8
  <2> QED
    BY <1>5, <2>1, <2>5, <2>9
<1>7. ASSUME answer[c][n] = n
      PROVE  \E k \in 1..i : files[f][k] = Block(c, n, 1)
  <2>1. InFile(f, Block(c, n, 1))
    BY <1>2, <1>5, <1>7 DEF Whole
  <2>2. PICK k \in DOMAIN files[f] : files[f][k] = Block(c, n, 1)
    BY <2>1 DEF InFile
  <2>3. PICK z : z = files[f][k] /\ IsOf(z, c, n) /\ z.n = 1 /\ k \in Nat
    BY <1>2, <2>2, FileLengths DEF IsOf, Block
  <2>4. ~(i < k)
    <3>1. i < k => v < 1
      BY <1>1, <1>4, <1>5, <2>3
    <3> QED
      BY <3>1
  <2>5. k \in 1..Len(files[f])
    BY <1>2, FileLengths
  <2>6. k \in 1..i
    BY <1>5, <2>3, <2>4, <2>5
  <2> QED
    BY <2>2, <2>6
<1> QED
  BY <1>6, <1>7

\* Every variable of the two sides keeps its type, and no stream grows beyond what it
\* holds, whoever leaves, fails or is slow.
THEOREM TypeCorrect ==
    Spec => []TypeOK
<1>1. IInv => TypeOK
  BY IInvTypes
<1> QED
  BY <1>1, Invariant, PTL

\* What DownloadFile writes is the announced content without a piece at its front
\* (tcp_client.go, lines 138-162, 213-261): nothing later is lost, doubled or foreign, although
\* readResponse and receiveFile cut the same stream.
THEOREM OnlyTheFrontIsMissing ==
    Spec => []OnlyFrontMissing
<1>1. IInv => OnlyFrontMissing
  BY IInvFront
<1> QED
  BY <1>1, Invariant, PTL

\* A command takes no reply of a later one and no earlier reply than a command before
\* it, although a line longer than the buffer of the server is answered more than once; in
\* a session of short lines without transfers it takes its own or none (tcp_client.go,
\* readResponse; tcp_server.go, HandleConnection).
THEOREM RepliesKeepOrder ==
    Spec => []RepliesInOrder
<1>1. IInv => RepliesInOrder
  BY IInvReplies
<1> QED
  BY <1>1, Invariant, PTL

\* What a file holds of one upload is a piece of it in order, each block once, whoever
\* else appends to the file (tcp_server.go, receiveFile); the piece starts at the first
\* block if the client waited for the READY of this upload.
THEOREM UploadsKeepOrder ==
    Spec => []UploadInOrder
<1>1. IInv => UploadInOrder
  BY IInvUploads
<1> QED
  BY <1>1, Invariant, PTL

\* An upload the server reports as received is in the file as a whole, if the client had
\* written it all: the end of a stream is not seen before its data (receiveFile).
THEOREM SuccessMeansComplete ==
    Spec => []SuccessIsComplete
<1>1. IInv => SuccessIsComplete
  BY DEF IInv
<1> QED
  BY <1>1, Invariant, PTL

=============================================================================
