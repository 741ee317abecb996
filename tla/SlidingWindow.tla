----------------------------- MODULE SlidingWindow -----------------------------
(***************************************************************************)
(* The sliding window of lab2, SlidingWindow in                             *)
(* src/lab2/internal/domain/packet.go, as operators on its fields.  Buffer  *)
(* is the key set of the map of packets, Acked that of the map of marks.    *)
(***************************************************************************)
EXTENDS Integers, FiniteSets

CONSTANTS
    Modulus,    \* of the sequence numbers: 2^32 in the code
    WindowSize  \* config.UDP.WindowSize

ASSUME WindowAssumption == Modulus \in Nat /\ WindowSize \in 1 .. Modulus - 1

Number == 0 .. Modulus - 1
Succ(n) == (n + 1) % Modulus

Window == [BaseSeq : Number, NextSeq : Number, Buffer : SUBSET Number, Acked : SUBSET Number]

NewSlidingWindow == [BaseSeq |-> 0, NextSeq |-> 0, Buffer |-> {}, Acked |-> {}]

\* The unsigned difference of two numbers.
Distance(from, to) == (to - from) % Modulus

CanSend(w) == Distance(w.BaseSeq, w.NextSeq) < WindowSize

\* Mutant of AddPacket: NextSeq is wider than a sequence number.
AddPacketUnwrapped(w, n) == [w EXCEPT !.Buffer = @ \union {n}, !.NextSeq = @ + 1]

\* The packet is stored under its own number, whatever NextSeq is.
AddPacket(w, n) == [w EXCEPT !.Buffer = @ \union {n}, !.NextSeq = Succ(@)]

\* How far the loop of AckPacket gets from "base": to the first number that is
\* not marked, or once around, because it takes the marks away as it goes.
Run(base, acked) ==
    CHOOSE k \in 0 .. Modulus :
        /\ k = Modulus \/ (base + k) % Modulus \notin acked
        /\ \A j \in 0 .. k - 1 : (base + j) % Modulus \in acked

\* The numbers at a distance below k from base.
Interval(base, k) == {n \in Number : Distance(base, n) < k}

\* Mutant of AckPacket: an acknowledgement passes whatever is before it.
AckPacketCumulative(w, n) ==
    LET passed == Interval(w.BaseSeq, Distance(w.BaseSeq, n) + 1)
    IN  [w EXCEPT !.BaseSeq = Succ(n), !.Buffer = @ \ passed]

AckPacket(w, n) ==
    LET acked == w.Acked \union {n}
        k == Run(w.BaseSeq, acked)
        passed == Interval(w.BaseSeq, k)
    IN  [w EXCEPT !.BaseSeq = (@ + k) % Modulus,
                  !.Buffer = @ \ passed,
                  !.Acked = acked \ passed]

\* The numbers sent and not yet acknowledged in order.
Outstanding(w) == Interval(w.BaseSeq, Distance(w.BaseSeq, w.NextSeq))

\* What a caller owes the window: a packet has the next number, which no earlier
\* acknowledgement has marked, and an acknowledgement names a packet that was sent.
FitsAdd(w, n) == n = w.NextSeq /\ n \notin w.Acked
FitsAck(w, n) == w.NextSeq \notin w.Acked \union {n}

\* The window stores exactly the outstanding packets, at most WindowSize of them,
\* and waits for the oldest.
Exact(w) ==
    /\ w.Buffer = Outstanding(w)
    /\ Cardinality(w.Buffer) <= WindowSize
    /\ w.BaseSeq \notin w.Acked

=============================================================================
