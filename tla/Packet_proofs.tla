------------------------------ MODULE Packet_proofs ------------------------------
(***************************************************************************)
(* Proofs about the operators of lab2's packet.go: what the window keeps,   *)
(* for every window size and every width of the sequence numbers, and what  *)
(* the receiver accepts, for every packet and every size of a byte.         *)
(***************************************************************************)
EXTENDS SlidingWindow, PacketCodec, FiniteSetTheorems, TLAPS

-----------------------------------------------------------------------------
(* The window. *)

\* Remainders of the sums and differences of numbers.
LEMMA Reduced ==
    ASSUME NEW m \in Nat, m > 0, NEW a \in 0 .. m - 1
    PROVE  a % m = a
  OBVIOUS

LEMMA Wrapped ==
    ASSUME NEW m \in Nat, m > 0, NEW a \in Int, a >= m, a < 2 * m
    PROVE  a % m = a - m
  OBVIOUS

LEMMA Borrowed ==
    ASSUME NEW m \in Nat, m > 0, NEW a \in Int, a < 0, a >= 0 - m
    PROVE  a % m = a + m
  OBVIOUS

LEMMA DistanceFacts ==
    ASSUME NEW b \in Number, NEW n \in Number
    PROVE  Distance(b, n) = IF n >= b THEN n - b ELSE n - b + Modulus
<1>1. CASE n >= b
  BY <1>1, Reduced, WindowAssumption DEF WindowAssumption, Distance, Number
<1>2. CASE n < b
  BY <1>2, Borrowed, WindowAssumption DEF WindowAssumption, Distance, Number
<1> QED
  BY <1>1, <1>2, WindowAssumption DEF Number, WindowAssumption

LEMMA StepFacts ==
    ASSUME NEW b \in Number, NEW k \in 0 .. Modulus
    PROVE  /\ (b + k) % Modulus \in Number
           /\ (b + k) % Modulus = IF b + k < Modulus THEN b + k ELSE b + k - Modulus
<1>1. CASE b + k < Modulus
  BY <1>1, Reduced, WindowAssumption DEF WindowAssumption, Number
<1>2. CASE b + k >= Modulus
  BY <1>2, Wrapped, WindowAssumption DEF WindowAssumption, Number
<1> QED
  BY <1>1, <1>2, WindowAssumption DEF Number, WindowAssumption

\* The place of a number is found again from its distance.
LEMMA DistanceInverse ==
    ASSUME NEW b \in Number, NEW n \in Number
    PROVE  /\ Distance(b, n) \in Number
           /\ (b + Distance(b, n)) % Modulus = n
<1>1. Distance(b, n) \in Number
  BY DistanceFacts, WindowAssumption DEF WindowAssumption, Number
<1> DEFINE d == Distance(b, n)
<1>2. d \in 0 .. Modulus
  BY <1>1, WindowAssumption DEF WindowAssumption, Number
<1>3. d = IF n >= b THEN n - b ELSE n - b + Modulus
  BY DistanceFacts
<1> HIDE DEF d
<1>4. (b + d) % Modulus = IF b + d < Modulus THEN b + d ELSE b + d - Modulus
  BY <1>2, StepFacts
<1>5. (b + d) % Modulus = n
  BY <1>3, <1>4, WindowAssumption DEF WindowAssumption, Number
<1> QED
  BY <1>1, <1>5 DEF d

\* The distance after a step of k towards the number, or past it.
LEMMA DistanceAfterStep ==
    ASSUME NEW b \in Number, NEW k \in 0 .. Modulus - 1, NEW n \in Number
    PROVE  Distance((b + k) % Modulus, n) =
               IF Distance(b, n) >= k THEN Distance(b, n) - k
                                      ELSE Distance(b, n) - k + Modulus
<1> DEFINE c == (b + k) % Modulus
<1>1. k \in 0 .. Modulus
  BY WindowAssumption DEF WindowAssumption
<1>2. c \in Number /\ c = IF b + k < Modulus THEN b + k ELSE b + k - Modulus
  BY <1>1, StepFacts
<1>3. Distance(c, n) = IF n >= c THEN n - c ELSE n - c + Modulus
  BY <1>2, DistanceFacts
<1>4. Distance(b, n) = IF n >= b THEN n - b ELSE n - b + Modulus
  BY DistanceFacts
<1> HIDE DEF c
<1>5. Distance(c, n) = IF Distance(b, n) >= k THEN Distance(b, n) - k
                                              ELSE Distance(b, n) - k + Modulus
  BY <1>2, <1>3, <1>4, WindowAssumption DEF WindowAssumption, Number
<1> QED
  BY <1>5 DEF c

\* An interval has no more numbers than its length.
LEMMA IntervalSize ==
    ASSUME NEW b \in Number, NEW k \in Nat
    PROVE  IsFiniteSet(Interval(b, k)) /\ Cardinality(Interval(b, k)) <= k
<1> DEFINE f == [n \in Interval(b, k) |-> Distance(b, n)]
<1>1. f \in [Interval(b, k) -> 0 .. k - 1]
  BY DistanceInverse, WindowAssumption DEF WindowAssumption, Interval, Number
<1>2. \A m, n \in Interval(b, k) : f[m] = f[n] => m = n
  BY DistanceInverse DEF Interval
<1>3. f \in Injection(Interval(b, k), 0 .. k - 1)
  BY <1>1, <1>2 DEF Injection, IsInjective
<1>4. IsFiniteSet(0 .. k - 1) /\ Cardinality(0 .. k - 1) = k
  BY FS_Interval
<1> HIDE DEF f
<1> QED
  BY <1>3, <1>4, FS_Injection

\* The loop of AckPacket ends: what it looks for exists.
LEMMA RunFacts ==
    ASSUME NEW b \in Number, NEW A \in SUBSET Number
    PROVE  /\ Run(b, A) \in 0 .. Modulus
           /\ Run(b, A) = Modulus \/ (b + Run(b, A)) % Modulus \notin A
           /\ \A j \in 0 .. Run(b, A) - 1 : (b + j) % Modulus \in A
<1> USE WindowAssumption DEF WindowAssumption
<1> DEFINE S == {k \in 0 .. Modulus - 1 : \A j \in 0 .. k : (b + j) % Modulus \in A}
           c == Cardinality(S)
<1>1. IsFiniteSet(0 .. Modulus - 1) /\ Cardinality(0 .. Modulus - 1) = Modulus
  BY FS_Interval
<1>2. IsFiniteSet(S) /\ c \in Nat /\ c <= Modulus
  BY <1>1, FS_Subset, FS_CardinalityType
<1>3. ASSUME NEW k \in S
      PROVE  k < c
  <2>1. 0 .. k \in SUBSET S
    OBVIOUS
  <2>2. Cardinality(0 .. k) = k + 1
    BY FS_Interval
  <2>3. Cardinality(0 .. k) <= c
    BY <1>2, <2>1, FS_Subset
  <2> QED
    BY <1>2, <2>2, <2>3
<1>4. IsFiniteSet(0 .. c - 1) /\ Cardinality(0 .. c - 1) = c
  <2> HIDE DEF c
  <2>1. c - 1 \in Int
    BY <1>2
  <2>2. /\ IsFiniteSet(0 .. c - 1)
        /\ Cardinality(0 .. c - 1) = IF 0 > c - 1 THEN 0 ELSE c - 1 - 0 + 1
    BY <2>1, FS_Interval
  <2> QED
    BY <1>2, <2>2
<1>5. S \in SUBSET (0 .. c - 1)
  BY <1>2, <1>3
<1>6. S = 0 .. c - 1
  BY <1>4, <1>5, FS_Subset
<1>7. \A j \in 0 .. c - 1 : (b + j) % Modulus \in A
  BY <1>2, <1>6
<1>8. c = Modulus \/ (b + c) % Modulus \notin A
  <2>1. SUFFICES ASSUME c # Modulus, (b + c) % Modulus \in A
                 PROVE  FALSE
    OBVIOUS
  <2>2. c \in 0 .. Modulus - 1
    BY <1>2, <2>1
  <2>3. \A j \in 0 .. c : j = c \/ j \in 0 .. c - 1
    BY <1>2
  <2>4. \A j \in 0 .. c : (b + j) % Modulus \in A
    BY <1>7, <2>1, <2>3
  <2>5. c \in S
    BY <2>2, <2>4
  <2> QED
    BY <1>2, <1>3, <2>5
<1>9. c \in 0 .. Modulus
  BY <1>2
<1> HIDE DEF c
<1> QED
  BY <1>7, <1>8, <1>9 DEF Run

-----------------------------------------------------------------------------
(* The invariant of a window: Exact, with the bound on its size stated for  *)
(* the two numbers, from which the bound on the buffer follows.             *)

Sound(w) ==
    /\ w \in Window
    /\ w.Buffer = Outstanding(w)
    /\ Distance(w.BaseSeq, w.NextSeq) <= WindowSize
    /\ w.BaseSeq \notin w.Acked

LEMMA SoundIsExact ==
    ASSUME NEW w, Sound(w)
    PROVE  Exact(w)
<1>1. w.BaseSeq \in Number /\ w.NextSeq \in Number
  BY DEF Sound, Window
<1>2. Distance(w.BaseSeq, w.NextSeq) \in Nat
  BY <1>1, DistanceInverse, WindowAssumption DEF WindowAssumption, Number
<1>3. /\ IsFiniteSet(Interval(w.BaseSeq, Distance(w.BaseSeq, w.NextSeq)))
      /\ Cardinality(Interval(w.BaseSeq, Distance(w.BaseSeq, w.NextSeq)))
             <= Distance(w.BaseSeq, w.NextSeq)
  BY <1>1, <1>2, IntervalSize
<1>4. Cardinality(w.Buffer) <= Distance(w.BaseSeq, w.NextSeq)
  BY <1>3 DEF Sound, Outstanding
<1>5. Cardinality(w.Buffer) \in Nat
  BY <1>3, FS_CardinalityType DEF Sound, Outstanding
<1>6. Cardinality(w.Buffer) <= WindowSize
  BY <1>2, <1>4, <1>5, WindowAssumption DEF Sound, WindowAssumption
<1> QED
  BY <1>6 DEF Sound, Exact

LEMMA NewIsSound == Sound(NewSlidingWindow)
<1> USE WindowAssumption DEF WindowAssumption
<1>1. 0 \in Number
  BY DEF Number
<1>2. Distance(0, 0) = 0
  BY <1>1, DistanceFacts
<1>3. Interval(0, 0) = {}
  BY <1>1, DistanceInverse DEF Interval, Number
<1>4. NewSlidingWindow \in Window
  BY <1>1 DEF Window, NewSlidingWindow
<1> QED
  BY <1>2, <1>3, <1>4 DEF Sound, NewSlidingWindow, Outstanding

LEMMA AddKeepsSound ==
    ASSUME NEW w, Sound(w), CanSend(w)
    PROVE  Sound(AddPacket(w, w.NextSeq))
<1> USE WindowAssumption DEF WindowAssumption
<1> DEFINE b == w.BaseSeq
           n == w.NextSeq
           D == Distance(b, n)
           v == AddPacket(w, n)
<1>1. b \in Number /\ n \in Number /\ w.Acked \in SUBSET Number
      /\ w.Buffer \in SUBSET Number
  BY DEF Sound, Window
<1>2. Succ(n) \in Number /\ Succ(n) = IF n + 1 < Modulus THEN n + 1 ELSE n + 1 - Modulus
  BY <1>1, StepFacts DEF Succ
<1>3. /\ v \in Window
      /\ v.BaseSeq = b /\ v.NextSeq = Succ(n)
      /\ v.Buffer = w.Buffer \union {n} /\ v.Acked = w.Acked
  <2> DEFINE B == w.Buffer \union {n}
             x == Succ(n)
  <2>1. w \in Window /\ B \in SUBSET Number /\ x \in Number
    BY <1>1, <1>2 DEF Sound
  <2>2. v = [w EXCEPT !.Buffer = B, !.NextSeq = x]
    BY DEF AddPacket
  <2> HIDE DEF B, x, v
  <2>3. v \in Window /\ v.BaseSeq = b /\ v.NextSeq = x /\ v.Buffer = B /\ v.Acked = w.Acked
    BY <2>1, <2>2 DEF Window
  <2> QED
    BY <2>3 DEF B, x
<1>4. D \in Number /\ D < WindowSize
  BY <1>1, DistanceInverse DEF CanSend
<1>5. D = IF n >= b THEN n - b ELSE n - b + Modulus
  BY <1>1, DistanceFacts
<1>6. Distance(b, Succ(n)) = IF Succ(n) >= b THEN Succ(n) - b ELSE Succ(n) - b + Modulus
  BY <1>1, <1>2, DistanceFacts
<1>7. Distance(b, Succ(n)) = D + 1
  <2> HIDE DEF D
  <2> QED
    BY <1>1, <1>2, <1>4, <1>5, <1>6 DEF Number
<1>8. Interval(b, D + 1) = Interval(b, D) \union {n}
  <2>1. ASSUME NEW m \in Number
        PROVE  Distance(b, m) \in Int /\ (Distance(b, m) = D => m = n)
    <3>1. Distance(b, m) \in Number /\ (b + Distance(b, m)) % Modulus = m
      BY <1>1, DistanceInverse
    <3>2. (b + D) % Modulus = n
      BY <1>1, DistanceInverse
    <3>3. Distance(b, m) \in Int
      BY <3>1 DEF Number
    <3> QED
      BY <3>1, <3>2, <3>3
  <2>2. \A m \in Number : Distance(b, m) < D + 1 <=> Distance(b, m) < D \/ m = n
    BY <2>1, <1>4 DEF Number
  <2> QED
    BY <1>1, <2>2 DEF Interval
<1>10. v.Buffer = Outstanding(v)
  BY <1>3, <1>7, <1>8 DEF Sound, Outstanding
<1>11. D + 1 <= WindowSize
  <2> HIDE DEF D
  <2> QED
    BY <1>4 DEF Number
<1> QED
  BY <1>3, <1>7, <1>10, <1>11 DEF Sound

LEMMA AckKeepsSound ==
    ASSUME NEW w, Sound(w), NEW n \in Number, FitsAck(w, n)
    PROVE  Sound(AckPacket(w, n))
<1> USE WindowAssumption DEF WindowAssumption
<1> DEFINE b == w.BaseSeq
           next == w.NextSeq
           acked == w.Acked \union {n}
           k == Run(b, acked)
           c == (b + k) % Modulus
           D == Distance(b, next)
           v == AckPacket(w, n)
<1>1. /\ b \in Number /\ next \in Number /\ acked \in SUBSET Number
      /\ w.Buffer \in SUBSET Number
  BY DEF Sound, Window
<1>3. /\ k \in 0 .. Modulus
      /\ k = Modulus \/ c \notin acked
      /\ \A j \in 0 .. k - 1 : (b + j) % Modulus \in acked
  BY <1>1, RunFacts
<1>4. D \in Number /\ (b + D) % Modulus = next
  BY <1>1, DistanceInverse
<1> HIDE DEF k
<1>5. k <= D
  <2>1. SUFFICES ASSUME D < k PROVE FALSE
    BY <1>3, <1>4 DEF Number
  <2>2. D \in 0 .. k - 1
    BY <1>3, <1>4, <2>1 DEF Number
  <2>3. next \in acked
    BY <1>3, <1>4, <2>2
  <2> QED
    BY <2>3 DEF FitsAck
<1> HIDE DEF D
<1>6. k \in 0 .. Modulus - 1
  BY <1>3, <1>4, <1>5 DEF Number
<1>7. c \in Number
  BY <1>1, <1>3, StepFacts
<1>8. c \notin acked
  BY <1>3, <1>6
<1>9. \A m \in Number : Distance(b, m) \in Number
  BY <1>1, DistanceInverse
<1>10. \A m \in Number :
          Distance(c, m) = IF Distance(b, m) >= k THEN Distance(b, m) - k
                                                  ELSE Distance(b, m) - k + Modulus
  BY <1>1, <1>6, DistanceAfterStep
<1>11. Distance(c, next) = D - k
  BY <1>1, <1>5, <1>10 DEF D
<1>2. v = [w EXCEPT !.BaseSeq = c, !.Buffer = w.Buffer \ Interval(b, k),
                !.Acked = acked \ Interval(b, k)]
  BY DEF AckPacket, k
<1> HIDE DEF c, v
<1>13. /\ v \in Window
       /\ v.BaseSeq = c /\ v.NextSeq = next
       /\ v.Buffer = w.Buffer \ Interval(b, k) /\ v.Acked = acked \ Interval(b, k)
  <2> DEFINE B == w.Buffer \ Interval(b, k)
             A == acked \ Interval(b, k)
  <2>1. w \in Window /\ c \in Number /\ B \in SUBSET Number /\ A \in SUBSET Number
    BY <1>1, <1>7 DEF Sound
  <2>2. v = [w EXCEPT !.BaseSeq = c, !.Buffer = B, !.Acked = A]
    BY <1>2
  <2> HIDE DEF B, A
  <2>3. v \in Window /\ v.BaseSeq = c /\ v.NextSeq = next /\ v.Buffer = B /\ v.Acked = A
    BY <2>1, <2>2 DEF Window
  <2> QED
    BY <2>3 DEF B, A
<1>12. Interval(c, D - k) = Interval(b, D) \ Interval(b, k)
  <2>1. ASSUME NEW m \in Number
        PROVE  Distance(c, m) < D - k <=> Distance(b, m) < D /\ ~(Distance(b, m) < k)
    BY <1>4, <1>6, <1>9, <1>10 DEF Number
  <2> QED
    BY <2>1 DEF Interval
<1>14. v.Buffer = Outstanding(v)
  BY <1>11, <1>12, <1>13 DEF Sound, Outstanding, D
<1>15. D - k <= WindowSize
  BY <1>4, <1>5, <1>6 DEF Sound, Number, D
<1>16. Sound(v)
  BY <1>8, <1>11, <1>13, <1>14, <1>15 DEF Sound
<1> QED
  BY <1>16 DEF v

-----------------------------------------------------------------------------
(* The codec. *)

\* The sums that the checksum folds.
Sums == 0 .. WordSize * WordSize - 1

\* A number in two digits.
LEMMA Digits ==
    ASSUME NEW m \in Nat, m > 0, NEW s \in Nat
    PROVE  /\ s \div m \in Nat /\ s % m \in 0 .. m - 1
           /\ s = m * (s \div m) + (s % m)
           /\ s < m * m => s \div m < m
  OBVIOUS

LEMMA WordSizeFacts == WordSize \in Nat /\ WordSize >= 2 * Base /\ WordSize > 3
  BY CodecAssumption DEF WordSize

LEMMA ByteDigits ==
    ASSUME NEW s \in Nat, s < Base * Base
    PROVE  /\ s \div Base \in Byte /\ s % Base \in Byte
           /\ s = Base * (s \div Base) + (s % Base)
<1>1. Base \in Nat /\ Base > 0
  BY CodecAssumption
<1>2. s \div Base \in Nat /\ s \div Base < Base
  BY <1>1, Digits
<1> QED
  BY <1>1, <1>2, Digits DEF Byte

\* One turn of the folding loop takes a multiple of WordSize - 1 away.
LEMMA FoldOnceFacts ==
    ASSUME NEW s \in Sums
    PROVE  /\ FoldOnce(s) \in 0 .. 2 * (WordSize - 1)
           /\ s <= 2 * (WordSize - 1) => FoldOnce(s) \in 0 .. WordSize - 1
           /\ s > 0 => FoldOnce(s) > 0
           /\ \E k \in Nat : s = (WordSize - 1) * k + FoldOnce(s)
<1> DEFINE m == WordSize
<1> DEFINE q == s \div m
           r == s % m
<1>0. m \in Nat /\ m > 3
  BY WordSizeFacts
<1>1. s \in Nat /\ s < m * m
  BY <1>0 DEF Sums
<1> HIDE DEF m
<1>2. q \in 0 .. m - 1 /\ r \in 0 .. m - 1 /\ s = m * q + r
  BY <1>0, <1>1, Digits
<1>3. FoldOnce(s) = r + q
  BY DEF FoldOnce, m
<1> HIDE DEF q, r
<1>4. ASSUME s <= 2 * (m - 1) PROVE FoldOnce(s) \in 0 .. m - 1
  <2>1. CASE q = 0
    BY <2>1, <1>0, <1>2, <1>3
  <2>2. CASE q = 1
    BY <2>2, <1>0, <1>2, <1>3, <1>4
  <2>3. CASE q >= 2
    <3>1. m * q >= 2 * m
      BY <2>3, <1>0, <1>2
    <3> QED
      BY <3>1, <1>0, <1>1, <1>2, <1>4
  <2> QED
    BY <2>1, <2>2, <2>3, <1>2
<1>5. s > 0 => FoldOnce(s) > 0
  BY <1>0, <1>2, <1>3
<1>6. q \in Nat /\ s = (m - 1) * q + FoldOnce(s)
  BY <1>0, <1>2, <1>3
<1>7. FoldOnce(s) \in 0 .. 2 * (m - 1)
  BY <1>0, <1>2, <1>3
<1> QED
  BY <1>4, <1>5, <1>6, <1>7 DEF m

\* The folded sum is congruent to the sum, and 0 only for 0.
LEMMA FoldFacts ==
    ASSUME NEW s \in Sums
    PROVE  /\ Fold(s) \in 0 .. WordSize - 1
           /\ s > 0 => Fold(s) > 0
           /\ \E k \in Nat : s = (WordSize - 1) * k + Fold(s)
<1> DEFINE t == FoldOnce(s)
           u == FoldOnce(t)
<1>1. /\ t \in 0 .. 2 * (WordSize - 1)
      /\ s > 0 => t > 0
      /\ \E k \in Nat : s = (WordSize - 1) * k + t
  BY FoldOnceFacts
<1>2. t \in Sums
  <2>1. WordSize * WordSize - 1 >= 2 * (WordSize - 1)
    BY WordSizeFacts
  <2>2. t \in Nat /\ t <= 2 * (WordSize - 1)
    BY <1>1, WordSizeFacts
  <2> HIDE DEF t
  <2> QED
    BY <2>1, <2>2, WordSizeFacts DEF Sums
<1>3. /\ u \in 0 .. WordSize - 1
      /\ t > 0 => u > 0
      /\ \E k \in Nat : t = (WordSize - 1) * k + u
  <2>1. t <= 2 * (WordSize - 1)
    BY <1>1, WordSizeFacts
  <2> HIDE DEF t
  <2> QED
    BY <1>2, <2>1, FoldOnceFacts
<1>4. Fold(s) = u
  BY DEF Fold
<1> HIDE DEF t, u
<1>5. PICK j \in Nat : s = (WordSize - 1) * j + t
  BY <1>1
<1>6. PICK k \in Nat : t = (WordSize - 1) * k + u
  BY <1>3
<1>7. j + k \in Nat /\ s = (WordSize - 1) * (j + k) + u
  <2>1. (WordSize - 1) * j + (WordSize - 1) * k = (WordSize - 1) * (j + k)
    BY WordSizeFacts
  <2>2. (WordSize - 1) * j \in Int /\ (WordSize - 1) * k \in Int /\ u \in Int
    BY <1>3, WordSizeFacts
  <2> QED
    BY <2>1, <2>2, <1>5, <1>6
<1>8. s > 0 => u > 0
  BY <1>1, <1>3
<1> QED
  BY <1>3, <1>4, <1>7, <1>8

\* Two sums less than a word apart that fold to the same word are equal or
\* WordSize - 1 apart.
LEMMA SameFold ==
    ASSUME NEW s \in Sums, NEW t \in Sums,
           Fold(s) = Fold(t), s - t < WordSize, t - s < WordSize
    PROVE  s = t \/ s = t + (WordSize - 1) \/ t = s + (WordSize - 1)
<1> DEFINE m == WordSize - 1
<1>1. PICK j \in Nat : s = m * j + Fold(s)
  BY FoldFacts
<1>2. PICK k \in Nat : t = m * k + Fold(t)
  BY FoldFacts
<1>3. Fold(s) \in Nat /\ m \in Nat /\ m >= 3 /\ s \in Nat /\ t \in Nat
  BY FoldFacts, WordSizeFacts DEF Sums
<1>4. s - t <= m /\ t - s <= m
  BY WordSizeFacts DEF Sums
<1> HIDE DEF m
<1>5. s - t = m * (j - k)
  BY <1>1, <1>2, <1>3
<1>6. j - k <= 1
  <2>1. ASSUME j - k >= 2 PROVE m * (j - k) >= 2 * m
    BY <2>1, <1>3
  <2> QED
    BY <2>1, <1>3, <1>4, <1>5
<1>7. k - j <= 1
  <2>1. ASSUME k - j >= 2 PROVE m * (k - j) >= 2 * m
    BY <2>1, <1>3
  <2>2. m * (k - j) = t - s
    BY <1>5, <1>3
  <2> QED
    BY <2>1, <2>2, <1>3, <1>4
<1>8. j - k = 0 \/ j - k = 1 \/ j - k = -1
  BY <1>6, <1>7
<1>9. s = t \/ s = t + m \/ t = s + m
  BY <1>3, <1>5, <1>8
<1> QED
  BY <1>9 DEF m

\* Bytes are the digits of a word: what two pairs of them differ by says which.
LEMMA ByteDifference ==
    ASSUME NEW b \in Nat, b > 1, NEW x \in -(b - 1) .. b - 1, NEW y \in -(b - 1) .. b - 1
    PROVE  /\ x + b * y <= b * b - 1 /\ x + b * y >= -(b * b - 1)
           /\ x + b * y = 0 => x = 0 /\ y = 0
           /\ x + b * y = b * b - 1 => x = b - 1 /\ y = b - 1
           /\ x + b * y = -(b * b - 1) => x = -(b - 1) /\ y = -(b - 1)
<1>1. b * y <= b * (b - 1) /\ b * y >= -(b * (b - 1))
  OBVIOUS
<1>2. b * (b - 1) = b * b - b
  OBVIOUS
<1>3. x + b * y = 0 => x = 0 /\ y = 0
  <2>1. y >= 1 => b * y >= b
    OBVIOUS
  <2>2. y <= -1 => b * y <= -b
    OBVIOUS
  <2>3. y = 0 => b * y = 0
    OBVIOUS
  <2> QED
    BY <2>1, <2>2, <2>3
<1>4. y < b - 1 => b * y <= b * (b - 2)
  OBVIOUS
<1>5. y > -(b - 1) => b * y >= -(b * (b - 2))
  OBVIOUS
<1>6. b * (b - 2) = b * b - 2 * b
  OBVIOUS
<1>7. x + b * y = b * b - 1 => x = b - 1 /\ y = b - 1
  BY <1>1, <1>2, <1>4, <1>6
<1>8. x + b * y = -(b * b - 1) => x = -(b - 1) /\ y = -(b - 1)
  BY <1>1, <1>2, <1>5, <1>6
<1> QED
  BY <1>1, <1>2, <1>3, <1>7, <1>8

\* Whatever DeserializePacket accepts of what Serialize wrote is the packet that was
\* written, or the damaged corner: for every packet.
THEOREM AcceptedIsSent == \A p \in Packet : SafePacket(p)
<1> SUFFICES ASSUME NEW p \in Packet, Accepted(Serialize(p))
             PROVE  Deserialize(Serialize(p)) = IF Corner(p) THEN Damaged(p) ELSE p
  BY DEF SafePacket
<1> DEFINE hi == p.size \div Base
           low == p.size % Base
<1> DEFINE sum == p.rest + Base * hi + low + Base * p.first
<1> DEFINE c == Complement(Fold(sum))
<1> DEFINE b21 == c \div Base
           b22 == c % Base
<1> DEFINE sum2 == p.rest + Base * hi + b21 + Base * b22
<1>b. Base \in Nat /\ Base > 1 /\ WordSize = Base * Base /\ WordSize \in Nat /\ WordSize >= 2 * Base
  BY CodecAssumption, WordSizeFacts DEF WordSize
<1>1. /\ p = [rest |-> p.rest, size |-> p.size, first |-> p.first]
      /\ p.rest \in Rest /\ p.size \in Word /\ p.first \in Byte
  BY DEF Packet
<1>8. /\ Serialize(p) = [rest |-> p.rest, b20 |-> hi, b21 |-> b21, b22 |-> b22, behind |-> p.size + 1]
      /\ c = Checksum(p.rest, hi, low, p.first)
  BY DEF Serialize, Checksum
<1>9. Complement(Fold(sum2)) = Base * b21 + b22
  BY <1>8 DEF Accepted, Checksum
<1>14. Deserialize(Serialize(p)) = [rest |-> p.rest, size |-> Base * hi + b21, first |-> b22]
  BY <1>8 DEF Deserialize, Length
<1>2. hi \in Byte /\ low \in Byte /\ p.size = Base * hi + low
  <2>1. p.size \in Nat /\ p.size < Base * Base
    BY <1>1, <1>b DEF Word
  <2> QED
    BY <2>1, ByteDigits
<1> HIDE DEF hi, low
<1>3. sum \in Sums /\ sum > 0
  <2>1. Base * hi + low <= WordSize - 1
    BY <1>1, <1>2, <1>b DEF Word
  <2>2. Base * p.first <= WordSize - Base /\ Base * p.first >= 0
    BY <1>1, <1>b DEF Byte
  <2>3. Base * hi >= 0 /\ Base * hi \in Int /\ Base * p.first \in Int
    BY <1>1, <1>2, <1>b DEF Byte
  <2>4. p.rest <= WordSize * WordSize - 3 * WordSize + 2 /\ p.rest >= Base /\ p.rest \in Int
    BY <1>1, <1>b DEF Rest
  <2>5. WordSize * WordSize \in Int
    BY <1>b
  <2> QED
    BY <2>1, <2>2, <2>3, <2>4, <2>5, <1>2, <1>b DEF Sums, Byte
<1>4. Fold(sum) \in 1 .. WordSize - 1
  BY <1>3, <1>b, FoldFacts
<1> HIDE DEF sum
<1>5. c \in 0 .. WordSize - 2 /\ Fold(sum) = WordSize - 1 - c
  BY <1>4, <1>b DEF Complement
<1> HIDE DEF c
<1>6. b21 \in Byte /\ b22 \in Byte /\ c = Base * b21 + b22
  BY <1>5, <1>b, Digits DEF Byte
<1> HIDE DEF b21, b22
<1>11. /\ sum2 - sum = (b21 - low) + Base * (b22 - p.first)
       /\ sum2 \in Int /\ sum \in Int
  BY <1>1, <1>2, <1>6, <1>b DEF sum, Byte, Rest
<1>d. /\ b21 - low \in -(Base - 1) .. Base - 1
      /\ b22 - p.first \in -(Base - 1) .. Base - 1
  BY <1>1, <1>2, <1>6, <1>b DEF Byte
<1>7. sum2 \in Sums
  <2>1. Base * hi + b21 <= WordSize - 1
    <3>1. Base * hi <= WordSize - Base
      BY <1>2, <1>b DEF Byte
    <3> QED
      BY <3>1, <1>2, <1>6, <1>b DEF Byte
  <2>2. Base * b22 <= WordSize - Base /\ Base * b22 >= 0
    BY <1>6, <1>b DEF Byte
  <2>3. Base * hi >= 0 /\ Base * hi \in Int /\ Base * b22 \in Int
    BY <1>2, <1>6, <1>b DEF Byte
  <2>4. p.rest <= WordSize * WordSize - 3 * WordSize + 2 /\ p.rest >= Base /\ p.rest \in Int
    BY <1>1, <1>b DEF Rest
  <2>5. WordSize * WordSize \in Int
    BY <1>b
  <2> QED
    BY <2>1, <2>2, <2>3, <2>4, <2>5, <1>6, <1>b DEF Sums, Byte
<1> HIDE DEF sum2
<1>10. Fold(sum2) = Fold(sum)
  BY <1>5, <1>6, <1>7, <1>9, <1>b, FoldFacts DEF Complement
<1>12. /\ sum2 - sum <= WordSize - 1 /\ sum2 - sum >= -(WordSize - 1)
       /\ sum2 - sum = 0 => b21 = low /\ b22 = p.first
       /\ sum2 - sum = WordSize - 1 => b21 - low = Base - 1 /\ b22 - p.first = Base - 1
       /\ sum2 - sum = -(WordSize - 1) => b21 - low = -(Base - 1) /\ b22 - p.first = -(Base - 1)
  <2> DEFINE x == b21 - low
             y == b22 - p.first
  <2>1. x \in -(Base - 1) .. Base - 1 /\ y \in -(Base - 1) .. Base - 1
    BY <1>d
  <2>2. x = 0 => b21 = low
    BY <1>2, <1>6, <1>b DEF Byte
  <2>3. y = 0 => b22 = p.first
    BY <1>1, <1>6, <1>b DEF Byte
  <2> HIDE DEF x, y
  <2>4. sum2 - sum = x + Base * y
    BY <1>11 DEF x, y
  <2>5. /\ x + Base * y <= Base * Base - 1 /\ x + Base * y >= -(Base * Base - 1)
        /\ x + Base * y = 0 => x = 0 /\ y = 0
        /\ x + Base * y = Base * Base - 1 => x = Base - 1 /\ y = Base - 1
        /\ x + Base * y = -(Base * Base - 1) => x = -(Base - 1) /\ y = -(Base - 1)
    BY <2>1, <1>b, ByteDifference
  <2>6. /\ sum2 - sum <= WordSize - 1 /\ sum2 - sum >= -(WordSize - 1)
        /\ sum2 - sum = 0 => x = 0 /\ y = 0
        /\ sum2 - sum = WordSize - 1 => x = Base - 1 /\ y = Base - 1
        /\ sum2 - sum = -(WordSize - 1) => x = -(Base - 1) /\ y = -(Base - 1)
    BY <2>4, <2>5, <1>b
  <2> QED
    BY <2>2, <2>3, <2>6 DEF x, y
<1>13. sum2 = sum \/ sum2 = sum + (WordSize - 1) \/ sum = sum2 + (WordSize - 1)
  <2>1. sum2 - sum < WordSize /\ sum - sum2 < WordSize
    BY <1>11, <1>12, <1>b
  <2> QED
    BY <2>1, <1>3, <1>7, <1>10, SameFold
<1>15. Corner(p) <=> low = Base - 1 /\ p.first = Base - 1 /\ c = 0
  BY <1>8 DEF Corner, hi, low
<1>16. CASE sum2 = sum
  <2>1. b21 = low /\ b22 = p.first
    BY <1>11, <1>12, <1>16
  <2>2. ~Corner(p)
    <3>1. ASSUME low = Base - 1, p.first = Base - 1 PROVE c = WordSize - 1
      BY <2>1, <3>1, <1>6, <1>b
    <3> QED
      BY <3>1, <1>5, <1>15, <1>b
  <2> QED
    BY <2>1, <2>2, <1>1, <1>2, <1>14
<1>17. CASE sum2 = sum + (WordSize - 1)
  \* Then both bytes grew by Base - 1, and the checksum is a full word.
  <2>1. b21 - low = Base - 1 /\ b22 - p.first = Base - 1
    BY <1>11, <1>12, <1>17, <1>b
  <2>2. b21 = Base - 1 /\ b22 = Base - 1
    BY <2>1, <1>1, <1>2, <1>6, <1>b DEF Byte
  <2>3. c = WordSize - 1
    BY <2>2, <1>6, <1>b
  <2> QED
    BY <2>3, <1>5, <1>b
<1>18. CASE sum = sum2 + (WordSize - 1)
  <2>1. b21 - low = -(Base - 1) /\ b22 - p.first = -(Base - 1)
    BY <1>11, <1>12, <1>18, <1>b
  <2>2. low = Base - 1 /\ p.first = Base - 1 /\ b21 = 0 /\ b22 = 0
    BY <2>1, <1>1, <1>2, <1>6, <1>b DEF Byte
  <2>3. Corner(p)
    BY <2>2, <1>6, <1>15, <1>b
  <2>4. Damaged(p) = [rest |-> p.rest, size |-> p.size - (Base - 1), first |-> 0]
    BY DEF Damaged
  <2>5. Base * hi + b21 = p.size - (Base - 1)
    BY <2>2, <1>2, <1>b DEF Byte
  <2> QED
    BY <2>2, <2>3, <2>4, <2>5, <1>14
<1> QED
  BY <1>13, <1>16, <1>17, <1>18

=============================================================================
