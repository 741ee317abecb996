------------------------------ MODULE PacketCodec ------------------------------
(***************************************************************************)
(* lab2's wire format, src/lab2/internal/domain/packet.go: Serialize and    *)
(* DeserializePacket, with the checksum that both compute.                  *)
(*                                                                          *)
(* The bytes that the two treat alike are not told apart: "rest" is what    *)
(* they add to the checksum.  What is left are the bytes 20 to 22: the      *)
(* length (20, 21), the first byte of the data (22) and the checksum, which *)
(* is written over 21 and 22.                                               *)
(***************************************************************************)
EXTENDS Integers

CONSTANT Base    \* values of a byte: 256 in the code

ASSUME CodecAssumption == Base \in Nat /\ Base > 1

WordSize == Base * Base
Byte == 0 .. Base - 1
Word == 0 .. WordSize - 1

\* The type of a packet is at least 1 and lies in the high byte of a word; the sum
\* of a whole datagram does not overflow the 32 bits it is computed in.
Rest == Base .. (WordSize - 2) * (WordSize - 1)

\* "size" is the length of the data, which the header has room for.
\* Byte 22 of a packet without data is the pad byte of the buffer.
Packet == {p \in [rest : Rest, size : Word, first : Byte] : p.size = 0 => p.first = 0}

\* One turn of the loop that folds the carries of a sum of two words' width into
\* one word.  It leaves a word as it is, and two turns are enough for any sum.
FoldOnce(sum) == (sum % WordSize) + (sum \div WordSize)
Fold(sum) == FoldOnce(FoldOnce(sum))
Complement(word) == WordSize - 1 - word

\* calculateChecksum of a buffer with these bytes 20 to 22.
Checksum(rest, b20, b21, b22) == Complement(Fold(rest + Base * b20 + b21 + Base * b22))

\* Mutant of Serialize: the checksum is written with its bytes the wrong way round.
SerializeSwapped(p) ==
    LET sum == Checksum(p.rest, p.size \div Base, p.size % Base, p.first)
    IN  [rest |-> p.rest, b20 |-> p.size \div Base, b21 |-> sum % Base, b22 |-> sum \div Base,
         behind |-> p.size + 1]

\* "behind" is the number of bytes from byte 22 on.
Serialize(p) ==
    LET sum == Checksum(p.rest, p.size \div Base, p.size % Base, p.first)
    IN  [rest |-> p.rest, b20 |-> p.size \div Base, b21 |-> sum \div Base, b22 |-> sum % Base,
         behind |-> p.size + 1]

\* DeserializePacket takes the length from the bytes 20 and 21, the data from 22
\* on, and the checksum from 21 and 22, which it leaves in place to add it up.
Length(w) == Base * w.b20 + w.b21
Accepted(w) ==
    /\ Length(w) <= w.behind
    /\ Checksum(w.rest, w.b20, w.b21, w.b22) = Base * w.b21 + w.b22
Deserialize(w) == [rest |-> w.rest, size |-> Length(w), first |-> w.b22]

\* A packet that is accepted and is not what was sent: the low byte of its length
\* and its first byte of data have all bits on, and its checksum is 0.
Corner(p) ==
    /\ p.size % Base = Base - 1 /\ p.first = Base - 1
    /\ Checksum(p.rest, p.size \div Base, Base - 1, Base - 1) = 0
Damaged(p) == [rest |-> p.rest, size |-> p.size - (Base - 1), first |-> 0]

\* Whatever the receiver accepts of a packet is the packet that was sent, although
\* the checksum lies over two bytes of it, but for one corner, which it takes with
\* Base - 1 bytes less and the first byte zeroed.
SafePacket(p) ==
    Accepted(Serialize(p)) =>
        Deserialize(Serialize(p)) = IF Corner(p) THEN Damaged(p) ELSE p

=============================================================================
