----------------------------- MODULE PacketCodec -----------------------------
(***************************************************************************)
(* The bytes of a packet on the wire: CSendBuffer::WriteNetHeader and       *)
(* Encode, CRingBuffer::Decode and ChecksumValid.  A packet is its checksum *)
(* followed by its payload, the part of NetHeader and data that is encoded. *)
(***************************************************************************)
EXTENDS Integers, Sequences

CONSTANTS
    Width,      \* bits of a char, 8 in the code
    RandomKey   \* the randomKey of every header, 0x31 in the code

ASSUME CodecAssumption == Width \in Nat /\ RandomKey \in Nat

\* 2^w for each w up to Width.
Power == LET p[w \in 0..Width] == IF w = 0 THEN 1 ELSE 2 * p[w - 1] IN p

Chars == 0..(Power[Width] - 1)

Char(n) == n % Power[Width]

\* The exclusive or of the lower w bits of two chars, and of the two.
Bits == LET x[w \in 0..Width] ==
              [a \in Chars |-> [b \in Chars |->
                 IF w = 0 THEN 0 ELSE 2 * x[w - 1][a \div 2][b \div 2] + ((a + b) % 2)]]
        IN x

a ^^ b == Bits[Width][a][b]

\* WriteNetHeader's checkSum.
Checksum(payload) ==
    LET sum[i \in 0..Len(payload)] == IF i = 0 THEN 0 ELSE Char(sum[i - 1] + payload[i])
    IN sum[Len(payload)]

WriteNetHeader(payload) == <<Checksum(payload)>> \o payload

Encode(x, key) ==
    LET p[i \in 0..Len(x)] == IF i = 0 THEN 0 ELSE x[i] ^^ Char(p[i - 1] + RandomKey + i)
        e[i \in 0..Len(x)] == IF i = 0 THEN 0 ELSE p[i] ^^ Char(e[i - 1] + key + i)
    IN [i \in 1..Len(x) |-> e[i]]

Decode(y, key) ==
    LET p == [i \in 0..Len(y) |-> IF i = 0 THEN 0
                ELSE y[i] ^^ Char((IF i = 1 THEN 0 ELSE y[i - 1]) + key + i)]
    IN [i \in 1..Len(y) |-> p[i] ^^ Char(p[i - 1] + RandomKey + i)]

ChecksumValid(x) == Checksum(Tail(x)) = Head(x)
===============================================================================
