------------------------------- MODULE MCBuffer -------------------------------
(***************************************************************************)
(* SendBuffer for TLC.  All sessions of a server have its key.  The codec   *)
(* runs on 3-bit chars; the assumption below has TLC compare it with what   *)
(* it is for on every packet of up to three 2-bit chars, under every key.   *)
(***************************************************************************)
EXTENDS SendBuffer, TLC

SameKey == {[s \in Sessions |-> k] : k \in {0, 6}}
OneMessage == {<<7, 5>>}
Symmetric == Permutations(Sessions)

Small(randomKey) == INSTANCE PacketCodec WITH Width <- 2, RandomKey <- randomKey

\* Decode undoes Encode, and the checksum of what it yields is right.
ASSUME CodecInverse ==
    \A n \in 1..3, randomKey, k \in 0..3 : \A m \in [1..n -> 0..3] :
        LET x == Small(randomKey)!WriteNetHeader(m)
            y == Small(randomKey)!Decode(Small(randomKey)!Encode(x, k), k)
        IN y = x /\ Small(randomKey)!ChecksumValid(y)
===============================================================================
