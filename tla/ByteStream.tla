------------------------------ MODULE ByteStream ------------------------------
(***************************************************************************)
(* What the receive ring of a session promises: the bytes of the connection *)
(* come out in the order they came in, none missing and none invented.  A   *)
(* byte is named by its position in the connection's stream.                *)
(***************************************************************************)
EXTENDS Naturals, Sequences

VARIABLES content, next   \* bytes received and not yet handled; the next to come

streamVars == <<content, next>>

StreamInit == content = <<>> /\ next = 0

Arrive == /\ next' > next
          /\ content' = content \o [j \in 1..(next' - next) |-> next + j - 1]

Handle == /\ \E n \in 1..Len(content) : content' = SubSeq(content, n + 1, Len(content))
          /\ next' = next

Spec == StreamInit /\ [][Arrive \/ Handle]_streamVars
===============================================================================
