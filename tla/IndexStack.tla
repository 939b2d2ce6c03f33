------------------------------ MODULE IndexStack ------------------------------
(***************************************************************************)
(* What LockFreeStack promises: a stack.  Push and Pop take effect at one   *)
(* instant, Pop returns what was pushed last.                               *)
(***************************************************************************)
EXTENDS Sequences

CONSTANT Values

VARIABLE content   \* what is on the stack, the top first

StackInit == content = <<>>

Push == \E x \in Values : content' = <<x>> \o content

Pop == content # <<>> /\ content' = Tail(content)

Spec == StackInit /\ [][Push \/ Pop]_content
===============================================================================
