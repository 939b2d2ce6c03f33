-------------------------------- MODULE MCRecv --------------------------------
(***************************************************************************)
(* RecvRing for TLC: the ways content moves a session from its callbacks.   *)
(***************************************************************************)
EXTENDS RecvRing

\* It enters a group and then goes from group to group.
GroupToGroup == {<<s, d>> \in Handlers \X Handlers : d # Base /\ s # d}
===============================================================================
