---------------------------- MODULE MCGroupUpdate ----------------------------
(***************************************************************************)
(* GroupUpdate for TLC.  There is no symmetry: the run checks liveness.     *)
(***************************************************************************)
EXTENDS GroupUpdate

\* Groups are created while others run, and either callbacks call, with room in the
\* queues, or a queue can be full.
NestOrFill == {[nest |-> TRUE, create |-> TRUE, size |-> 4],
               [nest |-> FALSE, create |-> TRUE, size |-> 2]}
===============================================================================
