------------------------------- MODULE MCQueue -------------------------------
(***************************************************************************)
(* LockFreeFixedQueue for TLC.  There is no symmetry: the run checks a      *)
(* liveness property.                                                       *)
(***************************************************************************)
EXTENDS LockFreeFixedQueue
==============================================================================
