------------------------------- MODULE MCSend --------------------------------
(***************************************************************************)
(* SessionSend for TLC: workers and callers are interchangeable.           *)
(***************************************************************************)
EXTENDS SessionSend, TLC

Symmetric == Permutations(Workers) \cup Permutations(Callers)
==============================================================================
