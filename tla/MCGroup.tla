------------------------------- MODULE MCGroup -------------------------------
(***************************************************************************)
(* Group for TLC: the ways content moves sessions.                         *)
(***************************************************************************)
EXTENDS Group

\* A session leaves a group before it enters another one.
ViaBase == ({Base} \X Groups) \cup (Groups \X {Base})

\* From anywhere to anywhere else.
AnyHop == {h \in (Groups \cup {Base}) \X (Groups \cup {Base}) : h[1] # h[2]}

==============================================================================
