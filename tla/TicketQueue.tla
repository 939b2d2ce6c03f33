----------------------------- MODULE TicketQueue -----------------------------
(***************************************************************************)
(* What LockFreeFixedQueue promises to callers that never overfill it: each *)
(* Enqueue draws the next ticket and fills it some time later; tickets are  *)
(* served in their order, each once, and only when filled.  A filled ticket *)
(* behind one that is drawn and not filled has to wait: Dequeue may find    *)
(* nothing although Size() is positive.                                     *)
(***************************************************************************)
EXTENDS Naturals

VARIABLES issued, filled, served

ticketVars == <<issued, filled, served>>

TicketInit == issued = 0 /\ served = 0 /\ filled = {}

Draw == issued' = issued + 1 /\ UNCHANGED <<filled, served>>

Fill == /\ \E i \in (0..(issued - 1)) \ filled : filled' = filled \cup {i}
        /\ UNCHANGED <<issued, served>>

Serve == /\ served \in filled
         /\ served' = served + 1
         /\ UNCHANGED <<issued, filled>>

Spec == TicketInit /\ [][Draw \/ Fill \/ Serve]_ticketVars
==============================================================================
