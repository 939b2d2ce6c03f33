------------------------- MODULE LockFreeFixedQueue -------------------------
(***************************************************************************)
(* LockFreeFixedQueue.h: the ring of BufferSize nodes behind Session's send *)
(* queue and Group's job queue, one atomic access per step.                 *)
(*                                                                          *)
(* What an Enqueue call puts into the queue is named by the index the call  *)
(* reserved: every call reserves an index of its own, so the name tells     *)
(* which call a value came from.  headIndex and tailIndex are ints in the   *)
(* code; BufferSize divides 2^32, so their wrap-around changes no slot.     *)
(***************************************************************************)
EXTENDS Integers, FiniteSets

CONSTANTS
    Producers,   \* threads that Enqueue
    Consumers,   \* threads that Dequeue; Session and Group have one at a time
    BufferSize,  \* number of nodes
    Ahead,       \* how far the callers let the tail run ahead of the oldest node
                 \* still in use: at most BufferSize if they never overfill the
                 \* queue, and one less if there are several consumers
    MaxTail      \* bound: Enqueue calls of a behaviour

ASSUME QueueAssumption ==
    /\ Producers \cap Consumers = {}
    /\ BufferSize \in Nat \ {0}
    /\ Ahead \in Nat \ {0}
    /\ MaxTail \in Nat

Threads == Producers \cup Consumers
Indices == 0..(MaxTail - 1)
Slots == 0..(BufferSize - 1)
Slot(i) == i % BufferSize

VARIABLES
    headIndex,
    tailIndex,
    isUsed,      \* Node::isUsed of each slot
    data,        \* Node::data: the Enqueue call it came from, -1 for T()
    pc,          \* where each thread is inside Enqueue or Dequeue
    index,       \* its local tail or head
    accepted,    \* history: Enqueue calls that returned true
    taken        \* history: <<i, d>>, the Dequeue of index i returned d

queueVars == <<headIndex, tailIndex, isUsed, data>>
vars == <<queueVars, pc, index, accepted, taken>>

Goto(t, l) == pc' = [pc EXCEPT ![t] = l]

Init ==
    /\ headIndex = 0
    /\ tailIndex = 0
    /\ isUsed = [s \in Slots |-> FALSE]
    /\ data = [s \in Slots |-> -1]
    /\ pc = [t \in Threads |-> "idle"]
    /\ index = [t \in Threads |-> 0]
    /\ accepted = {}
    /\ taken = {}

----------------------------------------------------------------------------
\* The Dequeue of index i is over.
Freed(i) == /\ \E p \in taken : p[1] = i
            /\ \A c \in Consumers : ~(pc[c] = "clear" /\ index[c] = i)

\* Enqueue takes its index first, whether the queue is full or not.
EnqueueReserve(t) ==
    /\ pc[t] = "idle"
    /\ tailIndex < MaxTail
    /\ tailIndex < Ahead \/ Freed(tailIndex - Ahead)
    /\ tailIndex' = tailIndex + 1
    /\ index' = [index EXCEPT ![t] = tailIndex]
    /\ Goto(t, "check")
    /\ UNCHANGED <<headIndex, isUsed, data, accepted, taken>>

\* Mutant: the node before the reserved one is checked.
EnqueueCheckPrevious(t) ==
    /\ pc[t] = "check"
    /\ Goto(t, IF index[t] > 0 /\ isUsed[Slot(index[t] - 1)] THEN "idle" ELSE "write")
    /\ UNCHANGED <<queueVars, index, accepted, taken>>

\* A used node makes the call return false; the index stays taken, as a hole.
EnqueueCheck(t) ==
    /\ pc[t] = "check"
    /\ Goto(t, IF isUsed[Slot(index[t])] THEN "idle" ELSE "write")
    /\ UNCHANGED <<queueVars, index, accepted, taken>>

\* Mutant: the data is written to the node after the reserved one.
EnqueueWriteNext(t) ==
    /\ pc[t] = "write"
    /\ data' = [data EXCEPT ![Slot(index[t] + 1)] = index[t]]
    /\ Goto(t, "publish")
    /\ UNCHANGED <<headIndex, tailIndex, isUsed, index, accepted, taken>>

EnqueueWrite(t) ==
    /\ pc[t] = "write"
    /\ data' = [data EXCEPT ![Slot(index[t])] = index[t]]
    /\ Goto(t, "publish")
    /\ UNCHANGED <<headIndex, tailIndex, isUsed, index, accepted, taken>>

\* isUsed.exchange(true): the call returns true, or stops in __debugbreak when
\* somebody else has published the node since the check.
EnqueuePublish(t) ==
    /\ pc[t] = "publish"
    /\ isUsed' = [isUsed EXCEPT ![Slot(index[t])] = TRUE]
    /\ IF isUsed[Slot(index[t])]
       THEN Goto(t, "broken") /\ UNCHANGED accepted
       ELSE Goto(t, "idle") /\ accepted' = accepted \cup {index[t]}
    /\ UNCHANGED <<headIndex, tailIndex, data, index, taken>>

Enqueue(t) ==
    EnqueueReserve(t) \/ EnqueueCheck(t) \/ EnqueueWrite(t) \/ EnqueuePublish(t)

----------------------------------------------------------------------------
DequeueLoad(t) ==
    /\ pc[t] \in {"idle", "load"}
    /\ index' = [index EXCEPT ![t] = headIndex]
    /\ Goto(t, "look")
    /\ UNCHANGED <<queueVars, accepted, taken>>

\* Mutant: Dequeue does not ask whether the node is published.
DequeueBlind(t) ==
    /\ pc[t] = "look"
    /\ Goto(t, "claim")
    /\ UNCHANGED <<queueVars, index, accepted, taken>>

\* The node at the head is not published: Dequeue returns false.
DequeueLook(t) ==
    /\ pc[t] = "look"
    /\ Goto(t, IF isUsed[Slot(index[t])] THEN "claim" ELSE "idle")
    /\ UNCHANGED <<queueVars, index, accepted, taken>>

\* Mutant: the head is advanced without comparing it.
DequeueClaimAlways(t) ==
    /\ pc[t] = "claim"
    /\ headIndex' = index[t] + 1
    /\ Goto(t, "read")
    /\ UNCHANGED <<tailIndex, isUsed, data, index, accepted, taken>>

\* compare_exchange_strong; the loop starts again if another consumer was first.
DequeueClaim(t) ==
    /\ pc[t] = "claim"
    /\ IF headIndex = index[t]
       THEN headIndex' = headIndex + 1 /\ Goto(t, "read")
       ELSE UNCHANGED headIndex /\ Goto(t, "load")
    /\ UNCHANGED <<tailIndex, isUsed, data, index, accepted, taken>>

\* The data is moved out, then isUsed.exchange(false) gives the node back.
DequeueRead(t) ==
    /\ pc[t] = "read"
    /\ taken' = taken \cup {<<index[t], data[Slot(index[t])]>>}
    /\ Goto(t, "clear")
    /\ UNCHANGED <<queueVars, index, accepted>>

DequeueClear(t) ==
    /\ pc[t] = "clear"
    /\ isUsed' = [isUsed EXCEPT ![Slot(index[t])] = FALSE]
    /\ Goto(t, IF isUsed[Slot(index[t])] THEN "idle" ELSE "broken")
    /\ UNCHANGED <<headIndex, tailIndex, data, index, accepted, taken>>

Dequeue(t) == \/ DequeueLoad(t) \/ DequeueLook(t) \/ DequeueClaim(t)
              \/ DequeueRead(t) \/ DequeueClear(t)

Next ==
    \/ \E t \in Producers : Enqueue(t)
    \/ \E t \in Consumers : Dequeue(t)

Spec == Init /\ [][Next]_vars

\* A call that has begun goes on, and the consumers call Dequeue again and again:
\* RealSend and Group::Update loop as long as Size() is positive.
Fairness ==
    /\ \A t \in Producers : WF_vars(Enqueue(t) /\ ~EnqueueReserve(t))
    /\ \A t \in Consumers : WF_vars(Dequeue(t))

FairSpec == Spec /\ Fairness

----------------------------------------------------------------------------
\* The variables' types; the head stays within the calls there were.
TypeOK ==
    /\ headIndex \in 0..MaxTail
    /\ tailIndex \in 0..MaxTail
    /\ isUsed \in [Slots -> BOOLEAN]
    /\ data \in [Slots -> Indices \cup {-1}]
    /\ pc \in [Threads -> {"idle", "check", "write", "publish", "load", "look",
                          "claim", "read", "clear", "broken"}]
    /\ index \in [Threads -> 0..MaxTail]
    /\ accepted \subseteq Indices
    /\ taken \subseteq Indices \X (Indices \cup {-1})

\* The __debugbreak of Enqueue ("isUsed.exchange(true) == true", line 49) and the
\* one of Dequeue (line 76) are never reached: nobody publishes a node twice and
\* nobody gives one back twice.
NoDebugBreak == \A t \in Threads : pc[t] # "broken"

\* First in, first out, by reserved index: the Dequeue that claims index i returns
\* what the Enqueue that reserved i put there.  Nothing is lost and nothing is
\* returned twice: what an Enqueue accepted is either in a published node that no
\* consumer is clearing, or was returned by one Dequeue.
KeptOrTakenOnce ==
    /\ \A p \in taken : p[1] = p[2]
    /\ \A i \in accepted :
        LET kept == {s \in Slots : /\ isUsed[s] /\ data[s] = i
                                  /\ \A c \in Consumers :
                                       ~(pc[c] = "clear" /\ Slot(index[c]) = s)}
            out == {p \in taken : p[2] = i}
        IN Cardinality(kept) + Cardinality(out) = 1

\* What was accepted is returned by some Dequeue in the end: no published node
\* stays behind one that is never published.
AcceptedIsTaken ==
    \A i \in Indices : i \in accepted ~> \E p \in taken : p[2] = i

\* Below capacity the ring implements a queue of numbered tickets.
Tickets == INSTANCE TicketQueue
               WITH issued <- tailIndex, served <- headIndex, filled <- accepted

\* The steps of the ring are steps of the ticket queue.
ImplementsTickets == Tickets!Spec
=============================================================================
