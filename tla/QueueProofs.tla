----------------------------- MODULE QueueProofs -----------------------------
(***************************************************************************)
(* Proofs about LockFreeFixedQueue, for any number of producers and nodes:  *)
(* as long as the callers do not overfill the ring, no __debugbreak is      *)
(* reached, nothing is lost, doubled or reordered, and the ring implements  *)
(* a queue of tickets.                                                      *)
(***************************************************************************)
EXTENDS LockFreeFixedQueue, FiniteSetTheorems, TLAPS

\* The callers keep the ring from being overfull.  With several consumers one
\* node has to stay free: a Dequeue may look at the node that another one, which
\* is a whole round behind, has not given back yet.
NeverOverfull ==
    \/ Ahead < BufferSize
    \/ Ahead = BufferSize /\ \A c, d \in Consumers : c = d

Active(t) == pc[t] \in {"check", "write", "publish"}
Serving(c) == pc[c] \in {"read", "clear"}

\* The Dequeue of index i has returned its value, or will when it has cleared
\* the node; the second is still to happen.
Out(i) == <<i, i>> \in taken
Clearing(i) == \E c \in Consumers : pc[c] = "clear" /\ index[c] = i
Done(i) == Out(i) /\ ~Clearing(i)

\* A published index whose node has not been given back.
Live(i) == i \in accepted /\ ~Done(i)

\* The parts of the inductive invariant.  Producers and consumers are at points
\* of their own calls, and at no __debugbreak.
RoleInv ==
    /\ \A t \in Producers : pc[t] = "idle" \/ Active(t)
    /\ \A c \in Consumers : pc[c] \in {"idle", "load", "look", "claim"} \/ Serving(c)

\* Indices are freed up to Ahead behind the tail and published up to the head.
RangeInv ==
    /\ headIndex <= tailIndex
    /\ \A i \in Indices : i < tailIndex - Ahead => Done(i)
    /\ \A i \in Indices : i < headIndex => i \in accepted
    /\ \A i \in accepted : i < tailIndex

\* A producer inside Enqueue has an index of its own that is not published yet.
ReserveInv ==
    /\ \A t \in Producers : Active(t) =>
          /\ index[t] < tailIndex /\ index[t] \notin accepted
          /\ pc[t] = "publish" => data[Slot(index[t])] = index[t]
    /\ \A t, u \in Producers : Active(t) /\ Active(u) /\ t # u => index[t] # index[u]

\* The used nodes are those of the live indices, and hold their data.
NodeInv ==
    /\ \A i \in Indices : Live(i) => isUsed[Slot(i)] /\ data[Slot(i)] = i
    /\ \A s \in Slots : isUsed[s] => \E i \in Indices : Live(i) /\ Slot(i) = s

\* What has been taken is what was put there; a claimed index is done or its
\* consumer is serving it.
TakenInv ==
    /\ \A p \in taken : \E i \in Indices : p = <<i, i>> /\ i < headIndex
    /\ \A c \in Consumers : Serving(c) =>
          /\ index[c] < headIndex
          /\ pc[c] = "read" <=> ~Out(index[c])
    /\ \A c, d \in Consumers : Serving(c) /\ Serving(d) /\ c # d => index[c] # index[d]
    /\ \A i \in Indices : i < headIndex /\ ~Done(i)
          => \E c \in Consumers : Serving(c) /\ index[c] = i

\* Who is about to claim the head found it published.
ClaimInv ==
    \A c \in Consumers :
        /\ pc[c] \in {"look", "claim"} => index[c] <= headIndex
        /\ pc[c] = "claim" /\ index[c] = headIndex => headIndex \in accepted

QInv == /\ TypeOK /\ RoleInv /\ RangeInv /\ ReserveInv
        /\ NodeInv /\ TakenInv /\ ClaimInv

----------------------------------------------------------------------------
\* An index is a multiple of the ring's size plus its slot.
LEMMA SlotDiv ==
    ASSUME NEW i \in Nat
    PROVE  /\ Slot(i) \in Slots
           /\ \E q \in Nat : i = q * BufferSize + Slot(i)
<1>1. BufferSize \in Nat \ {0}
  BY QueueAssumption
<1>2. i % BufferSize \in Slots
  BY <1>1 DEF Slots
<1>3. i \div BufferSize \in Nat /\ i = (i \div BufferSize) * BufferSize + (i % BufferSize)
  BY <1>1
<1> QED BY <1>2, <1>3 DEF Slot

\* Two indices less than a round apart have different nodes.
LEMMA SlotsDiffer ==
    ASSUME NEW i \in Nat, NEW j \in Nat, i < j, j - i < BufferSize
    PROVE  Slot(i) # Slot(j)
<1> SUFFICES ASSUME Slot(i) = Slot(j) PROVE FALSE
  OBVIOUS
<1>1. PICK q \in Nat : i = q * BufferSize + Slot(i)
  BY SlotDiv
<1>2. PICK r \in Nat : j = r * BufferSize + Slot(j)
  BY SlotDiv
<1>3. BufferSize \in Nat /\ Slot(i) \in Int /\ q * BufferSize \in Int /\ r * BufferSize \in Int
  BY QueueAssumption, SlotDiv DEF Slots
<1>4. q < r
  <2> SUFFICES ASSUME r <= q PROVE FALSE
    OBVIOUS
  <2>1. r * BufferSize <= q * BufferSize
    BY <1>3
  <2> QED BY <1>1, <1>2, <1>3, <2>1
<1>5. r * BufferSize >= q * BufferSize + BufferSize
  BY <1>3, <1>4
<1> QED BY <1>1, <1>2, <1>3, <1>5

\* Within Ahead of the tail every index has a node of its own.
LEMMA WindowUnique ==
    ASSUME QInv, NeverOverfull, NEW i \in Indices, NEW j \in Indices,
           i < tailIndex, j < tailIndex, ~(i < tailIndex - Ahead), ~(j < tailIndex - Ahead),
           Slot(i) = Slot(j)
    PROVE  i = j
<1>1. /\ i \in Nat /\ j \in Nat /\ tailIndex \in Nat /\ Ahead \in Nat /\ BufferSize \in Nat
      /\ Ahead <= BufferSize
  BY QueueAssumption DEF QInv, TypeOK, Indices, NeverOverfull
<1>2. i < j => j - i < BufferSize
  BY <1>1
<1>3. j < i => i - j < BufferSize
  BY <1>1
<1> QED BY <1>1, <1>2, <1>3, SlotsDiffer

\* Done is what the model's callers wait for before they reserve.
LEMMA FreedDone ==
    ASSUME QInv, NEW i \in Int
    PROVE  /\ Freed(i) <=> Done(i)
           /\ Out(i) => i \in Indices /\ i < headIndex /\ i \in accepted
<1>1. \A p \in taken : \E j \in Indices : p = <<j, j>> /\ j < headIndex
  BY DEF QInv, TakenInv
<1>2. (\E p \in taken : p[1] = i) <=> Out(i)
  BY <1>1 DEF Out
<1>3. Out(i) => i \in Indices /\ i < headIndex
  BY <1>1 DEF Out
<1>4. Out(i) => i \in accepted
  BY <1>3 DEF QInv, RangeInv
<1> QED BY <1>2, <1>3, <1>4 DEF Freed, Done, Clearing

\* Live indices and those being enqueued are within Ahead of the tail.
LEMMA InWindow ==
    ASSUME QInv
    PROVE  /\ \A i \in Indices : Live(i) => i < tailIndex /\ ~(i < tailIndex - Ahead)
           /\ \A t \in Producers : Active(t) =>
                 /\ index[t] \in Indices /\ index[t] < tailIndex
                 /\ ~(index[t] < tailIndex - Ahead)
                 /\ ~Out(index[t]) /\ index[t] \notin accepted
<1>1. \A i \in Indices : Live(i) => i < tailIndex /\ ~(i < tailIndex - Ahead)
  BY DEF QInv, RangeInv, Live
<1>2. ASSUME NEW t \in Producers, Active(t)
      PROVE  /\ index[t] \in Indices /\ index[t] < tailIndex
             /\ ~(index[t] < tailIndex - Ahead)
             /\ ~Out(index[t]) /\ index[t] \notin accepted
  <2>1. index[t] \in 0..MaxTail /\ tailIndex \in 0..MaxTail
    BY DEF QInv, TypeOK, Threads
  <2>2. index[t] < tailIndex /\ index[t] \notin accepted
    BY <1>2 DEF QInv, ReserveInv
  <2>3. index[t] \in Indices
    BY <2>1, <2>2, QueueAssumption DEF Indices
  <2>4. ~Out(index[t])
    BY <2>1, <2>2, FreedDone
  <2>5. ~(index[t] < tailIndex - Ahead)
    BY <2>3, <2>4 DEF QInv, RangeInv, Done
  <2> QED BY <2>2, <2>3, <2>4, <2>5
<1> QED BY <1>1, <1>2

\* The node of an index that is being enqueued is not used.
LEMMA ActiveUnused ==
    ASSUME QInv, NeverOverfull, NEW t \in Producers, Active(t)
    PROVE  ~isUsed[Slot(index[t])]
<1> SUFFICES ASSUME isUsed[Slot(index[t])] PROVE FALSE
  OBVIOUS
<1>1. /\ index[t] \in Indices /\ index[t] < tailIndex
      /\ ~(index[t] < tailIndex - Ahead) /\ index[t] \notin accepted
  BY InWindow
<1>2. Slot(index[t]) \in Slots
  BY <1>1, SlotDiv DEF Indices
<1>3. PICK i \in Indices : Live(i) /\ Slot(i) = Slot(index[t])
  BY <1>2 DEF QInv, NodeInv
<1>4. i < tailIndex /\ ~(i < tailIndex - Ahead)
  BY <1>3, InWindow
<1>5. i = index[t]
  BY <1>1, <1>3, <1>4, WindowUnique
<1> QED BY <1>1, <1>3, <1>5 DEF Live

\* Steps of a producer leave the consumers alone, so nothing becomes done.
LEMMA ProducerStep ==
    ASSUME QInv, NEW t \in Producers, Goto(t, pc'[t]), taken' = taken,
           \A u \in Threads : u # t => index'[u] = index[u]
    PROVE  /\ \A u \in Threads : u # t => pc'[u] = pc[u]
           /\ \A c \in Consumers : c # t /\ c \in Threads
           /\ \A i : (Out(i)' <=> Out(i)) /\ (Done(i)' <=> Done(i))
           /\ \A c \in Consumers : Serving(c)' <=> Serving(c)
           /\ \A u \in Producers : u # t => (Active(u)' <=> Active(u))
<1>1. \A u \in Threads : u # t => pc'[u] = pc[u]
  BY DEF QInv, TypeOK, Goto
<1>2. \A c \in Consumers : c # t /\ c \in Threads
  BY QueueAssumption DEF Threads
<1>3. \A i : (Out(i)' <=> Out(i)) /\ (Done(i)' <=> Done(i))
  BY <1>1, <1>2 DEF Out, Done, Clearing
<1>4. \A c \in Consumers : Serving(c)' <=> Serving(c)
  BY <1>1, <1>2 DEF Serving
<1>5. \A u \in Producers : u # t => (Active(u)' <=> Active(u))
  BY <1>1 DEF Active, Threads
<1> QED BY <1>1, <1>2, <1>3, <1>4, <1>5

\* ... and what is said of the consumers stays true.
LEMMA ProducerKeeps ==
    ASSUME QInv, NEW t \in Producers, Goto(t, pc'[t]), taken' = taken,
           \A u \in Threads : u # t => index'[u] = index[u],
           headIndex' = headIndex, accepted \subseteq accepted',
           pc'[t] = "idle" \/ Active(t)'
    PROVE  RoleInv' /\ TakenInv' /\ ClaimInv'
<1>0. /\ \A u \in Threads : u # t => pc'[u] = pc[u]
      /\ \A c \in Consumers : c # t /\ c \in Threads
      /\ \A i : (Out(i)' <=> Out(i)) /\ (Done(i)' <=> Done(i))
      /\ \A c \in Consumers : Serving(c)' <=> Serving(c)
      /\ \A u \in Producers : u # t => (Active(u)' <=> Active(u))
  BY ProducerStep
<1>1. \A c \in Consumers : pc'[c] = pc[c] /\ index'[c] = index[c]
  BY <1>0
<1>2. RoleInv'
  BY <1>0, <1>1 DEF QInv, RoleInv, Threads
<1>3. TakenInv'
  <2>1. \A c \in Consumers : Out(index[c])' <=> Out(index[c])
    BY <1>1 DEF Out
  <2> QED BY <1>0, <1>1, <2>1 DEF QInv, TakenInv
<1>4. ClaimInv'
  BY <1>1 DEF QInv, ClaimInv
<1> QED BY <1>2, <1>3, <1>4

\* The index that is reserved is new, and Ahead behind it is a freed one.
LEMMA ReserveStep ==
    ASSUME QInv, NeverOverfull, NEW t \in Producers, EnqueueReserve(t)
    PROVE  QInv'
<1> USE DEF EnqueueReserve
<1>0. t \in Threads /\ TypeOK /\ Ahead \in Nat /\ MaxTail \in Nat
  BY QueueAssumption DEF Threads, QInv
<1>1. /\ Goto(t, pc'[t]) /\ pc'[t] = "check" /\ index'[t] = tailIndex
      /\ \A u \in Threads : u # t => index'[u] = index[u]
  BY <1>0 DEF TypeOK, Goto
<1>2. TypeOK'
  BY <1>0 DEF TypeOK, Goto
<1>3. RoleInv' /\ TakenInv' /\ ClaimInv'
  BY <1>1, ProducerKeeps DEF Active
<1>4. /\ \A u \in Threads : u # t => pc'[u] = pc[u]
      /\ \A i : Done(i)' <=> Done(i)
      /\ \A u \in Producers : u # t => (Active(u)' <=> Active(u))
  BY <1>1, ProducerStep
<1>5. RangeInv'
  <2>1. tailIndex \in Nat /\ headIndex \in Nat /\ tailIndex' = tailIndex + 1
    BY <1>0 DEF TypeOK
  <2>2. ~(tailIndex < Ahead) => Done(tailIndex - Ahead)
    BY <1>0, <2>1, FreedDone
  <2>3. ASSUME NEW i \in Indices, i < tailIndex' - Ahead PROVE Done(i)'
    <3>1. i \in Nat
      BY DEF Indices
    <3>2. i < tailIndex - Ahead \/ i = tailIndex - Ahead
      BY <1>0, <2>1, <2>3, <3>1
    <3>3. Done(i)
      BY <1>0, <2>1, <2>2, <3>1, <3>2 DEF QInv, RangeInv
    <3> QED BY <1>4, <3>3
  <2>4. \A i \in accepted' : i < tailIndex'
    BY <1>0, <2>1 DEF QInv, RangeInv, TypeOK, Indices
  <2>5. headIndex' <= tailIndex' /\ \A i \in Indices : i < headIndex' => i \in accepted'
    BY <2>1 DEF QInv, RangeInv
  <2> QED BY <2>3, <2>4, <2>5 DEF RangeInv, Indices
<1>6. ReserveInv'
  <2>1. tailIndex \in Nat /\ tailIndex \notin accepted /\ tailIndex' = tailIndex + 1
    BY <1>0 DEF QInv, RangeInv, TypeOK
  <2>2. \A u \in Producers : u # t /\ Active(u)' =>
           /\ index'[u] < tailIndex /\ index'[u] \in Nat /\ index'[u] \notin accepted
           /\ pc'[u] = "publish" => data[Slot(index'[u])] = index'[u]
    BY <1>0, <1>1, <1>4 DEF QInv, ReserveInv, TypeOK, Threads
  <2>3. \A u, v \in Producers : u # t /\ v # t /\ u # v /\ Active(u)' /\ Active(v)'
           => index'[u] # index'[v]
    BY <1>1, <1>4 DEF QInv, ReserveInv, Threads
  <2>4. \A u \in Producers : Active(u)' =>
          /\ index'[u] < tailIndex' /\ index'[u] \notin accepted'
          /\ pc'[u] = "publish" => data'[Slot(index'[u])] = index'[u]
    BY <1>1, <2>1, <2>2
  <2>5. \A u, v \in Producers : Active(u)' /\ Active(v)' /\ u # v => index'[u] # index'[v]
    BY <1>1, <2>1, <2>2, <2>3
  <2> QED BY <2>4, <2>5 DEF ReserveInv, Slot
<1>7. NodeInv'
  <2>1. \A i : Live(i)' <=> Live(i)
    BY <1>4 DEF Live
  <2> QED BY <2>1 DEF QInv, NodeInv, Slot, Slots, Indices
<1> QED BY <1>2, <1>3, <1>5, <1>6, <1>7 DEF QInv

\* The check finds the node free: below capacity no call leaves a hole.
LEMMA CheckStep ==
    ASSUME QInv, NeverOverfull, NEW t \in Producers, EnqueueCheck(t)
    PROVE  QInv' /\ pc'[t] = "write"
<1> USE DEF EnqueueCheck, queueVars
<1>0. t \in Threads /\ TypeOK
  BY DEF Threads, QInv
<1>1. ~isUsed[Slot(index[t])]
  BY ActiveUnused DEF Active
<1>2. Goto(t, pc'[t]) /\ pc'[t] = "write" /\ pc[t] = "check"
  BY <1>0, <1>1 DEF TypeOK, Goto
<1>3. TypeOK'
  BY <1>0 DEF TypeOK, Goto
<1>4. RoleInv' /\ TakenInv' /\ ClaimInv'
  BY <1>2, ProducerKeeps DEF Active
<1>5. /\ \A u \in Threads : u # t => pc'[u] = pc[u]
      /\ \A i : Done(i)' <=> Done(i)
      /\ \A u \in Producers : u # t => (Active(u)' <=> Active(u))
  BY <1>2, ProducerStep
<1>6. RangeInv'
  BY <1>5 DEF QInv, RangeInv, Indices
<1>7. ReserveInv'
  <2>1. \A u \in Producers : (Active(u)' <=> Active(u)) /\ (pc'[u] = "publish" => pc[u] = "publish")
    BY <1>2, <1>5 DEF Active, Threads
  <2> QED BY <2>1 DEF QInv, ReserveInv, Slot
<1>8. NodeInv'
  <2>1. \A i : Live(i)' <=> Live(i)
    BY <1>5 DEF Live
  <2> QED BY <2>1 DEF QInv, NodeInv, Slot, Slots, Indices
<1> QED BY <1>2, <1>3, <1>4, <1>6, <1>7, <1>8 DEF QInv

\* The data goes to a node that no live index and no other producer uses.
LEMMA WriteStep ==
    ASSUME QInv, NeverOverfull, NEW t \in Producers, EnqueueWrite(t)
    PROVE  QInv'
<1> USE DEF EnqueueWrite
<1>0. t \in Threads /\ TypeOK
  BY DEF Threads, QInv
<1>1. Goto(t, pc'[t]) /\ pc'[t] = "publish" /\ pc[t] = "write" /\ Active(t)
  BY <1>0 DEF TypeOK, Goto, Active
<1>2. /\ index[t] \in Indices /\ index[t] < tailIndex
      /\ ~(index[t] < tailIndex - Ahead) /\ index[t] \notin accepted
  BY <1>1, InWindow
<1>3. Slot(index[t]) \in Slots
  BY <1>2, SlotDiv DEF Indices
<1>4. TypeOK'
  BY <1>0, <1>2, <1>3 DEF TypeOK, Goto
<1>5. RoleInv' /\ TakenInv' /\ ClaimInv'
  BY <1>1, ProducerKeeps DEF Active
<1>6. /\ \A u \in Threads : u # t => pc'[u] = pc[u]
      /\ \A i : Done(i)' <=> Done(i)
      /\ \A u \in Producers : u # t => (Active(u)' <=> Active(u))
  BY <1>1, ProducerStep
<1>7. RangeInv'
  BY <1>6 DEF QInv, RangeInv, Indices
<1>8. \A i \in Indices : i < tailIndex /\ ~(i < tailIndex - Ahead) /\ i # index[t]
         => Slot(i) # Slot(index[t]) /\ Slot(i) \in Slots
  BY <1>2, WindowUnique, SlotDiv DEF Indices
<1>9. ReserveInv'
  <2>1. ASSUME NEW u \in Producers, Active(u)'
        PROVE  /\ index'[u] < tailIndex' /\ index'[u] \notin accepted'
               /\ pc'[u] = "publish" => data'[Slot(index'[u])] = index'[u]
    <3>1. CASE u = t
      BY <1>0, <1>2, <1>3, <3>1 DEF TypeOK
    <3>2. CASE u # t
      <4>1. Active(u) /\ pc'[u] = pc[u] /\ index[u] # index[t]
        BY <1>1, <1>6, <2>1, <3>2 DEF QInv, ReserveInv, Threads
      <4>2. /\ index[u] \in Indices /\ index[u] < tailIndex
            /\ ~(index[u] < tailIndex - Ahead) /\ index[u] \notin accepted
        BY <4>1, InWindow
      <4>3. Slot(index[u]) # Slot(index[t]) /\ Slot(index[u]) \in Slots
        BY <1>8, <4>1, <4>2
      <4>4. data'[Slot(index[u])] = data[Slot(index[u])]
        BY <1>0, <4>3 DEF TypeOK
      <4> QED BY <4>1, <4>2, <4>4 DEF QInv, ReserveInv
    <3> QED BY <3>1, <3>2
  <2>2. \A u, v \in Producers : Active(u)' /\ Active(v)' /\ u # v => index'[u] # index'[v]
    BY <1>1, <1>6 DEF QInv, ReserveInv
  <2> QED BY <2>1, <2>2 DEF ReserveInv, Slot
<1>10. NodeInv'
  <2>1. \A i : Live(i)' <=> Live(i)
    BY <1>6 DEF Live
  <2>2. ASSUME NEW i \in Indices, Live(i)
        PROVE  isUsed'[Slot(i)] /\ data'[Slot(i)] = i
    <3>1. i < tailIndex /\ ~(i < tailIndex - Ahead) /\ i # index[t]
      BY <1>2, <2>2, InWindow DEF Live
    <3>2. Slot(i) # Slot(index[t]) /\ Slot(i) \in Slots
      BY <1>8, <3>1
    <3> QED BY <1>0, <2>2, <3>2 DEF QInv, NodeInv, TypeOK
  <2>3. \A s \in Slots : isUsed'[s] => \E i \in Indices : Live(i) /\ Slot(i) = s
    BY DEF QInv, NodeInv
  <2> QED BY <2>1, <2>2, <2>3 DEF NodeInv, Slot, Slots, Indices
<1> QED BY <1>4, <1>5, <1>7, <1>9, <1>10 DEF QInv

\* The exchange finds the node free, so the call returns true.
LEMMA PublishStep ==
    ASSUME QInv, NeverOverfull, NEW t \in Producers, EnqueuePublish(t)
    PROVE  /\ QInv'
           /\ index[t] \in 0..(tailIndex - 1) /\ index[t] \notin accepted
           /\ accepted' = accepted \cup {index[t]}
<1> USE DEF EnqueuePublish
<1>0. t \in Threads /\ TypeOK /\ Active(t)
  BY DEF Threads, QInv, Active
<1>1. ~isUsed[Slot(index[t])]
  BY <1>0, ActiveUnused
<1>2. /\ index[t] \in Indices /\ index[t] < tailIndex
      /\ ~(index[t] < tailIndex - Ahead) /\ index[t] \notin accepted /\ ~Out(index[t])
  BY <1>0, InWindow
<1>3. /\ Goto(t, pc'[t]) /\ pc'[t] = "idle" /\ pc[t] = "publish"
      /\ accepted' = accepted \cup {index[t]}
  BY <1>0, <1>1 DEF TypeOK, Goto
<1>4. Slot(index[t]) \in Slots
  BY <1>2, SlotDiv DEF Indices
<1>5. TypeOK'
  <2>1. isUsed' \in [Slots -> BOOLEAN]
    BY <1>0 DEF TypeOK
  <2>2. pc' \in [Threads -> {"idle", "check", "write", "publish", "load", "look",
                             "claim", "read", "clear", "broken"}]
    BY <1>0, <1>3 DEF TypeOK, Goto
  <2> QED BY <1>0, <1>2, <1>3, <2>1, <2>2 DEF TypeOK
<1>6. RoleInv' /\ TakenInv' /\ ClaimInv'
  BY <1>3, ProducerKeeps DEF Active
<1>7. /\ \A u \in Threads : u # t => pc'[u] = pc[u]
      /\ \A i : Done(i)' <=> Done(i)
      /\ \A u \in Producers : u # t => (Active(u)' <=> Active(u))
  BY <1>3, ProducerStep
<1>8. RangeInv'
  BY <1>2, <1>3, <1>7 DEF QInv, RangeInv, Indices
<1>9. ReserveInv'
  <2>1. \A u \in Producers : Active(u)' => u # t /\ Active(u) /\ pc'[u] = pc[u]
    BY <1>3, <1>7 DEF Active, Threads
  <2>2. \A u \in Producers : u # t /\ Active(u) => index[u] # index[t]
    BY <1>0 DEF QInv, ReserveInv
  <2> QED BY <1>3, <2>1, <2>2 DEF QInv, ReserveInv, Slot
<1>10. NodeInv'
  <2>1. \A i : Live(i)' <=> Live(i) \/ i = index[t]
    BY <1>2, <1>3, <1>7 DEF Live, Done
  <2>2. ASSUME NEW i \in Indices, Live(i)'
        PROVE  isUsed'[Slot(i)] /\ data'[Slot(i)] = i
    <3>1. Slot(i) \in Slots
      BY SlotDiv DEF Indices
    <3>2. CASE i = index[t]
      BY <1>0, <1>3, <1>4, <3>2 DEF QInv, ReserveInv, TypeOK
    <3>3. CASE Live(i)
      BY <1>0, <3>1, <3>3 DEF QInv, NodeInv, TypeOK
    <3> QED BY <2>1, <2>2, <3>2, <3>3
  <2>3. ASSUME NEW s \in Slots, isUsed'[s]
        PROVE  \E i \in Indices : Live(i)' /\ Slot(i) = s
    BY <1>0, <1>2, <2>1, <2>3 DEF QInv, NodeInv, TypeOK
  <2> QED BY <2>2, <2>3 DEF NodeInv, Slot, Slots, Indices
<1>11. index[t] \in 0..(tailIndex - 1)
  BY <1>0, <1>2 DEF Indices, TypeOK
<1> QED BY <1>2, <1>3, <1>5, <1>6, <1>8, <1>9, <1>10, <1>11 DEF QInv

----------------------------------------------------------------------------
\* Steps of a consumer leave the producers and the tail alone.
LEMMA ConsumerKeeps ==
    ASSUME QInv, NEW c \in Consumers, Goto(c, pc'[c]),
           UNCHANGED <<tailIndex, data, accepted>>,
           \A u \in Threads : u # c => index'[u] = index[u],
           pc'[c] \in {"idle", "load", "look", "claim"} \/ Serving(c)'
    PROVE  /\ RoleInv' /\ ReserveInv'
           /\ \A d \in Consumers : d # c => pc'[d] = pc[d] /\ index'[d] = index[d]
<1>1. \A u \in Threads : u # c => pc'[u] = pc[u]
  BY DEF QInv, TypeOK, Goto
<1>2. \A t \in Producers : t # c /\ t \in Threads
  BY QueueAssumption DEF Threads
<1>3. \A t \in Producers : pc'[t] = pc[t] /\ index'[t] = index[t] /\ (Active(t)' <=> Active(t))
  BY <1>1, <1>2 DEF Active
<1>4. \A d \in Consumers : d # c => pc'[d] = pc[d] /\ index'[d] = index[d]
  BY <1>1 DEF Threads
<1>5. RoleInv'
  BY <1>3, <1>4 DEF QInv, RoleInv, Serving
<1>6. ReserveInv'
  BY <1>3 DEF QInv, ReserveInv, Slot
<1> QED BY <1>4, <1>5, <1>6

\* A consumer that was not serving and is not clearing makes nothing done.
LEMMA NothingDone ==
    ASSUME QInv, NEW c \in Consumers, pc[c] # "clear", pc'[c] # "clear", taken' = taken,
           \A d \in Consumers : d # c => pc'[d] = pc[d] /\ index'[d] = index[d]
    PROVE  \A i : /\ Out(i)' <=> Out(i)
                  /\ Done(i)' <=> Done(i)
BY DEF Out, Done, Clearing

\* The nodes do not change when nothing is published or given back.
LEMMA NodesStay ==
    ASSUME QInv, UNCHANGED <<isUsed, data, accepted>>, \A i : Done(i)' <=> Done(i)
    PROVE  NodeInv'
<1>1. \A i : Live(i)' <=> Live(i)
  BY DEF Live
<1> QED BY <1>1 DEF QInv, NodeInv, Slot, Slots, Indices

\* A published node at the head's slot is the head's own: nothing older is live
\* there.
LEMMA HeadPublished ==
    ASSUME QInv, NeverOverfull, NEW c \in Consumers, ~Serving(c),
           isUsed[Slot(headIndex)]
    PROVE  headIndex \in accepted
<1>0. /\ headIndex \in Nat /\ tailIndex \in Nat /\ headIndex <= tailIndex
      /\ Ahead \in Nat /\ BufferSize \in Nat \ {0} /\ tailIndex <= MaxTail /\ MaxTail \in Nat
  BY QueueAssumption DEF QInv, TypeOK, RangeInv
<1>1. Slot(headIndex) \in Slots
  BY <1>0, SlotDiv
<1>2. PICK i \in Indices : Live(i) /\ Slot(i) = Slot(headIndex)
  BY <1>1 DEF QInv, NodeInv
<1>3. i < tailIndex /\ ~(i < tailIndex - Ahead) /\ i \in Nat
  BY <1>2, InWindow DEF Indices
<1>4. CASE headIndex < tailIndex
  <2>1. headIndex \in Indices
    BY <1>0, <1>4 DEF Indices
  <2>2. ~(headIndex < tailIndex - Ahead)
    BY <1>0, <2>1, FreedDone DEF QInv, RangeInv, Done
  <2>3. i = headIndex
    BY <1>2, <1>3, <1>4, <2>1, <2>2, WindowUnique
  <2> QED BY <1>2, <2>3 DEF Live
<1>5. CASE headIndex = tailIndex
  <2>1. i < headIndex /\ ~Done(i)
    BY <1>2, <1>3, <1>5 DEF Live
  <2>2. PICK d \in Consumers : Serving(d) /\ index[d] = i
    BY <2>1 DEF QInv, TakenInv
  <2>3. Ahead < BufferSize
    BY <2>2 DEF NeverOverfull
  <2>4. headIndex - i < BufferSize
    BY <1>0, <1>3, <1>5, <2>3
  <2> QED BY <1>0, <1>2, <1>3, <2>1, <2>4, SlotsDiffer
<1> QED BY <1>0, <1>4, <1>5

\* The head is read.
LEMMA LoadStep ==
    ASSUME QInv, NEW c \in Consumers, DequeueLoad(c)
    PROVE  QInv'
<1> USE DEF DequeueLoad, queueVars
<1>0. c \in Threads /\ TypeOK
  BY DEF Threads, QInv
<1>1. /\ Goto(c, pc'[c]) /\ pc'[c] = "look" /\ index'[c] = headIndex
      /\ \A u \in Threads : u # c => index'[u] = index[u]
  BY <1>0 DEF TypeOK, Goto
<1>2. TypeOK'
  BY <1>0 DEF TypeOK, Goto
<1>3. /\ RoleInv' /\ ReserveInv'
      /\ \A d \in Consumers : d # c => pc'[d] = pc[d] /\ index'[d] = index[d]
  BY <1>1, ConsumerKeeps
<1>4. \A i : (Out(i)' <=> Out(i)) /\ (Done(i)' <=> Done(i))
  BY <1>1, <1>3, NothingDone
<1>5. RangeInv'
  BY <1>4 DEF QInv, RangeInv, Indices
<1>6. NodeInv'
  BY <1>4, NodesStay
<1>7. TakenInv'
  <2>1. \A d \in Consumers : Serving(d)' <=> Serving(d)
    BY <1>1, <1>3 DEF Serving
  <2>2. ~Serving(c) /\ \A d \in Consumers : Serving(d) => d # c
    BY DEF Serving
  <2>3. \A d \in Consumers : Serving(d) => /\ index'[d] = index[d] /\ pc'[d] = pc[d]
                                           /\ Out(index[d])' <=> Out(index[d])
    BY <1>3, <2>2 DEF Out
  <2> QED BY <1>4, <2>1, <2>3 DEF QInv, TakenInv, Indices
<1>8. ClaimInv'
  BY <1>0, <1>1, <1>3 DEF QInv, ClaimInv, TypeOK
<1> QED BY <1>2, <1>3, <1>5, <1>6, <1>7, <1>8 DEF QInv

\* A consumer goes on to claim only a head that it found published.
LEMMA LookStep ==
    ASSUME QInv, NeverOverfull, NEW c \in Consumers, DequeueLook(c)
    PROVE  QInv'
<1> USE DEF DequeueLook, queueVars
<1>0. c \in Threads /\ TypeOK
  BY DEF Threads, QInv
<1>1. /\ Goto(c, pc'[c]) /\ pc'[c] \in {"claim", "idle"} /\ pc[c] = "look"
      /\ pc'[c] = "claim" => isUsed[Slot(index[c])]
  BY <1>0 DEF TypeOK, Goto
<1>2. TypeOK'
  BY <1>0 DEF TypeOK, Goto
<1>3. /\ RoleInv' /\ ReserveInv'
      /\ \A d \in Consumers : d # c => pc'[d] = pc[d] /\ index'[d] = index[d]
  BY <1>1, ConsumerKeeps
<1>4. \A i : (Out(i)' <=> Out(i)) /\ (Done(i)' <=> Done(i))
  BY <1>1, <1>3, NothingDone
<1>5. RangeInv'
  BY <1>4 DEF QInv, RangeInv, Indices
<1>6. NodeInv'
  BY <1>4, NodesStay
<1>7. TakenInv'
  <2>1. \A d \in Consumers : /\ Serving(d)' <=> Serving(d)
                             /\ Serving(d) => pc'[d] = pc[d]
                             /\ Out(index[d])' <=> Out(index[d])
    BY <1>1, <1>3 DEF Serving, Out
  <2> QED BY <1>4, <2>1 DEF QInv, TakenInv, Indices
<1>8. ClaimInv'
  <2>1. ASSUME pc'[c] = "claim", index[c] = headIndex PROVE headIndex \in accepted
    BY <1>1, <2>1, HeadPublished DEF Serving
  <2>2. index[c] <= headIndex
    BY <1>1 DEF QInv, ClaimInv
  <2> QED BY <1>3, <2>1, <2>2 DEF QInv, ClaimInv
<1> QED BY <1>2, <1>3, <1>5, <1>6, <1>7, <1>8 DEF QInv

\* The exchange of the head makes the consumer the only one that serves it.
LEMMA ClaimStep ==
    ASSUME QInv, NEW c \in Consumers, DequeueClaim(c)
    PROVE  QInv' /\ (headIndex' # headIndex => headIndex' = headIndex + 1 /\ headIndex \in accepted)
<1> USE DEF DequeueClaim
<1>0. c \in Threads /\ TypeOK
  BY DEF Threads, QInv
<1>1. /\ Goto(c, pc'[c]) /\ pc[c] = "claim"
      /\ \/ headIndex' = headIndex + 1 /\ pc'[c] = "read" /\ index[c] = headIndex
         \/ headIndex' = headIndex /\ pc'[c] = "load"
  BY <1>0 DEF TypeOK, Goto
<1>3. /\ RoleInv' /\ ReserveInv'
      /\ \A d \in Consumers : d # c => pc'[d] = pc[d] /\ index'[d] = index[d]
  BY <1>1, ConsumerKeeps DEF Serving
<1>4. \A i : (Out(i)' <=> Out(i)) /\ (Done(i)' <=> Done(i))
  BY <1>1, <1>3, NothingDone
<1>6. NodeInv'
  BY <1>4, NodesStay
<1>7. headIndex \in Nat /\ headIndex' \in Nat /\ headIndex <= headIndex' /\ tailIndex \in 0..MaxTail
  BY <1>0, <1>1 DEF TypeOK
<1>8. CASE headIndex' = headIndex /\ pc'[c] = "load"
  <2>0. TypeOK'
    BY <1>0, <1>8 DEF TypeOK, Goto
  <2>1. \A d \in Consumers : /\ Serving(d)' <=> Serving(d)
                             /\ Serving(d) => pc'[d] = pc[d]
                             /\ Out(index[d])' <=> Out(index[d])
    BY <1>1, <1>3, <1>8 DEF Serving, Out
  <2>2. TakenInv'
    BY <1>4, <1>8, <2>1 DEF QInv, TakenInv, Indices
  <2>3. ClaimInv'
    BY <1>3, <1>8 DEF QInv, ClaimInv
  <2>4. RangeInv'
    BY <1>4, <1>8 DEF QInv, RangeInv, Indices
  <2> QED BY <1>3, <1>6, <1>8, <2>0, <2>2, <2>3, <2>4 DEF QInv
<1>9. CASE headIndex' = headIndex + 1 /\ pc'[c] = "read" /\ index[c] = headIndex
  <2>1. headIndex \in accepted /\ headIndex < tailIndex /\ headIndex \in Indices
    BY <1>0, <1>1, <1>9 DEF QInv, ClaimInv, RangeInv, TypeOK
  <2>2. TypeOK'
    BY <1>0, <1>7, <1>9, <2>1, QueueAssumption DEF TypeOK, Goto
  <2>3. RangeInv'
    <3>1. headIndex' <= tailIndex'
      BY <1>7, <1>9, <2>1
    <3>2. \A i \in Indices : i < headIndex' => i \in accepted'
      BY <1>7, <1>9, <2>1 DEF QInv, RangeInv, Indices
    <3>3. \A i \in Indices : i < tailIndex' - Ahead => Done(i)'
      BY <1>4 DEF QInv, RangeInv
    <3>4. \A i \in accepted' : i < tailIndex'
      BY DEF QInv, RangeInv
    <3> QED BY <3>1, <3>2, <3>3, <3>4 DEF RangeInv, Indices
  <2>4. ~Out(headIndex)
    BY <1>7, FreedDone
  <2>5. TakenInv'
    <3>1. \A p \in taken' : \E i \in Indices : p = <<i, i>> /\ i < headIndex'
      BY <1>7, <1>9 DEF QInv, TakenInv, Indices
    <3>2. ASSUME NEW d \in Consumers, Serving(d)'
          PROVE  /\ index'[d] < headIndex'
                 /\ pc'[d] = "read" <=> ~Out(index[d])'
      <4>1. Out(index[d])' <=> Out(index[d])
        BY DEF Out
      <4>2. CASE d = c
        BY <1>7, <1>9, <2>4, <4>1, <4>2
      <4>3. CASE d # c
        <5>1. pc'[d] = pc[d] /\ Serving(d) /\ index[d] \in 0..MaxTail
          BY <1>0, <1>3, <3>2, <4>3 DEF Serving, TypeOK, Threads
        <5> QED BY <1>7, <1>9, <4>1, <5>1 DEF QInv, TakenInv
      <4> QED BY <4>2, <4>3
    <3>3. \A d \in Consumers : d # c /\ Serving(d)' => index[d] < headIndex /\ Serving(d)
      BY <1>3 DEF QInv, TakenInv, Serving
    <3>4. \A d, e \in Consumers : Serving(d)' /\ Serving(e)' /\ d # e => index'[d] # index'[e]
      <4>1. \A d \in Consumers : d # c /\ Serving(d)' => index[d] # headIndex
        BY <1>0, <1>7, <3>3 DEF TypeOK, Threads
      <4> QED BY <1>9, <3>3, <4>1 DEF QInv, TakenInv
    <3>5. ASSUME NEW i \in Indices, i < headIndex', ~Done(i)'
          PROVE  \E d \in Consumers : Serving(d)' /\ index'[d] = i
      <4>1. CASE i = headIndex
        BY <1>9, <4>1 DEF Serving
      <4>2. CASE i # headIndex
        <5>1. i < headIndex /\ ~Done(i)
          BY <1>4, <1>7, <1>9, <3>5, <4>2 DEF Indices
        <5>2. PICK d \in Consumers : Serving(d) /\ index[d] = i
          BY <5>1 DEF QInv, TakenInv
        <5>3. d # c
          BY <1>1, <5>2 DEF Serving
        <5> QED BY <1>3, <5>2, <5>3 DEF Serving
      <4> QED BY <4>1, <4>2
    <3>6. \A i \in Indices : i < headIndex' /\ ~Done(i)'
             => \E d \in Consumers : Serving(d)' /\ index'[d] = i
      BY <3>5
    <3> QED BY <3>1, <3>2, <3>4, <3>6 DEF TakenInv, Indices
  <2>6. ClaimInv'
    <3>1. \A d \in Consumers : pc'[d] \in {"look", "claim"} => index[d] <= headIndex /\ index[d] \in Nat
      BY <1>0, <1>3, <1>9 DEF QInv, ClaimInv, TypeOK, Threads
    <3> QED BY <1>7, <1>9, <3>1 DEF ClaimInv
  <2> QED BY <1>3, <1>6, <1>9, <2>1, <2>2, <2>3, <2>5, <2>6 DEF QInv
<1> QED BY <1>1, <1>8, <1>9

\* A consumer that is serving an index has a live one, so the node is its own.
LEMMA ServingLive ==
    ASSUME QInv, NEW c \in Consumers, Serving(c)
    PROVE  /\ index[c] \in Indices /\ index[c] < headIndex /\ Live(index[c])
           /\ Slot(index[c]) \in Slots
           /\ isUsed[Slot(index[c])] /\ data[Slot(index[c])] = index[c]
<1>0. TypeOK /\ index[c] \in 0..MaxTail /\ headIndex \in 0..MaxTail
  BY DEF QInv, TypeOK, Threads
<1>1. index[c] < headIndex /\ index[c] \in Indices
  BY <1>0, QueueAssumption DEF QInv, TakenInv, Indices
<1>2. index[c] \in accepted
  BY <1>1 DEF QInv, RangeInv
<1>3. ~Done(index[c])
  <2>1. CASE pc[c] = "read"
    BY <2>1 DEF QInv, TakenInv, Done
  <2>2. CASE pc[c] = "clear"
    BY <2>2 DEF Done, Clearing
  <2> QED BY <2>1, <2>2 DEF Serving
<1>4. Live(index[c])
  BY <1>2, <1>3 DEF Live
<1> QED BY <1>1, <1>4, SlotDiv DEF QInv, NodeInv, Indices

\* The consumer takes what the producer of its index put there.
LEMMA ReadStep ==
    ASSUME QInv, NEW c \in Consumers, DequeueRead(c)
    PROVE  QInv'
<1> USE DEF DequeueRead, queueVars
<1>0. c \in Threads /\ TypeOK /\ Serving(c)
  BY DEF Threads, QInv, Serving
<1>1. Goto(c, pc'[c]) /\ pc[c] = "read" /\ pc'[c] = "clear"
  BY <1>0 DEF TypeOK, Goto
<1>2. /\ index[c] \in Indices /\ index[c] < headIndex /\ data[Slot(index[c])] = index[c]
      /\ Live(index[c])
  BY <1>0, ServingLive
<1>3. taken' = taken \cup {<<index[c], index[c]>>}
  BY <1>2
<1>4. TypeOK'
  BY <1>0, <1>2, <1>3 DEF TypeOK, Goto
<1>5. /\ RoleInv' /\ ReserveInv'
      /\ \A d \in Consumers : d # c => pc'[d] = pc[d] /\ index'[d] = index[d]
  BY <1>1, ConsumerKeeps DEF Serving
<1>6. \A i : Out(i)' <=> Out(i) \/ i = index[c]
  BY <1>3 DEF Out
<1>7. \A i : Done(i)' <=> Done(i)
  <2>1. \A i : Clearing(i)' <=> Clearing(i) \/ i = index[c]
    BY <1>1, <1>5 DEF Clearing
  <2>2. ~Done(index[c])
    BY <1>2 DEF Live
  <2> QED BY <1>6, <2>1, <2>2 DEF Done
<1>8. RangeInv'
  BY <1>7 DEF QInv, RangeInv, Indices
<1>9. NodeInv'
  BY <1>7, NodesStay
<1>10. TakenInv'
  <2>1. \A d \in Consumers : Serving(d)' <=> Serving(d)
    BY <1>1, <1>5 DEF Serving
  <2>2. \A p \in taken' : \E i \in Indices : p = <<i, i>> /\ i < headIndex'
    BY <1>2, <1>3 DEF QInv, TakenInv
  <2>3. ASSUME NEW d \in Consumers, Serving(d)'
        PROVE  /\ index'[d] < headIndex'
               /\ pc'[d] = "read" <=> ~Out(index[d])'
    <3>1. Out(index[d])' <=> Out(index[d]) \/ index[d] = index[c]
      BY <1>3 DEF Out
    <3>2. CASE d = c
      BY <1>1, <1>2, <3>1, <3>2
    <3>3. CASE d # c
      BY <1>0, <1>5, <2>1, <2>3, <3>1, <3>3 DEF QInv, TakenInv
    <3> QED BY <3>2, <3>3
  <2>4. \A d, e \in Consumers : Serving(d)' /\ Serving(e)' /\ d # e => index'[d] # index'[e]
    BY <2>1 DEF QInv, TakenInv
  <2>5. \A i \in Indices : i < headIndex' /\ ~Done(i)'
           => \E d \in Consumers : Serving(d)' /\ index'[d] = i
    BY <1>7, <2>1 DEF QInv, TakenInv
  <2> QED BY <2>2, <2>3, <2>4, <2>5 DEF TakenInv, Indices
<1>11. ClaimInv'
  BY <1>1, <1>5 DEF QInv, ClaimInv
<1> QED BY <1>4, <1>5, <1>8, <1>9, <1>10, <1>11 DEF QInv

\* The consumer gives back a node that is published, so it does not break; its
\* index is done and no other live index has the node.
LEMMA ClearStep ==
    ASSUME QInv, NEW c \in Consumers, DequeueClear(c)
    PROVE  QInv'
<1> USE DEF DequeueClear
<1>0. c \in Threads /\ TypeOK /\ Serving(c)
  BY DEF Threads, QInv, Serving
<1>1. /\ index[c] \in Indices /\ index[c] < headIndex /\ Live(index[c])
      /\ Slot(index[c]) \in Slots
      /\ isUsed[Slot(index[c])] /\ data[Slot(index[c])] = index[c]
  BY <1>0, ServingLive
<1>2. Goto(c, pc'[c]) /\ pc[c] = "clear" /\ pc'[c] = "idle"
  BY <1>0, <1>1 DEF TypeOK, Goto
<1>3. TypeOK'
  <2>1. isUsed' \in [Slots -> BOOLEAN]
    BY <1>0 DEF TypeOK
  <2>2. pc' \in [Threads -> {"idle", "check", "write", "publish", "load", "look",
                             "claim", "read", "clear", "broken"}]
    BY <1>0, <1>2 DEF TypeOK, Goto
  <2> QED BY <1>0, <2>1, <2>2 DEF TypeOK
<1>4. /\ RoleInv' /\ ReserveInv'
      /\ \A d \in Consumers : d # c => pc'[d] = pc[d] /\ index'[d] = index[d]
  BY <1>2, ConsumerKeeps DEF Serving
<1>5. \A i : Out(i)' <=> Out(i)
  BY DEF Out
<1>6. \A d \in Consumers : d # c /\ Serving(d) => index[d] # index[c]
  BY <1>0 DEF QInv, TakenInv
<1>7. \A i : Done(i)' <=> Done(i) \/ i = index[c]
  <2>1. \A i : Clearing(i)' <=> Clearing(i) /\ i # index[c]
    BY <1>2, <1>4, <1>6 DEF Clearing, Serving
  <2>2. Out(index[c])
    BY <1>0, <1>2 DEF QInv, TakenInv
  <2> QED BY <1>5, <2>1, <2>2 DEF Done
<1>8. RangeInv'
  BY <1>7 DEF QInv, RangeInv, Indices
<1>9. NodeInv'
  <2>1. \A i : Live(i)' <=> Live(i) /\ i # index[c]
    BY <1>7 DEF Live
  <2>2. ASSUME NEW i \in Indices, Live(i)'
        PROVE  isUsed'[Slot(i)] /\ data'[Slot(i)] = i
    <3>1. Slot(i) \in Slots /\ isUsed[Slot(i)] /\ data[Slot(i)] = i /\ i # index[c]
      BY <2>1, <2>2, SlotDiv DEF QInv, NodeInv, Indices
    <3>2. Slot(i) # Slot(index[c])
      BY <1>1, <3>1
    <3> QED BY <1>0, <3>1, <3>2 DEF TypeOK
  <2>3. ASSUME NEW s \in Slots, isUsed'[s]
        PROVE  \E i \in Indices : Live(i)' /\ Slot(i) = s
    <3>1. isUsed[s] /\ s # Slot(index[c])
      BY <1>0, <2>3 DEF TypeOK
    <3> QED BY <2>1, <3>1 DEF QInv, NodeInv
  <2> QED BY <2>2, <2>3 DEF NodeInv, Slot, Slots, Indices
<1>10. TakenInv'
  <2>1. \A d \in Consumers : /\ Serving(d)' <=> Serving(d) /\ d # c
                             /\ d # c => pc'[d] = pc[d] /\ (Out(index[d])' <=> Out(index[d]))
    BY <1>2, <1>4 DEF Serving, Out
  <2>2. \A i \in Indices : i < headIndex' /\ ~Done(i)'
           => \E d \in Consumers : Serving(d)' /\ index'[d] = i
    BY <1>7, <2>1 DEF QInv, TakenInv
  <2> QED BY <2>1, <2>2 DEF QInv, TakenInv, Indices
<1>11. ClaimInv'
  BY <1>2, <1>4 DEF QInv, ClaimInv
<1> QED BY <1>3, <1>4, <1>8, <1>9, <1>10, <1>11 DEF QInv

----------------------------------------------------------------------------
\* The empty ring.
LEMMA InitQInv == Init => QInv
<1> SUFFICES ASSUME Init PROVE QInv
  OBVIOUS
<1> USE DEF Init
<1>1. TypeOK
  BY QueueAssumption DEF TypeOK
<1>2. RoleInv /\ ReserveInv /\ TakenInv /\ ClaimInv
  BY QueueAssumption DEF RoleInv, ReserveInv, TakenInv, ClaimInv, Active, Serving, Threads, Indices
<1>3. RangeInv /\ NodeInv
  BY QueueAssumption DEF RangeInv, NodeInv, Live, Indices
<1> QED BY <1>1, <1>2, <1>3 DEF QInv

\* A step that changes nothing.
LEMMA StutterQInv ==
    ASSUME QInv, UNCHANGED vars
    PROVE  QInv'
<1> USE DEF vars, queueVars
<1>1. \A i : (Out(i)' <=> Out(i)) /\ (Done(i)' <=> Done(i)) /\ (Live(i)' <=> Live(i))
  BY DEF Out, Done, Live, Clearing
<1>2. TypeOK' /\ RoleInv' /\ ReserveInv'
  BY DEF QInv, TypeOK, RoleInv, ReserveInv, Active, Serving, Slot
<1>3. RangeInv' /\ NodeInv'
  BY <1>1 DEF QInv, RangeInv, NodeInv, Slot, Slots, Indices
<1>4. TakenInv' /\ ClaimInv'
  <2>1. \A d \in Consumers : Out(index[d])' <=> Out(index[d])
    BY DEF Out
  <2> QED BY <1>1, <2>1 DEF QInv, TakenInv, ClaimInv, Serving, Indices
<1> QED BY <1>2, <1>3, <1>4 DEF QInv

\* Every step of every thread keeps the invariant of a ring that is not overfull.
LEMMA NextQInv ==
    ASSUME NeverOverfull, QInv, [Next]_vars
    PROVE  QInv'
<1>1. ASSUME NEW t \in Producers, Enqueue(t) PROVE QInv'
  BY <1>1, ReserveStep, CheckStep, WriteStep, PublishStep DEF Enqueue
<1>2. ASSUME NEW c \in Consumers, Dequeue(c) PROVE QInv'
  BY <1>2, LoadStep, LookStep, ClaimStep, ReadStep, ClearStep DEF Dequeue
<1> QED BY <1>1, <1>2, StutterQInv DEF Next

\* The invariant of a ring that its callers do not overfill holds for any number
\* of producers, consumers, nodes and calls.
THEOREM QueueInvariance == NeverOverfull => (Spec => []QInv)
<1> SUFFICES ASSUME NeverOverfull PROVE Spec => []QInv
  OBVIOUS
<1>1. QInv /\ [Next]_vars => QInv'
  BY NextQInv
<1> QED BY <1>1, InitQInv, PTL DEF Spec

\* Head and tail, nodes and threads keep their types.
THEOREM QueueTypeCorrect == NeverOverfull => (Spec => []TypeOK)
<1>1. QInv => TypeOK
  BY DEF QInv
<1> QED BY <1>1, QueueInvariance, PTL

\* Neither __debugbreak of the queue is reached.
THEOREM QueueNeverBreaks == NeverOverfull => (Spec => []NoDebugBreak)
<1>1. QInv => NoDebugBreak
  BY DEF QInv, RoleInv, NoDebugBreak, Active, Serving, Threads
<1> QED BY <1>1, QueueInvariance, PTL

\* What an Enqueue accepted is in one node or was returned by one Dequeue, the
\* one that claimed the index the Enqueue reserved.
LEMMA OnePlace == QInv => KeptOrTakenOnce
<1> SUFFICES ASSUME QInv PROVE KeptOrTakenOnce
  OBVIOUS
<1>0. TypeOK
  BY DEF QInv
<1>1. \A p \in taken : \E j \in Indices : p = <<j, j>> /\ j < headIndex
  BY DEF QInv, TakenInv
<1>2. \A p \in taken : p[1] = p[2]
  BY <1>1
<1>3. ASSUME NEW i \in accepted
      PROVE  LET kept == {s \in Slots : /\ isUsed[s] /\ data[s] = i
                                        /\ \A c \in Consumers :
                                             ~(pc[c] = "clear" /\ Slot(index[c]) = s)}
                 out == {p \in taken : p[2] = i}
             IN Cardinality(kept) + Cardinality(out) = 1
  <2> DEFINE kept == {s \in Slots : /\ isUsed[s] /\ data[s] = i
                                    /\ \A c \in Consumers :
                                         ~(pc[c] = "clear" /\ Slot(index[c]) = s)}
             out == {p \in taken : p[2] = i}
  <2>1. i \in Indices /\ Slot(i) \in Slots
    BY <1>0, SlotDiv DEF TypeOK, Indices
  <2>2. ASSUME NEW s \in Slots, isUsed[s], data[s] = i
        PROVE  Live(i) /\ s = Slot(i)
    <3>1. PICK j \in Indices : Live(j) /\ Slot(j) = s
      BY <2>2 DEF QInv, NodeInv
    <3>2. data[s] = j
      BY <3>1 DEF QInv, NodeInv
    <3> QED BY <2>2, <3>1, <3>2
  <2>3. CASE Out(i)
    <3>1. out = {<<i, i>>}
      BY <1>1, <2>3 DEF Out
    <3>2. kept = {}
      <4> SUFFICES ASSUME NEW s \in kept PROVE FALSE
        OBVIOUS
      <4>1. Live(i) /\ s = Slot(i)
        BY <2>2
      <4>2. Clearing(i)
        BY <2>3, <4>1 DEF Live, Done
      <4> QED BY <4>1, <4>2 DEF Clearing
    <3>3. Cardinality(kept) = 0 /\ Cardinality(out) = 1
      BY <3>1, <3>2, FS_EmptySet, FS_Singleton
    <3> QED BY <3>3
  <2>4. CASE ~Out(i)
    <3>1. out = {}
      BY <1>1, <2>4 DEF Out
    <3>2. Live(i)
      BY <2>4 DEF Live, Done
    <3>3. isUsed[Slot(i)] /\ data[Slot(i)] = i
      BY <2>1, <3>2 DEF QInv, NodeInv
    <3>4. \A c \in Consumers : ~(pc[c] = "clear" /\ Slot(index[c]) = Slot(i))
      <4> SUFFICES ASSUME NEW c \in Consumers, pc[c] = "clear", Slot(index[c]) = Slot(i)
                   PROVE  FALSE
        OBVIOUS
      <4>1. Serving(c)
        BY DEF Serving
      <4>2. data[Slot(index[c])] = index[c]
        BY <4>1, ServingLive
      <4>3. Out(index[c])
        BY <4>1 DEF QInv, TakenInv
      <4> QED BY <2>4, <3>3, <4>2, <4>3
    <3>5. kept = {Slot(i)}
      BY <2>1, <2>2, <3>3, <3>4
    <3>6. Cardinality(kept) = 1 /\ Cardinality(out) = 0
      BY <3>1, <3>5, FS_EmptySet, FS_Singleton
    <3> QED BY <3>6
  <2> QED BY <2>3, <2>4
<1> QED BY <1>2, <1>3 DEF KeptOrTakenOnce

\* Nothing is lost, doubled or reordered.
THEOREM QueueKeepsAll == NeverOverfull => (Spec => []KeptOrTakenOnce)
BY OnePlace, QueueInvariance, PTL

\* Each step of the ring is a step of the queue of tickets: a reservation draws
\* one, a publication fills one, a claim serves the next; the rest is silent.
LEMMA StepIsTicketStep ==
    ASSUME NeverOverfull, QInv, [Next]_vars
    PROVE  [Tickets!Draw \/ Tickets!Fill \/ Tickets!Serve]_(Tickets!ticketVars)
<1> USE DEF Tickets!ticketVars, queueVars
<1>1. ASSUME NEW t \in Producers, EnqueueReserve(t) PROVE Tickets!Draw
  BY <1>1 DEF EnqueueReserve, Tickets!Draw
<1>2. ASSUME NEW t \in Producers, EnqueuePublish(t) PROVE Tickets!Fill
  <2>1. /\ index[t] \in 0..(tailIndex - 1) /\ index[t] \notin accepted
        /\ accepted' = accepted \cup {index[t]}
    BY <1>2, PublishStep
  <2> QED BY <1>2, <2>1 DEF EnqueuePublish, Tickets!Fill
<1>3. ASSUME NEW t \in Producers, EnqueueCheck(t) \/ EnqueueWrite(t)
      PROVE  UNCHANGED Tickets!ticketVars
  BY <1>3 DEF EnqueueCheck, EnqueueWrite
<1>4. ASSUME NEW c \in Consumers, DequeueClaim(c), headIndex' # headIndex PROVE Tickets!Serve
  BY <1>4, ClaimStep DEF DequeueClaim, Tickets!Serve
<1>5. ASSUME NEW c \in Consumers, DequeueClaim(c), headIndex' = headIndex
      PROVE  UNCHANGED Tickets!ticketVars
  BY <1>5 DEF DequeueClaim
<1>6. ASSUME NEW c \in Consumers,
             DequeueLoad(c) \/ DequeueLook(c) \/ DequeueRead(c) \/ DequeueClear(c)
      PROVE  UNCHANGED Tickets!ticketVars
  BY <1>6 DEF DequeueLoad, DequeueLook, DequeueRead, DequeueClear
<1>7. ASSUME UNCHANGED vars PROVE UNCHANGED Tickets!ticketVars
  BY <1>7 DEF vars
<1> QED BY <1>1, <1>2, <1>3, <1>4, <1>5, <1>6, <1>7 DEF Next, Enqueue, Dequeue

\* Below capacity the ring implements the queue of tickets its callers rely on:
\* first drawn, first served, each once, and only when filled.
THEOREM QueueRefinesTickets == NeverOverfull => (Spec => ImplementsTickets)
<1> SUFFICES ASSUME NeverOverfull PROVE Spec => ImplementsTickets
  OBVIOUS
<1>1. Init => Tickets!TicketInit
  BY DEF Init, Tickets!TicketInit
<1>2. QInv /\ [Next]_vars
        => [Tickets!Draw \/ Tickets!Fill \/ Tickets!Serve]_(Tickets!ticketVars)
  BY StepIsTicketStep
<1>3. Spec => []QInv
  BY QueueInvariance
<1> QED BY <1>1, <1>2, <1>3, PTL DEF Spec, ImplementsTickets, Tickets!Spec
==============================================================================
