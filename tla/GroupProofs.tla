----------------------------- MODULE GroupProofs -----------------------------
(***************************************************************************)
(* Proofs about Group, for any number of groups, connections, moves and     *)
(* receives: when a session is moved by its own callbacks, by way of no     *)
(* group and never back, it is released once and no group keeps a session   *)
(* that is gone.                                                            *)
(***************************************************************************)
EXTENDS Group, SequenceTheorems, TLAPS

\* What the theorems ask of the content.  (A thread that moves somebody else's
\* session races with its handler; a session that comes back to a group meets its
\* own old Leave job; a direct move lets the new group run before its Enter job.)
OwnMoves ==
    /\ Movers = {} /\ Revisit = FALSE
    /\ Hops \subseteq ({Base} \X Groups) \cup (Groups \X {Base})

\* The queue q has this job of connection i.
Has(q, type, i) == \E k \in 1..Len(q) : q[k] = [type |-> type, id |-> i]

\* What a group's queue and its members are to each other: no Enter or Leave job is
\* there twice, who is to enter is no member, who is to leave is or enters before.
Once(q) == \A j, k \in 1..Len(q) : q[j] = q[k] /\ q[j].type # "recv" => j = k
NewEnter(q, S) == \A k \in 1..Len(q) : q[k].type = "enter" => q[k].id \notin S
LeaveAfter(q, S) ==
    \A k \in 1..Len(q) : q[k].type = "leave" =>
        q[k].id \in S \/ \E j \in 1..(k - 1) : q[j] = [type |-> "enter", id |-> q[k].id]
Orderly(q, S) == Once(q) /\ NewEnter(q, S) /\ LeaveAfter(q, S)

----------------------------------------------------------------------------
LEMMA AppendJob ==
    ASSUME NEW q \in Seq(Jobs), NEW x \in Jobs
    PROVE  /\ Append(q, x) \in Seq(Jobs) /\ Len(q) \in Nat /\ Len(Append(q, x)) = Len(q) + 1
           /\ \A k \in 1..Len(q) : Append(q, x)[k] = q[k]
           /\ Append(q, x)[Len(q) + 1] = x
BY AppendProperties, LenProperties

LEMMA TailJob ==
    ASSUME NEW q \in Seq(Jobs), q # <<>>
    PROVE  /\ Tail(q) \in Seq(Jobs) /\ Len(q) \in Nat /\ Len(q) >= 1 /\ Len(Tail(q)) = Len(q) - 1
           /\ \A k \in 1..(Len(q) - 1) : Tail(q)[k] = q[k + 1]
           /\ Head(q) = q[1] /\ Head(q) \in Jobs
<1>1. Len(q) \in Nat /\ Len(q) >= 1
  BY EmptySeq, LenProperties
<1> QED BY <1>1, HeadTailProperties

LEMMA AppendHas ==
    ASSUME NEW q \in Seq(Jobs), NEW x \in Jobs, NEW type, NEW i
    PROVE  Has(Append(q, x), type, i) <=> Has(q, type, i) \/ x = [type |-> type, id |-> i]
<1> DEFINE r == Append(q, x)  n == Len(q)  y == [type |-> type, id |-> i]
<1>1. n \in Nat /\ Len(r) = n + 1 /\ (\A k \in 1..n : r[k] = q[k]) /\ r[n + 1] = x
  BY AppendJob
<1> HIDE DEF r, n, y
<1>2. (\E k \in 1..Len(r) : r[k] = y) <=> (\E k \in 1..n : q[k] = y) \/ x = y
  <2>1. ASSUME NEW k \in 1..Len(r), r[k] = y PROVE (\E l \in 1..n : q[l] = y) \/ x = y
    <3>1. k \in 1..n \/ k = n + 1
      BY <1>1
    <3> QED BY <1>1, <2>1, <3>1
  <2>2. ASSUME NEW k \in 1..n, q[k] = y PROVE \E l \in 1..Len(r) : r[l] = y
    <3>1. k \in 1..Len(r)
      BY <1>1
    <3> QED BY <1>1, <2>2, <3>1
  <2>3. ASSUME x = y PROVE \E l \in 1..Len(r) : r[l] = y
    <3>1. n + 1 \in 1..Len(r)
      BY <1>1
    <3> QED BY <1>1, <2>3, <3>1
  <2> QED BY <2>1, <2>2, <2>3
<1> QED BY <1>2 DEF Has, r, n, y

LEMMA TailHas ==
    ASSUME NEW q \in Seq(Jobs), q # <<>>, NEW type, NEW i
    PROVE  /\ Has(Tail(q), type, i) => Has(q, type, i)
           /\ Has(q, type, i) => Has(Tail(q), type, i) \/ Head(q) = [type |-> type, id |-> i]
           /\ Head(q) = [type |-> type, id |-> i] => Has(q, type, i)
           /\ Head(q) = [type |-> type, id |-> i] /\ type # "recv" /\ Once(q) => ~Has(Tail(q), type, i)
<1> DEFINE r == Tail(q)  n == Len(q)  y == [type |-> type, id |-> i]
<1>1. n \in Nat /\ n >= 1 /\ Len(r) = n - 1 /\ (\A k \in 1..(n - 1) : r[k] = q[k + 1]) /\ Head(q) = q[1]
  BY TailJob
<1>2. y.type = type
  OBVIOUS
<1> HIDE DEF r, n, y
<1>3. ASSUME NEW k \in 1..Len(r), r[k] = y PROVE k + 1 \in 1..n /\ q[k + 1] = y /\ k + 1 # 1
  BY <1>1, <1>3
<1>4. ASSUME NEW k \in 1..n, q[k] = y, k # 1 PROVE \E l \in 1..Len(r) : r[l] = y
  <2>1. k - 1 \in 1..Len(r) /\ (k - 1) + 1 = k
    BY <1>1, <1>4
  <2> QED BY <1>1, <1>4, <2>1
<1>5. 1 \in 1..n
  BY <1>1
<1>6. (\E k \in 1..Len(r) : r[k] = y) => (\E k \in 1..n : q[k] = y)
  BY <1>3
<1>7. (\E k \in 1..n : q[k] = y) => (\E k \in 1..Len(r) : r[k] = y) \/ q[1] = y
  BY <1>4
<1>8. q[1] = y => (\E k \in 1..n : q[k] = y)
  BY <1>5
<1>9. ASSUME q[1] = y, type # "recv", Once(q), NEW k \in 1..Len(r), r[k] = y PROVE FALSE
  <2>1. k + 1 \in 1..n /\ q[k + 1] = y /\ k + 1 # 1
    BY <1>3, <1>9
  <2> QED BY <1>2, <1>5, <1>9, <2>1 DEF Once, n
<1> QED BY <1>1, <1>6, <1>7, <1>8, <1>9 DEF Has, r, n, y

\* A job is appended.
LEMMA AppendOrderly ==
    ASSUME NEW q \in Seq(Jobs), NEW x \in Jobs, NEW S, Orderly(q, S),
           x.type = "enter" => x.id \notin S /\ ~Has(q, "enter", x.id),
           x.type = "leave" => /\ ~Has(q, "leave", x.id)
                               /\ x.id \in S \/ Has(q, "enter", x.id)
    PROVE  Orderly(Append(q, x), S)
<1> DEFINE r == Append(q, x)  n == Len(q)
<1>1. n \in Nat /\ Len(r) = n + 1 /\ (\A k \in 1..n : r[k] = q[k]) /\ r[n + 1] = x
  BY AppendJob
<1>2. x = [type |-> x.type, id |-> x.id] /\ x.type \in {"enter", "leave", "recv"}
  BY DEF Jobs
<1> HIDE DEF r, n
<1>3. \A k \in 1..Len(r) : k \in 1..n \/ k = n + 1
  BY <1>1
<1>4. x.type # "recv" => \A k \in 1..n : q[k] # x
  BY <1>2 DEF Has, n
<1>5. Once(r)
  <2> SUFFICES ASSUME NEW j \in 1..Len(r), NEW k \in 1..Len(r), r[j] = r[k], r[j].type # "recv"
               PROVE  j = k
    BY DEF Once
  <2>1. CASE j \in 1..n /\ k \in 1..n
    BY <1>1, <2>1 DEF Orderly, Once, n
  <2>2. CASE ~(j \in 1..n /\ k \in 1..n)
    BY <1>1, <1>3, <1>4, <2>2
  <2> QED BY <2>1, <2>2
<1>6. NewEnter(r, S)
  BY <1>1, <1>3 DEF Orderly, NewEnter, n
<1>7. LeaveAfter(r, S)
  <2> SUFFICES ASSUME NEW k \in 1..Len(r), r[k].type = "leave", r[k].id \notin S
               PROVE  \E j \in 1..(k - 1) : r[j] = [type |-> "enter", id |-> r[k].id]
    BY DEF LeaveAfter
  <2>1. PICK j \in 1..n : j < k /\ q[j] = [type |-> "enter", id |-> r[k].id]
    <3>1. CASE k \in 1..n
      <4>1. PICK j \in 1..(k - 1) : q[j] = [type |-> "enter", id |-> q[k].id]
        BY <1>1, <3>1 DEF Orderly, LeaveAfter, n
      <4>2. j \in 1..n /\ j < k
        BY <1>1, <3>1
      <4> QED BY <1>1, <3>1, <4>1, <4>2
    <3>2. CASE k = n + 1
      <4>1. PICK j \in 1..n : q[j] = [type |-> "enter", id |-> x.id]
        BY <1>1, <3>2 DEF Has, n
      <4>2. j < k
        BY <1>1, <3>2
      <4> QED BY <1>1, <3>2, <4>1, <4>2
    <3> QED BY <1>3, <3>1, <3>2
  <2>2. j \in 1..(k - 1) /\ r[j] = q[j]
    BY <1>1, <2>1
  <2> QED BY <2>1, <2>2
<1> QED BY <1>5, <1>6, <1>7 DEF Orderly, r

\* The first job is handled.
LEMMA TailOrderly ==
    ASSUME NEW q \in Seq(Jobs), q # <<>>, NEW S, NEW T, Orderly(q, S),
           Head(q).type = "enter" => T = S \cup {Head(q).id},
           Head(q).type = "leave" => T = S \ {Head(q).id},
           Head(q).type = "recv" => T = S
    PROVE  /\ Orderly(Tail(q), T)
           /\ Head(q).type = "leave" => Head(q).id \in S /\ ~Has(q, "enter", Head(q).id)
<1> DEFINE r == Tail(q)  n == Len(q)  x == Head(q)
<1>1. /\ n \in Nat /\ n >= 1 /\ Len(r) = n - 1 /\ (\A k \in 1..(n - 1) : r[k] = q[k + 1])
      /\ x = q[1] /\ x \in Jobs
  BY TailJob
<1>2. x = [type |-> x.type, id |-> x.id] /\ x.type \in {"enter", "leave", "recv"}
  BY <1>1 DEF Jobs
<1>3. \A k \in 1..n : q[k] \in Jobs
  BY ElementOfSeq
<1> HIDE DEF r, n, x
<1>4. ASSUME NEW k \in 1..Len(r) PROVE k + 1 \in 1..n /\ k + 1 # 1 /\ r[k] = q[k + 1]
  BY <1>1
<1>5. 1 \in 1..n
  BY <1>1
<1>6. x.type = "leave" => x.id \in S
  <2> SUFFICES ASSUME x.type = "leave" PROVE x.id \in S
    OBVIOUS
  <2>1. q[1].id \in S \/ \E j \in 1..(1 - 1) : q[j] = [type |-> "enter", id |-> q[1].id]
    BY <1>1, <1>5 DEF Orderly, LeaveAfter, n
  <2> QED BY <1>1, <2>1
<1>7. Once(r)
  <2> SUFFICES ASSUME NEW j \in 1..Len(r), NEW k \in 1..Len(r), r[j] = r[k], r[j].type # "recv"
               PROVE  j = k
    BY DEF Once
  <2>1. j + 1 = k + 1
    BY <1>4 DEF Orderly, Once, n
  <2>2. j \in Int /\ k \in Int
    OBVIOUS
  <2> QED BY <2>1, <2>2
<1>8. \A k \in 1..n : k # 1 /\ q[k].type # "recv" => q[k] # x
  BY <1>1, <1>5 DEF Orderly, Once, n
<1>9. ASSUME NEW k \in 1..n, q[k].type = "enter" PROVE q[k].id \notin S
  BY <1>9 DEF Orderly, NewEnter, n
<1>10. \A k \in 1..n : q[k] = [type |-> q[k].type, id |-> q[k].id]
  BY <1>3 DEF Jobs
<1>11. NewEnter(r, T)
  <2> SUFFICES ASSUME NEW k \in 1..Len(r), r[k].type = "enter" PROVE r[k].id \notin T
    BY DEF NewEnter
  <2>1. k + 1 \in 1..n /\ k + 1 # 1 /\ r[k] = q[k + 1]
    BY <1>4
  <2>2. r[k].id \notin S
    BY <1>9, <2>1
  <2>3. x.type = "enter" => r[k].id # x.id
    BY <1>2, <1>8, <1>10, <2>1
  <2> QED BY <1>2, <2>2, <2>3 DEF x
<1>12. LeaveAfter(r, T)
  <2> SUFFICES ASSUME NEW k \in 1..Len(r), r[k].type = "leave", r[k].id \notin T
               PROVE  \E j \in 1..(k - 1) : r[j] = [type |-> "enter", id |-> r[k].id]
    BY DEF LeaveAfter
  <2>1. k + 1 \in 1..n /\ k + 1 # 1 /\ r[k] = q[k + 1]
    BY <1>4
  <2>2. x.type = "leave" => r[k].id # x.id
    BY <1>2, <1>8, <1>10, <2>1
  <2>3. r[k].id \notin S
    BY <1>2, <2>2 DEF x
  <2>4. PICK j \in 1..((k + 1) - 1) : q[j] = [type |-> "enter", id |-> q[k + 1].id]
    BY <2>1, <2>3 DEF Orderly, LeaveAfter, n
  <2>5. j # 1
    <3> SUFFICES ASSUME j = 1 PROVE FALSE
      OBVIOUS
    <3>1. x = [type |-> "enter", id |-> q[k + 1].id]
      BY <1>1, <2>4
    <3>2. x.type = "enter" /\ x.id = r[k].id
      BY <2>1, <3>1
    <3> QED BY <3>2 DEF x
  <2>6. j - 1 \in 1..(k - 1) /\ j - 1 \in 1..(n - 1) /\ (j - 1) + 1 = j
    BY <1>1, <2>1, <2>5
  <2>7. r[j - 1] = q[j]
    BY <1>1, <2>6
  <2> QED BY <2>1, <2>4, <2>6, <2>7
<1>13. ASSUME x.type = "leave" PROVE ~Has(q, "enter", x.id)
  <2> SUFFICES ASSUME NEW k \in 1..n, q[k] = [type |-> "enter", id |-> x.id] PROVE FALSE
    BY DEF Has, n
  <2>1. q[k].type = "enter" /\ q[k].id = x.id
    OBVIOUS
  <2> QED BY <1>6, <1>9, <1>13, <2>1
<1> QED BY <1>6, <1>7, <1>11, <1>12, <1>13 DEF Orderly, r, x

----------------------------------------------------------------------------
\* The slot is in use, up to Session::Release's PostRelease or Leave job; a group has
\* or will have connection i; CheckPostRelease has seen that the session is in this
\* group; the group is done with the Leave job of this connection and has not posted the
\* release; a Leave job is somewhere between the two.
Live == up \/ releasing
Present(g, i) == i \in sessions[g] \/ Has(jobs[g], "enter", i)
Sure(g) == pc[g] \in {"count", "released"} \/ (pc[g] = "checkId" /\ arg[g].id = sessionId)
After(g) == Sure(g) \/ (pc[g] = "check" /\ arg[g].id = sessionId)
Leaving(g) == Has(jobs[g], "leave", sessionId) \/ After(g)

\* Nothing of this connection has come to the group.
Clean(g) ==
    /\ pc[g] \notin HoldPcs /\ ~After(g) /\ ~Present(g, sessionId)
    /\ ~Has(jobs[g], "recv", sessionId) /\ ~Has(jobs[g], "leave", sessionId)

\* The invariant: the types; where the release of the slot is; what the worker is at;
\* and, for each group, what ids it may have, how its jobs and members fit, who has a
\* Leave job, how its own move of the session goes, and when it may post the release.
WorkerPcs == MovePcs \cup {"idle", "handler", "onRecv", "broken"}
GroupPcs == HoldPcs \cup {"idle", "check", "checkId", "count", "released"}
SlotType ==
    /\ sessionId \in 0..MaxLife /\ groupId \in Groups \cup {Base}
    /\ up \in BOOLEAN /\ receiving \in BOOLEAN /\ releasing \in BOOLEAN
    /\ posted \in Nat /\ freeIndex \in Nat /\ gone \subseteq Ids /\ visited \subseteq Groups

ActorType ==
    /\ pc \in [Actors -> WorkerPcs \cup GroupPcs]
    /\ pc[Worker] \in WorkerPcs /\ \A g \in Groups : pc[g] \in GroupPcs
    /\ arg \in [Actors -> [id : 0..MaxLife, src : Groups \cup {Base}, dst : Groups \cup {Base}]]

QueueType == jobs \in [Groups -> Seq(Jobs)] /\ sessions \in [Groups -> SUBSET Ids]

GType == SlotType /\ ActorType /\ QueueType

StageInv ==
    /\ ~(up /\ releasing)
    /\ Live => posted = 0 /\ freeIndex = 0
    /\ posted + freeIndex <= 1
    /\ receiving => up
    /\ pc[Worker] # "idle" => receiving
    /\ \A g \in Groups : pc[g] \in HoldPcs => up
    /\ freeIndex > 0 => groupId = Base
    /\ freeIndex = 0 => sessionId >= 1
    /\ groupId \in visited \cup {Base}
    /\ \A i \in gone : i < sessionId \/ (i = sessionId /\ ~Live)

WorkerInv ==
    /\ pc[Worker] \in MovePcs =>
          arg[Worker].id = sessionId /\ arg[Worker].src = Base /\ arg[Worker].dst \in Groups
    /\ pc[Worker] \in {"leave", "set"} => groupId = Base /\ arg[Worker].dst \notin visited
    /\ pc[Worker] = "enter" => groupId = arg[Worker].dst

IdsOf(g) ==
    /\ \A i \in Ids, type \in {"enter", "leave", "recv"} :
          Has(jobs[g], type, i) => i <= sessionId
    /\ \A i \in sessions[g] : i <= sessionId
    /\ arg[g].id <= sessionId

StaysOf(g) ==
    \A i \in Ids : Present(g, i) /\ (i # sessionId \/ groupId # g \/ ~Live) => Has(jobs[g], "leave", i)

MoveOf(g) ==
    /\ pc[g] \in MovePcs => arg[g].id = sessionId /\ arg[g].src = g /\ arg[g].dst = Base
    /\ pc[g] \in {"leave", "set"} => groupId = g
    /\ pc[g] = "set" => Has(jobs[g], "leave", sessionId)

LeaveOf(g) ==
    /\ g \notin visited \/ (groupId = g /\ pc[Worker] = "enter") => Clean(g)
    /\ groupId = g /\ Live /\ pc[Worker] # "enter" => Present(g, sessionId)
    /\ groupId = g /\ Live /\ Leaving(g) => pc[g] = "set"
    /\ groupId = g /\ posted > 0 => ~Leaving(g)
    /\ Sure(g) => /\ groupId = g /\ ~Live /\ posted = 0 /\ freeIndex = 0
                  /\ arg[g].id = sessionId
    /\ After(g) => ~Has(jobs[g], "leave", sessionId) /\ ~Present(g, sessionId)

GroupOk(g) == IdsOf(g) /\ Orderly(jobs[g], sessions[g]) /\ StaysOf(g) /\ MoveOf(g) /\ LeaveOf(g)

GInv == GType /\ StageInv /\ WorkerInv /\ LeaveFindsMember /\ \A g \in Groups : GroupOk(g)

----------------------------------------------------------------------------
\* Who is who.
LEMMA Names ==
    ASSUME OwnMoves
    PROVE  /\ Worker \notin Groups /\ Base \notin Groups /\ Worker # Base
           /\ Actors = Groups \cup {Worker} /\ Groups \subseteq Actors /\ Worker \in Actors
BY GroupAssumption DEF OwnMoves, Worker, Base, Actors

\* A group that the step does not touch, when it changes nothing of the slot either.
LEMMA Untouched ==
    ASSUME NEW h \in Groups, GroupOk(h), pc'[h] = pc[h], arg'[h] = arg[h],
           jobs'[h] = jobs[h], sessions'[h] = sessions[h],
           UNCHANGED <<sessionId, groupId, posted, freeIndex, visited>>, Live' <=> Live,
           groupId = h => (pc'[Worker] = "enter" <=> pc[Worker] = "enter")
    PROVE  GroupOk(h)'
<1> USE DEF Present, After, Sure, Leaving, Clean
<1>1. IdsOf(h)' /\ Orderly(jobs[h], sessions[h])' /\ MoveOf(h)'
  BY DEF GroupOk, IdsOf, MoveOf, MovePcs, Base
<1>2. StaysOf(h)'
  BY DEF GroupOk, StaysOf, Ids
<1>3. LeaveOf(h)'
  BY DEF GroupOk, LeaveOf, HoldPcs, MovePcs
<1> QED BY <1>1, <1>2, <1>3 DEF GroupOk

\* A step of one group that leaves the slot as it is.
LEMMA OneGroup ==
    ASSUME OwnMoves, GInv, NEW g \in Groups, ActorType', QueueType', LeaveFindsMember',
           \A a \in Actors : a # g => pc'[a] = pc[a] /\ arg'[a] = arg[a],
           \A h \in Groups : h # g => jobs'[h] = jobs[h] /\ sessions'[h] = sessions[h],
           UNCHANGED sessionVars, UNCHANGED <<groupId, slotVars, visited, gone>>,
           pc'[g] \in HoldPcs => pc[g] \in HoldPcs \/ up, GroupOk(g)'
    PROVE  GInv'
<1> USE DEF sessionVars, slotVars
<1>0. Worker \in Actors /\ Worker \notin Groups /\ Groups \subseteq Actors
  BY Names
<1>1. pc'[Worker] = pc[Worker] /\ arg'[Worker] = arg[Worker]
  BY <1>0
<1>2. Live' <=> Live
  BY DEF Live
<1>3. ASSUME NEW h \in Groups PROVE GroupOk(h)'
  <2>1. CASE h = g
    BY <2>1
  <2>2. CASE h # g
    <3>1. pc'[h] = pc[h] /\ arg'[h] = arg[h] /\ jobs'[h] = jobs[h] /\ sessions'[h] = sessions[h]
      BY <1>0, <2>2
    <3>2. GroupOk(h)
      BY DEF GInv
    <3> QED BY <1>1, <1>2, <3>1, <3>2, Untouched
  <2> QED BY <2>1, <2>2
<1>4. SlotType'
  BY DEF GInv, GType, SlotType, Ids, Base
<1>5. StageInv'
  <2>1. ASSUME NEW h \in Groups, pc'[h] \in HoldPcs PROVE up'
    BY <1>0, <2>1 DEF GInv, StageInv
  <2>2. \A h \in Groups : pc'[h] \in HoldPcs => up'
    BY <2>1
  <2> QED BY <1>1, <1>2, <2>2 DEF GInv, StageInv, Base, HoldPcs, MovePcs
<1>6. WorkerInv'
  BY <1>1 DEF GInv, WorkerInv, MovePcs, Base
<1> QED BY <1>3, <1>4, <1>5, <1>6 DEF GInv, GType

\* What such a step has to show.
LEMMA GroupFacts ==
    ASSUME OwnMoves, GInv, NEW g \in Groups
    PROVE  /\ g \in Actors /\ g # Worker /\ g # Base /\ Worker \in Actors
           /\ pc \in [Actors -> WorkerPcs \cup GroupPcs] /\ pc[g] \in GroupPcs
           /\ jobs \in [Groups -> Seq(Jobs)] /\ jobs[g] \in Seq(Jobs)
           /\ sessions \in [Groups -> SUBSET Ids] /\ sessions[g] \subseteq Ids
           /\ arg \in [Actors -> [id : 0..MaxLife, src : Groups \cup {Base}, dst : Groups \cup {Base}]]
           /\ sessionId \in 0..MaxLife /\ MaxLife \in Nat
           /\ GroupOk(g) /\ Orderly(jobs[g], sessions[g])
BY Names, GroupAssumption DEF GInv, GType, SlotType, ActorType, QueueType, GroupOk

LEMMA GroupGoes ==
    ASSUME OwnMoves, GInv, NEW g \in Groups, NEW l \in GroupPcs, Goto(g, l)
    PROVE  /\ pc' \in [Actors -> WorkerPcs \cup GroupPcs] /\ pc'[g] = l
           /\ \A a \in Actors : a # g => pc'[a] = pc[a]
           /\ pc'[Worker] \in WorkerPcs /\ \A h \in Groups : pc'[h] \in GroupPcs
<1>1. g \in Actors /\ g # Worker /\ pc \in [Actors -> WorkerPcs \cup GroupPcs] /\ Worker \in Actors
      /\ Groups \subseteq Actors
  BY Names DEF GInv, GType, ActorType
<1>2. pc' = [pc EXCEPT ![g] = l]
  BY DEF Goto
<1>3. pc'[g] = l /\ \A a \in Actors : a # g => pc'[a] = pc[a]
  BY <1>1, <1>2
<1> QED BY <1>1, <1>2, <1>3 DEF GInv, GType, ActorType

\* Steps in which only the group's program counter moves.
LEMMA PcStep ==
    ASSUME OwnMoves, GInv, NEW g \in Groups, UNCHANGED <<groupVars, arg, broken>>,
           UNCHANGED sessionVars, UNCHANGED <<groupId, slotVars, visited, gone>>,
           NEW l \in GroupPcs, Goto(g, l), l \in HoldPcs => pc[g] \in HoldPcs,
           pc[g] \in {"check", "checkId", "count", "recv", "read", "enter"},
           l \notin {"leave", "set", "enter", "check"},
           l = "checkId" => pc[g] = "check" /\ groupId = g,
           l = "count" => pc[g] = "checkId" /\ sessionId = arg[g].id,
           l = "released" => pc[g] = "count"
    PROVE  GInv'
<1> USE DEF groupVars, slotVars, sessionVars
<1>0. GroupOk(g) /\ g # Base /\ sessionId \in 0..MaxLife
  BY GroupFacts
<1>1. /\ pc' \in [Actors -> WorkerPcs \cup GroupPcs] /\ pc'[g] = l
      /\ \A a \in Actors : a # g => pc'[a] = pc[a]
      /\ pc'[Worker] \in WorkerPcs /\ \A h \in Groups : pc'[h] \in GroupPcs
  BY GroupGoes
<1>2. ActorType' /\ QueueType' /\ LeaveFindsMember'
  BY <1>1 DEF GInv, GType, ActorType, QueueType, LeaveFindsMember, Jobs, Ids, WorkerPcs, GroupPcs,
              HoldPcs, MovePcs, Actors, Base, Worker
<1>3. Live' <=> Live
  BY DEF Live
<1>4. pc'[Worker] = pc[Worker]
  BY <1>1, Names
<1>5. Sure(g)' => /\ After(g) /\ groupId = g /\ ~Live /\ posted = 0 /\ freeIndex = 0
                  /\ arg[g].id = sessionId
  <2> SUFFICES ASSUME Sure(g)' PROVE /\ After(g) /\ groupId = g /\ ~Live /\ posted = 0 /\ freeIndex = 0
                                     /\ arg[g].id = sessionId
    OBVIOUS
  <2>1. l \in {"checkId", "count", "released"} /\ (l = "checkId" => arg[g].id = sessionId)
    BY <1>1 DEF Sure
  <2>2. CASE l # "checkId"
    <3>1. Sure(g)
      BY <2>1, <2>2 DEF Sure
    <3> QED BY <1>0, <3>1 DEF GroupOk, LeaveOf, After, Sure
  <2>3. CASE l = "checkId"
    <3>1. After(g) /\ Leaving(g) /\ pc[g] # "set" /\ groupId = g
      BY <2>1, <2>3 DEF After, Sure, Leaving
    <3>2. posted \in Nat /\ freeIndex \in Nat
      BY DEF GInv, GType, SlotType
    <3>3. ~Live /\ ~(posted > 0)
      BY <1>0, <3>1 DEF GroupOk, LeaveOf
    <3>4. ~(freeIndex > 0)
      BY <1>0, <3>1 DEF GInv, StageInv
    <3> QED BY <2>1, <2>3, <3>1, <3>2, <3>3, <3>4
  <2> QED BY <2>2, <2>3
<1>6. After(g)' => After(g)
  BY <1>1, <1>5 DEF After, Sure
<1>7. Leaving(g)' => Leaving(g)
  BY <1>6 DEF Leaving
<1>8. IdsOf(g)' /\ StaysOf(g)' /\ MoveOf(g)'
  BY <1>0, <1>1, <1>3 DEF GroupOk, IdsOf, StaysOf, MoveOf, MovePcs, Present, Ids
<1>9. LeaveOf(g)'
  <2>1. g \notin visited \/ (groupId = g /\ pc[Worker] = "enter") => Clean(g)
    BY <1>0 DEF GroupOk, LeaveOf
  <2>2. Clean(g) => Clean(g)'
    BY <1>1, <1>6 DEF Clean, Present, HoldPcs, MovePcs
  <2>3. groupId = g /\ Live /\ pc[Worker] # "enter" => Present(g, sessionId)'
    BY <1>0 DEF GroupOk, LeaveOf, Present
  <2>4. ~(groupId = g /\ Live /\ Leaving(g)') /\ (groupId = g /\ posted > 0 => ~Leaving(g)')
    BY <1>0, <1>7 DEF GroupOk, LeaveOf
  <2>5. After(g)' => ~Has(jobs[g], "leave", sessionId)' /\ ~Present(g, sessionId)'
    BY <1>0, <1>6 DEF GroupOk, LeaveOf, Present
  <2> QED BY <1>1, <1>3, <1>4, <1>5, <2>1, <2>2, <2>3, <2>4, <2>5 DEF LeaveOf
<1>10. GroupOk(g)'
  BY <1>0, <1>8, <1>9 DEF GroupOk
<1> QED BY <1>1, <1>2, <1>10, OneGroup

\* The group takes the first job.
LEMMA TakesJob ==
    ASSUME OwnMoves, GInv, NEW g \in Groups, jobs[g] # <<>>, Done(g),
           sessions' \in [Groups -> SUBSET Ids],
           Job(g).type = "enter" => sessions'[g] = sessions[g] \cup {Job(g).id},
           Job(g).type = "leave" => sessions'[g] = sessions[g] \ {Job(g).id},
           Job(g).type = "recv" => sessions'[g] = sessions[g]
    PROVE  /\ QueueType' /\ jobs'[g] = Tail(jobs[g])
           /\ \A h \in Groups : h # g => jobs'[h] = jobs[h]
           /\ Job(g) \in Jobs /\ Job(g) = [type |-> Job(g).type, id |-> Job(g).id]
           /\ Orderly(jobs[g], sessions[g])'
           /\ Job(g).type = "leave" => Job(g).id \in sessions[g] /\ ~Has(jobs[g], "enter", Job(g).id)
           /\ \A type, i :
                /\ Has(jobs[g], type, i)' => Has(jobs[g], type, i)
                /\ Has(jobs[g], type, i) => Has(jobs[g], type, i)' \/ Job(g) = [type |-> type, id |-> i]
                /\ Job(g) = [type |-> type, id |-> i] => Has(jobs[g], type, i)
                /\ Job(g) = [type |-> type, id |-> i] /\ type # "recv" => ~Has(jobs[g], type, i)'
<1>0. /\ jobs \in [Groups -> Seq(Jobs)] /\ jobs[g] \in Seq(Jobs) /\ Orderly(jobs[g], sessions[g])
      /\ sessions \in [Groups -> SUBSET Ids]
  BY GroupFacts
<1> DEFINE q == jobs[g]  S == sessions[g]  T == sessions'[g]
<1>1. jobs' = [jobs EXCEPT ![g] = Tail(q)] /\ Job(g) = Head(q)
  BY DEF Done, Job
<1>2. jobs'[g] = Tail(q)
  BY <1>0, <1>1
<1>3. \A h \in Groups : h # g => jobs'[h] = jobs[h]
  BY <1>0, <1>1
<1> HIDE DEF q, S, T
<1>4. q \in Seq(Jobs) /\ q # <<>> /\ Orderly(q, S) /\ Once(q)
  BY <1>0 DEF q, S, Orderly
<1>5. Tail(q) \in Seq(Jobs) /\ Head(q) \in Jobs
  BY <1>4, TailJob
<1>6. QueueType'
  BY <1>0, <1>1, <1>5 DEF QueueType, Jobs, Ids
<1>7. Head(q) = [type |-> Head(q).type, id |-> Head(q).id]
  BY <1>5 DEF Jobs
<1>8. /\ Orderly(Tail(q), T)
      /\ Head(q).type = "leave" => Head(q).id \in S /\ ~Has(q, "enter", Head(q).id)
  BY <1>1, <1>4, TailOrderly DEF S, T
<1>9. \A type, i :
        /\ Has(Tail(q), type, i) => Has(q, type, i)
        /\ Has(q, type, i) => Has(Tail(q), type, i) \/ Head(q) = [type |-> type, id |-> i]
        /\ Head(q) = [type |-> type, id |-> i] => Has(q, type, i)
        /\ Head(q) = [type |-> type, id |-> i] /\ type # "recv" => ~Has(Tail(q), type, i)
  BY <1>4, TailHas
<1> QED BY <1>1, <1>2, <1>3, <1>5, <1>6, <1>7, <1>8, <1>9 DEF q, S, T

\* Enter: who was to enter is a member.
LEMMA EnterStep ==
    ASSUME OwnMoves, GInv, NEW g \in Groups, HandleEnter(g)
    PROVE  GInv'
<1> PICK x, T : x = Job(g) /\ T = sessions[g] \cup {x.id}
  OBVIOUS
<1>0. /\ pc[g] = "idle" /\ jobs[g] # <<>> /\ x.type = "enter" /\ Done(g)
      /\ (x.type = "leave" => T = sessions[g] \ {x.id}) /\ (x.type = "recv" => T = sessions[g])
      /\ sessions' = [sessions EXCEPT ![g] = T] /\ UNCHANGED sessionVars
      /\ UNCHANGED <<groupId, slotVars, pc, arg, visited, gone, broken>>
  BY DEF HandleEnter
<1>1. GroupOk(g) /\ sessions[g] \subseteq Ids /\ jobs[g] \in Seq(Jobs)
  BY GroupFacts
<1>2. x \in Jobs /\ x.id \in Ids /\ T \subseteq Ids
  BY <1>0, <1>1, TailJob DEF Job, Jobs
<1>a. /\ sessions' \in [Groups -> SUBSET Ids] /\ sessions'[g] = T
      /\ \A h \in Groups : h # g => sessions'[h] = sessions[h]
  BY <1>0, <1>2, GroupFacts
<1>b. /\ QueueType'
      /\ \A h \in Groups : h # g => jobs'[h] = jobs[h]
      /\ x = [type |-> x.type, id |-> x.id]
      /\ Orderly(jobs[g], sessions[g])'
      /\ \A type, i :
           /\ Has(jobs[g], type, i)' => Has(jobs[g], type, i)
           /\ Has(jobs[g], type, i) => Has(jobs[g], type, i)' \/ x = [type |-> type, id |-> i]
           /\ x = [type |-> type, id |-> i] => Has(jobs[g], type, i)
  BY <1>0, <1>a, TakesJob
<1>3. sessions'[g] = T /\ \A h \in Groups : h # g => jobs'[h] = jobs[h] /\ sessions'[h] = sessions[h]
  BY <1>a, <1>b
<1>4. \A i : Present(g, i)' <=> Present(g, i)
  <2> TAKE i
  <2>1. CASE i = x.id
    BY <1>0, <1>3, <1>b, <2>1 DEF Present
  <2>2. CASE i # x.id
    <3>1. x # [type |-> "enter", id |-> i]
      BY <2>2
    <3> QED BY <1>3, <1>b, <2>2, <3>1 DEF Present
  <2> QED BY <2>1, <2>2
<1>5. \A i : /\ Has(jobs[g], "leave", i)' <=> Has(jobs[g], "leave", i)
             /\ Has(jobs[g], "recv", i)' => Has(jobs[g], "recv", i)
  <2> TAKE i
  <2>1. x # [type |-> "leave", id |-> i]
    BY <1>0
  <2> QED BY <1>3, <1>b, <2>1
<1>6. Live' <=> Live
  BY <1>0 DEF Live, sessionVars
<1>7. ActorType' /\ LeaveFindsMember'
  BY <1>0 DEF GInv, GType, ActorType, LeaveFindsMember, WorkerPcs, GroupPcs,
              HoldPcs, MovePcs, Actors, Base, Worker
<1>8. IdsOf(g)'
  <2>1. x.id <= sessionId
    BY <1>0, <1>1, <1>2, <1>3, <1>b DEF GroupOk, IdsOf
  <2> QED BY <1>0, <1>1, <1>3, <1>b, <2>1 DEF GroupOk, IdsOf, Ids, sessionVars
<1>9. StaysOf(g)' /\ MoveOf(g)'
  BY <1>0, <1>1, <1>4, <1>5, <1>6 DEF GroupOk, StaysOf, MoveOf, MovePcs, Ids, sessionVars
<1>10. LeaveOf(g)'
  <2>1. (After(g)' <=> After(g)) /\ (Leaving(g)' <=> Leaving(g)) /\ (Sure(g)' <=> Sure(g))
    BY <1>0, <1>5 DEF After, Sure, Leaving, sessionVars
  <2>2. Clean(g) => Clean(g)'
    BY <1>0, <1>4, <1>5, <2>1 DEF Clean, HoldPcs, MovePcs, sessionVars
  <2> QED BY <1>0, <1>1, <1>4, <1>5, <1>6, <2>1, <2>2 DEF GroupOk, LeaveOf, sessionVars, slotVars, Worker
<1>11. GroupOk(g)'
  BY <1>3, <1>b, <1>8, <1>9, <1>10 DEF GroupOk
<1> QED BY <1>0, <1>3, <1>b, <1>7, <1>11, OneGroup

\* Leave: it finds its member, which has no Enter job left.
LEMMA LeaveStep ==
    ASSUME OwnMoves, GInv, NEW g \in Groups, HandleLeave(g)
    PROVE  GInv'
<1> PICK x, T : x = Job(g) /\ T = sessions[g] \ {x.id}
  OBVIOUS
<1>0. /\ pc[g] = "idle" /\ jobs[g] # <<>> /\ x.type = "leave" /\ Done(g) /\ Goto(g, "check")
      /\ (x.type = "enter" => T = sessions[g] \cup {x.id}) /\ (x.type = "recv" => T = sessions[g])
      /\ sessions' = [sessions EXCEPT ![g] = T] /\ UNCHANGED sessionVars
      /\ UNCHANGED <<groupId, slotVars, visited, gone>>
      /\ arg' = [arg EXCEPT ![g].id = x.id]
      /\ broken' = IF x.id \in sessions[g] THEN broken ELSE broken \cup {"not a member"}
  BY DEF HandleLeave
<1>1. /\ GroupOk(g) /\ sessions[g] \subseteq Ids /\ jobs[g] \in Seq(Jobs) /\ g \in Actors
      /\ sessionId \in 0..MaxLife /\ MaxLife \in Nat
      /\ arg \in [Actors -> [id : 0..MaxLife, src : Groups \cup {Base}, dst : Groups \cup {Base}]]
  BY GroupFacts
<1>2. x \in Jobs /\ x.id \in Ids /\ T \subseteq Ids
  BY <1>0, <1>1, TailJob DEF Job, Jobs
<1>a. /\ sessions' \in [Groups -> SUBSET Ids] /\ sessions'[g] = T
      /\ \A h \in Groups : h # g => sessions'[h] = sessions[h]
  BY <1>0, <1>2, GroupFacts
<1>b. /\ QueueType'
      /\ \A h \in Groups : h # g => jobs'[h] = jobs[h]
      /\ x = [type |-> x.type, id |-> x.id]
      /\ Orderly(jobs[g], sessions[g])'
      /\ x.id \in sessions[g] /\ ~Has(jobs[g], "enter", x.id)
      /\ \A type, i :
           /\ Has(jobs[g], type, i)' => Has(jobs[g], type, i)
           /\ Has(jobs[g], type, i) => Has(jobs[g], type, i)' \/ x = [type |-> type, id |-> i]
           /\ x = [type |-> type, id |-> i] => Has(jobs[g], type, i)
           /\ x = [type |-> type, id |-> i] /\ type # "recv" => ~Has(jobs[g], type, i)'
  BY <1>0, <1>a, TakesJob
<1>3. sessions'[g] = T /\ \A h \in Groups : h # g => jobs'[h] = jobs[h] /\ sessions'[h] = sessions[h]
  BY <1>a, <1>b
<1>4. /\ pc' \in [Actors -> WorkerPcs \cup GroupPcs] /\ pc'[g] = "check"
      /\ \A a \in Actors : a # g => pc'[a] = pc[a]
      /\ pc'[Worker] \in WorkerPcs /\ \A h \in Groups : pc'[h] \in GroupPcs
  <2>1. "check" \in GroupPcs
    BY DEF GroupPcs
  <2> QED BY <1>0, <2>1, GroupGoes
<1>5. arg'[g].id = x.id /\ \A a \in Actors : a # g => arg'[a] = arg[a]
  BY <1>0, <1>1
<1>6. ActorType' /\ LeaveFindsMember'
  <2>1. arg' \in [Actors -> [id : 0..MaxLife, src : Groups \cup {Base}, dst : Groups \cup {Base}]]
    <3>1. arg[g] \in [id : 0..MaxLife, src : Groups \cup {Base}, dst : Groups \cup {Base}] /\ x.id \in 0..MaxLife
      BY <1>1, <1>2 DEF Ids
    <3>2. [arg[g] EXCEPT !.id = x.id] \in [id : 0..MaxLife, src : Groups \cup {Base}, dst : Groups \cup {Base}]
      BY <3>1
    <3>3. arg' = [arg EXCEPT ![g] = [arg[g] EXCEPT !.id = x.id]]
      BY <1>0
    <3> QED BY <1>1, <3>2, <3>3
  <2>2. LeaveFindsMember'
    BY <1>0, <1>3, <1>b DEF GInv, LeaveFindsMember
  <2> QED BY <1>4, <2>1, <2>2 DEF ActorType, WorkerPcs, GroupPcs, HoldPcs, MovePcs, Actors, Base, Worker
<1>7. ~Present(g, x.id)' /\ \A i : i # x.id => (Present(g, i)' <=> Present(g, i))
  <2>1. ~Present(g, x.id)'
    BY <1>3, <1>b DEF Present
  <2>2. ASSUME NEW i, i # x.id PROVE Present(g, i)' <=> Present(g, i)
    <3>1. [type |-> "enter", id |-> i].type = "enter"
      OBVIOUS
    <3>2. x # [type |-> "enter", id |-> i]
      BY <1>0, <3>1
    <3> QED BY <1>3, <1>b, <2>2, <3>2 DEF Present
  <2> QED BY <2>1, <2>2
<1>8. /\ Has(jobs[g], "leave", x.id) /\ ~Has(jobs[g], "leave", x.id)'
      /\ \A i : i # x.id => (Has(jobs[g], "leave", i)' <=> Has(jobs[g], "leave", i))
      /\ \A i : Has(jobs[g], "recv", i)' => Has(jobs[g], "recv", i)
  <2>1. ASSUME NEW i, i # x.id PROVE Has(jobs[g], "leave", i)' <=> Has(jobs[g], "leave", i)
    <3>1. x # [type |-> "leave", id |-> i]
      BY <2>1
    <3> QED BY <1>3, <1>b, <3>1
  <2> QED BY <1>0, <1>3, <1>b, <2>1
<1>9. Live' <=> Live
  BY <1>0 DEF Live, sessionVars
<1>10. x.id <= sessionId
  BY <1>1, <1>2, <1>8 DEF GroupOk, IdsOf
<1>11. IdsOf(g)'
  BY <1>0, <1>1, <1>3, <1>b, <1>5, <1>10 DEF GroupOk, IdsOf, Ids, sessionVars
<1>12. StaysOf(g)' /\ MoveOf(g)'
  BY <1>0, <1>1, <1>4, <1>7, <1>8, <1>9 DEF GroupOk, StaysOf, MoveOf, MovePcs, Ids, sessionVars
<1>13. LeaveOf(g)'
  <2>0. UNCHANGED <<sessionId, groupId, posted, freeIndex, visited>> /\ pc'[Worker] = pc[Worker]
    BY <1>0, <1>4, Names DEF sessionVars, slotVars
  <2>1. (After(g)' <=> x.id = sessionId) /\ ~After(g) /\ ~Sure(g)'
    BY <1>0, <1>4, <1>5, <2>0 DEF After, Sure
  <2>2. Leaving(g)' <=> Leaving(g)
    BY <1>8, <2>0, <2>1 DEF Leaving
  <2>3. groupId = g /\ Live => ~Leaving(g)
    BY <1>0, <1>1 DEF GroupOk, LeaveOf
  <2>4. Clean(g) => x.id # sessionId
    BY <1>8 DEF Clean
  <2>5. Clean(g) => Clean(g)'
    BY <1>4, <1>7, <1>8, <2>0, <2>1, <2>4 DEF Clean, HoldPcs, MovePcs
  <2>6. groupId = g /\ Live => x.id # sessionId
    BY <1>8, <2>3 DEF Leaving
  <2>7. After(g)' => ~Has(jobs[g], "leave", sessionId)' /\ ~Present(g, sessionId)'
    BY <1>7, <1>8, <2>0, <2>1
  <2>8. groupId = g /\ Live /\ pc[Worker] # "enter" => Present(g, sessionId)'
    BY <1>1, <1>7, <2>0, <2>6 DEF GroupOk, LeaveOf
  <2> QED BY <1>1, <1>4, <1>9, <2>0, <2>1, <2>2, <2>3, <2>5, <2>7, <2>8 DEF GroupOk, LeaveOf, Worker
<1>14. GroupOk(g)'
  BY <1>3, <1>b, <1>11, <1>12, <1>13 DEF GroupOk
<1>15. pc'[g] \notin HoldPcs
  BY <1>4 DEF HoldPcs, MovePcs
<1> QED BY <1>0, <1>3, <1>b, <1>4, <1>5, <1>6, <1>14, <1>15, OneGroup

\* Recv: the group looks for the session.
LEMMA RecvStep ==
    ASSUME OwnMoves, GInv, NEW g \in Groups, HandleRecv(g)
    PROVE  GInv'
<1> PICK x : x = Job(g)
  OBVIOUS
<1>0. /\ pc[g] = "idle" /\ jobs[g] # <<>> /\ x.type = "recv" /\ Done(g)
      /\ sessions' = sessions /\ UNCHANGED sessionVars
      /\ UNCHANGED <<groupId, slotVars, arg, visited, gone, broken>>
      /\ IF up /\ sessionId = x.id THEN Goto(g, "recv") ELSE UNCHANGED pc
  BY DEF HandleRecv
<1>1. GroupOk(g) /\ sessions \in [Groups -> SUBSET Ids] /\ jobs[g] \in Seq(Jobs)
      /\ pc \in [Actors -> WorkerPcs \cup GroupPcs] /\ g \in Actors
  BY GroupFacts
<1>2. sessions' \in [Groups -> SUBSET Ids]
      /\ (x.type = "enter" => sessions'[g] = sessions[g] \cup {x.id})
      /\ (x.type = "leave" => sessions'[g] = sessions[g] \ {x.id})
      /\ sessions'[g] = sessions[g]
  BY <1>0, <1>1
<1>3. /\ QueueType'
      /\ \A h \in Groups : h # g => jobs'[h] = jobs[h]
      /\ x = [type |-> x.type, id |-> x.id]
      /\ Orderly(jobs[g], sessions[g])'
      /\ \A type, i :
           /\ Has(jobs[g], type, i)' => Has(jobs[g], type, i)
           /\ Has(jobs[g], type, i) => Has(jobs[g], type, i)' \/ x = [type |-> type, id |-> i]
           /\ x = [type |-> type, id |-> i] => Has(jobs[g], type, i)
  BY <1>0, <1>2, TakesJob
<1>4. /\ pc' \in [Actors -> WorkerPcs \cup GroupPcs] /\ pc'[g] \in {"idle", "recv"}
      /\ \A a \in Actors : a # g => pc'[a] = pc[a]
      /\ pc'[Worker] \in WorkerPcs /\ \A h \in Groups : pc'[h] \in GroupPcs
      /\ pc'[g] = "recv" => up /\ sessionId = x.id
  <2>1. CASE up /\ sessionId = x.id
    <3>1. "recv" \in GroupPcs
      BY DEF GroupPcs, HoldPcs
    <3>2. Goto(g, "recv")
      BY <1>0, <2>1
    <3> QED BY <2>1, <3>1, <3>2, GroupGoes
  <2>2. CASE ~(up /\ sessionId = x.id)
    BY <1>0, <1>1, <2>2 DEF GInv, GType, ActorType
  <2> QED BY <2>1, <2>2
<1>5. \A i : Present(g, i)' <=> Present(g, i)
  <2> TAKE i
  <2>1. [type |-> "enter", id |-> i].type = "enter"
    OBVIOUS
  <2>2. x # [type |-> "enter", id |-> i]
    BY <1>0, <2>1
  <2> QED BY <1>2, <1>3, <2>2 DEF Present
<1>6. \A i : /\ Has(jobs[g], "leave", i)' <=> Has(jobs[g], "leave", i)
             /\ Has(jobs[g], "recv", i)' => Has(jobs[g], "recv", i)
  <2> TAKE i
  <2>1. [type |-> "leave", id |-> i].type = "leave"
    OBVIOUS
  <2>2. x # [type |-> "leave", id |-> i]
    BY <1>0, <2>1
  <2> QED BY <1>3, <2>2
<1>7. Live' <=> Live
  BY <1>0 DEF Live, sessionVars
<1>8. ActorType' /\ LeaveFindsMember'
  BY <1>0, <1>4 DEF GInv, GType, ActorType, LeaveFindsMember, WorkerPcs, GroupPcs,
              HoldPcs, MovePcs, Actors, Base, Worker
<1>9. IdsOf(g)'
  BY <1>0, <1>1, <1>2, <1>3 DEF GroupOk, IdsOf, Ids, sessionVars
<1>10. StaysOf(g)' /\ MoveOf(g)'
  BY <1>0, <1>1, <1>4, <1>5, <1>6, <1>7 DEF GroupOk, StaysOf, MoveOf, MovePcs, Ids, sessionVars
<1>11. LeaveOf(g)'
  <2>0. UNCHANGED <<sessionId, groupId, posted, freeIndex, visited>> /\ pc'[Worker] = pc[Worker]
    BY <1>0, <1>4, Names DEF sessionVars, slotVars
  <2>1. ~After(g)' /\ ~After(g) /\ ~Sure(g)' /\ pc[g] # "set"
    BY <1>0, <1>4 DEF After, Sure
  <2>2. Leaving(g)' <=> Leaving(g)
    BY <1>6, <2>0, <2>1 DEF Leaving
  <2>3. Clean(g) => x.id # sessionId
    BY <1>0, <1>3 DEF Clean
  <2>4. Clean(g) => Clean(g)'
    BY <1>4, <1>5, <1>6, <2>0, <2>1, <2>3 DEF Clean, HoldPcs, MovePcs
  <2>5. groupId = g /\ Live => ~Leaving(g)
    BY <1>1, <2>1 DEF GroupOk, LeaveOf
  <2>6. groupId = g /\ Live /\ pc[Worker] # "enter" => Present(g, sessionId)'
    BY <1>1, <1>5, <2>0 DEF GroupOk, LeaveOf
  <2> QED BY <1>1, <1>7, <2>0, <2>1, <2>2, <2>4, <2>5, <2>6 DEF GroupOk, LeaveOf, Worker
<1>12. GroupOk(g)'
  BY <1>3, <1>9, <1>10, <1>11 DEF GroupOk
<1>13. pc'[g] \in HoldPcs => up
  BY <1>4 DEF HoldPcs, MovePcs
<1> QED BY <1>0, <1>3, <1>4, <1>8, <1>12, <1>13, OneGroup

\* CheckPostRelease looks at the session's group, id and count; the session's packets are
\* read; a move to no group has no Enter job.
LEMMA LookSteps ==
    ASSUME OwnMoves, GInv, NEW g \in Groups,
           \/ CheckGroup(g) \/ CheckId(g) \/ CheckCount(g)
           \/ RecvHandled(g)
           \/ RecvRead(g) /\ Goto(g, "idle") /\ UNCHANGED arg
           \/ MoveEnter(g)
    PROVE  GInv'
<1>0. GroupOk(g) /\ Groups \subseteq Actors
  BY Names DEF GInv
<1> USE DEF HoldPcs, MovePcs, GroupPcs
<1>1. CASE CheckGroup(g)
  <2> PICK l : l = IF groupId = g THEN "checkId" ELSE "idle"
    OBVIOUS
  <2>1. /\ pc[g] = "check" /\ Goto(g, l) /\ UNCHANGED <<groupVars, arg, broken>>
        /\ UNCHANGED sessionVars /\ UNCHANGED <<groupId, slotVars, visited, gone>>
    BY <1>1 DEF CheckGroup
  <2>2. l \in GroupPcs /\ l \notin HoldPcs /\ l \in {"checkId", "idle"} /\ (l = "checkId" => groupId = g)
    OBVIOUS
  <2> QED BY <2>1, <2>2, PcStep
<1>5. CASE CheckId(g)
  <2> PICK l : l = IF sessionId = arg[g].id THEN "count" ELSE "idle"
    OBVIOUS
  <2>1. /\ pc[g] = "checkId" /\ Goto(g, l) /\ UNCHANGED <<groupVars, arg, broken>>
        /\ UNCHANGED sessionVars /\ UNCHANGED <<groupId, slotVars, visited, gone>>
    BY <1>5 DEF CheckId
  <2>2. l \in GroupPcs /\ l \notin HoldPcs /\ l \in {"count", "idle"} /\ (l = "count" => sessionId = arg[g].id)
    OBVIOUS
  <2> QED BY <2>1, <2>2, PcStep
<1>6. CASE CheckCount(g)
  <2>1. /\ pc[g] = "count" /\ UNCHANGED <<groupVars, arg, broken>>
        /\ UNCHANGED sessionVars /\ UNCHANGED <<groupId, slotVars, visited, gone>>
        /\ ~up => Goto(g, "released")
    BY <1>6 DEF CheckCount
  <2>2. ~up
    BY <1>0, <2>1 DEF GroupOk, LeaveOf, Sure, Live
  <2>3. "released" \in GroupPcs /\ "released" \notin HoldPcs
    OBVIOUS
  <2> QED BY <2>1, <2>2, <2>3, PcStep
<1>2. CASE RecvHandled(g)
  <2>1. /\ pc[g] = "recv" /\ Goto(g, "read") /\ UNCHANGED <<groupVars, arg, broken>>
        /\ UNCHANGED sessionVars /\ UNCHANGED <<groupId, slotVars, visited, gone>>
    BY <1>2 DEF RecvHandled
  <2>2. "read" \in GroupPcs
    OBVIOUS
  <2> QED BY <2>1, <2>2, PcStep
<1>3. CASE RecvRead(g) /\ Goto(g, "idle") /\ UNCHANGED arg
  <2>1. /\ pc[g] = "read" /\ Goto(g, "idle") /\ UNCHANGED <<groupVars, arg, broken>>
        /\ UNCHANGED sessionVars /\ UNCHANGED <<groupId, slotVars, visited, gone>>
    BY <1>3 DEF RecvRead
  <2>2. "idle" \in GroupPcs
    OBVIOUS
  <2> QED BY <2>1, <2>2, PcStep
<1>4. CASE MoveEnter(g)
  <2>1. /\ pc[g] = "enter" /\ Goto(g, "idle") /\ UNCHANGED <<sessions, arg, broken>>
        /\ UNCHANGED sessionVars /\ UNCHANGED <<groupId, slotVars, visited, gone>>
        /\ arg[g].dst = Base => UNCHANGED jobs
    BY <1>4 DEF MoveEnter
  <2>2. UNCHANGED <<groupVars, arg, broken>>
    BY <1>0, <2>1 DEF GroupOk, MoveOf, groupVars
  <2>3. "idle" \in GroupPcs
    OBVIOUS
  <2> QED BY <2>1, <2>2, <2>3, PcStep
<1> QED BY <1>1, <1>2, <1>3, <1>4, <1>5, <1>6

\* OnRecv moves the session out of the group.
LEMMA ReadMoves ==
    ASSUME OwnMoves, GInv, NEW g \in Groups, NEW dst, pc[g] = "read", groupId = g, MoveFind(g, dst),
           UNCHANGED sessionVars, UNCHANGED <<groupId, slotVars, groupVars, visited, gone, broken>>
    PROVE  GInv'
<1>0. /\ up /\ <<g, dst>> \in Hops /\ Goto(g, "leave")
      /\ arg' = [arg EXCEPT ![g] = [id |-> sessionId, src |-> g, dst |-> dst]]
  BY DEF MoveFind
<1>1. GroupOk(g) /\ g \in Actors /\ g # Worker /\ sessionId \in 0..MaxLife /\ MaxLife \in Nat
      /\ arg \in [Actors -> [id : 0..MaxLife, src : Groups \cup {Base}, dst : Groups \cup {Base}]]
  BY GroupFacts
<1>2. dst = Base
  BY <1>0, Names DEF OwnMoves
<1>3. /\ pc' \in [Actors -> WorkerPcs \cup GroupPcs] /\ pc'[g] = "leave"
      /\ \A a \in Actors : a # g => pc'[a] = pc[a]
      /\ pc'[Worker] \in WorkerPcs /\ \A h \in Groups : pc'[h] \in GroupPcs
  <2>1. "leave" \in GroupPcs
    BY DEF GroupPcs, HoldPcs, MovePcs
  <2> QED BY <1>0, <2>1, GroupGoes
<1>4. /\ arg' \in [Actors -> [id : 0..MaxLife, src : Groups \cup {Base}, dst : Groups \cup {Base}]]
      /\ arg'[g].id = sessionId /\ arg'[g].src = g /\ arg'[g].dst = Base
      /\ \A a \in Actors : a # g => arg'[a] = arg[a]
  BY <1>0, <1>1, <1>2
<1>5. ActorType' /\ QueueType' /\ LeaveFindsMember'
  BY <1>3, <1>4 DEF GInv, GType, ActorType, QueueType, LeaveFindsMember, Jobs, Ids, WorkerPcs, GroupPcs,
              HoldPcs, MovePcs, Actors, Base, Worker, groupVars
<1>6. Live' <=> Live
  BY DEF Live, sessionVars
<1>7. IdsOf(g)' /\ StaysOf(g)' /\ MoveOf(g)' /\ Orderly(jobs[g], sessions[g])'
  BY <1>1, <1>3, <1>4, <1>6
     DEF GroupOk, IdsOf, StaysOf, MoveOf, MovePcs, Present, Ids, sessionVars, groupVars, Base
<1>8. LeaveOf(g)'
  <2>0. UNCHANGED <<sessionId, groupId, posted, freeIndex, visited, jobs, sessions>> /\ pc'[Worker] = pc[Worker]
    BY <1>1, <1>3, Names DEF sessionVars, slotVars, groupVars
  <2>1. ~After(g)' /\ ~After(g) /\ ~Clean(g) /\ ~Sure(g)' /\ pc[g] # "set"
    BY <1>3 DEF After, Sure, Clean, HoldPcs
  <2>2. Leaving(g)' => Leaving(g)
    BY <2>0, <2>1 DEF Leaving
  <2>3. ~Leaving(g) /\ g \in visited /\ pc[Worker] # "enter"
    BY <1>0, <1>1, <2>1 DEF GroupOk, LeaveOf, Live
  <2>4. Live /\ pc[Worker] # "enter" => Present(g, sessionId)'
    BY <1>1, <2>0 DEF GroupOk, LeaveOf, Present
  <2> QED BY <1>6, <2>0, <2>1, <2>2, <2>3, <2>4 DEF LeaveOf, Worker
<1>9. GroupOk(g)'
  BY <1>7, <1>8 DEF GroupOk
<1>10. \A h \in Groups : h # g => jobs'[h] = jobs[h] /\ sessions'[h] = sessions[h]
  BY DEF groupVars
<1> QED BY <1>0, <1>3, <1>4, <1>5, <1>9, <1>10, OneGroup

\* A job comes into a group's queue.
LEMMA PutsJob ==
    ASSUME OwnMoves, GInv, NEW g \in Groups, NEW type \in {"enter", "leave", "recv"}, NEW i \in Ids,
           Enqueue(g, type, i), UNCHANGED sessions,
           type = "enter" => ~Present(g, i),
           type = "leave" => Present(g, i) /\ ~Has(jobs[g], "leave", i)
    PROVE  /\ QueueType' /\ Orderly(jobs[g], sessions[g])'
           /\ \A h \in Groups : h # g => jobs'[h] = jobs[h]
           /\ \A u, j : Has(jobs[g], u, j)' <=> Has(jobs[g], u, j) \/ (u = type /\ j = i)
<1>0. /\ jobs \in [Groups -> Seq(Jobs)] /\ jobs[g] \in Seq(Jobs) /\ Orderly(jobs[g], sessions[g])
      /\ sessions \in [Groups -> SUBSET Ids]
  BY GroupFacts
<1> DEFINE q == jobs[g]  S == sessions[g]  x == [type |-> type, id |-> i]
<1>1. jobs' = [jobs EXCEPT ![g] = Append(q, x)]
  BY DEF Enqueue
<1>2. x \in Jobs /\ x.type = type /\ x.id = i
  BY DEF Jobs
<1>3. jobs'[g] = Append(q, x) /\ \A h \in Groups : h # g => jobs'[h] = jobs[h]
  BY <1>0, <1>1
<1>4. \A u, j : x = [type |-> u, id |-> j] <=> u = type /\ j = i
  OBVIOUS
<1>5. /\ x.type = "enter" => x.id \notin S /\ ~Has(q, "enter", x.id)
      /\ x.type = "leave" => ~Has(q, "leave", x.id) /\ (x.id \in S \/ Has(q, "enter", x.id))
  BY <1>2 DEF Present
<1> HIDE DEF q, S, x
<1>6. q \in Seq(Jobs) /\ Orderly(q, S)
  BY <1>0 DEF q, S
<1>7. Append(q, x) \in Seq(Jobs)
  BY <1>2, <1>6, AppendJob
<1>8. QueueType'
  BY <1>0, <1>1, <1>7 DEF QueueType, Jobs, Ids
<1>9. Orderly(Append(q, x), S)
  BY <1>2, <1>5, <1>6, AppendOrderly
<1>10. \A u, j : Has(Append(q, x), u, j) <=> Has(q, u, j) \/ x = [type |-> u, id |-> j]
  BY <1>2, <1>6, AppendHas
<1> QED BY <1>3, <1>4, <1>8, <1>9, <1>10 DEF q, S

\* The group tells itself that the session leaves.
LEMMA LeavePosted ==
    ASSUME OwnMoves, GInv, NEW g \in Groups, MoveLeave(g)
    PROVE  GInv'
<1>0. /\ pc[g] = "leave" /\ Goto(g, "set")
      /\ IF arg[g].src = Base THEN UNCHANGED jobs ELSE Enqueue(arg[g].src, "leave", arg[g].id)
      /\ UNCHANGED sessionVars /\ UNCHANGED <<groupId, slotVars, sessions, arg, visited, gone, broken>>
  BY DEF MoveLeave
<1>1. GroupOk(g) /\ g \in Actors /\ g # Worker /\ g # Base /\ sessionId \in 0..MaxLife /\ MaxLife \in Nat
  BY GroupFacts
<1>2. arg[g].id = sessionId /\ arg[g].src = g /\ arg[g].dst = Base /\ groupId = g
  BY <1>0, <1>1 DEF GroupOk, MoveOf, MovePcs
<1>3. up /\ Live /\ posted = 0 /\ freeIndex = 0 /\ sessionId >= 1
  BY <1>0, <1>1 DEF GInv, StageInv, HoldPcs, MovePcs, Live
<1>4. ~Leaving(g) /\ ~Clean(g) /\ ~After(g)
  BY <1>0, <1>1, <1>2, <1>3 DEF GroupOk, LeaveOf, Clean, HoldPcs, MovePcs, After, Sure
<1>5. pc[Worker] # "enter" /\ g \in visited /\ Present(g, sessionId)
  BY <1>1, <1>2, <1>3, <1>4 DEF GroupOk, LeaveOf
<1> PICK i : i = sessionId
  OBVIOUS
<1>6. i \in Ids /\ Enqueue(g, "leave", i) /\ Present(g, i) /\ ~Has(jobs[g], "leave", i)
  BY <1>0, <1>1, <1>2, <1>3, <1>4, <1>5 DEF Ids, Leaving
<1>7. /\ QueueType' /\ Orderly(jobs[g], sessions[g])'
      /\ \A h \in Groups : h # g => jobs'[h] = jobs[h]
      /\ \A u, j : Has(jobs[g], u, j)' <=> Has(jobs[g], u, j) \/ (u = "leave" /\ j = i)
  BY <1>0, <1>6, PutsJob
<1>8. /\ pc' \in [Actors -> WorkerPcs \cup GroupPcs] /\ pc'[g] = "set"
      /\ \A a \in Actors : a # g => pc'[a] = pc[a]
      /\ pc'[Worker] \in WorkerPcs /\ \A h \in Groups : pc'[h] \in GroupPcs
  <2>1. "set" \in GroupPcs
    BY DEF GroupPcs, HoldPcs, MovePcs
  <2> QED BY <1>0, <2>1, GroupGoes
<1>9. ActorType' /\ LeaveFindsMember'
  BY <1>0, <1>8 DEF GInv, GType, ActorType, LeaveFindsMember, WorkerPcs, GroupPcs,
              HoldPcs, MovePcs, Actors, Base, Worker
<1>10. Live' <=> Live
  BY <1>0 DEF Live, sessionVars
<1>11. UNCHANGED <<sessionId, groupId, posted, freeIndex, visited, sessions, arg>> /\ pc'[Worker] = pc[Worker]
  BY <1>0, <1>1, <1>8, Names DEF sessionVars, slotVars
<1>12. \A j : Present(g, j)' <=> Present(g, j)
  BY <1>7, <1>11 DEF Present
<1>13. IdsOf(g)'
  BY <1>1, <1>7, <1>11 DEF GroupOk, IdsOf, Ids
<1>14. StaysOf(g)' /\ MoveOf(g)'
  BY <1>1, <1>2, <1>7, <1>8, <1>10, <1>11, <1>12 DEF GroupOk, StaysOf, MoveOf, MovePcs, Ids, Base
<1>15. LeaveOf(g)'
  <2>1. ~After(g)' /\ ~Sure(g)'
    BY <1>8 DEF After, Sure
  <2>2. Present(g, sessionId)'
    BY <1>5, <1>11, <1>12
  <2> QED BY <1>3, <1>5, <1>8, <1>11, <2>1, <2>2 DEF LeaveOf, Worker
<1>16. GroupOk(g)'
  BY <1>7, <1>13, <1>14, <1>15 DEF GroupOk
<1>17. \A h \in Groups : h # g => jobs'[h] = jobs[h] /\ sessions'[h] = sessions[h]
  BY <1>7, <1>11
<1> QED BY <1>0, <1>3, <1>7, <1>8, <1>9, <1>16, <1>17, OneGroup

\* A group the session is not in and does not come to.
LEMMA Elsewhere ==
    ASSUME NEW h \in Groups, GroupOk(h), pc'[h] = pc[h], arg'[h] = arg[h],
           jobs'[h] = jobs[h], sessions'[h] = sessions[h],
           sessionId' = sessionId, groupId # h, groupId' # h, h \in visited => h \in visited'
    PROVE  GroupOk(h)'
<1> USE DEF Present, After, Sure, Leaving, Clean
<1>1. IdsOf(h)' /\ Orderly(jobs[h], sessions[h])' /\ MoveOf(h)'
  BY DEF GroupOk, IdsOf, MoveOf, MovePcs, Base
<1>2. StaysOf(h)'
  BY DEF GroupOk, StaysOf, Ids
<1>3. LeaveOf(h)'
  BY DEF GroupOk, LeaveOf, HoldPcs, MovePcs
<1> QED BY <1>1, <1>2, <1>3 DEF GroupOk

\* The session is in no group now, and the Leave job is on its way.
LEMMA GroupSets ==
    ASSUME OwnMoves, GInv, NEW g \in Groups, MoveSet(g)
    PROVE  GInv'
<1>0. /\ pc[g] = "set" /\ Goto(g, "enter") /\ groupId' = arg[g].dst
      /\ visited' = visited \cup ({arg[g].dst} \ {Base})
      /\ UNCHANGED sessionVars /\ UNCHANGED <<slotVars, groupVars, arg, gone, broken>>
  BY DEF MoveSet
<1>1. GroupOk(g) /\ g \in Actors /\ g # Worker /\ g # Base /\ Groups \subseteq Actors
  BY GroupFacts, Names
<1>2. arg[g].id = sessionId /\ arg[g].src = g /\ arg[g].dst = Base /\ groupId = g
      /\ Has(jobs[g], "leave", sessionId)
  BY <1>0, <1>1 DEF GroupOk, MoveOf, MovePcs
<1>3. groupId' = Base /\ visited' = visited
  BY <1>0, <1>2
<1>4. up /\ ~Clean(g)
  BY <1>0 DEF GInv, StageInv, HoldPcs, MovePcs, Clean
<1>5. pc[Worker] \notin MovePcs /\ g \in visited
  BY <1>1, <1>2, <1>4 DEF GInv, WorkerInv, GroupOk, LeaveOf, MovePcs
<1>6. /\ pc' \in [Actors -> WorkerPcs \cup GroupPcs] /\ pc'[g] = "enter"
      /\ \A a \in Actors : a # g => pc'[a] = pc[a]
      /\ pc'[Worker] \in WorkerPcs /\ \A h \in Groups : pc'[h] \in GroupPcs
  <2>1. "enter" \in GroupPcs
    BY DEF GroupPcs, HoldPcs, MovePcs
  <2> QED BY <1>0, <2>1, GroupGoes
<1>7. /\ UNCHANGED <<sessionId, up, receiving, releasing, posted, freeIndex, jobs, sessions>>
      /\ pc'[Worker] = pc[Worker] /\ (Live' <=> Live)
  BY <1>0, <1>1, <1>6, Names DEF sessionVars, slotVars, groupVars, Live
<1>8. ActorType' /\ QueueType' /\ LeaveFindsMember'
  BY <1>0, <1>6, <1>7 DEF GInv, GType, ActorType, QueueType, LeaveFindsMember, Jobs, Ids, WorkerPcs, GroupPcs,
              HoldPcs, MovePcs, Actors, Base, Worker
<1>9. SlotType' /\ WorkerInv'
  BY <1>0, <1>3, <1>5, <1>7 DEF GInv, GType, SlotType, WorkerInv, Ids, Base, MovePcs
<1>10. StageInv'
  <2>1. \A h \in Groups : pc'[h] \in HoldPcs => up'
    BY <1>4, <1>7
  <2> QED BY <1>0, <1>3, <1>7, <2>1 DEF GInv, StageInv, HoldPcs, MovePcs
<1>11. GroupOk(g)'
  <2>1. ~After(g)' /\ ~Sure(g)'
    BY <1>6 DEF After, Sure
  <2>2. LeaveOf(g)'
    BY <1>1, <1>3, <1>5, <2>1 DEF LeaveOf
  <2>3. IdsOf(g)' /\ Orderly(jobs[g], sessions[g])'
    BY <1>0, <1>1, <1>7 DEF GroupOk, IdsOf, Ids
  <2>4. StaysOf(g)'
    BY <1>1, <1>2, <1>7 DEF GroupOk, StaysOf, Present, Ids
  <2>5. MoveOf(g)'
    BY <1>0, <1>2, <1>6, <1>7 DEF MoveOf, MovePcs, Base
  <2> QED BY <2>2, <2>3, <2>4, <2>5 DEF GroupOk
<1>12. ASSUME NEW h \in Groups PROVE GroupOk(h)'
  <2>1. CASE h = g
    BY <1>11, <2>1
  <2>2. CASE h # g
    <3>1. pc'[h] = pc[h] /\ arg'[h] = arg[h] /\ jobs'[h] = jobs[h] /\ sessions'[h] = sessions[h]
      BY <1>0, <1>1, <1>6, <1>7, <2>2
    <3>2. GroupOk(h) /\ groupId # h /\ groupId' # h
      BY <1>2, <1>3, <2>2, Names DEF GInv
    <3> QED BY <1>3, <1>7, <3>1, <3>2, Elsewhere
  <2> QED BY <2>1, <2>2
<1> QED BY <1>8, <1>9, <1>10, <1>12 DEF GInv, GType

\* The group posts the release.
LEMMA AssertStep ==
    ASSUME OwnMoves, GInv, NEW g \in Groups, CheckAssert(g)
    PROVE  GInv'
<1>a. pc[g] = "released"
  BY GroupFacts DEF CheckAssert, GroupPcs, HoldPcs, MovePcs
<1>b. sessionId = arg[g].id
  BY <1>a DEF GInv, GroupOk, LeaveOf, Sure
<1>0. /\ pc[g] = "released" /\ Goto(g, "idle") /\ posted' = posted + 1
      /\ UNCHANGED sessionVars /\ UNCHANGED <<groupId, freeIndex, groupVars, arg, visited, gone, broken>>
  BY <1>a, <1>b DEF CheckAssert
<1>1. GroupOk(g) /\ g \in Actors /\ g # Worker /\ g # Base /\ Groups \subseteq Actors
  BY GroupFacts, Names
<1>2. groupId = g /\ ~Live /\ posted = 0 /\ freeIndex = 0 /\ After(g)
      /\ ~Has(jobs[g], "leave", sessionId) /\ ~Present(g, sessionId) /\ ~Clean(g)
  BY <1>0, <1>1 DEF GroupOk, LeaveOf, After, Sure, Clean
<1>3. posted' = 1
  BY <1>0, <1>2 DEF Live
<1>4. g \in visited /\ pc[Worker] # "enter"
  BY <1>1, <1>2 DEF GroupOk, LeaveOf
<1>5. /\ pc' \in [Actors -> WorkerPcs \cup GroupPcs] /\ pc'[g] = "idle"
      /\ \A a \in Actors : a # g => pc'[a] = pc[a]
      /\ pc'[Worker] \in WorkerPcs /\ \A h \in Groups : pc'[h] \in GroupPcs
  <2>1. "idle" \in GroupPcs
    BY DEF GroupPcs
  <2> QED BY <1>0, <2>1, GroupGoes
<1>6. /\ UNCHANGED <<sessionId, up, receiving, releasing, groupId, visited, gone, freeIndex, jobs, sessions, arg>>
      /\ pc'[Worker] = pc[Worker] /\ (Live' <=> Live)
  BY <1>0, <1>1, <1>5, Names DEF sessionVars, groupVars, Live
<1>7. ActorType' /\ QueueType' /\ LeaveFindsMember'
  BY <1>0, <1>5, <1>6 DEF GInv, GType, ActorType, QueueType, LeaveFindsMember, Jobs, Ids, WorkerPcs, GroupPcs,
              HoldPcs, MovePcs, Actors, Base, Worker
<1>8. SlotType' /\ WorkerInv'
  BY <1>3, <1>6 DEF GInv, GType, SlotType, WorkerInv, Ids, Base, MovePcs
<1>9. StageInv'
  <2>1. ASSUME NEW h \in Groups, pc'[h] \in HoldPcs PROVE up'
    <3>1. "idle" \notin HoldPcs
      BY DEF HoldPcs, MovePcs
    <3> QED BY <1>1, <1>5, <1>6, <2>1, <3>1 DEF GInv, StageInv
  <2>2. \A h \in Groups : pc'[h] \in HoldPcs => up'
    BY <2>1
  <2> QED BY <1>2, <1>3, <1>6, <2>2 DEF GInv, StageInv, Base
<1>10. GroupOk(g)'
  <2>1. ~After(g)' /\ ~Sure(g)'
    BY <1>5 DEF After, Sure
  <2>2. ~Leaving(g)'
    BY <1>2, <1>6, <2>1 DEF Leaving
  <2>3. LeaveOf(g)'
    BY <1>2, <1>4, <1>6, <2>1, <2>2 DEF LeaveOf
  <2>4. IdsOf(g)' /\ Orderly(jobs[g], sessions[g])'
    BY <1>1, <1>6 DEF GroupOk, IdsOf, Ids
  <2>5. StaysOf(g)'
    BY <1>1, <1>6 DEF GroupOk, StaysOf, Present, Ids
  <2>6. MoveOf(g)'
    BY <1>5 DEF MoveOf, MovePcs
  <2> QED BY <2>3, <2>4, <2>5, <2>6 DEF GroupOk
<1>11. ASSUME NEW h \in Groups PROVE GroupOk(h)'
  <2>1. CASE h = g
    BY <1>10, <2>1
  <2>2. CASE h # g
    <3>1. pc'[h] = pc[h] /\ arg'[h] = arg[h] /\ jobs'[h] = jobs[h] /\ sessions'[h] = sessions[h]
      BY <1>1, <1>5, <1>6, <2>2
    <3>2. GroupOk(h) /\ groupId # h /\ groupId' # h
      BY <1>2, <1>6, <2>2 DEF GInv
    <3> QED BY <1>6, <3>1, <3>2, Elsewhere
  <2> QED BY <2>1, <2>2
<1> QED BY <1>7, <1>8, <1>9, <1>11 DEF GInv, GType

----------------------------------------------------------------------------
\* What is known of the worker and of the slot.
LEMMA WorkerFacts ==
    ASSUME OwnMoves, GInv
    PROVE  /\ Worker \in Actors /\ Worker \notin Groups /\ Groups \subseteq Actors /\ Base \notin Groups
           /\ pc \in [Actors -> WorkerPcs \cup GroupPcs] /\ pc[Worker] \in WorkerPcs
           /\ arg \in [Actors -> [id : 0..MaxLife, src : Groups \cup {Base}, dst : Groups \cup {Base}]]
           /\ sessionId \in 0..MaxLife /\ MaxLife \in Nat /\ posted \in Nat /\ freeIndex \in Nat
           /\ groupId \in Groups \cup {Base} /\ visited \subseteq Groups
           /\ pc[Worker] # "idle" => receiving /\ up /\ Live /\ posted = 0 /\ freeIndex = 0 /\ sessionId \in Ids
<1>1. /\ Worker \in Actors /\ Worker \notin Groups /\ Groups \subseteq Actors /\ Base \notin Groups
      /\ MaxLife \in Nat
  BY Names, GroupAssumption
<1>2. /\ pc \in [Actors -> WorkerPcs \cup GroupPcs] /\ pc[Worker] \in WorkerPcs
      /\ arg \in [Actors -> [id : 0..MaxLife, src : Groups \cup {Base}, dst : Groups \cup {Base}]]
      /\ sessionId \in 0..MaxLife /\ posted \in Nat /\ freeIndex \in Nat
      /\ groupId \in Groups \cup {Base} /\ visited \subseteq Groups
  BY DEF GInv, GType, SlotType, ActorType
<1>3. pc[Worker] # "idle" => receiving /\ up /\ Live
  BY DEF GInv, StageInv, Live
<1>4. Live => posted = 0 /\ freeIndex = 0 /\ sessionId >= 1
  BY DEF GInv, StageInv
<1> QED BY <1>1, <1>2, <1>3, <1>4 DEF Ids

LEMMA WorkerGoes ==
    ASSUME OwnMoves, GInv, NEW l \in WorkerPcs, Goto(Worker, l)
    PROVE  /\ pc' \in [Actors -> WorkerPcs \cup GroupPcs] /\ pc'[Worker] = l
           /\ \A a \in Actors : a # Worker => pc'[a] = pc[a]
           /\ \A h \in Groups : pc'[h] = pc[h]
           /\ pc'[Worker] \in WorkerPcs /\ \A h \in Groups : pc'[h] \in GroupPcs
<1>1. Worker \in Actors /\ Worker \notin Groups /\ pc \in [Actors -> WorkerPcs \cup GroupPcs]
      /\ Groups \subseteq Actors
  BY WorkerFacts
<1>2. pc' = [pc EXCEPT ![Worker] = l]
  BY DEF Goto
<1>3. pc'[Worker] = l /\ \A a \in Actors : a # Worker => pc'[a] = pc[a]
  BY <1>1, <1>2
<1>4. \A h \in Groups : pc'[h] = pc[h]
  BY <1>1, <1>3
<1> QED BY <1>1, <1>2, <1>3, <1>4 DEF GInv, GType, ActorType

\* A step of the worker that leaves the groups and the slot as they are.
LEMMA WorkerStep ==
    ASSUME OwnMoves, GInv, NEW l \in WorkerPcs, Goto(Worker, l), pc[Worker] # "enter", l # "enter",
           l # "idle" => receiving, UNCHANGED sessionVars,
           UNCHANGED <<groupId, slotVars, groupVars, visited, gone>>, LeaveFindsMember',
           arg' \in [Actors -> [id : 0..MaxLife, src : Groups \cup {Base}, dst : Groups \cup {Base}]],
           \A h \in Groups : arg'[h] = arg[h], WorkerInv'
    PROVE  GInv'
<1> USE DEF sessionVars, slotVars, groupVars
<1>1. /\ pc' \in [Actors -> WorkerPcs \cup GroupPcs] /\ pc'[Worker] = l
      /\ \A h \in Groups : pc'[h] = pc[h]
      /\ pc'[Worker] \in WorkerPcs /\ \A h \in Groups : pc'[h] \in GroupPcs
  BY WorkerGoes
<1>2. ActorType' /\ QueueType' /\ SlotType'
  BY <1>1 DEF GInv, GType, SlotType, ActorType, QueueType, Jobs, Ids, WorkerPcs, GroupPcs,
              HoldPcs, MovePcs, Actors, Base, Worker
<1>3. Live' <=> Live
  BY DEF Live
<1>4. StageInv'
  <2>1. \A h \in Groups : pc'[h] \in HoldPcs => up'
    BY <1>1 DEF GInv, StageInv
  <2> QED BY <1>1, <1>3, <2>1 DEF GInv, StageInv, Base, HoldPcs, MovePcs
<1>5. ASSUME NEW h \in Groups PROVE GroupOk(h)'
  <2>1. GroupOk(h) /\ pc'[h] = pc[h] /\ arg'[h] = arg[h]
    BY <1>1 DEF GInv
  <2> QED BY <1>1, <1>3, <2>1, Untouched
<1> QED BY <1>2, <1>4, <1>5 DEF GInv, GType

\* A completed receive is looked at, and the worker handles the packets.
LEMMA ExecuteStep ==
    ASSUME OwnMoves, GInv, RecvExecute
    PROVE  GInv'
<1>1. \E l \in {"onRecv", "handler"} : Goto(Worker, l)
  BY DEF RecvExecute
<1>2. PICK l \in {"onRecv", "handler"} : Goto(Worker, l)
  BY <1>1
<1>3. /\ pc[Worker] = "idle" /\ receiving /\ UNCHANGED sessionVars
      /\ UNCHANGED <<groupId, slotVars, groupVars, arg, visited, gone, broken>>
  BY DEF RecvExecute
<1>4. l \in WorkerPcs /\ l \notin MovePcs /\ l # "enter"
  BY DEF WorkerPcs, MovePcs
<1>5. /\ arg' \in [Actors -> [id : 0..MaxLife, src : Groups \cup {Base}, dst : Groups \cup {Base}]]
      /\ \A h \in Groups : arg'[h] = arg[h]
  BY <1>3, WorkerFacts
<1>6. WorkerInv'
  BY <1>2, <1>4, WorkerGoes DEF WorkerInv, MovePcs
<1>7. LeaveFindsMember'
  BY <1>3 DEF GInv, LeaveFindsMember
<1> QED BY <1>2, <1>3, <1>4, <1>5, <1>6, <1>7, WorkerStep

LEMMA HandlerStep ==
    ASSUME OwnMoves, GInv, RecvHandler
    PROVE  GInv'
<1>0. /\ pc[Worker] = "handler" /\ UNCHANGED sessionVars
      /\ UNCHANGED <<groupId, slotVars, groupVars, visited, gone, broken>>
  BY DEF RecvHandler
<1>1. LeaveFindsMember' /\ receiving
  BY <1>0, WorkerFacts DEF GInv, LeaveFindsMember
<1>2. CASE Goto(Worker, "idle") /\ UNCHANGED arg
  <2>1. "idle" \in WorkerPcs /\ "idle" \notin MovePcs
    BY DEF WorkerPcs, MovePcs
  <2>2. /\ arg' \in [Actors -> [id : 0..MaxLife, src : Groups \cup {Base}, dst : Groups \cup {Base}]]
        /\ \A h \in Groups : arg'[h] = arg[h]
    BY <1>2, WorkerFacts
  <2>3. WorkerInv'
    BY <1>2, <2>1, WorkerGoes DEF WorkerInv, MovePcs
  <2> QED BY <1>0, <1>1, <1>2, <2>1, <2>2, <2>3, WorkerStep
<1>3. CASE groupId = Base /\ \E dst \in Groups : MoveFind(Worker, dst)
  <2>1. PICK dst \in Groups : MoveFind(Worker, dst)
    BY <1>3
  <2>2. /\ dst \notin visited /\ Goto(Worker, "leave")
        /\ arg' = [arg EXCEPT ![Worker] = [id |-> sessionId, src |-> groupId, dst |-> dst]]
    BY <2>1 DEF MoveFind, OwnMoves
  <2>3. "leave" \in WorkerPcs
    BY DEF WorkerPcs, MovePcs
  <2>4. /\ arg' \in [Actors -> [id : 0..MaxLife, src : Groups \cup {Base}, dst : Groups \cup {Base}]]
        /\ arg'[Worker] = [id |-> sessionId, src |-> Base, dst |-> dst]
        /\ \A h \in Groups : arg'[h] = arg[h]
    BY <1>3, <2>2, WorkerFacts
  <2>5. arg'[Worker].id = sessionId /\ arg'[Worker].src = Base /\ arg'[Worker].dst = dst
    BY <2>4
  <2>6. pc'[Worker] = "leave"
    BY <2>2, <2>3, WorkerGoes
  <2>7. WorkerInv'
    BY <1>0, <1>3, <2>2, <2>5, <2>6 DEF WorkerInv, MovePcs, sessionVars, Base
  <2> QED BY <1>0, <1>1, <2>2, <2>3, <2>4, <2>7, WorkerStep
<1> QED BY <1>2, <1>3 DEF RecvHandler

\* A session in no group has no group to leave.
LEMMA WorkerLeaves ==
    ASSUME OwnMoves, GInv, MoveLeave(Worker)
    PROVE  GInv'
<1>0. /\ pc[Worker] = "leave" /\ UNCHANGED sessionVars /\ Goto(Worker, "set")
      /\ UNCHANGED <<groupId, slotVars, sessions, arg, visited, gone, broken>>
      /\ arg[Worker].src = Base => UNCHANGED jobs
  BY DEF MoveLeave
<1>1. arg[Worker].src = Base
  BY <1>0 DEF GInv, WorkerInv, MovePcs
<1>2. UNCHANGED groupVars
  BY <1>0, <1>1 DEF groupVars
<1>3. LeaveFindsMember' /\ receiving
  BY <1>0, WorkerFacts DEF GInv, LeaveFindsMember
<1>4. /\ arg' \in [Actors -> [id : 0..MaxLife, src : Groups \cup {Base}, dst : Groups \cup {Base}]]
      /\ \A h \in Groups : arg'[h] = arg[h]
  BY <1>0, WorkerFacts
<1>5. "set" \in WorkerPcs
  BY DEF WorkerPcs, MovePcs
<1>6. pc'[Worker] = "set"
  BY <1>0, <1>5, WorkerGoes
<1>7. WorkerInv'
  BY <1>0, <1>6 DEF GInv, WorkerInv, MovePcs, sessionVars, Base
<1> QED BY <1>0, <1>2, <1>3, <1>4, <1>5, <1>7, WorkerStep

\* The worker tells the session's group of the packets, if it is in one still.
LEMMA OnRecvStep ==
    ASSUME OwnMoves, GInv, OnRecv
    PROVE  GInv'
<1>0. /\ pc[Worker] = "onRecv" /\ UNCHANGED sessionVars
      /\ UNCHANGED <<groupId, slotVars, sessions, arg, visited, gone>>
  BY DEF OnRecv
<1>1. /\ arg' \in [Actors -> [id : 0..MaxLife, src : Groups \cup {Base}, dst : Groups \cup {Base}]]
      /\ \A h \in Groups : arg'[h] = arg[h]
  BY <1>0, WorkerFacts
<1>2. receiving /\ up /\ Live /\ posted = 0 /\ freeIndex = 0 /\ sessionId \in Ids
      /\ groupId \in Groups \cup {Base} /\ Base \notin Groups
  BY <1>0, WorkerFacts
<1>3. CASE groupId = Base
  <2>1. broken' = broken \cup {"null group"} /\ UNCHANGED jobs /\ Goto(Worker, "broken")
    BY <1>3 DEF OnRecv
  <2>2. "broken" \in WorkerPcs /\ "broken" \notin MovePcs
    BY DEF WorkerPcs, MovePcs
  <2>3. UNCHANGED groupVars
    BY <1>0, <2>1 DEF groupVars
  <2>4. LeaveFindsMember'
    BY <2>1 DEF GInv, LeaveFindsMember
  <2>5. WorkerInv'
    BY <2>1, <2>2, WorkerGoes DEF WorkerInv, MovePcs
  <2> QED BY <1>0, <1>1, <1>2, <2>1, <2>2, <2>3, <2>4, <2>5, WorkerStep
<1>4. CASE groupId # Base
  <2> PICK g \in Groups, i \in Ids : g = groupId /\ i = sessionId
    BY <1>2, <1>4
  <2>1. UNCHANGED broken /\ Enqueue(g, "recv", i) /\ Goto(Worker, "idle")
    BY <1>4 DEF OnRecv
  <2>2. UNCHANGED sessions
    BY <1>0
  <2>3. /\ QueueType' /\ Orderly(jobs[g], sessions[g])'
        /\ \A h \in Groups : h # g => jobs'[h] = jobs[h]
        /\ \A u, j : Has(jobs[g], u, j)' <=> Has(jobs[g], u, j) \/ (u = "recv" /\ j = i)
    BY <2>1, <2>2, PutsJob
  <2>4. "idle" \in WorkerPcs /\ "idle" \notin MovePcs
    BY DEF WorkerPcs, MovePcs
  <2>5. /\ pc' \in [Actors -> WorkerPcs \cup GroupPcs] /\ pc'[Worker] = "idle"
        /\ \A h \in Groups : pc'[h] = pc[h]
        /\ pc'[Worker] \in WorkerPcs /\ \A h \in Groups : pc'[h] \in GroupPcs
    BY <2>1, <2>4, WorkerGoes
  <2>6. /\ UNCHANGED <<sessionId, up, receiving, releasing, groupId, posted, freeIndex, visited, gone, arg, broken>>
        /\ (Live' <=> Live)
    BY <1>0, <2>1 DEF sessionVars, slotVars, Live
  <2>7. ActorType' /\ SlotType' /\ LeaveFindsMember'
    BY <1>1, <2>5, <2>6 DEF GInv, GType, SlotType, ActorType, LeaveFindsMember, Ids, WorkerPcs, GroupPcs,
                HoldPcs, MovePcs, Actors, Base, Worker
  <2>8. StageInv'
    <3>1. \A h \in Groups : pc'[h] \in HoldPcs => up'
      BY <2>5, <2>6 DEF GInv, StageInv
    <3> QED BY <2>5, <2>6, <3>1 DEF GInv, StageInv, Base, HoldPcs, MovePcs
  <2>9. WorkerInv'
    BY <2>4, <2>5 DEF WorkerInv, MovePcs
  <2>10. GroupOk(g) /\ pc'[g] = pc[g] /\ sessions' = sessions /\ g \in visited
    BY <1>0, <1>4, <2>5 DEF GInv, StageInv
  <2>11. \A j : /\ Present(g, j)' <=> Present(g, j)
                /\ Has(jobs[g], "leave", j)' <=> Has(jobs[g], "leave", j)
    BY <2>3, <2>10 DEF Present
  <2>12. IdsOf(g)'
    BY <2>3, <2>6, <2>10 DEF GroupOk, IdsOf, Ids
  <2>13. StaysOf(g)' /\ MoveOf(g)'
    BY <2>6, <2>10, <2>11 DEF GroupOk, StaysOf, MoveOf, MovePcs, Ids, Base
  <2>14. LeaveOf(g)'
    <3>1. (After(g)' <=> After(g)) /\ (Leaving(g)' <=> Leaving(g)) /\ (Sure(g)' <=> Sure(g))
      BY <2>6, <2>10, <2>11 DEF After, Sure, Leaving
    <3> QED BY <1>0, <2>5, <2>6, <2>10, <2>11, <3>1 DEF GroupOk, LeaveOf
  <2>15. ASSUME NEW h \in Groups PROVE GroupOk(h)'
    <3>1. CASE h = g
      BY <2>3, <2>12, <2>13, <2>14, <3>1 DEF GroupOk
    <3>2. CASE h # g
      <4>1. GroupOk(h) /\ pc'[h] = pc[h] /\ arg'[h] = arg[h] /\ jobs'[h] = jobs[h] /\ sessions'[h] = sessions[h]
        BY <1>1, <2>3, <2>5, <2>10, <3>2 DEF GInv
      <4> QED BY <2>6, <3>2, <4>1, Untouched
    <3> QED BY <3>1, <3>2
  <2> QED BY <2>3, <2>7, <2>8, <2>9, <2>15 DEF GInv, GType
<1> QED BY <1>3, <1>4

\* The worker moves the session into a group it was not in.
LEMMA WorkerSets ==
    ASSUME OwnMoves, GInv, MoveSet(Worker)
    PROVE  GInv'
<1>0. /\ pc[Worker] = "set" /\ UNCHANGED sessionVars /\ Goto(Worker, "enter")
      /\ groupId' = arg[Worker].dst /\ visited' = visited \cup ({arg[Worker].dst} \ {Base})
      /\ UNCHANGED <<slotVars, groupVars, arg, gone, broken>>
  BY DEF MoveSet
<1>1. /\ receiving /\ up /\ Live /\ posted = 0 /\ freeIndex = 0 /\ sessionId \in Ids
      /\ Base \notin Groups /\ Worker \notin Groups /\ visited \subseteq Groups
  BY <1>0, WorkerFacts
<1>2. arg[Worker].id = sessionId /\ arg[Worker].src = Base /\ arg[Worker].dst \in Groups
      /\ groupId = Base /\ arg[Worker].dst \notin visited
  BY <1>0 DEF GInv, WorkerInv, MovePcs
<1> PICK g \in Groups : g = arg[Worker].dst
  BY <1>2
<1>3. groupId' = g /\ visited' = visited \cup {g} /\ g # Base
  BY <1>0, <1>1
<1>4. "enter" \in WorkerPcs
  BY DEF WorkerPcs, MovePcs
<1>5. /\ pc' \in [Actors -> WorkerPcs \cup GroupPcs] /\ pc'[Worker] = "enter"
      /\ \A h \in Groups : pc'[h] = pc[h]
      /\ pc'[Worker] \in WorkerPcs /\ \A h \in Groups : pc'[h] \in GroupPcs
  BY <1>0, <1>4, WorkerGoes
<1>6. /\ UNCHANGED <<sessionId, up, receiving, releasing, posted, freeIndex, gone, arg, broken, jobs, sessions>>
      /\ (Live' <=> Live)
  BY <1>0 DEF sessionVars, slotVars, groupVars, Live
<1>7. ActorType' /\ QueueType' /\ LeaveFindsMember'
  BY <1>5, <1>6 DEF GInv, GType, ActorType, QueueType, LeaveFindsMember, Jobs, Ids, WorkerPcs, GroupPcs,
              HoldPcs, MovePcs, Actors, Base, Worker
<1>8. SlotType' /\ WorkerInv'
  BY <1>1, <1>2, <1>3, <1>5, <1>6 DEF GInv, GType, SlotType, WorkerInv, Ids, Base, MovePcs
<1>9. StageInv'
  <2>1. \A h \in Groups : pc'[h] \in HoldPcs => up'
    BY <1>1, <1>6
  <2> QED BY <1>1, <1>3, <1>5, <1>6, <2>1 DEF GInv, StageInv, Base
<1>10. GroupOk(g)'
  <2>1. GroupOk(g) /\ Clean(g) /\ groupId # g
    BY <1>1, <1>2 DEF GInv, GroupOk, LeaveOf
  <2>2. pc'[g] = pc[g]
    BY <1>5
  <2>3. Clean(g)' /\ ~After(g)' /\ ~Leaving(g)' /\ ~Sure(g)' /\ pc'[g] \notin HoldPcs
    BY <1>6, <2>1, <2>2 DEF Clean, After, Sure, Leaving, Present, HoldPcs, MovePcs
  <2>4. LeaveOf(g)'
    BY <1>5, <2>3 DEF LeaveOf
  <2>5. IdsOf(g)' /\ Orderly(jobs[g], sessions[g])'
    BY <1>6, <2>1 DEF GroupOk, IdsOf, Ids
  <2>6. StaysOf(g)'
    BY <1>6, <2>1 DEF GroupOk, StaysOf, Present, Ids
  <2>7. MoveOf(g)'
    BY <2>3 DEF MoveOf, MovePcs, HoldPcs
  <2> QED BY <2>4, <2>5, <2>6, <2>7 DEF GroupOk
<1>11. ASSUME NEW h \in Groups PROVE GroupOk(h)'
  <2>1. CASE h = g
    BY <1>10, <2>1
  <2>2. CASE h # g
    <3>1. GroupOk(h) /\ pc'[h] = pc[h] /\ arg'[h] = arg[h] /\ jobs'[h] = jobs[h] /\ sessions'[h] = sessions[h]
      BY <1>5, <1>6 DEF GInv
    <3>2. groupId # h /\ groupId' # h /\ (h \in visited => h \in visited')
      BY <1>1, <1>2, <1>3, <2>2
    <3> QED BY <1>6, <3>1, <3>2, Elsewhere
  <2> QED BY <2>1, <2>2
<1> QED BY <1>7, <1>8, <1>9, <1>11 DEF GInv, GType

\* The Enter job follows.
LEMMA WorkerEnters ==
    ASSUME OwnMoves, GInv, MoveEnter(Worker)
    PROVE  GInv'
<1>0. /\ pc[Worker] = "enter" /\ UNCHANGED sessionVars /\ Goto(Worker, "idle")
      /\ IF arg[Worker].dst = Base THEN UNCHANGED jobs ELSE Enqueue(arg[Worker].dst, "enter", arg[Worker].id)
      /\ UNCHANGED <<groupId, slotVars, sessions, arg, visited, gone, broken>>
  BY DEF MoveEnter
<1>1. /\ receiving /\ up /\ Live /\ posted = 0 /\ freeIndex = 0 /\ sessionId \in Ids
      /\ Base \notin Groups /\ Worker \notin Groups
      /\ arg \in [Actors -> [id : 0..MaxLife, src : Groups \cup {Base}, dst : Groups \cup {Base}]]
  BY <1>0, WorkerFacts
<1>2. arg[Worker].id = sessionId /\ arg[Worker].dst \in Groups /\ groupId = arg[Worker].dst
  BY <1>0 DEF GInv, WorkerInv, MovePcs
<1> PICK g \in Groups, i \in Ids : g = groupId /\ i = sessionId
  BY <1>1, <1>2
<1>3. Enqueue(g, "enter", i) /\ UNCHANGED sessions
  BY <1>0, <1>1, <1>2
<1>4. GroupOk(g) /\ Clean(g) /\ g \in visited
  BY <1>0, <1>1 DEF GInv, StageInv, GroupOk, LeaveOf
<1>5. ~Present(g, i)
  BY <1>4 DEF Clean
<1>6. /\ QueueType' /\ Orderly(jobs[g], sessions[g])'
      /\ \A h \in Groups : h # g => jobs'[h] = jobs[h]
      /\ \A u, j : Has(jobs[g], u, j)' <=> Has(jobs[g], u, j) \/ (u = "enter" /\ j = i)
  BY <1>3, <1>5, PutsJob
<1>7. "idle" \in WorkerPcs /\ "idle" \notin MovePcs
  BY DEF WorkerPcs, MovePcs
<1>8. /\ pc' \in [Actors -> WorkerPcs \cup GroupPcs] /\ pc'[Worker] = "idle"
      /\ \A h \in Groups : pc'[h] = pc[h]
      /\ pc'[Worker] \in WorkerPcs /\ \A h \in Groups : pc'[h] \in GroupPcs
  BY <1>0, <1>7, WorkerGoes
<1>9. /\ UNCHANGED <<sessionId, up, receiving, releasing, groupId, posted, freeIndex, visited, gone, arg, broken, sessions>>
      /\ (Live' <=> Live)
  BY <1>0 DEF sessionVars, slotVars, Live
<1>10. ActorType' /\ SlotType' /\ LeaveFindsMember'
  BY <1>1, <1>8, <1>9 DEF GInv, GType, SlotType, ActorType, LeaveFindsMember, Ids, WorkerPcs, GroupPcs,
              HoldPcs, MovePcs, Actors, Base, Worker
<1>11. StageInv'
  <2>1. \A h \in Groups : pc'[h] \in HoldPcs => up'
    BY <1>1, <1>9
  <2> QED BY <1>8, <1>9, <2>1 DEF GInv, StageInv, Base
<1>12. WorkerInv'
  BY <1>7, <1>8 DEF WorkerInv, MovePcs
<1>13. \A j : /\ Present(g, j)' <=> Present(g, j) \/ j = i
              /\ Has(jobs[g], "leave", j)' <=> Has(jobs[g], "leave", j)
  BY <1>6, <1>9 DEF Present
<1>14. GroupOk(g)'
  <2>1. pc'[g] = pc[g]
    BY <1>8
  <2>2. ~After(g)' /\ ~Leaving(g)' /\ ~Sure(g)' /\ pc'[g] \notin HoldPcs
    BY <1>4, <1>9, <1>13, <2>1 DEF Clean, After, Sure, Leaving, HoldPcs, MovePcs
  <2>3. LeaveOf(g)'
    BY <1>4, <1>8, <1>9, <1>13, <2>2 DEF LeaveOf
  <2>4. IdsOf(g)'
    BY <1>4, <1>6, <1>9 DEF GroupOk, IdsOf, Ids
  <2>5. StaysOf(g)'
    BY <1>1, <1>4, <1>9, <1>13 DEF GroupOk, StaysOf, Ids
  <2>6. MoveOf(g)'
    BY <2>2 DEF MoveOf, MovePcs, HoldPcs
  <2> QED BY <1>6, <2>3, <2>4, <2>5, <2>6 DEF GroupOk
<1>15. ASSUME NEW h \in Groups PROVE GroupOk(h)'
  <2>1. CASE h = g
    BY <1>14, <2>1
  <2>2. CASE h # g
    <3>1. GroupOk(h) /\ pc'[h] = pc[h] /\ arg'[h] = arg[h] /\ jobs'[h] = jobs[h] /\ sessions'[h] = sessions[h]
      BY <1>6, <1>8, <1>9, <2>2 DEF GInv
    <3> QED BY <1>9, <2>2, <3>1, Untouched
  <2> QED BY <2>1, <2>2
<1> QED BY <1>6, <1>10, <1>11, <1>12, <1>15 DEF GInv, GType

----------------------------------------------------------------------------
\* The session's receive ends, and its last reference turns the flag on.
LEMMA EndSteps ==
    ASSUME OwnMoves, GInv, EndReceive \/ Release
    PROVE  GInv'
<1>0. /\ UNCHANGED <<sessionId, groupId, slotVars, groupVars, pc, arg, visited, gone, broken>>
      /\ up' \in BOOLEAN /\ receiving' \in BOOLEAN /\ releasing' \in BOOLEAN
      /\ ~receiving' /\ pc[Worker] = "idle" /\ (Live' <=> Live) /\ ~(up' /\ releasing')
      /\ (up' <=> up) \/ \A h \in Groups : pc[h] \notin HoldPcs
  <2>0. pc[Worker] # "idle" => receiving
    BY DEF GInv, StageInv
  <2>1. CASE EndReceive
    BY <2>1 DEF EndReceive, GInv, GType, SlotType, StageInv, Live
  <2>2. CASE Release
    BY <2>0, <2>2, WorkerFacts DEF Release, GInv, GType, SlotType, Live
  <2> QED BY <2>1, <2>2
<1>1. ActorType' /\ QueueType' /\ SlotType' /\ LeaveFindsMember'
  BY <1>0 DEF GInv, GType, SlotType, ActorType, QueueType, LeaveFindsMember, Jobs, Ids, WorkerPcs, GroupPcs,
              HoldPcs, MovePcs, Actors, Base, Worker, groupVars, slotVars
<1>2. StageInv'
  <2>1. \A h \in Groups : pc'[h] \in HoldPcs => up'
    BY <1>0 DEF GInv, StageInv
  <2> QED BY <1>0, <2>1 DEF GInv, StageInv, Base, Worker, slotVars
<1>3. WorkerInv'
  BY <1>0 DEF WorkerInv, MovePcs, Worker
<1>4. ASSUME NEW h \in Groups PROVE GroupOk(h)'
  <2>1. GroupOk(h) /\ pc'[h] = pc[h] /\ arg'[h] = arg[h] /\ jobs'[h] = jobs[h] /\ sessions'[h] = sessions[h]
    BY <1>0 DEF GInv, groupVars
  <2>2. UNCHANGED <<sessionId, groupId, posted, freeIndex, visited>> /\ pc'[Worker] = pc[Worker]
    BY <1>0 DEF slotVars, Worker
  <2> QED BY <1>0, <2>1, <2>2, Untouched
<1> QED BY <1>1, <1>2, <1>3, <1>4 DEF GInv, GType

\* Session::Release posts, or tells the group.
LEMMA DisconnectedStep ==
    ASSUME OwnMoves, GInv, SessionDisconnected
    PROVE  GInv'
<1>0. /\ releasing /\ releasing' = FALSE
      /\ UNCHANGED <<sessionId, up, receiving, groupId, freeIndex, sessions, pc, arg, visited, gone, broken>>
      /\ IF groupId = Base THEN posted' = posted + 1 /\ UNCHANGED jobs
                           ELSE Enqueue(groupId, "leave", sessionId) /\ UNCHANGED posted
  BY DEF SessionDisconnected
<1>1. ~up /\ ~receiving /\ Live /\ ~Live' /\ posted = 0 /\ freeIndex = 0 /\ sessionId \in Ids /\ pc[Worker] = "idle"
  <2>1. ~up /\ Live /\ ~Live'
    BY <1>0 DEF GInv, StageInv, Live
  <2>2. ~receiving /\ posted = 0 /\ freeIndex = 0 /\ sessionId >= 1 /\ pc[Worker] = "idle"
    BY <2>1 DEF GInv, StageInv
  <2> QED BY <2>1, <2>2, WorkerFacts DEF Ids
<1>2. groupId \in Groups \cup {Base} /\ Base \notin Groups
  BY WorkerFacts
<1>3. ActorType' /\ LeaveFindsMember'
  BY <1>0 DEF GInv, GType, ActorType, LeaveFindsMember, WorkerPcs, GroupPcs,
              HoldPcs, MovePcs, Actors, Base, Worker
<1>4. posted' \in 0..1
  BY <1>0, <1>1
<1>5. SlotType'
  <2>1. up' \in BOOLEAN /\ receiving' \in BOOLEAN /\ releasing' \in BOOLEAN
    BY <1>0 DEF GInv, GType, SlotType
  <2>2. posted' \in Nat
    BY <1>4
  <2> QED BY <1>0, <2>1, <2>2 DEF GInv, GType, SlotType, Ids, Base
<1>6. StageInv'
  <2>1. \A h \in Groups : pc'[h] \in HoldPcs => up'
    BY <1>0 DEF GInv, StageInv
  <2>2. ~(up' /\ releasing') /\ (receiving' => up') /\ (pc'[Worker] # "idle" => receiving')
    BY <1>0, <1>1
  <2>3. posted' + freeIndex' <= 1 /\ ~(freeIndex' > 0) /\ sessionId' >= 1
    <3>1. freeIndex' = 0 /\ sessionId' = sessionId
      BY <1>0, <1>1
    <3>2. sessionId >= 1
      BY <1>1, GroupAssumption DEF Ids
    <3>3. posted' = 0 \/ posted' = 1
      BY <1>4
    <3>4. posted' + freeIndex' <= 1 /\ ~(freeIndex' > 0)
      BY <3>1, <3>3
    <3>5. sessionId' >= 1
      BY <3>1, <3>2
    <3> QED BY <3>4, <3>5
  <2>4. groupId' \in visited' \cup {Base} /\ \A i \in gone' : i < sessionId' \/ (i = sessionId' /\ ~Live')
    BY <1>0, <1>1 DEF GInv, StageInv
  <2> QED BY <1>1, <2>1, <2>2, <2>3, <2>4 DEF StageInv, Base, Worker
<1>7. WorkerInv'
  BY <1>0, <1>1 DEF WorkerInv, MovePcs, Worker
<1>8. CASE groupId = Base
  <2>1. UNCHANGED jobs /\ QueueType'
    BY <1>0, <1>8 DEF GInv, GType, QueueType, Jobs, Ids
  <2>2. ASSUME NEW h \in Groups PROVE GroupOk(h)'
    <3>1. GroupOk(h) /\ groupId # h /\ groupId' # h
      BY <1>0, <1>2, <1>8 DEF GInv
    <3> QED BY <1>0, <2>1, <3>1, Elsewhere
  <2> QED BY <1>3, <1>5, <1>6, <1>7, <2>1, <2>2 DEF GInv, GType
<1>9. CASE groupId # Base
  <2> PICK g \in Groups, i \in Ids : g = groupId /\ i = sessionId
    BY <1>1, <1>2, <1>9
  <2>1. Enqueue(g, "leave", i) /\ posted' = 0 /\ UNCHANGED sessions
    BY <1>0, <1>1, <1>9
  <2>2. GroupOk(g) /\ g \in visited
    BY <1>9 DEF GInv, StageInv
  <2>3. ~Leaving(g) /\ Present(g, i)
    <3>1. pc[g] # "set"
      BY <1>1 DEF GInv, StageInv, HoldPcs, MovePcs
    <3> QED BY <1>1, <2>2, <3>1 DEF GroupOk, LeaveOf
  <2>4. ~Has(jobs[g], "leave", i)
    BY <2>3 DEF Leaving
  <2>5. /\ QueueType' /\ Orderly(jobs[g], sessions[g])'
        /\ \A h \in Groups : h # g => jobs'[h] = jobs[h]
        /\ \A u, j : Has(jobs[g], u, j)' <=> Has(jobs[g], u, j) \/ (u = "leave" /\ j = i)
    BY <2>1, <2>3, <2>4, PutsJob
  <2>6. \A j : Present(g, j)' <=> Present(g, j)
    BY <1>0, <2>5 DEF Present
  <2>7. GroupOk(g)'
    <3>1. ~After(g)' /\ ~Sure(g)'
      BY <1>0, <2>3 DEF Leaving, After, Sure
    <3>2. LeaveOf(g)'
      BY <1>0, <1>1, <2>1, <2>2, <3>1 DEF LeaveOf, Worker
    <3>3. IdsOf(g)'
      BY <1>0, <2>2, <2>5 DEF GroupOk, IdsOf, Ids
    <3>4. StaysOf(g)'
      BY <1>0, <2>2, <2>5, <2>6 DEF GroupOk, StaysOf, Ids
    <3>5. MoveOf(g)'
      BY <1>0, <2>2, <2>5 DEF GroupOk, MoveOf, MovePcs, Base
    <3> QED BY <2>5, <3>2, <3>3, <3>4, <3>5 DEF GroupOk
  <2>8. ASSUME NEW h \in Groups PROVE GroupOk(h)'
    <3>1. CASE h = g
      BY <2>7, <3>1
    <3>2. CASE h # g
      <4>1. GroupOk(h) /\ groupId # h /\ groupId' # h /\ jobs'[h] = jobs[h]
        BY <1>0, <2>5, <3>2 DEF GInv
      <4> QED BY <1>0, <4>1, Elsewhere
    <3> QED BY <3>1, <3>2
  <2> QED BY <1>3, <1>5, <1>6, <1>7, <2>5, <2>8 DEF GInv, GType
<1> QED BY <1>8, <1>9

\* OnDisconnect, and the slot is free again.
LEMMA ReleaseExecuteStep ==
    ASSUME OwnMoves, GInv, ReleaseExecute
    PROVE  GInv'
<1>0. /\ posted > 0 /\ posted' = posted - 1 /\ gone' = gone \cup {sessionId} /\ groupId' = Base
      /\ freeIndex' = freeIndex + 1 /\ UNCHANGED sessionVars
      /\ UNCHANGED <<groupVars, pc, arg, visited, broken>>
  BY DEF ReleaseExecute
<1>1. posted \in Nat /\ freeIndex \in Nat /\ sessionId \in 0..MaxLife /\ MaxLife \in Nat
      /\ groupId \in Groups \cup {Base} /\ Base \notin Groups
  BY WorkerFacts
<1>2. ~Live /\ posted + freeIndex <= 1
  BY <1>0 DEF GInv, StageInv
<1>3. posted = 1 /\ freeIndex = 0 /\ posted' = 0 /\ freeIndex' = 1
  BY <1>0, <1>1, <1>2
<1>4. sessionId \in Ids /\ ~up /\ ~receiving /\ pc[Worker] = "idle"
  BY <1>1, <1>2, <1>3 DEF GInv, StageInv, Ids, Live
<1>5. UNCHANGED <<sessionId, up, receiving, releasing, jobs, sessions>> /\ (Live' <=> Live)
  BY <1>0 DEF sessionVars, groupVars, Live
<1>6. ActorType' /\ QueueType' /\ LeaveFindsMember'
  BY <1>0, <1>5 DEF GInv, GType, ActorType, QueueType, LeaveFindsMember, Jobs, Ids, WorkerPcs, GroupPcs,
              HoldPcs, MovePcs, Actors, Base, Worker
<1>7. SlotType'
  <2>1. gone' \subseteq Ids
    BY <1>0, <1>4 DEF GInv, GType, SlotType
  <2> QED BY <1>0, <1>3, <1>5, <2>1 DEF GInv, GType, SlotType, Ids, Base
<1>8. StageInv'
  <2>1. \A h \in Groups : pc'[h] \in HoldPcs => up'
    BY <1>0, <1>5 DEF GInv, StageInv
  <2>2. \A i \in gone' : i < sessionId' \/ (i = sessionId' /\ ~Live')
    BY <1>0, <1>2, <1>5 DEF GInv, StageInv
  <2> QED BY <1>0, <1>2, <1>3, <1>4, <1>5, <2>1, <2>2 DEF GInv, StageInv, Base, Worker
<1>9. WorkerInv'
  BY <1>0, <1>4 DEF WorkerInv, MovePcs, Worker
<1>10. ASSUME NEW h \in Groups PROVE GroupOk(h)'
  <2>1. GroupOk(h) /\ pc'[h] = pc[h] /\ arg'[h] = arg[h] /\ jobs'[h] = jobs[h] /\ sessions'[h] = sessions[h]
    BY <1>0, <1>5 DEF GInv
  <2>2. CASE groupId # h
    BY <1>0, <1>1, <1>5, <2>1, <2>2, Elsewhere
  <2>3. CASE groupId = h
    <3>1. h \in visited /\ groupId' # h
      BY <1>0, <1>1, <2>3 DEF GInv, StageInv
    <3>2. ~Sure(h)
      BY <1>3, <2>1 DEF GroupOk, LeaveOf
    <3>3. (After(h)' <=> After(h)) /\ (Sure(h)' <=> Sure(h)) /\ \A i : Present(h, i)' <=> Present(h, i)
      BY <1>5, <2>1 DEF After, Sure, Present
    <3>4. LeaveOf(h)'
      BY <1>0, <1>5, <2>1, <3>1, <3>2, <3>3 DEF GroupOk, LeaveOf
    <3>5. IdsOf(h)' /\ Orderly(jobs[h], sessions[h])'
      BY <1>5, <2>1 DEF GroupOk, IdsOf, Ids
    <3>6. StaysOf(h)'
      BY <1>2, <1>5, <2>1, <3>3 DEF GroupOk, StaysOf, Ids
    <3>7. pc[h] \notin HoldPcs
      BY <1>4 DEF GInv, StageInv
    <3>8. MoveOf(h)'
      BY <2>1, <3>7 DEF MoveOf, MovePcs, HoldPcs
    <3> QED BY <3>4, <3>5, <3>6, <3>8 DEF GroupOk
  <2> QED BY <2>2, <2>3
<1> QED BY <1>6, <1>7, <1>8, <1>9, <1>10 DEF GInv, GType

\* A new connection is in the slot: no group knows it.
LEMMA AcceptStep ==
    ASSUME OwnMoves, GInv, Accept
    PROVE  GInv'
<1>0. /\ freeIndex > 0 /\ sessionId < MaxLife /\ freeIndex' = freeIndex - 1 /\ sessionId' = sessionId + 1
      /\ up' = TRUE /\ receiving' = TRUE /\ groupId' = Base /\ visited' = {}
      /\ UNCHANGED <<releasing, posted, groupVars, pc, arg, gone, broken>>
  BY DEF Accept
<1>1. posted \in Nat /\ freeIndex \in Nat /\ sessionId \in 0..MaxLife /\ MaxLife \in Nat /\ Base \notin Groups
  BY WorkerFacts
<1>2. ~Live /\ posted + freeIndex <= 1 /\ groupId = Base
  BY <1>0 DEF GInv, StageInv
<1>3. posted = 0 /\ freeIndex' = 0 /\ posted' = 0
  BY <1>0, <1>1, <1>2
<1>4. ~up /\ ~releasing /\ pc[Worker] = "idle" /\ \A h \in Groups : pc[h] \notin HoldPcs
  BY <1>2 DEF GInv, StageInv, Live
<1>5. UNCHANGED <<jobs, sessions>> /\ Live'
  BY <1>0 DEF groupVars, Live
<1>6. ActorType' /\ QueueType' /\ LeaveFindsMember'
  BY <1>0, <1>5 DEF GInv, GType, ActorType, QueueType, LeaveFindsMember, Jobs, Ids, WorkerPcs, GroupPcs,
              HoldPcs, MovePcs, Actors, Base, Worker
<1>7. SlotType'
  <2>1. up' \in BOOLEAN /\ receiving' \in BOOLEAN /\ releasing' \in BOOLEAN
    BY <1>0 DEF GInv, GType, SlotType
  <2>2. sessionId' \in 0..MaxLife /\ gone' \subseteq Ids
    BY <1>0, <1>1 DEF GInv, GType, SlotType, Ids
  <2> QED BY <1>0, <1>3, <2>1, <2>2 DEF SlotType, Ids, Base
<1>8. StageInv'
  <2>1. \A i \in gone' : i < sessionId'
    <3> SUFFICES ASSUME NEW i \in gone PROVE i < sessionId + 1
      BY <1>0
    <3>1. i \in Ids /\ (i < sessionId \/ i = sessionId)
      BY DEF GInv, GType, SlotType, StageInv
    <3> QED BY <1>1, <3>1 DEF Ids
  <2>2. ~(up' /\ releasing') /\ (receiving' => up') /\ (pc'[Worker] # "idle" => receiving')
    BY <1>0, <1>4
  <2>3. \A h \in Groups : pc'[h] \in HoldPcs => up'
    BY <1>0
  <2>4. sessionId' >= 1
    BY <1>0, <1>1
  <2>5. groupId' \in visited' \cup {Base}
    BY <1>0
  <2>6. posted' + freeIndex' <= 1 /\ ~(freeIndex' > 0)
    BY <1>3
  <2> QED BY <1>3, <2>1, <2>2, <2>3, <2>4, <2>5, <2>6 DEF StageInv, Base, Worker
<1>9. WorkerInv'
  BY <1>0, <1>4 DEF WorkerInv, MovePcs, Worker
<1>10. ASSUME NEW h \in Groups PROVE GroupOk(h)'
  <2>1. GroupOk(h) /\ pc'[h] = pc[h] /\ arg'[h] = arg[h] /\ jobs'[h] = jobs[h] /\ sessions'[h] = sessions[h]
        /\ sessions[h] \subseteq Ids /\ arg[h].id \in 0..MaxLife /\ jobs[h] \in Seq(Jobs)
    BY <1>0, <1>5, GroupFacts
  <2>2. ~Sure(h) /\ pc[h] \notin HoldPcs
    BY <1>0, <1>4, <2>1 DEF GroupOk, LeaveOf
  <2> PICK n \in Ids : n = sessionId + 1
    BY <1>0, <1>1 DEF Ids
  <2>3. /\ n \notin sessions[h] /\ arg[h].id # n
        /\ \A type \in {"enter", "leave", "recv"} : ~Has(jobs[h], type, n)
    <3>1. ~(n <= sessionId)
      BY <1>1
    <3> QED BY <2>1, <3>1 DEF GroupOk, IdsOf
  <2>4. sessionId' = n /\ (\A i : Present(h, i)' <=> Present(h, i)) /\ ~Present(h, n)
    BY <1>0, <2>1, <2>3 DEF Present
  <2>5. ~After(h)' /\ ~Sure(h)'
    BY <2>1, <2>2, <2>3, <2>4 DEF After, Sure
  <2>6. Clean(h)'
    BY <2>1, <2>2, <2>3, <2>4, <2>5 DEF Clean, HoldPcs, MovePcs
  <2>7. LeaveOf(h)'
    BY <1>0, <1>1, <2>1, <2>2, <2>5, <2>6 DEF LeaveOf
  <2>8. IdsOf(h)'
    <3>1. \A i \in Ids : i <= sessionId => i <= n
      BY <1>1 DEF Ids
    <3>2. arg[h].id <= n
      BY <1>1, <2>1 DEF GroupOk, IdsOf
    <3>3. \A i \in sessions[h] : i <= n
      BY <2>1, <3>1 DEF GroupOk, IdsOf
    <3>4. \A i \in Ids, type \in {"enter", "leave", "recv"} : Has(jobs[h], type, i) => i <= n
      BY <2>1, <3>1 DEF GroupOk, IdsOf
    <3> QED BY <2>1, <2>4, <3>2, <3>3, <3>4 DEF IdsOf, Ids
  <2>9. StaysOf(h)'
    BY <1>1, <1>2, <2>1, <2>4 DEF GroupOk, StaysOf, Ids
  <2>10. MoveOf(h)' /\ Orderly(jobs[h], sessions[h])'
    BY <2>1, <2>2 DEF GroupOk, MoveOf, MovePcs, HoldPcs
  <2> QED BY <2>7, <2>8, <2>9, <2>10 DEF GroupOk
<1> QED BY <1>6, <1>7, <1>8, <1>9, <1>10 DEF GInv, GType

----------------------------------------------------------------------------
LEMMA InitGInv == ASSUME OwnMoves, Init PROVE GInv
<1>0. Worker \in Actors /\ Groups \subseteq Actors /\ Base \notin Groups /\ MaxLife \in Nat
  BY Names, GroupAssumption
<1>1. /\ \A a \in Actors : pc[a] = "idle" /\ arg[a].id = 0
      /\ \A g \in Groups : jobs[g] = <<>> /\ sessions[g] = {} /\ pc[g] = "idle" /\ arg[g].id = 0
  BY <1>0 DEF Init
<1>2. SlotType
  <2>1. up \in BOOLEAN /\ receiving \in BOOLEAN /\ releasing \in BOOLEAN
    BY DEF Init
  <2> QED BY <1>0, <2>1 DEF Init, SlotType, Base
<1>3. ActorType
  BY <1>0 DEF Init, ActorType, WorkerPcs, GroupPcs
<1>4. QueueType
  BY DEF Init, QueueType
<1>5. StageInv
  BY <1>0, <1>1 DEF Init, StageInv, Live, HoldPcs, MovePcs
<1>6. WorkerInv /\ LeaveFindsMember
  <2>1. pc[Worker] = "idle" /\ broken = {}
    BY <1>0, <1>1 DEF Init
  <2> QED BY <2>1 DEF WorkerInv, LeaveFindsMember, MovePcs
<1>7. ASSUME NEW g \in Groups PROVE GroupOk(g)
  <2>1. Len(jobs[g]) = 0
    BY <1>1
  <2>2. \A type, i : ~Has(jobs[g], type, i)
    BY <2>1 DEF Has
  <2>3. (\A i : ~Present(g, i)) /\ ~After(g) /\ ~Sure(g) /\ pc[g] \notin HoldPcs
    BY <1>1, <2>2 DEF Present, After, Sure, HoldPcs, MovePcs
  <2>4. Orderly(jobs[g], sessions[g])
    BY <2>1 DEF Orderly, Once, NewEnter, LeaveAfter
  <2>5. IdsOf(g)
    BY <1>1, <2>2 DEF IdsOf, Init
  <2>6. StaysOf(g) /\ MoveOf(g)
    BY <2>3 DEF StaysOf, MoveOf, HoldPcs, MovePcs
  <2>7. Clean(g)
    BY <2>2, <2>3 DEF Clean
  <2>8. LeaveOf(g)
    BY <1>0, <1>1, <2>3, <2>7 DEF LeaveOf, Init
  <2> QED BY <2>4, <2>5, <2>6, <2>8 DEF GroupOk
<1> QED BY <1>2, <1>3, <1>4, <1>5, <1>6, <1>7 DEF GInv, GType

LEMMA GroupStep ==
    ASSUME OwnMoves, GInv, NEW g \in Groups, HandleJob(g) \/ MoveSession(g)
    PROVE  GInv'
<1>1. CASE RecvRead(g)
  <2>1. CASE Goto(g, "idle") /\ UNCHANGED arg
    BY <1>1, <2>1, LookSteps
  <2>2. CASE groupId = g /\ \E dst \in Groups \cup {Base} : MoveFind(g, dst)
    <3>1. PICK dst : MoveFind(g, dst)
      BY <2>2
    <3>2. /\ pc[g] = "read" /\ UNCHANGED sessionVars
          /\ UNCHANGED <<groupId, slotVars, groupVars, visited, gone, broken>>
      BY <1>1 DEF RecvRead
    <3> QED BY <2>2, <3>1, <3>2, ReadMoves
  <2> QED BY <1>1, <2>1, <2>2 DEF RecvRead
<1> QED BY <1>1, EnterStep, LeaveStep, RecvStep, LookSteps, AssertStep, LeavePosted, GroupSets
     DEF HandleJob, MoveSession

LEMMA NextGInv == ASSUME OwnMoves, GInv, [Next]_vars PROVE GInv'
<1>1. CASE UNCHANGED vars
  <2>1. ASSUME NEW h \in Groups PROVE GroupOk(h)'
    <3>1. GroupOk(h) /\ (Live' <=> Live) /\ UNCHANGED <<pc, arg, jobs, sessions, sessionId, groupId, posted, freeIndex, visited>>
      BY <1>1 DEF GInv, Live, vars, sessionVars, slotVars, groupVars
    <3> QED BY <3>1, Untouched
  <2>2. GType'
    BY <1>1 DEF GInv, GType, SlotType, ActorType, QueueType, Jobs, Ids, WorkerPcs, GroupPcs, HoldPcs, MovePcs,
                Actors, Base, Worker, vars, sessionVars, slotVars, groupVars
  <2>3. StageInv'
    BY <1>1 DEF GInv, StageInv, Live, HoldPcs, MovePcs, Base, Worker, vars, sessionVars, slotVars
  <2>4. WorkerInv' /\ LeaveFindsMember'
    BY <1>1 DEF GInv, WorkerInv, LeaveFindsMember, MovePcs, Base, Worker, vars, sessionVars
  <2> QED BY <2>1, <2>2, <2>3, <2>4 DEF GInv
<1>2. CASE \E a \in Actors : MoveSession(a)
  <2>1. PICK a \in Actors : MoveSession(a)
    BY <1>2
  <2>2. a = Worker \/ a \in Groups
    BY Names
  <2> QED BY <2>1, <2>2, GroupStep, WorkerLeaves, WorkerSets, WorkerEnters DEF MoveSession
<1>3. CASE \E t \in Movers : MoveCall(t)
  BY <1>3 DEF OwnMoves
<1>4. CASE \E g \in Groups : HandleJob(g)
  BY <1>4, GroupStep
<1> QED BY <1>1, <1>2, <1>3, <1>4, AcceptStep, ExecuteStep, HandlerStep, OnRecvStep, EndSteps, DisconnectedStep,
           ReleaseExecuteStep DEF Next

----------------------------------------------------------------------------
\* The invariant holds: for content that moves a session from its own callbacks, by
\* way of no group and never back (MoveSession, Group::Update, Session::Release).
THEOREM GroupInvariance == OwnMoves => (Spec => []GInv)
<1> SUFFICES ASSUME OwnMoves PROVE Spec => []GInv
  OBVIOUS
<1>1. Init => GInv
  BY InitGInv
<1>2. GInv /\ [Next]_vars => GInv'
  BY NextGInv
<1> QED BY <1>1, <1>2, PTL DEF Spec

\* One ReleaseExecutable is posted for a connection, by Session::Release or by the
\* group's CheckPostRelease, never by both (Session.cpp Release, Group.cpp
\* CheckPostRelease).
THEOREM GroupReleasesOnce == OwnMoves => (Spec => []ReleasedOnce)
<1> SUFFICES ASSUME OwnMoves PROVE Spec => []ReleasedOnce
  OBVIOUS
<1>1. GInv => ReleasedOnce
  <2> SUFFICES ASSUME GInv PROVE ReleasedOnce
    OBVIOUS
  <2>1. posted \in Nat /\ freeIndex \in Nat
    BY WorkerFacts
  <2>2. CASE Live
    BY <2>1, <2>2 DEF GInv, StageInv, Live, ReleasedOnce
  <2>3. CASE ~Live
    BY <2>1, <2>3 DEF GInv, StageInv, Live, ReleasedOnce
  <2> QED BY <2>2, <2>3
<1> QED BY <1>1, GroupInvariance, PTL

\* Who is in a queue to stay has its Leave job last.
LEMMA LeaveIsLast ==
    ASSUME NEW q \in Seq(Jobs), NEW S, Orderly(q, S), NEW i, NEW k \in 1..Len(q),
           q[k] = [type |-> "leave", id |-> i], NEW j \in 1..Len(q), q[j].type # "recv", q[j].id = i
    PROVE  j <= k
<1>1. q[k].type = "leave" /\ q[k].id = i
  OBVIOUS
<1>2. q[j] \in Jobs /\ Len(q) \in Nat
  BY ElementOfSeq, LenProperties
<1>3. q[j] = [type |-> q[j].type, id |-> i] /\ q[j].type \in {"enter", "leave"}
  BY <1>2 DEF Jobs
<1>4. CASE q[j].type = "leave"
  <2>1. q[j] = q[k]
    BY <1>3, <1>4
  <2>2. j = k
    BY <2>1 DEF Orderly, Once
  <2> QED BY <1>2, <2>2
<1>5. CASE q[j].type = "enter"
  <2>1. i \notin S
    BY <1>5 DEF Orderly, NewEnter
  <2>2. PICK l \in 1..(k - 1) : q[l] = [type |-> "enter", id |-> i]
    BY <1>1, <2>1 DEF Orderly, LeaveAfter
  <2>3. l \in 1..Len(q) /\ l <= k
    BY <1>2
  <2>4. l = j
    BY <1>3, <1>5, <2>2, <2>3 DEF Orderly, Once
  <2> QED BY <2>3, <2>4
<1> QED BY <1>3, <1>4, <1>5

\* Without an Enter and a Leave job of a session nothing of it is queued but Recv jobs.
LEMMA NoVisit ==
    ASSUME NEW g \in Groups, NEW i \in Ids, jobs[g] \in Seq(Jobs),
           ~Present(g, i), ~Has(jobs[g], "leave", i)
    PROVE  Visits(g, i) = {}
<1> SUFFICES ASSUME NEW j \in Visits(g, i) PROVE FALSE
  OBVIOUS
<1>1. j \in 1..Len(jobs[g]) /\ jobs[g][j].type # "recv" /\ jobs[g][j].id = i
  BY DEF Visits
<1>2. jobs[g][j] \in Jobs
  BY <1>1, ElementOfSeq
<1>3. jobs[g][j] = [type |-> jobs[g][j].type, id |-> i] /\ jobs[g][j].type \in {"enter", "leave"}
  BY <1>1, <1>2 DEF Jobs
<1> QED BY <1>1, <1>3 DEF Has, Present

\* A session that is gone is no member for good: the group that has it, or lets it
\* enter, has its Leave job behind that (GroupManager.cpp SessionDisconnected).
THEOREM GroupHasNoGhost == OwnMoves => (Spec => []NoGhostMember)
<1> SUFFICES ASSUME OwnMoves PROVE Spec => []NoGhostMember
  OBVIOUS
<1>1. GInv => NoGhostMember
  <2> SUFFICES ASSUME GInv, NEW i \in gone, NEW g \in Groups
               PROVE  \/ Visits(g, i) = {} /\ i \notin sessions[g]
                      \/ \E k \in Visits(g, i) : /\ \A j \in Visits(g, i) : j <= k
                                                 /\ jobs[g][k].type = "leave"
    BY DEF NoGhostMember
  <2>1. GroupOk(g) /\ jobs[g] \in Seq(Jobs) /\ Orderly(jobs[g], sessions[g])
    BY GroupFacts
  <2>2. i \in Ids /\ (i < sessionId \/ (i = sessionId /\ ~Live)) /\ sessionId \in 0..MaxLife
    BY DEF GInv, GType, SlotType, StageInv
  <2>3. i # sessionId \/ ~Live
    BY <2>2 DEF Ids
  <2>4. CASE Has(jobs[g], "leave", i)
    <3>1. PICK k \in 1..Len(jobs[g]) : jobs[g][k] = [type |-> "leave", id |-> i]
      BY <2>4 DEF Has
    <3>2. jobs[g][k].type = "leave" /\ jobs[g][k].id = i
      BY <3>1
    <3>3. ASSUME NEW j \in Visits(g, i) PROVE j <= k
      <4>1. j \in 1..Len(jobs[g]) /\ jobs[g][j].type # "recv" /\ jobs[g][j].id = i
        BY DEF Visits
      <4> QED BY <2>1, <3>1, <4>1, LeaveIsLast
    <3>4. k \in Visits(g, i)
      BY <3>2 DEF Visits
    <3> QED BY <3>2, <3>3, <3>4
  <2>5. CASE ~Has(jobs[g], "leave", i)
    <3>1. ~Present(g, i)
      BY <2>1, <2>2, <2>3, <2>5 DEF GroupOk, StaysOf
    <3> QED BY <2>1, <2>2, <2>5, <3>1, NoVisit DEF Present
  <2> QED BY <2>4, <2>5
<1> QED BY <1>1, GroupInvariance, PTL

\* OnLeave comes before OnDisconnect: CheckPostRelease, which alone posts the release
\* of a session in a group, runs once the group is done with the session.
THEOREM GroupLeftBeforeDisconnect == OwnMoves => (Spec => []LeftBeforeDisconnect)
<1> SUFFICES ASSUME OwnMoves PROVE Spec => []LeftBeforeDisconnect
  OBVIOUS
<1>1. GInv => LeftBeforeDisconnect
  <2> SUFFICES ASSUME GInv, posted > 0, groupId # Base
               PROVE  sessionId \notin sessions[groupId] /\ Visits(groupId, sessionId) = {}
    BY DEF LeftBeforeDisconnect
  <2>1. groupId \in Groups /\ posted \in Nat /\ freeIndex \in Nat
    BY DEF GInv, GType, SlotType
  <2>2. ~Live /\ freeIndex = 0
    BY <2>1 DEF GInv, StageInv
  <2>3. GroupOk(groupId) /\ jobs[groupId] \in Seq(Jobs) /\ sessionId \in Ids
    BY <2>1, <2>2, GroupFacts DEF GInv, StageInv, Ids
  <2>4. ~Has(jobs[groupId], "leave", sessionId)
    BY <2>3 DEF GroupOk, LeaveOf, Leaving
  <2>5. ~Present(groupId, sessionId)
    BY <2>2, <2>3, <2>4 DEF GroupOk, StaysOf
  <2> QED BY <2>1, <2>3, <2>4, <2>5, NoVisit DEF Present
<1> QED BY <1>1, GroupInvariance, PTL
===============================================================================
