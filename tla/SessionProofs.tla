---------------------------- MODULE SessionProofs ----------------------------
(***************************************************************************)
(* Proofs about Session: reference counts are exact, a slot is released     *)
(* once, a session that was found stays, no socket closes under I/O.  At    *)
(* the end, what the content sees: OnConnect and OnDisconnect come once     *)
(* each and in this order for every id, and _sessionCount counts the        *)
(* sessions between the two.                                                *)
(***************************************************************************)
EXTENDS Session, FiniteSetTheorems, TLAPS

\* What OneReceive bounds.
Receivers == Cardinality(At(RecvPcs)) + (IF recvIo = "none" THEN 0 ELSE 1)

\* 1 if a thread at point a counts for the set of points P.
Counts(a, P) == IF a \in P THEN 1 ELSE 0

\* The threads are finitely many, so sets of threads have a cardinality.
LEMMA AtFinite ==
    ASSUME NEW P
    PROVE  IsFiniteSet(At(P)) /\ Cardinality(At(P)) \in Nat
<1>1. IsFiniteSet(Workers \cup Callers)
  BY FS_Union, SessionAssumption
<1>2. IsFiniteSet(Threads)
  BY <1>1, FS_AddElement DEF Threads
<1>3. IsFiniteSet(At(P))
  BY <1>2, FS_Subset DEF At
<1> QED BY <1>3, FS_CardinalityType

\* A step of one thread from a point to another changes the number of threads
\* at P by what the two points count for P.
LEMMA MoveCounts ==
    ASSUME pc \in [Threads -> Pcs], NEW t \in Threads, NEW l, Goto(t, l), NEW P
    PROVE  /\ Cardinality(At(P)') = Cardinality(At(P)) + Counts(l, P) - Counts(pc[t], P)
           /\ Cardinality(At(P)') \in Nat
           /\ Cardinality(At(P)) \in Nat
<1>1. IsFiniteSet(At(P)) /\ Cardinality(At(P)) \in Nat
  BY AtFinite
<1>2. CASE l \in P
  <2>1. At(P)' = At(P) \cup {t}
    BY <1>2 DEF Goto, At
  <2>2. t \in At(P) <=> pc[t] \in P
    BY DEF At
  <2> QED BY <1>1, <1>2, <2>1, <2>2, FS_AddElement, FS_CardinalityType DEF Counts
<1>3. CASE l \notin P
  <2>1. At(P)' = At(P) \ {t}
    BY <1>3 DEF Goto, At
  <2>2. t \in At(P) <=> pc[t] \in P
    BY DEF At
  <2> QED BY <1>1, <1>3, <2>1, <2>2, FS_RemoveElement, FS_CardinalityType DEF Counts
<1> QED BY <1>2, <1>3

\* A thread at P counts for at least one, two threads for at least two.
LEMMA MemberCounts ==
    ASSUME NEW P, NEW t \in Threads, pc[t] \in P
    PROVE  /\ Cardinality(At(P)) >= 1
           /\ \A u \in Threads : u # t /\ pc[u] \in P => Cardinality(At(P)) >= 2
<1>1. IsFiniteSet(At(P)) /\ t \in At(P)
  BY AtFinite DEF At
<1>2. /\ IsFiniteSet(At(P) \ {t})
      /\ Cardinality(At(P) \ {t}) = Cardinality(At(P)) - 1
      /\ Cardinality(At(P) \ {t}) \in Nat /\ Cardinality(At(P)) \in Nat
  BY <1>1, FS_RemoveElement, FS_CardinalityType
<1>3. ASSUME NEW u \in Threads, u # t, pc[u] \in P
      PROVE  Cardinality(At(P)) >= 2
  <2>1. u \in At(P) \ {t}
    BY <1>3 DEF At
  <2>2. Cardinality((At(P) \ {t}) \ {u}) = Cardinality(At(P) \ {t}) - 1
        /\ Cardinality((At(P) \ {t}) \ {u}) \in Nat
    BY <1>2, <2>1, FS_RemoveElement, FS_CardinalityType
  <2> QED BY <1>2, <2>2
<1> QED BY <1>2, <1>3

\* The sums Held and Owners in terms of three numbers.
LEMMA Numbers ==
    ASSUME TypeOK
    PROVE  /\ Cardinality(At(HoldPcs)) \in Nat
           /\ Cardinality(At(Hold2Pcs)) \in Nat
           /\ Cardinality(At(OwnPcs)) \in Nat
           /\ Held \in Nat /\ Owners \in Nat
<1>1. /\ Cardinality(At(HoldPcs)) \in Nat
      /\ Cardinality(At(Hold2Pcs)) \in Nat
      /\ Cardinality(At(OwnPcs)) \in Nat
  BY AtFinite
<1> QED BY <1>1 DEF TypeOK, Held, Owners

\* How Held, Owners and Receivers change when thread t moves.
Accounts(t) ==
    /\ Held' = Held + Counts(pc'[t], HoldPcs) - Counts(pc[t], HoldPcs)
                + Counts(pc'[t], Hold2Pcs) - Counts(pc[t], Hold2Pcs)
                + (IF recvIo' = "none" THEN 0 ELSE 1)
                - (IF recvIo = "none" THEN 0 ELSE 1)
                + sendIo' - sendIo
    /\ Owners' = Owners + Counts(pc'[t], OwnPcs) - Counts(pc[t], OwnPcs)
                + releasePosted' - releasePosted + freeIndex' - freeIndex
    /\ Receivers' = Receivers + Counts(pc'[t], RecvPcs) - Counts(pc[t], RecvPcs)
                + (IF recvIo' = "none" THEN 0 ELSE 1)
                - (IF recvIo = "none" THEN 0 ELSE 1)
    /\ Receivers \in Nat /\ Held \in Nat /\ Owners \in Nat
    /\ Held' \in Nat /\ Owners' \in Nat

\* The sums change by what the moving thread's points count and by the I/O,
\* the queued releases and the free-index entries it changes.
LEMMA Sums ==
    ASSUME TypeOK, TypeOK', NEW t \in Threads, Goto(t, pc'[t])
    PROVE  Accounts(t)
<1> DEFINE l == pc'[t]
<1> HIDE DEF l
<1>00. Goto(t, l) /\ sendIo' \in Nat /\ releasePosted' \in Nat /\ freeIndex' \in Nat
  BY DEF TypeOK, l
<1>0. pc \in [Threads -> Pcs]
  BY DEF TypeOK
<1>1. /\ Cardinality(At(HoldPcs)') = Cardinality(At(HoldPcs)) + Counts(l, HoldPcs) - Counts(pc[t], HoldPcs)
      /\ Cardinality(At(Hold2Pcs)') = Cardinality(At(Hold2Pcs)) + Counts(l, Hold2Pcs) - Counts(pc[t], Hold2Pcs)
      /\ Cardinality(At(OwnPcs)') = Cardinality(At(OwnPcs)) + Counts(l, OwnPcs) - Counts(pc[t], OwnPcs)
      /\ Cardinality(At(HoldPcs)') \in Nat /\ Cardinality(At(Hold2Pcs)') \in Nat
      /\ Cardinality(At(OwnPcs)') \in Nat
  BY <1>00, <1>0, MoveCounts
<1>2. HoldPcs' = HoldPcs /\ Hold2Pcs' = Hold2Pcs /\ OwnPcs' = OwnPcs
  BY DEF HoldPcs, Hold2Pcs, OwnPcs
<1>4. /\ Cardinality(At(HoldPcs)) \in Nat
      /\ Cardinality(At(Hold2Pcs)) \in Nat
      /\ Cardinality(At(OwnPcs)) \in Nat
      /\ Held \in Nat /\ Owners \in Nat
  BY Numbers
<1>5. sendIo \in Nat /\ releasePosted \in Nat /\ freeIndex \in Nat
  BY DEF TypeOK
<1> DEFINE h == Cardinality(At(HoldPcs))  h2 == Cardinality(At(Hold2Pcs))
           o == Cardinality(At(OwnPcs))
<1>6. /\ Held = h + h2 + (IF recvIo = "none" THEN 0 ELSE 1) + sendIo
      /\ Held' = h' + h2' + (IF recvIo' = "none" THEN 0 ELSE 1) + sendIo'
      /\ Owners = o + releasePosted + freeIndex
      /\ Owners' = o' + releasePosted' + freeIndex'
  BY DEF Held, Owners
<1>7. /\ Counts(l, HoldPcs) \in {0, 1} /\ Counts(pc[t], HoldPcs) \in {0, 1}
      /\ Counts(l, Hold2Pcs) \in {0, 1} /\ Counts(pc[t], Hold2Pcs) \in {0, 1}
      /\ Counts(l, OwnPcs) \in {0, 1} /\ Counts(pc[t], OwnPcs) \in {0, 1}
  BY DEF Counts
<1> HIDE DEF h, h2, o
<1>8. /\ h' = h + Counts(l, HoldPcs) - Counts(pc[t], HoldPcs)
      /\ h2' = h2 + Counts(l, Hold2Pcs) - Counts(pc[t], Hold2Pcs)
      /\ o' = o + Counts(l, OwnPcs) - Counts(pc[t], OwnPcs)
      /\ h \in Nat /\ h2 \in Nat /\ o \in Nat
      /\ h' \in Nat /\ h2' \in Nat /\ o' \in Nat
  BY <1>1, <1>2, <1>4 DEF h, h2, o
<1> DEFINE r == IF recvIo = "none" THEN 0 ELSE 1
<1>9. r \in {0, 1} /\ r' \in {0, 1}
  OBVIOUS
<1>10. Held = h + h2 + r + sendIo /\ Held' = h' + h2' + r' + sendIo'
  BY <1>6
<1>11. /\ Held' = Held + Counts(l, HoldPcs) - Counts(pc[t], HoldPcs)
                       + Counts(l, Hold2Pcs) - Counts(pc[t], Hold2Pcs)
                       + r' - r + sendIo' - sendIo
       /\ Held \in Nat /\ Held' \in Nat
  <2> HIDE DEF r
  <2> QED BY <1>00, <1>5, <1>7, <1>8, <1>9, <1>10
<1>12. /\ Owners' = Owners + Counts(l, OwnPcs) - Counts(pc[t], OwnPcs)
                       + releasePosted' - releasePosted + freeIndex' - freeIndex
       /\ Owners \in Nat /\ Owners' \in Nat
  BY <1>00, <1>5, <1>6, <1>7, <1>8
<1>13. /\ Cardinality(At(RecvPcs)') = Cardinality(At(RecvPcs)) + Counts(l, RecvPcs) - Counts(pc[t], RecvPcs)
       /\ Cardinality(At(RecvPcs)) \in Nat /\ Cardinality(At(RecvPcs)') \in Nat
  BY <1>00, <1>0, MoveCounts
<1>14. /\ Receivers' = Receivers + Counts(l, RecvPcs) - Counts(pc[t], RecvPcs) + r' - r
       /\ Receivers \in Nat
  <2>1. /\ Receivers = Cardinality(At(RecvPcs)) + r
        /\ Receivers' = Cardinality(At(RecvPcs)') + r'
    BY DEF Receivers
  <2>2. Counts(l, RecvPcs) \in {0, 1} /\ Counts(pc[t], RecvPcs) \in {0, 1}
    BY DEF Counts
  <2> HIDE DEF r
  <2> QED BY <1>9, <1>13, <2>1, <2>2
<1> QED BY <1>11, <1>12, <1>14 DEF Accounts, l

\* What each point counts for.
LEMMA Points ==
    /\ \A a \in {"idle", "recvRecheck", "find", "cas", "accCount", "timeout", "report"} :
          Counts(a, HoldPcs) = 0 /\ Counts(a, Hold2Pcs) = 0
          /\ Counts(a, OwnPcs) = 0 /\ Counts(a, RecvPcs) = 0
    /\ \A a \in {"findCheck", "hold", "cancel", "dec",
                 "sendPost", "spin", "postSend", "trySend", "nestedInc"} :
          Counts(a, HoldPcs) = 1 /\ Counts(a, Hold2Pcs) = 0
          /\ Counts(a, OwnPcs) = 0 /\ Counts(a, RecvPcs) = 0
    /\ \A a \in {"accConnect", "accOnConnect", "recvCheck", "recvPost", "recvClose", "recvCancel"} :
          Counts(a, HoldPcs) = 1 /\ Counts(a, Hold2Pcs) = 0
          /\ Counts(a, OwnPcs) = 0 /\ Counts(a, RecvPcs) = 1
    /\ \A a \in {"nestedPost", "nestedSpin", "nestedDec"} :
          Counts(a, HoldPcs) = 1 /\ Counts(a, Hold2Pcs) = 1
          /\ Counts(a, OwnPcs) = 0 /\ Counts(a, RecvPcs) = 0
    /\ \A a \in {"post", "relReset", "relPush", "accReset", "accInc"} :
          Counts(a, HoldPcs) = 0 /\ Counts(a, Hold2Pcs) = 0
          /\ Counts(a, OwnPcs) = 1 /\ Counts(a, RecvPcs) = 0
    /\ \A a \in {"accInstall", "accOffFlag"} :
          Counts(a, HoldPcs) = 1 /\ Counts(a, Hold2Pcs) = 0
          /\ Counts(a, OwnPcs) = 1 /\ Counts(a, RecvPcs) = 0
BY DEF Counts, HoldPcs, Hold2Pcs, OwnPcs, RecvPcs

----------------------------------------------------------------------------
\* A step of one thread that leaves the owners, the id and the socket alone
\* and counts what it takes keeps the invariant, if the point it reaches is
\* one it may be at.
LEMMA Keep ==
    ASSUME IInv, TypeOK', NEW t \in Threads, Goto(t, pc'[t]),
           Owners' = Owners,
           refCount' - refCount = Held' - Held,
           sessionId' = sessionId, socket' = socket,
           \A u \in Threads : u # t => call'[u] = call[u],
           pc'[t] \in PinPcs \/ (pc'[t] = "findCheck" /\ call'[t].inc <= ReleaseFlag)
             => Owners = 0,
           pc'[t] = "hold" => sessionId = call'[t].id /\ socket = call'[t].id,
           recvIo' # "none" \/ sendIo' > 0 => Owners = 0,
           Receivers' <= 1,
           pc'[t] # "accOffFlag"
    PROVE  IInv'
<1>1. /\ TypeOK /\ RefCountExact /\ ReleasedOnce /\ FoundSessionStays /\ OneReceive /\ Pinned
  BY DEF IInv
<1>2. /\ Held \in Nat /\ Owners \in Nat
  BY <1>1, Numbers
<1>3. Held' \in Nat /\ Owners' \in Nat
  BY <1>1, Sums DEF Accounts
<1>4. refCount \in Nat /\ refCount' \in Nat /\ ReleaseFlag \in Nat
  BY <1>1, SessionAssumption DEF TypeOK
<1>5. RefCountExact'
  <2>1. PICK h \in Nat, k \in Nat : h = Held /\ k = Held'
    BY <1>2, <1>3
  <2>2. PICK f \in Nat : f = IF Owners = 0 THEN 0 ELSE ReleaseFlag
    BY <1>4
  <2>3. PICK m \in Nat, n \in Nat : m = refCount /\ n = refCount'
    BY <1>4
  <2>4. m = h + f /\ n - m = k - h
    BY <1>1, <2>1, <2>2, <2>3 DEF RefCountExact
  <2>5. n = k + f
    BY <2>4
  <2> QED BY <2>1, <2>2, <2>3, <2>5 DEF RefCountExact
<1>6. ReleasedOnce'
  BY <1>1 DEF ReleasedOnce
<1>7. \A u \in Threads : u # t => pc'[u] = pc[u]
  BY <1>1 DEF Goto, TypeOK
<1>8. FoundSessionStays'
  <2> SUFFICES ASSUME NEW u \in Threads, pc'[u] = "hold"
               PROVE  sessionId' = call'[u].id /\ socket' = call'[u].id /\ Owners' = 0
    BY DEF FoundSessionStays
  <2>1. CASE u = t
    BY <2>1 DEF PinPcs, HoldPcs
  <2>2. CASE u # t
    BY <2>2, <1>1, <1>7 DEF FoundSessionStays
  <2> QED BY <2>1, <2>2
<1>9. Pinned'
  <2>1. ASSUME NEW u \in Threads,
               pc'[u] \in PinPcs \/ (pc'[u] = "findCheck" /\ call'[u].inc <= ReleaseFlag)
        PROVE  Owners' = 0
    <3>1. CASE u = t
      BY <2>1, <3>1
    <3>2. CASE u # t
      BY <2>1, <3>2, <1>1, <1>7 DEF Pinned
    <3> QED BY <3>1, <3>2
  <2>2. recvIo' # "none" \/ sendIo' > 0 => Owners' = 0
    OBVIOUS
  <2>3. Owners' = 0 \/ pc'[Acceptor] = "accOffFlag" => socket' = sessionId'
    <3>1. pc'[Acceptor] = "accOffFlag" => pc[Acceptor] = "accOffFlag"
      BY <1>7 DEF Threads
    <3> QED BY <3>1, <1>1 DEF Pinned
  <2> QED BY <2>1, <2>2, <2>3 DEF Pinned, PinPcs, HoldPcs
<1>10. OneReceive'
  BY DEF OneReceive, Receivers
<1> QED BY <1>5, <1>6, <1>8, <1>9, <1>10 DEF IInv

----------------------------------------------------------------------------
\* What IInv says about the thread that moves, as numbers.
LEMMA Facts ==
    ASSUME IInv, NEW t \in Threads
    PROVE  /\ Held \in Nat /\ Owners \in {0, 1} /\ refCount \in Nat
           /\ ReleaseFlag \in Nat /\ ReleaseFlag >= 1
           /\ refCount = Held + (IF Owners = 0 THEN 0 ELSE ReleaseFlag)
           /\ pc[t] \in HoldPcs => Held >= 1
           /\ pc[t] \in Hold2Pcs => Held >= 2
           /\ pc[t] \in OwnPcs => Owners = 1 /\ releasePosted = 0 /\ freeIndex = 0
           /\ pc[t] \in PinPcs => Owners = 0
           /\ recvIo # "none" \/ sendIo > 0 => Owners = 0
           /\ releasePosted > 0 \/ freeIndex > 0 => Owners = 1
           /\ Receivers \in {0, 1}
           /\ pc[t] \in RecvPcs => Receivers = 1 /\ recvIo = "none"
           /\ Owners = 1 => Receivers = 0
<1>1. /\ TypeOK /\ RefCountExact /\ ReleasedOnce /\ FoundSessionStays /\ OneReceive /\ Pinned
  BY DEF IInv
<1>2. /\ Held \in Nat /\ Owners \in Nat
      /\ Cardinality(At(OwnPcs)) \in Nat
      /\ Cardinality(At(HoldPcs)) \in Nat
      /\ Cardinality(At(Hold2Pcs)) \in Nat
  BY <1>1, Numbers
<1>3. Owners \in {0, 1}
  BY <1>1, <1>2 DEF ReleasedOnce
<1>4. /\ pc[t] \in OwnPcs => Cardinality(At(OwnPcs)) >= 1
      /\ pc[t] \in HoldPcs => Cardinality(At(HoldPcs)) >= 1
      /\ pc[t] \in Hold2Pcs => Cardinality(At(Hold2Pcs)) >= 1 /\ pc[t] \in HoldPcs
  BY MemberCounts DEF Hold2Pcs, HoldPcs
<1>5. /\ pc[t] \in HoldPcs => Held >= 1
      /\ pc[t] \in Hold2Pcs => Held >= 2
  BY <1>1, <1>2, <1>4 DEF Held, TypeOK
<1>6. /\ pc[t] \in OwnPcs => Owners = 1 /\ releasePosted = 0 /\ freeIndex = 0
      /\ releasePosted > 0 \/ freeIndex > 0 => Owners = 1
  BY <1>1, <1>2, <1>3, <1>4 DEF Owners, TypeOK
<1>7. Cardinality(At(RecvPcs)) \in Nat /\ (pc[t] \in RecvPcs => Cardinality(At(RecvPcs)) >= 1)
  BY AtFinite, MemberCounts
<1>8. Receivers \in {0, 1} /\ (pc[t] \in RecvPcs => Receivers = 1 /\ recvIo = "none")
  BY <1>1, <1>7 DEF OneReceive, Receivers
<1>9. ASSUME Owners = 1 PROVE Receivers = 0
  <2>1. At(RecvPcs) = {} /\ recvIo = "none"
    BY <1>1, <1>9 DEF Pinned, At, PinPcs, HoldPcs, RecvPcs
  <2> QED BY <2>1, FS_EmptySet DEF Receivers
<1> QED BY <1>1, <1>2, <1>3, <1>5, <1>6, <1>8, <1>9, SessionAssumption
        DEF RefCountExact, Pinned, TypeOK

----------------------------------------------------------------------------
\* One lemma per action: the action preserves the inductive invariant.

\* A thread that sets its locals keeps the type of call and leaves the other
\* threads' locals alone.
LEMMA LocalsType ==
    ASSUME IInv, NEW t \in Threads, NEW o \in Ops, NEW i \in 0..MaxId, NEW n \in Nat,
           Locals(t, o, i, n)
    PROVE  /\ call' \in [Threads -> Calls]
           /\ call'[t] = [op |-> o, id |-> i, inc |-> n]
           /\ \A u \in Threads : u # t => call'[u] = call[u]
<1>1. call \in [Threads -> Calls] /\ [op |-> o, id |-> i, inc |-> n] \in Calls
  BY DEF IInv, TypeOK, Calls
<1> QED BY <1>1 DEF Locals

\* The same for a thread that is done with its locals.
LEMMA ForgetType ==
    ASSUME IInv, NEW t \in Threads, Forget(t)
    PROVE  /\ call' \in [Threads -> Calls]
           /\ \A u \in Threads : u # t => call'[u] = call[u]
<1>1. "none" \in Ops /\ 0 \in 0..MaxId /\ 0 \in Nat
  BY SessionAssumption DEF Ops
<1> QED BY <1>1, LocalsType DEF Forget

\* Ownership of the slot passes from the free-index stack to the acceptor.
LEMMA AcceptPopStep ==
    ASSUME IInv, AcceptPop
    PROVE  IInv'
<1> USE DEF AcceptPop, slotVars, ioVars, serverVars
<1> DEFINE t == Acceptor
<1>0. t \in Threads
  BY DEF Threads
<1>1. TypeOK'
  BY <1>0, Facts, SessionAssumption
  DEF IInv, TypeOK, Goto, Pcs, HoldPcs, OwnPcs, Ids
<1>2. Goto(t, pc'[t]) /\ pc[t] \in {"idle"} /\ pc'[t] \in {"accReset"}
  BY <1>0, SessionAssumption DEF IInv, TypeOK, Goto
<1>3. Held' = Held /\ Owners' = Owners /\ Receivers' <= 1
  <2>1. Accounts(t)
    BY <1>1, <1>2, <1>0, Sums DEF IInv
  <2> QED BY <1>2, <2>1, <1>0, Points, Facts DEF Accounts, IInv, TypeOK, HoldPcs, OwnPcs, Hold2Pcs, RecvPcs, PinPcs
<1> QED BY <1>1, <1>2, <1>3, <1>0, Facts, Keep
        DEF IInv, TypeOK, HoldPcs, OwnPcs, PinPcs

\* The acceptor's reference is counted under the flag.
LEMMA AcceptIncStep ==
    ASSUME IInv, AcceptInc
    PROVE  IInv'
<1> USE DEF AcceptInc, slotVars, ioVars, serverVars
<1> DEFINE t == Acceptor
<1>0. t \in Threads
  BY DEF Threads
<1>1. TypeOK'
  BY <1>0, Facts, SessionAssumption
  DEF IInv, TypeOK, Goto, Pcs, HoldPcs, OwnPcs, Ids
<1>2. Goto(t, pc'[t]) /\ pc[t] \in {"accInc"} /\ pc'[t] \in {"accInstall"}
  BY <1>0, SessionAssumption DEF IInv, TypeOK, Goto
<1>3. Held' = Held + 1 /\ Owners' = Owners /\ Receivers' <= 1
  <2>1. Accounts(t)
    BY <1>1, <1>2, <1>0, Sums DEF IInv
  <2> QED BY <1>2, <2>1, <1>0, Points, Facts DEF Accounts, IInv, TypeOK, HoldPcs, OwnPcs, Hold2Pcs, RecvPcs, PinPcs
<1> QED BY <1>1, <1>2, <1>3, <1>0, Facts, Keep
        DEF IInv, TypeOK, HoldPcs, OwnPcs, PinPcs

\* _connect = true touches neither references nor owners.
LEMMA AcceptConnectStep ==
    ASSUME IInv, AcceptConnect
    PROVE  IInv'
<1> USE DEF AcceptConnect, slotVars, ioVars, serverVars
<1> DEFINE t == Acceptor
<1>0. t \in Threads
  BY DEF Threads
<1>1. TypeOK'
  BY <1>0, Facts, SessionAssumption
  DEF IInv, TypeOK, Goto, Pcs, HoldPcs, OwnPcs, Ids
<1>2. Goto(t, pc'[t]) /\ pc[t] \in {"accConnect"} /\ pc'[t] \in {"accOnConnect"}
  BY <1>0, SessionAssumption DEF IInv, TypeOK, Goto
<1>3. Held' = Held /\ Owners' = Owners /\ Receivers' <= 1
  <2>1. Accounts(t)
    BY <1>1, <1>2, <1>0, Sums DEF IInv
  <2> QED BY <1>2, <2>1, <1>0, Points, Facts DEF Accounts, IInv, TypeOK, HoldPcs, OwnPcs, Hold2Pcs, RecvPcs, PinPcs
<1> QED BY <1>1, <1>2, <1>3, <1>0, Facts, Keep
        DEF IInv, TypeOK, HoldPcs, OwnPcs, PinPcs

\* OnConnect runs under the acceptor's reference.
LEMMA AcceptOnConnectStep ==
    ASSUME IInv, AcceptOnConnect
    PROVE  IInv'
<1> USE DEF AcceptOnConnect, slotVars, ioVars, serverVars
<1> DEFINE t == Acceptor
<1>0. t \in Threads
  BY DEF Threads
<1>1. TypeOK'
  BY <1>0, Facts, SessionAssumption
  DEF IInv, TypeOK, Goto, Pcs, HoldPcs, OwnPcs, Ids
<1>2. Goto(t, pc'[t]) /\ pc[t] \in {"accOnConnect"} /\ pc'[t] \in {"recvCheck"}
  BY <1>0, SessionAssumption DEF IInv, TypeOK, Goto
<1>3. Held' = Held /\ Owners' = Owners /\ Receivers' <= 1
  <2>1. Accounts(t)
    BY <1>1, <1>2, <1>0, Sums DEF IInv
  <2> QED BY <1>2, <2>1, <1>0, Points, Facts DEF Accounts, IInv, TypeOK, HoldPcs, OwnPcs, Hold2Pcs, RecvPcs, PinPcs
<1> QED BY <1>1, <1>2, <1>3, <1>0, Facts, Keep
        DEF IInv, TypeOK, HoldPcs, OwnPcs, PinPcs

\* Counting the session touches neither references nor owners.
LEMMA AcceptCountStep ==
    ASSUME IInv, AcceptCount
    PROVE  IInv'
<1> USE DEF AcceptCount, slotVars, ioVars, serverVars
<1> DEFINE t == Acceptor
<1>0. t \in Threads
  BY DEF Threads
<1>1. TypeOK'
  BY <1>0, Facts, SessionAssumption
  DEF IInv, TypeOK, Goto, Pcs, HoldPcs, OwnPcs, Ids
<1>2. Goto(t, pc'[t]) /\ pc[t] \in {"accCount"} /\ pc'[t] \in {"idle"}
  BY <1>0, SessionAssumption DEF IInv, TypeOK, Goto
<1>3. Held' = Held /\ Owners' = Owners /\ Receivers' <= 1
  <2>1. Accounts(t)
    BY <1>1, <1>2, <1>0, Sums DEF IInv
  <2> QED BY <1>2, <2>1, <1>0, Points, Facts DEF Accounts, IInv, TypeOK, HoldPcs, OwnPcs, Hold2Pcs, RecvPcs, PinPcs
<1> QED BY <1>1, <1>2, <1>3, <1>0, Facts, Keep
        DEF IInv, TypeOK, HoldPcs, OwnPcs, PinPcs

\* The check of RecvNotIncrease keeps the reference either way.
LEMMA RecvCheckStep ==
    ASSUME IInv, NEW t \in Threads, RecvCheck(t)
    PROVE  IInv'
<1> USE DEF RecvCheck, slotVars, ioVars, serverVars
<1>1. TypeOK'
  BY Facts, SessionAssumption
  DEF IInv, TypeOK, Goto, Pcs, HoldPcs, OwnPcs, Ids
<1>2. Goto(t, pc'[t]) /\ pc[t] \in {"recvCheck"} /\ pc'[t] \in {"dec", "recvPost"}
  BY SessionAssumption DEF IInv, TypeOK, Goto
<1>3. Held' = Held /\ Owners' = Owners /\ Receivers' <= 1
  <2>1. Accounts(t)
    BY <1>1, <1>2, Sums DEF IInv
  <2> QED BY <1>2, <2>1, Points, Facts DEF Accounts, IInv, TypeOK, HoldPcs, OwnPcs, Hold2Pcs, RecvPcs, PinPcs
<1> QED BY <1>1, <1>2, <1>3, Facts, Keep
        DEF IInv, TypeOK, HoldPcs, OwnPcs, PinPcs

\* The thread's reference becomes the pending receive's.
LEMMA RecvPendingStep ==
    ASSUME IInv, NEW t \in Threads, RecvPending(t)
    PROVE  IInv'
<1> USE DEF RecvPending, slotVars, ioVars, serverVars
<1>c. call' \in [Threads -> Calls] /\ \A u \in Threads : u # t => call'[u] = call[u]
  BY LocalsType, ForgetType, Facts DEF IInv, TypeOK, Ops, Ids, Calls
<1>1. TypeOK'
  BY <1>c, Facts, SessionAssumption
  DEF IInv, TypeOK, Goto, Pcs, HoldPcs, OwnPcs, Ids
<1>2. Goto(t, pc'[t]) /\ pc[t] \in {"recvPost"} /\ pc'[t] \in {"recvRecheck"}
  BY SessionAssumption DEF IInv, TypeOK, Goto
<1>3. Held' = Held /\ Owners' = Owners /\ Receivers' <= 1
  <2>1. Accounts(t)
    BY <1>1, <1>2, Sums DEF IInv
  <2> QED BY <1>2, <2>1, Points, Facts DEF Accounts, IInv, TypeOK, HoldPcs, OwnPcs, Hold2Pcs, RecvPcs, PinPcs
<1> QED BY <1>1, <1>2, <1>3, <1>c, Facts, Keep
        DEF IInv, TypeOK, HoldPcs, OwnPcs, PinPcs

\* The thread's reference becomes the queued completion's.
LEMMA RecvImmediateStep ==
    ASSUME IInv, NEW t \in Threads, RecvImmediate(t)
    PROVE  IInv'
<1> USE DEF RecvImmediate, Return, slotVars, ioVars, serverVars
<1>1. TypeOK'
  BY Facts, SessionAssumption
  DEF IInv, TypeOK, Goto, Pcs, HoldPcs, OwnPcs, Ids
<1>2. Goto(t, pc'[t]) /\ pc[t] \in {"recvPost"} /\ pc'[t] \in {"accCount", "report", "idle"}
  BY SessionAssumption DEF IInv, TypeOK, Goto
<1>3. Held' = Held /\ Owners' = Owners /\ Receivers' <= 1
  <2>1. Accounts(t)
    BY <1>1, <1>2, Sums DEF IInv
  <2> QED BY <1>2, <2>1, Points, Facts DEF Accounts, IInv, TypeOK, HoldPcs, OwnPcs, Hold2Pcs, RecvPcs, PinPcs
<1> QED BY <1>1, <1>2, <1>3, Facts, Keep
        DEF IInv, TypeOK, HoldPcs, OwnPcs, PinPcs

\* A receive that fails leaves the reference with the thread.
LEMMA RecvFailsStep ==
    ASSUME IInv, NEW t \in Threads, RecvFails(t)
    PROVE  IInv'
<1> USE DEF RecvFails, slotVars, ioVars, serverVars
<1>1. TypeOK'
  BY Facts, SessionAssumption
  DEF IInv, TypeOK, Goto, Pcs, HoldPcs, OwnPcs, Ids
<1>2. Goto(t, pc'[t]) /\ pc[t] \in {"recvPost"} /\ pc'[t] \in {"dec"}
  BY SessionAssumption DEF IInv, TypeOK, Goto
<1>3. Held' = Held /\ Owners' = Owners /\ Receivers' <= 1
  <2>1. Accounts(t)
    BY <1>1, <1>2, Sums DEF IInv
  <2> QED BY <1>2, <2>1, Points, Facts DEF Accounts, IInv, TypeOK, HoldPcs, OwnPcs, Hold2Pcs, RecvPcs, PinPcs
<1> QED BY <1>1, <1>2, <1>3, Facts, Keep
        DEF IInv, TypeOK, HoldPcs, OwnPcs, PinPcs

\* The recheck of _connect needs no reference.
LEMMA RecvRecheckStep ==
    ASSUME IInv, NEW t \in Threads, RecvRecheck(t)
    PROVE  IInv'
<1> USE DEF RecvRecheck, Return, slotVars, ioVars, serverVars
<1>c. call' \in [Threads -> Calls] /\ \A u \in Threads : u # t => call'[u] = call[u]
  BY LocalsType, ForgetType, Facts DEF IInv, TypeOK, Ops, Ids, Calls
<1>1. TypeOK'
  BY <1>c, Facts, SessionAssumption
  DEF IInv, TypeOK, Goto, Pcs, HoldPcs, OwnPcs, Ids
<1>2. Goto(t, pc'[t]) /\ pc[t] \in {"recvRecheck"} /\ pc'[t] \in {"accCount", "report", "idle", "find"}
  BY SessionAssumption DEF IInv, TypeOK, Goto
<1>3. Held' = Held /\ Owners' = Owners /\ Receivers' <= 1
  <2>1. Accounts(t)
    BY <1>1, <1>2, Sums DEF IInv
  <2> QED BY <1>2, <2>1, Points, Facts DEF Accounts, IInv, TypeOK, HoldPcs, OwnPcs, Hold2Pcs, RecvPcs, PinPcs
<1> QED BY <1>1, <1>2, <1>3, <1>c, Facts, Keep
        DEF IInv, TypeOK, HoldPcs, OwnPcs, PinPcs

\* A call starts without a reference.
LEMMA CallStep ==
    ASSUME IInv, NEW t \in Threads, Call(t)
    PROVE  IInv'
<1> USE DEF Call, slotVars, ioVars, serverVars
<1>c. call' \in [Threads -> Calls] /\ \A u \in Threads : u # t => call'[u] = call[u]
  <2>1. PICK i \in Ids, o \in {"disconnect", "send", "probe"} : Locals(t, o, i, 0)
    OBVIOUS
  <2>2. o \in Ops /\ i \in 0..MaxId /\ 0 \in Nat
    BY SessionAssumption DEF Ops, Ids
  <2> QED BY <2>1, <2>2, LocalsType
<1>1. TypeOK'
  BY <1>c, Facts, SessionAssumption
  DEF IInv, TypeOK, Goto, Pcs, HoldPcs, OwnPcs, Ids
<1>2. Goto(t, pc'[t]) /\ pc[t] \in {"idle"} /\ pc'[t] \in {"find"}
  BY SessionAssumption DEF IInv, TypeOK, Goto
<1>3. Held' = Held /\ Owners' = Owners /\ Receivers' <= 1
  <2>1. Accounts(t)
    BY <1>1, <1>2, Sums DEF IInv
  <2> QED BY <1>2, <2>1, Points, Facts DEF Accounts, IInv, TypeOK, HoldPcs, OwnPcs, Hold2Pcs, RecvPcs, PinPcs
<1> QED BY <1>1, <1>2, <1>3, <1>c, Facts, Keep
        DEF IInv, TypeOK, HoldPcs, OwnPcs, PinPcs

\* IncreaseRef: if no flag came back with the count, the slot is not owned and
\* from now on cannot become owned.
LEMMA FindIncStep ==
    ASSUME IInv, NEW t \in Threads, FindInc(t)
    PROVE  IInv'
<1> USE DEF FindInc, slotVars, ioVars, serverVars
<1>c. call' \in [Threads -> Calls] /\ \A u \in Threads : u # t => call'[u] = call[u]
  <2>1. call[t].op \in Ops /\ call[t].id \in 0..MaxId /\ refCount + 1 \in Nat
    BY DEF IInv, TypeOK, Calls
  <2>2. Locals(t, call[t].op, call[t].id, refCount + 1)
    OBVIOUS
  <2> DEFINE o == call[t].op  i == call[t].id  n == refCount + 1
  <2>3. o \in Ops /\ i \in 0..MaxId /\ n \in Nat /\ Locals(t, o, i, n)
    BY <2>1, <2>2
  <2> HIDE DEF o, i, n
  <2> QED BY <2>3, LocalsType
<1>d. pc' \in [Threads -> Pcs] /\ refCount' \in Nat
  BY DEF IInv, TypeOK, Goto, Pcs, HoldPcs
<1>1. TypeOK'
  BY <1>c, <1>d DEF IInv, TypeOK
<1>2. Goto(t, pc'[t]) /\ pc[t] \in {"find"} /\ pc'[t] \in {"findCheck"}
  BY SessionAssumption DEF IInv, TypeOK, Goto
<1>3. Held' = Held + 1 /\ Owners' = Owners /\ Receivers' <= 1
  <2>1. Accounts(t)
    BY <1>1, <1>2, Sums DEF IInv
  <2> QED BY <1>2, <2>1, Points, Facts DEF Accounts, IInv, TypeOK, HoldPcs, OwnPcs, Hold2Pcs, RecvPcs, PinPcs
<1>4. call'[t].inc = refCount + 1
  <2>1. call[t].op \in Ops /\ call[t].id \in 0..MaxId /\ refCount + 1 \in Nat
    BY DEF IInv, TypeOK, Calls
  <2>2. Locals(t, call[t].op, call[t].id, refCount + 1)
    OBVIOUS
  <2> DEFINE o == call[t].op  i == call[t].id  n == refCount + 1
  <2>3. o \in Ops /\ i \in 0..MaxId /\ n \in Nat /\ Locals(t, o, i, n)
    BY <2>1, <2>2
  <2> HIDE DEF o, i, n
  <2>4. call'[t] = [op |-> o, id |-> i, inc |-> n]
    BY <2>3, LocalsType
  <2> QED BY <2>4 DEF n
<1> QED BY <1>1, <1>2, <1>3, <1>4, <1>c, Facts, Keep
        DEF IInv, TypeOK, HoldPcs, OwnPcs, PinPcs

\* The check of FindSession: no flag and the right id pin the right session.
LEMMA FindCheckStep ==
    ASSUME IInv, NEW t \in Threads, FindCheck(t)
    PROVE  IInv'
<1> USE DEF FindCheck, slotVars, ioVars, serverVars
<1>c. call' \in [Threads -> Calls] /\ \A u \in Threads : u # t => call'[u] = call[u]
  <2>1. call[t].op \in Ops /\ call[t].id \in 0..MaxId /\ 0 \in Nat
    BY DEF IInv, TypeOK, Calls
  <2>2. CASE Forget(t)
    BY <2>2, ForgetType
  <2>3. CASE Locals(t, call[t].op, call[t].id, 0)
    BY <2>1, <2>3, LocalsType
  <2> QED BY <2>2, <2>3
<1>1. TypeOK'
  BY <1>c, Facts, SessionAssumption
  DEF IInv, TypeOK, Goto, Pcs, HoldPcs, OwnPcs, Ids
<1>2. Goto(t, pc'[t]) /\ pc[t] \in {"findCheck"} /\ pc'[t] \in {"dec", "hold"}
  BY SessionAssumption DEF IInv, TypeOK, Goto
<1>3. Held' = Held /\ Owners' = Owners /\ Receivers' <= 1
  <2>1. Accounts(t)
    BY <1>1, <1>2, Sums DEF IInv
  <2> QED BY <1>2, <2>1, Points, Facts DEF Accounts, IInv, TypeOK, HoldPcs, OwnPcs, Hold2Pcs, RecvPcs, PinPcs
<1>4. pc'[t] = "hold" => /\ call'[t].id = sessionId /\ Owners = 0
                          /\ socket = sessionId
  <2>1. ASSUME pc'[t] = "hold"
        PROVE  /\ call[t].inc <= ReleaseFlag /\ sessionId = call[t].id
               /\ Locals(t, call[t].op, call[t].id, 0)
    BY <2>1, SessionAssumption DEF IInv, TypeOK, Goto, Calls
  <2>2. call[t].op \in Ops /\ call[t].id \in 0..MaxId
    BY DEF IInv, TypeOK, Calls
  <2>3. ASSUME pc'[t] = "hold" PROVE call'[t].id = call[t].id
    <3> DEFINE o == call[t].op  i == call[t].id
    <3>1. o \in Ops /\ i \in 0..MaxId /\ 0 \in Nat /\ Locals(t, o, i, 0)
      BY <2>1, <2>2, <2>3
    <3> HIDE DEF o, i
    <3>2. call'[t] = [op |-> o, id |-> i, inc |-> 0]
      BY <3>1, LocalsType
    <3> QED BY <3>2 DEF i
  <2>4. pc'[t] = "hold" => Owners = 0
    BY <1>2, <2>1 DEF IInv, Pinned
  <2> QED BY <2>1, <2>3, <2>4 DEF IInv, Pinned
<1> QED BY <1>1, <1>2, <1>3, <1>4, <1>c, Facts, Keep
        DEF IInv, TypeOK, HoldPcs, OwnPcs, PinPcs

\* IsValidSession and the setters give their reference back.
LEMMA ProbeStep ==
    ASSUME IInv, NEW t \in Threads, Probe(t)
    PROVE  IInv'
<1> USE DEF Probe, slotVars, ioVars, serverVars
<1>c. call' \in [Threads -> Calls] /\ \A u \in Threads : u # t => call'[u] = call[u]
  BY LocalsType, ForgetType, Facts DEF IInv, TypeOK, Ops, Ids, Calls
<1>1. TypeOK'
  BY <1>c, Facts, SessionAssumption
  DEF IInv, TypeOK, Goto, Pcs, HoldPcs, OwnPcs, Ids
<1>2. Goto(t, pc'[t]) /\ pc[t] \in {"hold"} /\ pc'[t] \in {"dec"}
  BY SessionAssumption DEF IInv, TypeOK, Goto
<1>3. Held' = Held /\ Owners' = Owners /\ Receivers' <= 1
  <2>1. Accounts(t)
    BY <1>1, <1>2, Sums DEF IInv
  <2> QED BY <1>2, <2>1, Points, Facts DEF Accounts, IInv, TypeOK, HoldPcs, OwnPcs, Hold2Pcs, RecvPcs, PinPcs
<1> QED BY <1>1, <1>2, <1>3, <1>c, Facts, Keep
        DEF IInv, TypeOK, HoldPcs, OwnPcs, PinPcs

\* SendPacketBlocking goes on to TrySend with FindSession's reference.
LEMMA SendPacketBlockingStep ==
    ASSUME IInv, NEW t \in Threads, SendPacketBlocking(t)
    PROVE  IInv'
<1> USE DEF SendPacketBlocking, slotVars, ioVars, serverVars
<1>c. call' \in [Threads -> Calls] /\ \A u \in Threads : u # t => call'[u] = call[u]
  BY LocalsType, ForgetType, Facts DEF IInv, TypeOK, Ops, Ids, Calls
<1>1. TypeOK'
  BY <1>c, Facts, SessionAssumption
  DEF IInv, TypeOK, Goto, Pcs, HoldPcs, OwnPcs, Ids
<1>2. Goto(t, pc'[t]) /\ pc[t] \in {"hold"} /\ pc'[t] \in {"trySend"}
  BY SessionAssumption DEF IInv, TypeOK, Goto
<1>3. Held' = Held /\ Owners' = Owners /\ Receivers' <= 1
  <2>1. Accounts(t)
    BY <1>1, <1>2, Sums DEF IInv
  <2> QED BY <1>2, <2>1, Points, Facts DEF Accounts, IInv, TypeOK, HoldPcs, OwnPcs, Hold2Pcs, RecvPcs, PinPcs
<1> QED BY <1>1, <1>2, <1>3, <1>c, Facts, Keep
        DEF IInv, TypeOK, HoldPcs, OwnPcs, PinPcs

\* Close clears _connect under the caller's reference.
LEMMA CloseFlagStep ==
    ASSUME IInv, NEW t \in Threads, CloseFlag(t)
    PROVE  IInv'
<1> USE DEF CloseFlag, slotVars, ioVars, serverVars
<1>1. TypeOK'
  BY Facts, SessionAssumption
  DEF IInv, TypeOK, Goto, Pcs, HoldPcs, OwnPcs, Ids
<1>2. Goto(t, pc'[t]) /\ pc[t] \in {"hold", "recvClose"} /\ pc'[t] \in {"cancel", "recvCancel"}
  BY SessionAssumption DEF IInv, TypeOK, Goto
<1>3. Held' = Held /\ Owners' = Owners /\ Receivers' <= 1
  <2>1. Accounts(t)
    BY <1>1, <1>2, Sums DEF IInv
  <2>2. \/ pc[t] = "hold" /\ pc'[t] = "cancel"
        \/ pc[t] = "recvClose" /\ pc'[t] = "recvCancel"
    BY DEF IInv, TypeOK, Goto
  <2> QED BY <1>2, <2>1, <2>2, Points, Facts DEF Accounts, IInv, TypeOK
<1> QED BY <1>1, <1>2, <1>3, Facts, Keep
        DEF IInv, TypeOK, HoldPcs, OwnPcs, PinPcs

\* CancelIO turns a pending receive into a failed one; its reference stays.
LEMMA CancelIOStep ==
    ASSUME IInv, NEW t \in Threads, CancelIO(t)
    PROVE  IInv'
<1> USE DEF CancelIO, slotVars, ioVars, serverVars
<1>c. call' \in [Threads -> Calls] /\ \A u \in Threads : u # t => call'[u] = call[u]
  BY LocalsType, ForgetType, Facts DEF IInv, TypeOK, Ops, Ids, Calls
<1>1. TypeOK'
  BY <1>c, Facts, SessionAssumption
  DEF IInv, TypeOK, Goto, Pcs, HoldPcs, OwnPcs, Ids
<1>2. Goto(t, pc'[t]) /\ pc[t] \in {"cancel", "recvCancel"} /\ pc'[t] \in {"dec", "recvCheck"}
  BY SessionAssumption DEF IInv, TypeOK, Goto
<1>3. Held' = Held /\ Owners' = Owners /\ Receivers' <= 1
  <2>1. Accounts(t)
    BY <1>1, <1>2, Sums DEF IInv
  <2>2. \/ pc[t] = "cancel" /\ pc'[t] = "dec"
        \/ pc[t] = "recvCancel" /\ pc'[t] = "recvCheck"
    BY DEF IInv, TypeOK, Goto
  <2>3. recvIo' = "none" <=> recvIo = "none"
    OBVIOUS
  <2> QED BY <1>2, <2>1, <2>2, <2>3, Points, Facts DEF Accounts, IInv, TypeOK
<1> QED BY <1>1, <1>2, <1>3, <1>c, Facts, Keep
        DEF IInv, TypeOK, HoldPcs, OwnPcs, PinPcs

\* SendPacket queues a SendExecutable that holds no reference.
LEMMA SendPacketStep ==
    ASSUME IInv, NEW t \in Threads, SendPacket(t)
    PROVE  IInv'
<1> USE DEF SendPacket, slotVars, ioVars, serverVars
<1>c. call' \in [Threads -> Calls] /\ \A u \in Threads : u # t => call'[u] = call[u]
  BY LocalsType, ForgetType, Facts DEF IInv, TypeOK, Ops, Ids, Calls
<1>d. pc' \in [Threads -> Pcs] /\ sendPosted' \in Nat /\ isSending' \in BOOLEAN
  <2>1. pc' \in [Threads -> Pcs]
    BY DEF IInv, TypeOK, Goto, Pcs, HoldPcs
  <2>2. CASE isSending' = TRUE /\ sendPosted' = sendPosted + 1
    BY <2>1, <2>2 DEF IInv, TypeOK
  <2>3. CASE UNCHANGED <<isSending, sendPosted>>
    BY <2>1, <2>3 DEF IInv, TypeOK
  <2> QED BY <2>2, <2>3
<1>1. TypeOK'
  BY <1>c, <1>d DEF IInv, TypeOK
<1>2. Goto(t, pc'[t]) /\ pc[t] \in {"hold"} /\ pc'[t] \in {"dec"}
  BY SessionAssumption DEF IInv, TypeOK, Goto
<1>3. Held' = Held /\ Owners' = Owners /\ Receivers' <= 1
  <2>1. Accounts(t)
    BY <1>1, <1>2, Sums DEF IInv
  <2> QED BY <1>2, <2>1, Points, Facts DEF Accounts, IInv, TypeOK, HoldPcs, OwnPcs, Hold2Pcs, RecvPcs, PinPcs
<1> QED BY <1>1, <1>2, <1>3, <1>c, Facts, Keep
        DEF IInv, TypeOK, HoldPcs, OwnPcs, PinPcs

\* Release's decrement takes the thread's reference off the count.
LEMMA ReleaseDecStep ==
    ASSUME IInv, NEW t \in Threads, ReleaseDec(t)
    PROVE  IInv'
<1> USE DEF ReleaseDec, Return, slotVars, ioVars, serverVars
<1>1. TypeOK'
  BY Facts, SessionAssumption
  DEF IInv, TypeOK, Goto, Pcs, HoldPcs, OwnPcs, Ids
<1>2. Goto(t, pc'[t]) /\ pc[t] \in {"dec"} /\ pc'[t] \in {"cas", "accCount", "report", "idle"}
  BY SessionAssumption DEF IInv, TypeOK, Goto
<1>3. Held' = Held - 1 /\ Owners' = Owners /\ Receivers' <= 1
  <2>1. Accounts(t)
    BY <1>1, <1>2, Sums DEF IInv
  <2> QED BY <1>2, <2>1, Points, Facts DEF Accounts, IInv, TypeOK, HoldPcs, OwnPcs, Hold2Pcs, RecvPcs, PinPcs
<1> QED BY <1>1, <1>2, <1>3, Facts, Keep
        DEF IInv, TypeOK, HoldPcs, OwnPcs, PinPcs

\* Ownership passes from the releasing thread to the queued ReleaseExecutable.
LEMMA PostReleaseStep ==
    ASSUME IInv, NEW t \in Threads, PostRelease(t)
    PROVE  IInv'
<1> USE DEF PostRelease, Return, slotVars, ioVars, serverVars
<1>1. TypeOK'
  BY Facts, SessionAssumption
  DEF IInv, TypeOK, Goto, Pcs, HoldPcs, OwnPcs, Ids
<1>2. Goto(t, pc'[t]) /\ pc[t] \in {"post"} /\ pc'[t] \in {"accCount", "report", "idle"}
  BY SessionAssumption DEF IInv, TypeOK, Goto
<1>3. Held' = Held /\ Owners' = Owners /\ Receivers' <= 1
  <2>1. Accounts(t)
    BY <1>1, <1>2, Sums DEF IInv
  <2> QED BY <1>2, <2>1, Points, Facts DEF Accounts, IInv, TypeOK, HoldPcs, OwnPcs, Hold2Pcs, RecvPcs, PinPcs
<1> QED BY <1>1, <1>2, <1>3, Facts, Keep
        DEF IInv, TypeOK, HoldPcs, OwnPcs, PinPcs

\* The ended receive's reference becomes the worker's.
LEMMA RecvEndStep ==
    ASSUME IInv, NEW t \in Threads, RecvEnd(t)
    PROVE  IInv'
<1> USE DEF RecvEnd, slotVars, ioVars, serverVars
<1>1. TypeOK'
  BY Facts, SessionAssumption
  DEF IInv, TypeOK, Goto, Pcs, HoldPcs, OwnPcs, Ids
<1>2. Goto(t, pc'[t]) /\ pc[t] \in {"idle"} /\ pc'[t] \in {"dec"}
  BY SessionAssumption DEF IInv, TypeOK, Goto
<1>3. Held' = Held /\ Owners' = Owners /\ Receivers' <= 1
  <2>1. Accounts(t)
    BY <1>1, <1>2, Sums DEF IInv
  <2> QED BY <1>2, <2>1, Points, Facts DEF Accounts, IInv, TypeOK, HoldPcs, OwnPcs, Hold2Pcs, RecvPcs, PinPcs
<1> QED BY <1>1, <1>2, <1>3, Facts, Keep
        DEF IInv, TypeOK, HoldPcs, OwnPcs, PinPcs

\* The completed receive's reference becomes the worker's.
LEMMA RecvExecuteStep ==
    ASSUME IInv, NEW t \in Threads, RecvExecute(t)
    PROVE  IInv'
<1> USE DEF RecvExecute, slotVars, ioVars, serverVars
<1>1. TypeOK'
  BY Facts, SessionAssumption
  DEF IInv, TypeOK, Goto, Pcs, HoldPcs, OwnPcs, Ids
<1>2. Goto(t, pc'[t]) /\ pc[t] \in {"idle"} /\ pc'[t] \in {"recvCheck", "recvClose"}
  BY SessionAssumption DEF IInv, TypeOK, Goto
<1>3. Held' = Held /\ Owners' = Owners /\ Receivers' <= 1
  <2>1. Accounts(t)
    BY <1>1, <1>2, Sums DEF IInv
  <2> QED BY <1>2, <2>1, Points, Facts DEF Accounts, IInv, TypeOK, HoldPcs, OwnPcs, Hold2Pcs, RecvPcs, PinPcs
<1> QED BY <1>1, <1>2, <1>3, Facts, Keep
        DEF IInv, TypeOK, HoldPcs, OwnPcs, PinPcs

\* RealSend takes its own reference, and goes on only if the slot is not owned.
LEMMA SendExecuteStep ==
    ASSUME IInv, NEW t \in Threads, SendExecute(t)
    PROVE  IInv'
<1> USE DEF SendExecute, slotVars, ioVars, serverVars
<1>1. TypeOK'
  BY Facts, SessionAssumption
  DEF IInv, TypeOK, Goto, Pcs, HoldPcs, OwnPcs, Ids
<1>2. Goto(t, pc'[t]) /\ pc[t] \in {"idle"} /\ pc'[t] \in {"dec", "sendPost"}
  BY SessionAssumption DEF IInv, TypeOK, Goto
<1>3. Held' = Held + 1 /\ Owners' = Owners /\ Receivers' <= 1
  <2>1. Accounts(t)
    BY <1>1, <1>2, Sums DEF IInv
  <2> QED BY <1>2, <2>1, Points, Facts DEF Accounts, IInv, TypeOK, HoldPcs, OwnPcs, Hold2Pcs, RecvPcs, PinPcs
<1>4. pc'[t] = "sendPost" => Owners = 0
  BY Facts DEF IInv, TypeOK, Goto
<1> QED BY <1>1, <1>2, <1>3, <1>4, Facts, Keep
        DEF IInv, TypeOK, HoldPcs, OwnPcs, PinPcs

\* The reference becomes the outstanding send's, or stays with the worker.
LEMMA RealSendStep ==
    ASSUME IInv, NEW t \in Threads, RealSend(t)
    PROVE  IInv'
<1> USE DEF RealSend, slotVars, ioVars, serverVars
<1>1. TypeOK'
  BY Facts, SessionAssumption
  DEF IInv, TypeOK, Goto, Pcs, HoldPcs, OwnPcs, Ids
<1>2. Goto(t, pc'[t]) /\ pc[t] \in {"sendPost"} /\ pc'[t] \in {"idle", "dec", "spin"}
  BY SessionAssumption DEF IInv, TypeOK, Goto
<1>3. Held' = Held /\ Owners' = Owners /\ Receivers' <= 1
  <2>1. Accounts(t)
    BY <1>1, <1>2, Sums DEF IInv
  <2>2. \/ pc'[t] = "idle" /\ sendIo' = sendIo + 1
        \/ pc'[t] \in {"dec", "spin"} /\ sendIo' = sendIo
    BY DEF IInv, TypeOK, Goto
  <2>3. sendIo \in Nat
    BY DEF IInv, TypeOK
  <2>4. /\ recvIo' = recvIo /\ releasePosted' = releasePosted /\ freeIndex' = freeIndex
        /\ releasePosted \in Nat /\ freeIndex \in Nat
    BY DEF IInv, TypeOK
  <2> HIDE DEF RealSend
  <2>5. CASE sendIo' = sendIo + 1
    <3>1. pc[t] = "sendPost" /\ pc'[t] = "idle"
      BY <1>2, <2>2, <2>3, <2>5
    <3> QED BY <3>1, <2>1, <2>3, <2>4, <2>5, Points, Facts DEF Accounts
  <2>6. CASE sendIo' = sendIo
    BY <1>2, <2>1, <2>2, <2>3, <2>4, <2>6, Points, Facts DEF Accounts
  <2> QED BY <2>2, <2>5, <2>6
<1> QED BY <1>1, <1>2, <1>3, Facts, Keep
        DEF IInv, TypeOK, HoldPcs, OwnPcs, PinPcs

\* The completed send's reference becomes the worker's.
LEMMA SendDoneStep ==
    ASSUME IInv, NEW t \in Threads, SendDone(t)
    PROVE  IInv'
<1> USE DEF SendDone, slotVars, ioVars, serverVars
<1>1. TypeOK'
  BY Facts, SessionAssumption
  DEF IInv, TypeOK, Goto, Pcs, HoldPcs, OwnPcs, Ids
<1>2. Goto(t, pc'[t]) /\ pc[t] \in {"idle"} /\ pc'[t] \in {"postSend", "dec"}
  BY SessionAssumption DEF IInv, TypeOK, Goto
<1>3. Held' = Held /\ Owners' = Owners /\ Receivers' <= 1
  <2>1. Accounts(t)
    BY <1>1, <1>2, Sums DEF IInv
  <2> QED BY <1>2, <2>1, Points, Facts DEF Accounts, IInv, TypeOK, HoldPcs, OwnPcs, Hold2Pcs, RecvPcs, PinPcs
<1> QED BY <1>1, <1>2, <1>3, Facts, Keep
        DEF IInv, TypeOK, HoldPcs, OwnPcs, PinPcs

\* Clearing _isSending happens under the worker's reference.
LEMMA PostSendStep ==
    ASSUME IInv, NEW t \in Threads, PostSend(t)
    PROVE  IInv'
<1> USE DEF PostSend, slotVars, ioVars, serverVars
<1>1. TypeOK'
  BY Facts, SessionAssumption
  DEF IInv, TypeOK, Goto, Pcs, HoldPcs, OwnPcs, Ids
<1>2. Goto(t, pc'[t]) /\ pc[t] \in {"postSend"} /\ pc'[t] \in {"trySend"}
  BY SessionAssumption DEF IInv, TypeOK, Goto
<1>3. Held' = Held /\ Owners' = Owners /\ Receivers' <= 1
  <2>1. Accounts(t)
    BY <1>1, <1>2, Sums DEF IInv
  <2> QED BY <1>2, <2>1, Points, Facts DEF Accounts, IInv, TypeOK, HoldPcs, OwnPcs, Hold2Pcs, RecvPcs, PinPcs
<1> QED BY <1>1, <1>2, <1>3, Facts, Keep
        DEF IInv, TypeOK, HoldPcs, OwnPcs, PinPcs

\* TrySend happens under the worker's reference.
LEMMA TrySendStep ==
    ASSUME IInv, NEW t \in Threads, TrySend(t)
    PROVE  IInv'
<1> USE DEF TrySend, slotVars, ioVars, serverVars
<1>1. TypeOK'
  BY Facts, SessionAssumption
  DEF IInv, TypeOK, Goto, Pcs, HoldPcs, OwnPcs, Ids
<1>2. Goto(t, pc'[t]) /\ pc[t] \in {"trySend"} /\ pc'[t] \in {"nestedInc", "dec"}
  BY SessionAssumption DEF IInv, TypeOK, Goto, CanSend
<1>3. Held' = Held /\ Owners' = Owners /\ Receivers' <= 1
  <2>1. Accounts(t)
    BY <1>1, <1>2, Sums DEF IInv
  <2> QED BY <1>2, <2>1, Points, Facts DEF Accounts, IInv, TypeOK, HoldPcs, OwnPcs, Hold2Pcs, RecvPcs, PinPcs
<1> QED BY <1>1, <1>2, <1>3, Facts, Keep
        DEF IInv, TypeOK, HoldPcs, OwnPcs, PinPcs

\* RealSend inside TrySend takes a second reference.
LEMMA NestedIncStep ==
    ASSUME IInv, NEW t \in Threads, NestedInc(t)
    PROVE  IInv'
<1> USE DEF NestedInc, slotVars, ioVars, serverVars
<1>1. TypeOK'
  BY Facts, SessionAssumption
  DEF IInv, TypeOK, Goto, Pcs, HoldPcs, OwnPcs, Ids
<1>2. Goto(t, pc'[t]) /\ pc[t] \in {"nestedInc"} /\ pc'[t] \in {"nestedDec", "nestedPost"}
  BY SessionAssumption DEF IInv, TypeOK, Goto
<1>3. Held' = Held + 1 /\ Owners' = Owners /\ Receivers' <= 1
  <2>1. Accounts(t)
    BY <1>1, <1>2, Sums DEF IInv
  <2> QED BY <1>2, <2>1, Points, Facts DEF Accounts, IInv, TypeOK, HoldPcs, OwnPcs, Hold2Pcs, RecvPcs, PinPcs
<1> QED BY <1>1, <1>2, <1>3, Facts, Keep
        DEF IInv, TypeOK, HoldPcs, OwnPcs, PinPcs

\* The second reference becomes the send's, or stays with the worker.
LEMMA NestedSendStep ==
    ASSUME IInv, NEW t \in Threads, NestedSend(t)
    PROVE  IInv'
<1> USE DEF NestedSend, slotVars, ioVars, serverVars
<1>1. TypeOK'
  BY Facts, SessionAssumption
  DEF IInv, TypeOK, Goto, Pcs, HoldPcs, OwnPcs, Ids
<1>2. Goto(t, pc'[t]) /\ pc[t] \in {"nestedPost"} /\ pc'[t] \in {"dec", "nestedDec", "nestedSpin"}
  BY SessionAssumption DEF IInv, TypeOK, Goto
<1>3. Held' = Held /\ Owners' = Owners /\ Receivers' <= 1
  <2>1. Accounts(t)
    BY <1>1, <1>2, Sums DEF IInv
  <2>2. \/ pc'[t] = "dec" /\ sendIo' = sendIo + 1
        \/ pc'[t] \in {"nestedDec", "nestedSpin"} /\ sendIo' = sendIo
    BY DEF IInv, TypeOK, Goto
  <2>3. sendIo \in Nat
    BY DEF IInv, TypeOK
  <2>4. /\ recvIo' = recvIo /\ releasePosted' = releasePosted /\ freeIndex' = freeIndex
        /\ releasePosted \in Nat /\ freeIndex \in Nat
    BY DEF IInv, TypeOK
  <2> HIDE DEF NestedSend
  <2>5. CASE sendIo' = sendIo + 1
    BY <1>2, <2>1, <2>2, <2>3, <2>4, <2>5, Points, Facts DEF Accounts
  <2>6. CASE sendIo' = sendIo
    BY <1>2, <2>1, <2>2, <2>3, <2>4, <2>6, Points, Facts DEF Accounts
  <2> QED BY <2>2, <2>5, <2>6
<1> QED BY <1>1, <1>2, <1>3, Facts, Keep
        DEF IInv, TypeOK, HoldPcs, OwnPcs, PinPcs

\* RealSend's loop ends with the references it was entered with.
LEMMA SpinEndsStep ==
    ASSUME IInv, NEW t \in Threads, SpinEnds(t)
    PROVE  IInv'
<1> USE DEF SpinEnds, slotVars, ioVars, serverVars
<1>1. TypeOK'
  BY Facts, SessionAssumption
  DEF IInv, TypeOK, Goto, Pcs, HoldPcs, OwnPcs, Ids
<1>2. Goto(t, pc'[t]) /\ pc[t] \in {"spin", "nestedSpin"} /\ pc'[t] \in {"sendPost", "nestedPost"}
  BY SessionAssumption DEF IInv, TypeOK, Goto
<1>3. Held' = Held /\ Owners' = Owners /\ Receivers' <= 1
  <2>1. Accounts(t)
    BY <1>1, <1>2, Sums DEF IInv
  <2>2. \/ pc[t] = "spin" /\ pc'[t] = "sendPost"
        \/ pc[t] = "nestedSpin" /\ pc'[t] = "nestedPost"
    BY DEF IInv, TypeOK, Goto
  <2> QED BY <1>2, <2>1, <2>2, Points, Facts DEF Accounts, IInv, TypeOK
<1> QED BY <1>1, <1>2, <1>3, Facts, Keep
        DEF IInv, TypeOK, HoldPcs, OwnPcs, PinPcs

\* The second reference is given back; the first keeps the count positive.
LEMMA NestedDecStep ==
    ASSUME IInv, NEW t \in Threads, NestedDec(t)
    PROVE  IInv'
<1> USE DEF NestedDec, slotVars, ioVars, serverVars
<1>1. TypeOK'
  BY Facts, SessionAssumption
  DEF IInv, TypeOK, Goto, Pcs, HoldPcs, OwnPcs, Ids
<1>2. Goto(t, pc'[t]) /\ pc[t] \in {"nestedDec"} /\ pc'[t] \in {"dec"}
  BY SessionAssumption DEF IInv, TypeOK, Goto
<1>3. Held' = Held - 1 /\ Owners' = Owners /\ Receivers' <= 1
  <2>1. Accounts(t)
    BY <1>1, <1>2, Sums DEF IInv
  <2> QED BY <1>2, <2>1, Points, Facts DEF Accounts, IInv, TypeOK, HoldPcs, OwnPcs, Hold2Pcs, RecvPcs, PinPcs
<1> QED BY <1>1, <1>2, <1>3, Facts, Keep
        DEF IInv, TypeOK, HoldPcs, OwnPcs, PinPcs

\* Ownership passes from the queued ReleaseExecutable to the worker.
LEMMA OnDisconnectStep ==
    ASSUME IInv, NEW t \in Threads, OnDisconnect(t)
    PROVE  IInv'
<1> USE DEF OnDisconnect, slotVars, ioVars, serverVars
<1>a. phase' \in [Ids -> {"new", "connected", "gone"}]
  BY DEF IInv, TypeOK
<1>b. /\ pc' \in [Threads -> Pcs]
      /\ releasePosted' \in Nat /\ sessionCount' \in Int
  BY DEF IInv, TypeOK, Goto, Pcs, OwnPcs
<1>1. TypeOK'
  BY <1>a, <1>b DEF IInv, TypeOK
<1>2. Goto(t, pc'[t]) /\ pc[t] \in {"idle"} /\ pc'[t] \in {"relReset"}
  BY SessionAssumption DEF IInv, TypeOK, Goto
<1>3. Held' = Held /\ Owners' = Owners /\ Receivers' <= 1
  <2>1. Accounts(t)
    BY <1>1, <1>2, Sums DEF IInv
  <2> QED BY <1>2, <2>1, Points, Facts DEF Accounts, IInv, TypeOK, HoldPcs, OwnPcs, Hold2Pcs, RecvPcs, PinPcs
<1> QED BY <1>1, <1>2, <1>3, Facts, Keep
        DEF IInv, TypeOK, HoldPcs, OwnPcs, PinPcs

\* Ownership passes from the worker to the free-index stack.
LEMMA ReleaseFreeIndexStep ==
    ASSUME IInv, NEW t \in Threads, ReleaseFreeIndex(t)
    PROVE  IInv'
<1> USE DEF ReleaseFreeIndex, slotVars, ioVars, serverVars
<1>1. TypeOK'
  BY Facts, SessionAssumption
  DEF IInv, TypeOK, Goto, Pcs, HoldPcs, OwnPcs, Ids
<1>2. Goto(t, pc'[t]) /\ pc[t] \in {"relPush"} /\ pc'[t] \in {"idle"}
  BY SessionAssumption DEF IInv, TypeOK, Goto
<1>3. Held' = Held /\ Owners' = Owners /\ Receivers' <= 1
  <2>1. Accounts(t)
    BY <1>1, <1>2, Sums DEF IInv
  <2> QED BY <1>2, <2>1, Points, Facts DEF Accounts, IInv, TypeOK, HoldPcs, OwnPcs, Hold2Pcs, RecvPcs, PinPcs
<1> QED BY <1>1, <1>2, <1>3, Facts, Keep
        DEF IInv, TypeOK, HoldPcs, OwnPcs, PinPcs

\* Looking at the count takes nothing.
LEMMA TimeoutVisitStep ==
    ASSUME IInv, NEW t \in Threads, TimeoutVisit(t)
    PROVE  IInv'
<1> USE DEF TimeoutVisit, slotVars, ioVars, serverVars
<1>1. TypeOK'
  BY Facts, SessionAssumption
  DEF IInv, TypeOK, Goto, Pcs, HoldPcs, OwnPcs, Ids
<1>2. Goto(t, pc'[t]) /\ pc[t] \in {"idle"} /\ pc'[t] \in {"timeout"}
  BY SessionAssumption DEF IInv, TypeOK, Goto
<1>3. Held' = Held /\ Owners' = Owners /\ Receivers' <= 1
  <2>1. Accounts(t)
    BY <1>1, <1>2, Sums DEF IInv
  <2> QED BY <1>2, <2>1, Points, Facts DEF Accounts, IInv, TypeOK, HoldPcs, OwnPcs, Hold2Pcs, RecvPcs, PinPcs
<1> QED BY <1>1, <1>2, <1>3, Facts, Keep
        DEF IInv, TypeOK, HoldPcs, OwnPcs, PinPcs

\* CheckTimeout takes a reference and gives it back, whatever it saw.
LEMMA CheckTimeoutStep ==
    ASSUME IInv, NEW t \in Threads, CheckTimeout(t)
    PROVE  IInv'
<1> USE DEF CheckTimeout, slotVars, ioVars, serverVars
<1>c. call' \in [Threads -> Calls] /\ \A u \in Threads : u # t => call'[u] = call[u]
  <2>1. CASE Locals(t, "timeout", 0, 0)
    <3>1. "timeout" \in Ops /\ 0 \in 0..MaxId /\ 0 \in Nat
      BY SessionAssumption DEF Ops
    <3> QED BY <2>1, <3>1, LocalsType
  <2>2. CASE UNCHANGED call
    BY <2>2 DEF IInv, TypeOK
  <2> QED BY <2>1, <2>2
<1>d. pc' \in [Threads -> Pcs] /\ refCount' \in Nat
  BY DEF IInv, TypeOK, Goto, Pcs, HoldPcs
<1>1. TypeOK'
  BY <1>c, <1>d DEF IInv, TypeOK
<1>2. Goto(t, pc'[t]) /\ pc[t] \in {"timeout"} /\ pc'[t] \in {"dec"}
  BY SessionAssumption DEF IInv, TypeOK, Goto
<1>3. Held' = Held + 1 /\ Owners' = Owners /\ Receivers' <= 1
  <2>1. Accounts(t)
    BY <1>1, <1>2, Sums DEF IInv
  <2> QED BY <1>2, <2>1, Points, Facts DEF Accounts, IInv, TypeOK, HoldPcs, OwnPcs, Hold2Pcs, RecvPcs, PinPcs
<1> QED BY <1>1, <1>2, <1>3, <1>c, Facts, Keep
        DEF IInv, TypeOK, HoldPcs, OwnPcs, PinPcs

\* OnSessionTimeout starts a lookup or ends.
LEMMA OnSessionTimeoutStep ==
    ASSUME IInv, NEW t \in Threads, OnSessionTimeout(t)
    PROVE  IInv'
<1> USE DEF OnSessionTimeout, slotVars, ioVars, serverVars
<1>c. call' \in [Threads -> Calls] /\ \A u \in Threads : u # t => call'[u] = call[u]
  BY LocalsType, ForgetType, Facts DEF IInv, TypeOK, Ops, Ids, Calls
<1>1. TypeOK'
  BY <1>c, Facts, SessionAssumption
  DEF IInv, TypeOK, Goto, Pcs, HoldPcs, OwnPcs, Ids
<1>2. Goto(t, pc'[t]) /\ pc[t] \in {"report"} /\ pc'[t] \in {"find", "idle"}
  BY SessionAssumption DEF IInv, TypeOK, Goto
<1>3. Held' = Held /\ Owners' = Owners /\ Receivers' <= 1
  <2>1. Accounts(t)
    BY <1>1, <1>2, Sums DEF IInv
  <2> QED BY <1>2, <2>1, Points, Facts DEF Accounts, IInv, TypeOK, HoldPcs, OwnPcs, Hold2Pcs, RecvPcs, PinPcs
<1> QED BY <1>1, <1>2, <1>3, <1>c, Facts, Keep
        DEF IInv, TypeOK, HoldPcs, OwnPcs, PinPcs

----------------------------------------------------------------------------
\* A step of the slot's owner: nobody else is in the session, so the owner may
\* change its id and its socket.
LEMMA OwnerKeeps ==
    ASSUME IInv, TypeOK', NEW t \in Threads, Goto(t, pc'[t]),
           pc[t] \in OwnPcs, pc'[t] \in OwnPcs, pc'[t] \notin PinPcs,
           refCount' = refCount, Held' = Held, Owners' = Owners,
           Receivers' = Receivers,
           UNCHANGED <<recvIo, sendIo, call>>,
           pc'[t] = "accOffFlag" => socket' = sessionId'
    PROVE  IInv'
<1>1. /\ TypeOK /\ RefCountExact /\ ReleasedOnce /\ FoundSessionStays /\ OneReceive /\ Pinned
  BY DEF IInv
<1>2. Owners = 1
  BY Facts
<1>3. \A u \in Threads : u # t => pc'[u] = pc[u]
  BY <1>1 DEF Goto, TypeOK
<1>4. RefCountExact' /\ ReleasedOnce' /\ OneReceive'
  BY <1>1 DEF RefCountExact, ReleasedOnce, OneReceive, Receivers
<1>5. \A u \in Threads : pc'[u] # "hold"
  BY <1>1, <1>2, <1>3 DEF FoundSessionStays, PinPcs, HoldPcs
<1>6. pc'[Acceptor] = "accOffFlag" => socket' = sessionId'
  <2>1. ASSUME Acceptor # t, pc[Acceptor] = "accOffFlag" PROVE FALSE
    <3>1. Cardinality(At(OwnPcs)) >= 2
      BY <2>1, MemberCounts DEF Threads, OwnPcs
    <3> QED BY <1>1, <1>2, <3>1, Numbers DEF Owners, TypeOK
  <2> QED BY <1>3, <2>1 DEF Threads
<1>7. Pinned'
  <2>1. ASSUME NEW u \in Threads,
               pc'[u] \in PinPcs \/ (pc'[u] = "findCheck" /\ call'[u].inc <= ReleaseFlag)
        PROVE  FALSE
    <3>1. u # t
      BY <2>1 DEF OwnPcs
    <3> QED BY <1>1, <1>2, <1>3, <2>1, <3>1 DEF Pinned
  <2>2. Owners' # 0 /\ recvIo' = "none" /\ ~(sendIo' > 0)
    BY <1>1, <1>2 DEF Pinned
  <2> QED BY <1>6, <2>1, <2>2 DEF Pinned, PinPcs, HoldPcs
<1> QED BY <1>4, <1>5, <1>7 DEF IInv, FoundSessionStays

\* Reset by the acceptor: it owns the slot, so nobody holds the session.
LEMMA AcceptResetStep ==
    ASSUME IInv, AcceptReset
    PROVE  IInv'
<1> USE DEF AcceptReset, Reset, slotVars, ioVars, serverVars
<1> DEFINE t == Acceptor
<1>0. t \in Threads
  BY DEF Threads
<1>a. pc' \in [Threads -> Pcs] /\ socket' \in 0..MaxId
  BY <1>0, SessionAssumption DEF IInv, TypeOK, Goto, Pcs, OwnPcs
<1>b. isSending' \in BOOLEAN
  OBVIOUS
<1>1. TypeOK'
  BY <1>a, <1>b DEF IInv, TypeOK
<1>2. Goto(t, pc'[t]) /\ pc[t] = "accReset" /\ pc'[t] = "accInc"
  BY <1>0, SessionAssumption DEF IInv, TypeOK, Goto
<1>3. Held' = Held /\ Owners' = Owners /\ Receivers' = Receivers
  <2>1. Accounts(t)
    BY <1>1, <1>2, <1>0, Sums DEF IInv
  <2> QED BY <1>2, <2>1, Points DEF Accounts, IInv, TypeOK
<1> QED BY <1>1, <1>2, <1>3, <1>0, OwnerKeeps DEF OwnPcs, PinPcs, HoldPcs

\* The acceptor installs id and socket in a slot it owns.
LEMMA AcceptInstallStep ==
    ASSUME IInv, AcceptInstall
    PROVE  IInv'
<1> USE DEF AcceptInstall, slotVars, ioVars, serverVars
<1> DEFINE t == Acceptor
<1>0. t \in Threads
  BY DEF Threads
<1>1. TypeOK'
  BY <1>0, SessionAssumption DEF IInv, TypeOK, Goto, Pcs, HoldPcs, OwnPcs, Ids
<1>2. Goto(t, pc'[t]) /\ pc[t] = "accInstall" /\ pc'[t] = "accOffFlag"
  BY <1>0, SessionAssumption DEF IInv, TypeOK, Goto
<1>3. Held' = Held /\ Owners' = Owners /\ Receivers' = Receivers
  <2>1. Accounts(t)
    BY <1>1, <1>2, <1>0, Sums DEF IInv
  <2> QED BY <1>2, <2>1, Points DEF Accounts, IInv, TypeOK
<1> QED BY <1>1, <1>2, <1>3, <1>0, OwnerKeeps DEF OwnPcs, PinPcs, HoldPcs

\* Reset by the releasing worker: it owns the slot.
LEMMA ReleaseResetStep ==
    ASSUME IInv, NEW t \in Threads, ReleaseReset(t)
    PROVE  IInv'
<1> USE DEF ReleaseReset, Reset, slotVars, ioVars, serverVars
<1>a. pc' \in [Threads -> Pcs] /\ socket' \in 0..MaxId
  BY SessionAssumption DEF IInv, TypeOK, Goto, Pcs, OwnPcs
<1>b. isSending' \in BOOLEAN
  OBVIOUS
<1>1. TypeOK'
  BY <1>a, <1>b DEF IInv, TypeOK
<1>2. Goto(t, pc'[t]) /\ pc[t] = "relReset" /\ pc'[t] = "relPush"
  BY SessionAssumption DEF IInv, TypeOK, Goto
<1>3. Held' = Held /\ Owners' = Owners /\ Receivers' = Receivers
  <2>1. Accounts(t)
    BY <1>1, <1>2, Sums DEF IInv
  <2> QED BY <1>2, <2>1, Points DEF Accounts, IInv, TypeOK
<1> QED BY <1>1, <1>2, <1>3, OwnerKeeps DEF OwnPcs, PinPcs, HoldPcs

\* The slot changes hands: the accept thread's ownership ends ...
LEMMA OffReleaseFlagStep ==
    ASSUME IInv, OffReleaseFlag
    PROVE  IInv'
<1> USE DEF OffReleaseFlag, slotVars, ioVars, serverVars
<1> DEFINE t == Acceptor
<1>0. t \in Threads
  BY DEF Threads
<1>1. /\ TypeOK /\ RefCountExact /\ ReleasedOnce /\ FoundSessionStays /\ OneReceive /\ Pinned
  BY DEF IInv
<1>2. Goto(t, pc'[t]) /\ pc[t] = "accOffFlag" /\ pc'[t] = "accConnect"
  BY <1>0, <1>1 DEF TypeOK, Goto
<1>3. /\ Owners = 1 /\ Receivers = 0 /\ refCount = Held + ReleaseFlag
      /\ Held \in Nat /\ ReleaseFlag \in Nat /\ recvIo = "none" /\ ~(sendIo > 0)
  BY <1>0, <1>2, Facts DEF OwnPcs
<1>4. refCount' = Held
  BY <1>3 DEF Released
<1>5. TypeOK'
  BY <1>0, <1>1, <1>3, <1>4 DEF TypeOK, Goto, Pcs, HoldPcs
<1>6. Held' = Held /\ Owners' = 0 /\ Receivers' = 1
  <2>1. Accounts(t)
    BY <1>0, <1>1, <1>2, <1>5, Sums
  <2> QED BY <1>1, <1>2, <1>3, <2>1, Points DEF Accounts, TypeOK
<1>7. RefCountExact' /\ ReleasedOnce' /\ OneReceive'
  BY <1>3, <1>4, <1>6 DEF RefCountExact, ReleasedOnce, OneReceive, Receivers
<1>8. \A u \in Threads : u # t => pc'[u] = pc[u]
  BY <1>1 DEF Goto, TypeOK
<1>9. FoundSessionStays'
  BY <1>0, <1>1, <1>2, <1>3, <1>8 DEF FoundSessionStays
<1>10. Pinned'
  BY <1>0, <1>1, <1>2, <1>6 DEF Pinned
<1> QED BY <1>5, <1>7, <1>9, <1>10 DEF IInv

\* ... and the thread whose exchange finds the count at 0 becomes the owner;
\* that nobody holds a reference is what makes it safe.
LEMMA ReleaseCasStep ==
    ASSUME IInv, NEW t \in Threads, ReleaseCas(t)
    PROVE  IInv'
<1> USE DEF ReleaseCas, Return, slotVars, ioVars, serverVars
<1>1. /\ TypeOK /\ RefCountExact /\ ReleasedOnce /\ FoundSessionStays /\ OneReceive /\ Pinned
  BY DEF IInv
<1>2. TypeOK'
  BY <1>1, SessionAssumption DEF TypeOK, Goto, Pcs, OwnPcs
<1>3. CASE refCount # 0
  <2>1. Goto(t, pc'[t]) /\ pc[t] = "cas" /\ pc'[t] \in {"accCount", "report", "idle"}
    BY <1>1, <1>3 DEF TypeOK, Goto
  <2>2. Held' = Held /\ Owners' = Owners /\ Receivers' <= 1
    <3>1. Accounts(t)
      BY <1>1, <1>2, <2>1, Sums
    <3> QED BY <2>1, <3>1, Points, Facts DEF Accounts, IInv, TypeOK
  <2> QED BY <1>2, <1>3, <2>1, <2>2, Facts, Keep DEF IInv, TypeOK, HoldPcs, PinPcs
<1>4. CASE refCount = 0
  <2>1. Goto(t, pc'[t]) /\ pc[t] = "cas" /\ pc'[t] = "post" /\ refCount' = ReleaseFlag
    BY <1>1, <1>4 DEF TypeOK, Goto
  <2>2. Owners = 0 /\ Held = 0 /\ ReleaseFlag \in Nat
    BY <1>4, Facts
  <2>3. Held' = 0 /\ Owners' = 1 /\ Receivers' <= 1
    <3>1. Accounts(t)
      BY <1>1, <1>2, <2>1, Sums
    <3> QED BY <2>1, <2>2, <3>1, Points, Facts DEF Accounts, IInv, TypeOK
  <2>4. RefCountExact' /\ ReleasedOnce' /\ OneReceive'
    BY <2>1, <2>2, <2>3 DEF RefCountExact, ReleasedOnce, OneReceive, Receivers
  <2>5. \A u \in Threads : pc[u] \notin HoldPcs
    BY <2>2, Facts
  <2>6. \A u \in Threads : pc'[u] \notin HoldPcs
    BY <1>1, <2>1, <2>5 DEF Goto, TypeOK, HoldPcs
  <2>7. recvIo = "none" /\ ~(sendIo > 0)
    <3>1. /\ Cardinality(At(HoldPcs)) \in Nat
          /\ Cardinality(At(Hold2Pcs)) \in Nat
      BY <1>1, Numbers
    <3> QED BY <1>1, <2>2, <3>1 DEF Held, TypeOK
  <2>8. FoundSessionStays' /\ Pinned'
    BY <1>1, <2>2, <2>3, <2>6, <2>7 DEF FoundSessionStays, Pinned, HoldPcs, PinPcs, Threads
  <2> QED BY <1>2, <2>4, <2>8 DEF IInv
<1> QED BY <1>3, <1>4

\* A receive that completes keeps its reference.
LEMMA NetworkStep ==
    ASSUME IInv, Network
    PROVE  IInv'
<1> USE DEF Network, slotVars, ioVars, serverVars
<1>1. At(HoldPcs)' = At(HoldPcs) /\ At(Hold2Pcs)' = At(Hold2Pcs)
      /\ At(OwnPcs)' = At(OwnPcs) /\ At(RecvPcs)' = At(RecvPcs)
  BY DEF At, HoldPcs, Hold2Pcs, OwnPcs, RecvPcs
<1>2. Held' = Held /\ Owners' = Owners /\ (OneReceive' <=> OneReceive)
  BY <1>1 DEF Held, Owners, OneReceive, HoldPcs, Hold2Pcs, OwnPcs, RecvPcs
<1> QED BY <1>2 DEF IInv, TypeOK, RefCountExact, ReleasedOnce, FoundSessionStays,
                   Pinned, PinPcs, HoldPcs

----------------------------------------------------------------------------
\* The server starts with the slot on the free-index stack, flag set.
LEMMA InitIInv == Init => IInv
<1> SUFFICES ASSUME Init PROVE IInv
  OBVIOUS
<1>1. TypeOK
  <2>1. NoCall \in Calls
    BY SessionAssumption DEF NoCall, Calls, Ops
  <2>2. pc \in [Threads -> Pcs]
    BY DEF Init, Pcs
  <2>3. call \in [Threads -> Calls]
    BY <2>1 DEF Init
  <2>4. phase \in [Ids -> {"new", "connected", "gone"}]
    BY DEF Init
  <2>5. /\ refCount \in Nat /\ sessionId \in 0..MaxId /\ socket \in 0..MaxId
        /\ sendIo \in Nat /\ sendPosted \in Nat /\ releasePosted \in Nat
        /\ freeIndex \in Nat /\ lastId \in 0..MaxId /\ sessionCount \in Int
    BY SessionAssumption DEF Init
  <2>6. connect \in BOOLEAN /\ isSending \in BOOLEAN /\ hole \in BOOLEAN
    BY DEF Init
  <2>7. recvIo \in {"none", "pending", "data", "failed"}
    BY DEF Init
  <2> QED BY <2>2, <2>3, <2>4, <2>5, <2>6, <2>7 DEF TypeOK
<1>2. At(HoldPcs) = {} /\ At(Hold2Pcs) = {} /\ At(OwnPcs) = {} /\ At(RecvPcs) = {}
  BY DEF Init, At, HoldPcs, Hold2Pcs, OwnPcs, RecvPcs
<1>3. Held = 0 /\ Owners = 1 /\ Cardinality(At(RecvPcs)) = 0
  BY <1>2, FS_EmptySet DEF Init, Held, Owners
<1>4. RefCountExact /\ ReleasedOnce /\ OneReceive
  BY <1>3, SessionAssumption DEF Init, RefCountExact, ReleasedOnce, OneReceive
<1>5. FoundSessionStays /\ Pinned
  BY <1>3 DEF Init, FoundSessionStays, Pinned, PinPcs, HoldPcs, Threads
<1> QED BY <1>1, <1>4, <1>5 DEF IInv

\* A step that changes nothing preserves the invariant.
LEMMA StutterIInv ==
    ASSUME IInv, UNCHANGED vars
    PROVE  IInv'
<1> USE DEF vars, slotVars, ioVars, serverVars
<1>1. At(HoldPcs)' = At(HoldPcs) /\ At(Hold2Pcs)' = At(Hold2Pcs)
      /\ At(OwnPcs)' = At(OwnPcs) /\ At(RecvPcs)' = At(RecvPcs)
  BY DEF At, HoldPcs, Hold2Pcs, OwnPcs, RecvPcs
<1>2. Held' = Held /\ Owners' = Owners /\ (OneReceive' <=> OneReceive)
  BY <1>1 DEF Held, Owners, OneReceive, HoldPcs, Hold2Pcs, OwnPcs, RecvPcs
<1> QED BY <1>2 DEF IInv, TypeOK, RefCountExact, ReleasedOnce, FoundSessionStays,
                   Pinned, PinPcs, HoldPcs

\* Every step of every thread and of the network preserves IInv.
LEMMA NextIInv == IInv /\ [Next]_vars => IInv'
<1> SUFFICES ASSUME IInv, [Next]_vars PROVE IInv'
  OBVIOUS
<1>0. Workers \subseteq Threads /\ Callers \subseteq Threads /\ Timers \subseteq Threads
  BY SessionAssumption DEF Threads
<1>1. CASE Accept
  BY <1>1, AcceptPopStep, AcceptResetStep, AcceptIncStep, AcceptInstallStep,
     OffReleaseFlagStep, AcceptConnectStep, AcceptOnConnectStep, AcceptCountStep DEF Accept
<1>2. ASSUME NEW t \in Threads, Step(t) PROVE IInv'
  <2>1. CASE RecvNotIncrease(t)
    BY <2>1, RecvCheckStep, RecvPendingStep, RecvImmediateStep, RecvFailsStep,
       RecvRecheckStep DEF RecvNotIncrease
  <2>2. CASE Use(t)
    BY <2>2, FindIncStep, FindCheckStep, ProbeStep, CloseFlagStep, CancelIOStep,
       SendPacketStep, SendPacketBlockingStep DEF Use
  <2>3. CASE Release(t)
    BY <2>3, ReleaseDecStep, ReleaseCasStep, PostReleaseStep DEF Release
  <2>4. CASE SendInline(t)
    BY <2>4, TrySendStep, NestedIncStep, NestedSendStep, NestedDecStep DEF SendInline
  <2> QED BY <1>2, <2>1, <2>2, <2>3, <2>4 DEF Step
<1>3. ASSUME NEW w \in Workers, Dequeue(w) \/ Execute(w) PROVE IInv'
  <2>0. w \in Threads
    BY <1>0
  <2>1. CASE Dequeue(w)
    BY <2>0, <2>1, RecvEndStep, RecvExecuteStep, SendExecuteStep, SendDoneStep,
       OnDisconnectStep DEF Dequeue
  <2>2. CASE Execute(w)
    BY <2>0, <2>2, RealSendStep, PostSendStep, ReleaseResetStep,
       ReleaseFreeIndexStep DEF Execute
  <2> QED BY <1>3, <2>1, <2>2
<1>4. ASSUME NEW t \in Callers, Call(t) PROVE IInv'
  BY <1>0, <1>4, CallStep
<1>5. ASSUME NEW t \in Timers, TimeoutVisit(t) \/ CheckTimeout(t) \/ OnSessionTimeout(t)
      PROVE IInv'
  BY <1>0, <1>5, TimeoutVisitStep, CheckTimeoutStep, OnSessionTimeoutStep
<1>6. CASE Network
  BY <1>6, NetworkStep
<1>7. CASE UNCHANGED vars
  BY <1>7, StutterIInv
<1>8. ASSUME NEW t \in Threads, SpinEnds(t) PROVE IInv'
  BY <1>8, SpinEndsStep
<1> QED BY <1>1, <1>2, <1>3, <1>4, <1>5, <1>6, <1>7, <1>8 DEF Next

\* The inductive invariant holds for any number of threads, connections and
\* sends, and for any release flag.
THEOREM Invariance == Spec => []IInv
BY InitIInv, NextIInv, PTL DEF Spec

\* Every variable keeps its type; in particular _refCount never goes negative.
THEOREM TypeCorrect == Spec => []TypeOK
<1>1. IInv => TypeOK
  BY DEF IInv
<1> QED BY <1>1, Invariance, PTL

\* _refCount counts the references of threads and I/O exactly, plus the flag
\* while the slot is owned.
THEOREM RefCountCorrect == Spec => []RefCountExact
<1>1. IInv => RefCountExact
  BY DEF IInv
<1> QED BY <1>1, Invariance, PTL

\* However lookups, I/O completions and releases interleave, a connection is
\* released once and its index is never on the free stack twice.
THEOREM ReleaseCorrect == Spec => []ReleasedOnce
<1>1. IInv => ReleasedOnce
  BY DEF IInv
<1> QED BY <1>1, Invariance, PTL

\* What FindSession returned stays the session that was asked for.
THEOREM FindCorrect == Spec => []FoundSessionStays
<1>1. IInv => FoundSessionStays
  BY DEF IInv
<1> QED BY <1>1, Invariance, PTL

\* The receive is never posted while it is outstanding.
THEOREM ReceiveCorrect == Spec => []OneReceive
<1>1. IInv => OneReceive
  BY DEF IInv
<1> QED BY <1>1, Invariance, PTL

\* Only an owner replaces or closes the socket, and nobody owns a slot that has
\* I/O outstanding.
LEMMA SocketStep ==
    ASSUME IInv, [Next]_vars, socket' # socket
    PROVE  recvIo = "none" /\ sendIo = 0
<1>1. \E t \in Threads : pc[t] \in OwnPcs
  <2> USE DEF slotVars, ioVars, serverVars
  <2>1. CASE Accept
    BY <2>1 DEF Accept, AcceptPop, AcceptReset, AcceptInc, AcceptInstall, OffReleaseFlag,
       AcceptConnect, AcceptOnConnect, AcceptCount, Threads, OwnPcs
  <2>2. ASSUME NEW t \in Threads, Step(t) PROVE FALSE
    BY <2>2 DEF Step, RecvNotIncrease, RecvCheck, RecvPending, RecvImmediate, RecvFails,
       RecvRecheck, Use, FindInc, FindCheck, Probe, CloseFlag, CancelIO, SendPacket,
       SendPacketBlocking, SendInline, TrySend, NestedInc, NestedSend, NestedDec, Release, ReleaseDec, ReleaseCas, PostRelease
  <2>3. ASSUME NEW w \in Workers, Dequeue(w) PROVE FALSE
    BY <2>3 DEF Dequeue, RecvEnd, RecvExecute, SendExecute, SendDone, OnDisconnect
  <2>4. ASSUME NEW w \in Workers, Execute(w) PROVE pc[w] \in OwnPcs
    BY <2>4 DEF Execute, RealSend, PostSend, ReleaseReset, ReleaseFreeIndex, OwnPcs
  <2>5. ASSUME NEW t \in Callers, Call(t) PROVE FALSE
    BY <2>5 DEF Call
  <2>6. ASSUME NEW t \in Timers, TimeoutVisit(t) \/ CheckTimeout(t) \/ OnSessionTimeout(t)
        PROVE FALSE
    BY <2>6 DEF TimeoutVisit, CheckTimeout, OnSessionTimeout
  <2>7. CASE Network \/ UNCHANGED vars
    BY <2>7 DEF Network, vars
  <2>8. Workers \subseteq Threads
    BY DEF Threads
  <2>9. ASSUME NEW t \in Threads, SpinEnds(t) PROVE FALSE
    BY <2>9 DEF SpinEnds
  <2> QED BY <2>1, <2>2, <2>3, <2>4, <2>5, <2>6, <2>7, <2>8, <2>9 DEF Next
<1>2. Owners = 1
  BY <1>1, Facts
<1> QED BY <1>2 DEF IInv, TypeOK, Pinned

\* "생기면 안 됨": a socket is never closed or replaced while I/O on it is outstanding.
THEOREM SocketCorrect == Spec => NoCloseDuringIo
<1>1. IInv /\ [Next]_vars => [socket' # socket => recvIo = "none" /\ sendIo = 0]_vars
  BY SocketStep
<1> QED BY <1>1, Invariance, PTL DEF Spec, NoCloseDuringIo

----------------------------------------------------------------------------
\* The callbacks.

\* Where the accept thread is: it has an index and no session installed yet, it
\* has installed one it has not announced, or it has announced it.
EarlyPcs == {"accReset", "accInc", "accInstall"}
NewPcs == {"accOffFlag", "accConnect", "accOnConnect"}
LatePcs == Pcs \ (EarlyPcs \cup NewPcs \cup {"idle"})

\* Where a worker is between OnDisconnect and the push of the index.
RelPcs == {"relReset", "relPush"}

\* The session whose id the slot has is over: the index is free, a worker has
\* announced the end, or the acceptor has the slot for the next connection.
Over == \/ freeIndex > 0
        \/ pc[Acceptor] \in EarlyPcs
        \/ \E u \in Threads : pc[u] \in RelPcs

\* What has been announced for an id follows from the slot's id and its owner.
PhaseOf(i) ==
    IF i > sessionId \/ (i = sessionId /\ pc[Acceptor] \in NewPcs) THEN "new"
    ELSE IF i < sessionId \/ Over THEN "gone" ELSE "connected"

Connected == {i \in Ids : phase[i] = "connected"}

\* The strengthening the callbacks and the count need.
IdInv == /\ sessionId = IF pc[Acceptor] \in EarlyPcs THEN lastId - 1 ELSE lastId
         /\ lastId = 0 => freeIndex > 0 /\ pc[Acceptor] = "idle"
PhaseInv == \A i \in Ids : phase[i] = PhaseOf(i)
CountInv == sessionCount = Cardinality(Connected)
                             - (IF pc[Acceptor] \in LatePcs THEN 1 ELSE 0)
CInv == IdInv /\ PhaseInv /\ CountInv

\* A step that leaves ids, counts and callbacks alone and keeps the acceptor and
\* the releasing workers where they are.
Quiet == /\ UNCHANGED <<phase, lastId, sessionId, sessionCount, freeIndex>>
         /\ \A u \in Threads : pc'[u] \in RelPcs <=> pc[u] \in RelPcs
         /\ pc'[Acceptor] \in EarlyPcs <=> pc[Acceptor] \in EarlyPcs
         /\ pc'[Acceptor] \in NewPcs <=> pc[Acceptor] \in NewPcs
         /\ pc'[Acceptor] \in LatePcs <=> pc[Acceptor] \in LatePcs

\* Quiet steps keep the strengthening.
LEMMA QuietKeeps ==
    ASSUME IInv, IInv', CInv, Quiet
    PROVE  CInv'
<1>0. Acceptor \in Threads /\ pc[Acceptor] \in Pcs /\ pc'[Acceptor] \in Pcs
  BY DEF Threads, IInv, TypeOK
<1>1. IdInv'
  BY <1>0 DEF CInv, IdInv, Quiet, LatePcs, EarlyPcs, NewPcs, Pcs, HoldPcs, OwnPcs
<1>2. Over' <=> Over
  BY DEF Over, Quiet, EarlyPcs, RelPcs
<1>3. PhaseInv'
  BY <1>2 DEF CInv, PhaseInv, PhaseOf, Quiet, NewPcs
<1>4. CountInv'
  <2>1. Connected' = Connected
    BY DEF Connected, Quiet
  <2> QED BY <2>1 DEF CInv, CountInv, Quiet
<1> QED BY <1>1, <1>3, <1>4 DEF CInv

\* A thread that stays inside its call, not at an accepting or releasing point,
\* is quiet; the acceptor returns to the point where it counts the session.
LEMMA InsideQuiet ==
    ASSUME IInv, NEW t \in Threads, Goto(t, pc'[t]),
           UNCHANGED <<phase, lastId, sessionId, sessionCount, freeIndex>>,
           pc[t] \in LatePcs \ RelPcs,
           pc'[t] \in LatePcs \ RelPcs \/ pc'[t] = Return(t)
    PROVE  Quiet
<1>1. \A u \in Threads : u # t => pc'[u] = pc[u]
  BY DEF Goto, IInv, TypeOK
<1>2. t = Acceptor => pc'[t] \in LatePcs
  BY DEF Return, LatePcs, EarlyPcs, NewPcs, Pcs
<1>3. pc'[t] \notin RelPcs
  BY DEF Return, RelPcs
<1> QED BY <1>1, <1>2, <1>3 DEF Quiet, LatePcs, Threads

\* A worker or a caller is quiet unless it announces the end of a session.
LEMMA OutsideQuiet ==
    ASSUME IInv, NEW t \in Threads, t # Acceptor, Goto(t, pc'[t]),
           UNCHANGED <<phase, lastId, sessionId, sessionCount, freeIndex>>,
           pc[t] \in RelPcs <=> pc'[t] \in RelPcs
    PROVE  Quiet
<1>1. \A u \in Threads : u # t => pc'[u] = pc[u]
  BY DEF Goto, IInv, TypeOK
<1> QED BY <1>1 DEF Quiet, Threads

\* Every step of a call is quiet.
LEMMA StepQuiet ==
    ASSUME IInv, NEW t \in Threads, Step(t)
    PROVE  Quiet
<1> USE DEF slotVars, ioVars, serverVars
<1>0. pc \in [Threads -> Pcs]
  BY DEF IInv, TypeOK
<1>1. UNCHANGED <<phase, lastId, sessionId, sessionCount, freeIndex>>
  BY DEF Step, RecvNotIncrease, RecvCheck, RecvPending, RecvImmediate, RecvFails,
     RecvRecheck, Use, FindInc, FindCheck, Probe, CloseFlag, CancelIO, SendPacket,
     SendPacketBlocking, SendInline, TrySend, NestedInc, NestedSend, NestedDec,
     Release, ReleaseDec, ReleaseCas, PostRelease
<1> DEFINE Moves == /\ Goto(t, pc'[t])
                    /\ pc[t] \in LatePcs \ RelPcs
                    /\ pc'[t] \in LatePcs \ RelPcs \/ pc'[t] = Return(t)
<1> USE DEF LatePcs, RelPcs, EarlyPcs, NewPcs, Pcs, HoldPcs, OwnPcs, Goto
<1>2. ASSUME RecvNotIncrease(t) PROVE Moves
  BY <1>0, <1>2 DEF RecvNotIncrease, RecvCheck, RecvPending, RecvImmediate, RecvFails,
     RecvRecheck
<1>3. ASSUME Use(t) PROVE Moves
  BY <1>0, <1>3 DEF Use, FindInc, FindCheck, Probe, CloseFlag, CancelIO, SendPacket,
     SendPacketBlocking
<1>4. ASSUME SendInline(t) PROVE Moves
  BY <1>0, <1>4 DEF SendInline, TrySend, NestedInc, NestedSend, NestedDec
<1>5. ASSUME Release(t) PROVE Moves
  BY <1>0, <1>5 DEF Release, ReleaseDec, ReleaseCas, PostRelease
<1> QED BY <1>1, <1>2, <1>3, <1>4, <1>5, InsideQuiet DEF Step

----------------------------------------------------------------------------
\* Who owns the slot is alone: no other thread accepts, releases or uses it.
LEMMA OwnerAlone ==
    ASSUME IInv, Owners = 1
    PROVE  /\ \A u \in Threads : pc[u] \notin PinPcs
           /\ \A u \in Threads : pc[u] \in OwnPcs =>
                /\ releasePosted = 0 /\ freeIndex = 0
                /\ \A v \in Threads : v # u => pc[v] \notin OwnPcs
           /\ releasePosted > 0 \/ freeIndex > 0 => \A u \in Threads : pc[u] \notin OwnPcs
           /\ releasePosted > 0 => freeIndex = 0
           /\ freeIndex <= 1
<1>1. TypeOK /\ Pinned
  BY DEF IInv
<1>2. Cardinality(At(OwnPcs)) \in Nat /\ releasePosted \in Nat /\ freeIndex \in Nat
  BY <1>1, Numbers DEF TypeOK
<1>3. Cardinality(At(OwnPcs)) + releasePosted + freeIndex = 1
  BY DEF Owners
<1>4. \A u \in Threads : pc[u] \notin PinPcs
  BY <1>1 DEF Pinned
<1>5. ASSUME NEW u \in Threads, pc[u] \in OwnPcs
      PROVE  /\ releasePosted = 0 /\ freeIndex = 0
             /\ \A v \in Threads : v # u => pc[v] \notin OwnPcs
  <2>1. /\ Cardinality(At(OwnPcs)) >= 1
        /\ \A v \in Threads : v # u /\ pc[v] \in OwnPcs => Cardinality(At(OwnPcs)) >= 2
    BY <1>5, MemberCounts
  <2> QED BY <1>2, <1>3, <2>1
<1> QED BY <1>2, <1>3, <1>4, <1>5

\* The set of connected ids is finite.
LEMMA ConnectedFinite == IsFiniteSet(Connected) /\ Cardinality(Connected) \in Nat
<1>1. IsFiniteSet(Ids)
  BY FS_Interval, SessionAssumption DEF Ids
<1> QED BY <1>1, FS_Subset, FS_CardinalityType DEF Connected

\* The connected ids stay when no callback is made.
LEMMA ConnectedStays ==
    ASSUME phase' = phase
    PROVE  Connected' = Connected
BY DEF Connected

\* The points of the acceptor are disjoint.
LEMMA AcceptorPoints ==
    /\ \A a \in EarlyPcs : a \in Pcs /\ a \notin NewPcs /\ a \notin LatePcs /\ a # "idle"
                           /\ a \notin RelPcs
    /\ \A a \in NewPcs : a \in Pcs /\ a \notin EarlyPcs /\ a \notin LatePcs /\ a # "idle"
                         /\ a \notin RelPcs
    /\ \A a \in LatePcs : a \in Pcs /\ a \notin EarlyPcs /\ a \notin NewPcs /\ a # "idle"
    /\ "idle" \notin EarlyPcs /\ "idle" \notin NewPcs /\ "idle" \notin LatePcs
    /\ "idle" \notin RelPcs
    /\ {"recvCheck", "accCount", "relReset", "relPush"} \subseteq LatePcs
BY DEF EarlyPcs, NewPcs, LatePcs, RelPcs, Pcs, HoldPcs, OwnPcs

----------------------------------------------------------------------------
\* The acceptor takes a free slot: its old session was over already.
LEMMA PopKeeps ==
    ASSUME IInv, IInv', CInv, AcceptPop
    PROVE  CInv'
<1> USE DEF AcceptPop, slotVars, ioVars
<1>0. Acceptor \in Threads
  BY DEF Threads
<1>1. /\ pc'[Acceptor] = "accReset" /\ pc[Acceptor] = "idle"
      /\ \A u \in Threads : u # Acceptor => pc'[u] = pc[u]
  BY <1>0 DEF IInv, TypeOK, Goto
<1>2. pc'[Acceptor] \in EarlyPcs /\ pc[Acceptor] \notin EarlyPcs
      /\ pc'[Acceptor] \notin NewPcs /\ pc[Acceptor] \notin NewPcs
      /\ pc'[Acceptor] \notin LatePcs /\ pc[Acceptor] \notin LatePcs
  BY <1>1, AcceptorPoints DEF EarlyPcs
<1>3. IdInv'
  BY <1>2 DEF CInv, IdInv, IInv, TypeOK
<1>4. Over /\ Over'
  BY <1>2 DEF Over
<1>5. PhaseInv'
  BY <1>2, <1>4 DEF CInv, PhaseInv, PhaseOf
<1>6. CountInv'
  BY <1>2, ConnectedStays DEF CInv, CountInv
<1> QED BY <1>3, <1>5, <1>6 DEF CInv

\* The acceptor installs the next id: the one before it is gone, the new one is
\* not announced yet.
LEMMA InstallKeeps ==
    ASSUME IInv, IInv', CInv, AcceptInstall
    PROVE  CInv'
<1> USE DEF AcceptInstall, ioVars, serverVars
<1>0. Acceptor \in Threads
  BY DEF Threads
<1>1. /\ pc'[Acceptor] = "accOffFlag" /\ pc[Acceptor] = "accInstall"
      /\ \A u \in Threads : u # Acceptor => pc'[u] = pc[u]
  BY <1>0 DEF IInv, TypeOK, Goto
<1>2. pc[Acceptor] \in EarlyPcs /\ pc'[Acceptor] \notin EarlyPcs
      /\ pc'[Acceptor] \in NewPcs /\ pc[Acceptor] \notin NewPcs
      /\ pc'[Acceptor] \notin LatePcs /\ pc[Acceptor] \notin LatePcs
  BY <1>1, AcceptorPoints DEF EarlyPcs, NewPcs
<1>3. /\ sessionId = lastId - 1 /\ sessionId' = lastId
      /\ lastId \in Nat /\ lastId # 0 /\ lastId' = lastId
  BY <1>2, AcceptorPoints DEF CInv, IdInv, IInv, TypeOK
<1>4. IdInv'
  BY <1>2, <1>3 DEF IdInv
<1>5. Over
  BY <1>2 DEF Over
<1>6. ASSUME NEW i \in Ids PROVE PhaseOf(i)' = PhaseOf(i)
  <2>1. i \in Int
    BY DEF Ids
  <2>2. CASE i < lastId
    BY <1>2, <1>3, <1>5, <2>1, <2>2 DEF PhaseOf
  <2>3. CASE i >= lastId
    BY <1>2, <1>3, <2>1, <2>3 DEF PhaseOf
  <2> QED BY <1>3, <2>1, <2>2, <2>3
<1>7. PhaseInv'
  BY <1>6 DEF CInv, PhaseInv, Ids
<1>8. CountInv'
  BY <1>2, ConnectedStays DEF CInv, CountInv
<1> QED BY <1>4, <1>7, <1>8 DEF CInv

\* OnConnect: the session in the slot is announced; nobody owns the slot, so it
\* is not over.
LEMMA OnConnectKeeps ==
    ASSUME IInv, IInv', CInv, AcceptOnConnect
    PROVE  CInv' /\ sessionId \in Ids /\ phase[sessionId] = "new"
<1> USE DEF AcceptOnConnect, slotVars, ioVars, serverVars
<1>0. Acceptor \in Threads /\ TypeOK
  BY DEF Threads, IInv
<1>1. /\ pc'[Acceptor] = "recvCheck" /\ pc[Acceptor] = "accOnConnect"
      /\ \A u \in Threads : u # Acceptor => pc'[u] = pc[u]
  BY <1>0 DEF TypeOK, Goto
<1>2. /\ pc[Acceptor] \in NewPcs /\ pc[Acceptor] \notin EarlyPcs /\ pc[Acceptor] \notin LatePcs
      /\ pc'[Acceptor] \in LatePcs /\ pc'[Acceptor] \notin EarlyPcs /\ pc'[Acceptor] \notin NewPcs
  BY <1>1, AcceptorPoints DEF NewPcs
<1>3. sessionId \in Ids /\ sessionId = lastId
  BY <1>0, <1>2, AcceptorPoints DEF CInv, IdInv, TypeOK, Ids
<1>4. phase[sessionId] = "new"
  BY <1>2, <1>3 DEF CInv, PhaseInv, PhaseOf
<1>5. ~Over'
  <2>1. Owners = 0 /\ Owners \in Nat
    BY <1>0, <1>1, Facts DEF PinPcs, HoldPcs
  <2>2. freeIndex = 0 /\ \A u \in Threads : pc[u] \notin OwnPcs
    BY <1>0, <2>1, Facts DEF TypeOK
  <2>3. pc'[Acceptor] \notin RelPcs
    BY <1>1 DEF RelPcs
  <2> QED BY <1>1, <1>2, <2>2, <2>3 DEF Over, RelPcs, OwnPcs
<1>6. IdInv'
  BY <1>2, <1>3 DEF CInv, IdInv, Ids
<1>7. PhaseInv'
  <2>1. ASSUME NEW i \in Ids PROVE phase'[i] = PhaseOf(i)'
    <3>1. sessionId \in Int /\ i \in Int
      BY <1>3 DEF Ids
    <3>2. phase[i] = PhaseOf(i)
      BY DEF CInv, PhaseInv
    <3>3. CASE i = sessionId
      BY <1>0, <1>2, <1>3, <1>5, <3>1, <3>3 DEF PhaseOf, TypeOK
    <3>4. CASE i # sessionId
      BY <1>0, <1>2, <1>3, <1>5, <3>1, <3>2, <3>4 DEF PhaseOf, TypeOK
    <3> QED BY <3>3, <3>4
  <2> QED BY <2>1 DEF PhaseInv, Ids
<1>8. CountInv'
  <2>0. PICK i \in Ids : i = sessionId
    BY <1>3
  <2>1. Cardinality(Connected) \in Nat /\ Cardinality(Connected') = Cardinality(Connected) + 1
    <3>1. Connected' = Connected \cup {i} /\ i \notin Connected
      BY <1>0, <1>4, <2>0 DEF Connected, TypeOK
    <3> QED BY <3>1, ConnectedFinite, FS_AddElement
  <2> QED BY <1>2, <2>1 DEF CInv, CountInv
<1> QED BY <1>3, <1>4, <1>6, <1>7, <1>8 DEF CInv

\* The accept thread counts the session it has announced.
LEMMA CountKeeps ==
    ASSUME IInv, IInv', CInv, AcceptCount
    PROVE  CInv'
<1> USE DEF AcceptCount, slotVars, ioVars
<1>0. Acceptor \in Threads /\ TypeOK
  BY DEF Threads, IInv
<1>1. /\ pc'[Acceptor] = "idle" /\ pc[Acceptor] = "accCount"
      /\ \A u \in Threads : u # Acceptor => pc'[u] = pc[u]
  BY <1>0 DEF TypeOK, Goto
<1>2. /\ pc[Acceptor] \in LatePcs /\ pc[Acceptor] \notin EarlyPcs /\ pc[Acceptor] \notin NewPcs
      /\ pc[Acceptor] \notin RelPcs /\ pc'[Acceptor] \notin RelPcs
      /\ pc'[Acceptor] \notin LatePcs /\ pc'[Acceptor] \notin EarlyPcs /\ pc'[Acceptor] \notin NewPcs
  BY <1>1, AcceptorPoints DEF RelPcs
<1>3. IdInv'
  BY <1>1, <1>2 DEF CInv, IdInv
<1>4. Over' <=> Over
  BY <1>1, <1>2 DEF Over
<1>5. PhaseInv'
  BY <1>2, <1>4 DEF CInv, PhaseInv, PhaseOf
<1>6. CountInv'
  BY <1>2, ConnectedFinite, ConnectedStays DEF CInv, CountInv
<1> QED BY <1>3, <1>5, <1>6 DEF CInv

\* OnDisconnect: the release was queued by the session's last user, so the slot
\* holds an announced session, and no thread and no I/O uses it.
LEMMA OnDisconnectKeeps ==
    ASSUME IInv, IInv', CInv, NEW w \in Workers, OnDisconnect(w)
    PROVE  /\ CInv'
           /\ sessionId \in Ids /\ phase[sessionId] = "connected"
           /\ recvIo = "none" /\ sendIo = 0
<1> USE DEF OnDisconnect, slotVars
<1>0. Acceptor \in Threads /\ w \in Threads /\ w # Acceptor /\ TypeOK
  BY SessionAssumption DEF Threads, IInv
<1>1. /\ pc'[w] = "relReset" /\ pc[w] = "idle"
      /\ \A u \in Threads : u # w => pc'[u] = pc[u]
  BY <1>0 DEF TypeOK, Goto
<1>2. Owners = 1 /\ recvIo = "none" /\ ~(sendIo > 0)
  BY <1>0, Facts DEF TypeOK
<1>3. /\ \A u \in Threads : pc[u] \notin OwnPcs /\ pc[u] \notin PinPcs
      /\ freeIndex = 0
  BY <1>2, OwnerAlone
<1>4. pc[Acceptor] \notin EarlyPcs /\ pc[Acceptor] \notin NewPcs
  BY <1>0, <1>3 DEF EarlyPcs, NewPcs, OwnPcs, PinPcs, HoldPcs
<1>5. ~Over
  BY <1>3, <1>4 DEF Over, OwnPcs, RelPcs
<1>6. sessionId = lastId /\ sessionId \in Ids
  BY <1>0, <1>3, <1>4 DEF CInv, IdInv, TypeOK, Ids
<1>7. phase[sessionId] = "connected"
  BY <1>4, <1>5, <1>6 DEF CInv, PhaseInv, PhaseOf, Ids
<1>8. Over' /\ pc'[Acceptor] = pc[Acceptor]
  BY <1>0, <1>1 DEF Over, RelPcs
<1>9. IdInv'
  BY <1>8 DEF CInv, IdInv
<1>10. PhaseInv'
  <2>1. ASSUME NEW i \in Ids PROVE phase'[i] = PhaseOf(i)'
    <3>1. sessionId \in Int /\ i \in Int
      BY <1>6 DEF Ids
    <3>2. phase[i] = PhaseOf(i)
      BY DEF CInv, PhaseInv
    <3> QED BY <1>0, <1>4, <1>5, <1>6, <1>8, <3>1, <3>2 DEF PhaseOf, TypeOK
  <2> QED BY <2>1 DEF PhaseInv, Ids
<1>11. CountInv'
  <2>0. PICK i \in Ids : i = sessionId
    BY <1>6
  <2>1. Cardinality(Connected) \in Nat /\ Cardinality(Connected') = Cardinality(Connected) - 1
    <3>1. Connected' = Connected \ {i} /\ i \in Connected
      BY <1>0, <1>7, <2>0 DEF Connected, TypeOK
    <3> QED BY <3>1, ConnectedFinite, FS_RemoveElement
  <2> QED BY <1>8, <2>1 DEF CInv, CountInv
<1> QED BY <1>0, <1>2, <1>6, <1>7, <1>9, <1>10, <1>11 DEF CInv, TypeOK

\* The index goes back to the free stack: the session stays over.
LEMMA FreeIndexKeeps ==
    ASSUME IInv, IInv', CInv, NEW w \in Workers, ReleaseFreeIndex(w)
    PROVE  CInv'
<1> USE DEF ReleaseFreeIndex, slotVars, ioVars
<1>0. Acceptor \in Threads /\ w \in Threads /\ w # Acceptor /\ TypeOK
  BY SessionAssumption DEF Threads, IInv
<1>1. /\ pc[w] = "relPush" /\ pc'[Acceptor] = pc[Acceptor] /\ freeIndex' = freeIndex + 1
      /\ freeIndex \in Nat
  BY <1>0 DEF TypeOK, Goto
<1>2. Over /\ Over'
  BY <1>0, <1>1 DEF Over, RelPcs
<1>3. IdInv'
  BY <1>1 DEF CInv, IdInv
<1>4. PhaseInv'
  BY <1>1, <1>2 DEF CInv, PhaseInv, PhaseOf
<1>5. CountInv'
  BY <1>1, ConnectedStays DEF CInv, CountInv
<1> QED BY <1>3, <1>4, <1>5 DEF CInv

----------------------------------------------------------------------------
\* The two steps that make a callback.
Announce(w) == AcceptOnConnect \/ (w \in Workers /\ OnDisconnect(w))

\* Every step keeps the strengthening, and only the two callbacks change what
\* has been announced.
LEMMA NextCInv ==
    ASSUME IInv, IInv', CInv, [Next]_vars
    PROVE  CInv' /\ (phase' # phase => \E w \in Threads : Announce(w))
<1> USE DEF slotVars, ioVars, serverVars
<1>0. /\ Workers \subseteq Threads /\ Callers \subseteq Threads /\ Timers \subseteq Threads
      /\ Acceptor \in Threads /\ Acceptor \notin Workers
      /\ Acceptor \notin Callers /\ Acceptor \notin Timers
      /\ pc \in [Threads -> Pcs] /\ TypeOK
  BY SessionAssumption DEF Threads, IInv, TypeOK
<1> DEFINE Goal == CInv' /\ (phase' # phase => \E w \in Threads : Announce(w))
<1>q. Quiet => Goal
  BY QuietKeeps DEF Quiet
<1>1. CASE Accept
  <2>1. CASE AcceptPop
    BY <2>1, PopKeeps DEF AcceptPop
  <2>2. CASE AcceptReset \/ AcceptInc
    <3>1. /\ UNCHANGED <<phase, lastId, sessionId, sessionCount, freeIndex>>
          /\ pc[Acceptor] \in {"accReset", "accInc"} /\ pc'[Acceptor] \in {"accInc", "accInstall"}
          /\ \A u \in Threads : u # Acceptor => pc'[u] = pc[u]
      BY <1>0, <2>2 DEF AcceptReset, AcceptInc, Reset, Goto
    <3>2. Quiet
      BY <1>0, <3>1, AcceptorPoints DEF Quiet, EarlyPcs
    <3> QED BY <1>q, <3>2
  <2>3. CASE AcceptInstall
    BY <2>3, InstallKeeps DEF AcceptInstall
  <2>4. CASE OffReleaseFlag \/ AcceptConnect
    <3>1. /\ UNCHANGED <<phase, lastId, sessionId, sessionCount, freeIndex>>
          /\ pc[Acceptor] \in {"accOffFlag", "accConnect"}
          /\ pc'[Acceptor] \in {"accConnect", "accOnConnect"}
          /\ \A u \in Threads : u # Acceptor => pc'[u] = pc[u]
      BY <1>0, <2>4 DEF OffReleaseFlag, AcceptConnect, Goto
    <3>2. Quiet
      BY <1>0, <3>1, AcceptorPoints DEF Quiet, NewPcs
    <3> QED BY <1>q, <3>2
  <2>5. CASE AcceptOnConnect
    BY <1>0, <2>5, OnConnectKeeps DEF Announce
  <2>6. CASE AcceptCount
    BY <2>6, CountKeeps DEF AcceptCount
  <2> QED BY <1>1, <2>1, <2>2, <2>3, <2>4, <2>5, <2>6 DEF Accept
<1>2. ASSUME NEW t \in Threads, Step(t) PROVE Goal
  BY <1>2, <1>q, StepQuiet
<1>3. ASSUME NEW w \in Workers, Dequeue(w) PROVE Goal
  <2>1. CASE OnDisconnect(w)
    BY <1>0, <2>1, OnDisconnectKeeps DEF Announce
  <2>2. CASE RecvEnd(w) \/ RecvExecute(w) \/ SendExecute(w) \/ SendDone(w)
    <3>1. /\ UNCHANGED <<phase, lastId, sessionId, sessionCount, freeIndex>>
          /\ Goto(w, pc'[w]) /\ pc[w] \notin RelPcs /\ pc'[w] \notin RelPcs
      BY <1>0, <2>2 DEF RecvEnd, RecvExecute, SendExecute, SendDone, RelPcs, Goto
    <3> QED BY <1>0, <1>q, <3>1, OutsideQuiet
  <2> QED BY <1>3, <2>1, <2>2 DEF Dequeue
<1>4. ASSUME NEW w \in Workers, Execute(w) PROVE Goal
  <2>1. CASE ReleaseFreeIndex(w)
    BY <2>1, FreeIndexKeeps DEF ReleaseFreeIndex
  <2>2. CASE RealSend(w) \/ PostSend(w) \/ ReleaseReset(w)
    <3>1. /\ UNCHANGED <<phase, lastId, sessionId, sessionCount, freeIndex>>
          /\ Goto(w, pc'[w]) /\ (pc[w] \in RelPcs <=> pc'[w] \in RelPcs)
      BY <1>0, <2>2 DEF RealSend, PostSend, ReleaseReset, Reset, RelPcs, Goto
    <3> QED BY <1>0, <1>q, <3>1, OutsideQuiet
  <2> QED BY <1>4, <2>1, <2>2 DEF Execute
<1>5. ASSUME NEW t \in Callers, Call(t) \/ (t \in Timers /\
                (TimeoutVisit(t) \/ CheckTimeout(t) \/ OnSessionTimeout(t)))
      PROVE  Goal
  <2>1. /\ UNCHANGED <<phase, lastId, sessionId, sessionCount, freeIndex>>
        /\ Goto(t, pc'[t]) /\ pc[t] \notin RelPcs /\ pc'[t] \notin RelPcs
    BY <1>0, <1>5 DEF Call, TimeoutVisit, CheckTimeout, OnSessionTimeout, RelPcs, Goto
  <2> QED BY <1>0, <1>q, <2>1, OutsideQuiet
<1>6. CASE Network \/ UNCHANGED vars
  <2>1. Quiet
    BY <1>6 DEF Network, vars, Quiet
  <2> QED BY <1>q, <2>1
<1>7. ASSUME NEW t \in Threads, SpinEnds(t) PROVE Goal
  <2>1. /\ UNCHANGED <<phase, lastId, sessionId, sessionCount, freeIndex>>
        /\ Goto(t, pc'[t])
        /\ pc[t] \in {"spin", "nestedSpin"} /\ pc'[t] \in {"sendPost", "nestedPost"}
    BY <1>0, <1>7 DEF SpinEnds, Goto
  <2>2. pc[t] \in LatePcs \ RelPcs /\ pc'[t] \in LatePcs \ RelPcs
    BY <2>1 DEF LatePcs, EarlyPcs, NewPcs, RelPcs, Pcs, HoldPcs, OwnPcs
  <2> QED BY <1>q, <2>1, <2>2, InsideQuiet
<1> QED BY <1>1, <1>2, <1>3, <1>4, <1>5, <1>6, <1>7, SessionAssumption DEF Next

\* A server that has accepted nobody has announced nobody.
LEMMA InitCInv == Init => CInv
<1> SUFFICES ASSUME Init PROVE CInv
  OBVIOUS
<1>1. pc[Acceptor] = "idle" /\ pc[Acceptor] \notin EarlyPcs /\ pc[Acceptor] \notin LatePcs
  BY AcceptorPoints DEF Init, Threads
<1>2. IdInv
  BY <1>1 DEF Init, IdInv
<1>3. PhaseInv
  BY DEF Init, PhaseInv, PhaseOf, Ids
<1>4. CountInv
  <2>1. Connected = {}
    BY DEF Init, Connected
  <2> QED BY <1>1, <2>1, FS_EmptySet DEF Init, CountInv
<1> QED BY <1>2, <1>3, <1>4 DEF CInv

\* The strengthened invariant holds in every reachable state.
THEOREM CallbackInvariance == Spec => [](IInv /\ CInv)
<1>1. Init => IInv /\ CInv
  BY InitIInv, InitCInv
<1>2. IInv /\ CInv /\ [Next]_vars => (IInv /\ CInv)'
  BY NextIInv, NextCInv
<1> QED BY <1>1, <1>2, PTL DEF Spec

\* _sessionCount is the number of announced sessions, off by one only while the
\* accept thread has announced a session and not counted it.
THEOREM SessionCountCorrect == Spec => []SessionCountExact
<1>1. IInv /\ CInv => SessionCountExact
  <2> SUFFICES ASSUME IInv, CInv PROVE SessionCountExact
    OBVIOUS
  <2>0. pc[Acceptor] \in Pcs
    BY DEF Threads, IInv, TypeOK
  <2>1. pc[Acceptor] \in LatePcs
          <=> pc[Acceptor] \notin {"idle", "accReset", "accInc", "accInstall",
                                   "accOffFlag", "accConnect", "accOnConnect"}
    BY <2>0 DEF LatePcs, EarlyPcs, NewPcs
  <2>2. ASSUME pc[Acceptor] \in LatePcs PROVE phase[lastId] # "new"
    <3>1. /\ pc[Acceptor] \notin EarlyPcs /\ pc[Acceptor] \notin NewPcs
          /\ pc[Acceptor] # "idle"
      BY <2>2, AcceptorPoints
    <3>2. lastId \in Ids /\ sessionId = lastId
      BY <3>1 DEF CInv, IdInv, IInv, TypeOK, Ids
    <3> QED BY <3>1, <3>2 DEF CInv, PhaseInv, PhaseOf, Ids
  <2> QED BY <2>1, <2>2 DEF CInv, CountInv, SessionCountExact, Connected
<1> QED BY <1>1, CallbackInvariance, PTL

\* OnConnect comes once for an id, then OnDisconnect once, and OnDisconnect only
\* when no receive and no send of the session is outstanding.
THEOREM CallbackCorrect == Spec => CallbackOrder
<1> DEFINE Ordered == \A i \in Ids : phase'[i] # phase[i] =>
              \/ phase[i] = "new" /\ phase'[i] = "connected"
              \/ phase[i] = "connected" /\ phase'[i] = "gone"
                   /\ recvIo = "none" /\ sendIo = 0
<1>1. ASSUME IInv, CInv, [Next]_vars PROVE Ordered
  <2>0. IInv'
    BY <1>1, NextIInv
  <2>1. CASE phase' = phase
    BY <2>1
  <2>2. CASE phase' # phase
    <3>1. PICK w \in Threads : Announce(w)
      BY <1>1, <2>0, <2>2, NextCInv
    <3>2. CASE AcceptOnConnect
      <4>1. phase[sessionId] = "new"
        BY <1>1, <2>0, <3>2, OnConnectKeeps
      <4> QED BY <1>1, <3>2, <4>1 DEF AcceptOnConnect, IInv, TypeOK
    <3>3. CASE w \in Workers /\ OnDisconnect(w)
      <4>1. phase[sessionId] = "connected" /\ recvIo = "none" /\ sendIo = 0
        BY <1>1, <2>0, <3>3, OnDisconnectKeeps
      <4> QED BY <1>1, <3>3, <4>1 DEF OnDisconnect, IInv, TypeOK
    <3> QED BY <3>1, <3>2, <3>3 DEF Announce
  <2> QED BY <2>1, <2>2
<1>2. IInv /\ CInv /\ [Next]_vars => [Ordered]_vars
  BY <1>1
<1> QED BY <1>2, CallbackInvariance, PTL DEF Spec, CallbackOrder
==============================================================================
