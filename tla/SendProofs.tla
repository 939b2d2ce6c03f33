------------------------------ MODULE SendProofs ------------------------------
(***************************************************************************)
(* Proofs about SessionSend, for any number of threads, packets and         *)
(* connections: _isSending is a lock, and until an Enqueue is refused no    *)
(* __debugbreak is reached, every connection gets its own packets in order  *)
(* and every packet's reference is released once.                           *)
(***************************************************************************)
EXTENDS SessionSend, FiniteSetTheorems, SequenceTheorems, WellFoundedInduction, TLAPS

\* A SendExecutable that a worker has taken from the port holds no reference:
\* with a second worker the slot may be released, reset and accepted again before
\* RealSend looks at it, and the SendExecutable sends for the next connection.
\* So the theorems are about one connection, or about one worker.
Undisturbed == MaxLife = 1 \/ \A v, w \in Workers : v = w

\* The points between CanSend's exchange of _isSending and PostSend's store.
Owns == {"again", "post", "sendInc", "real", "fill", "unmark", "wsaSend", "free", "clear"}
Pcs == Owns \cup {"idle", "put", "full", "connect", "size", "exchange", "broken"}

\* The parts of the first invariant: the types it needs; the right to send is in
\* one place, a thread, the port or the socket, and _isSending is set while it is
\* somewhere and the connection is up; a released session is used by nobody, but
\* for a SendExecutable, and a free one not even by that.
TokenType ==
    /\ life \in 1..MaxLife /\ state \in {"up", "released", "free"} /\ isSending \in BOOLEAN
    /\ sendPosted \in 0..1 /\ sendIo \in 0..1 /\ pc \in [Threads -> Pcs]

TokenInv ==
    /\ \A t, u \in Threads : pc[t] \in Owns /\ pc[u] \in Owns => t = u
    /\ \A t \in Threads : pc[t] \in Owns => sendPosted = 0 /\ sendIo = 0
    /\ sendPosted = 0 \/ sendIo = 0
    /\ state = "up" /\ (sendPosted > 0 \/ sendIo > 0) => isSending
    /\ state = "up" => \A t \in Threads : pc[t] \in Owns => isSending

RefInv ==
    /\ \A t \in Threads : pc[t] = "sendInc" => t \in Workers
    /\ state # "up" => sendIo = 0 /\ \A t \in Threads : pc[t] \in NoRef
    /\ state = "free" => /\ sendPosted = 0
                         /\ MaxLife = 1 \/ \A t \in Threads : pc[t] # "sendInc"

LockInv == TokenType /\ TokenInv /\ RefInv

----------------------------------------------------------------------------
\* A thread goes on and neither the port nor the socket nor the session changes.
LEMMA GoesOn ==
    ASSUME LockInv, NEW t \in Threads, Goto(t, pc'[t]), pc'[t] \in Pcs, pc'[t] # "sendInc",
           pc[t] \notin NoRef \/ state = "up" \/ pc'[t] \in NoRef,
           UNCHANGED <<life, state, sendPosted, sendIo>>,
           pc'[t] \in Owns => pc[t] \in Owns,
           isSending' \in BOOLEAN,
           (pc[t] \in Owns /\ pc'[t] \notin Owns) \/ UNCHANGED isSending
    PROVE  LockInv'
<1>1. pc \in [Threads -> Pcs] /\ pc' = [pc EXCEPT ![t] = pc'[t]]
  BY DEF LockInv, TokenType, Goto
<1>2. \A u \in Threads : u # t => pc'[u] = pc[u]
  BY <1>1
<1>3. TokenType'
  <2>1. pc' \in [Threads -> Pcs]
    BY <1>1
  <2> QED BY <2>1 DEF LockInv, TokenType, Threads, Pcs, Owns
<1>4. TokenInv'
  <2>1. \A u \in Threads : pc'[u] \in Owns => pc[u] \in Owns
    BY <1>2
  <2>2. ASSUME isSending' # isSending PROVE \A u \in Threads : pc'[u] \notin Owns
    BY <1>2, <2>2 DEF LockInv, TokenInv
  <2>3. ASSUME isSending' # isSending PROVE sendPosted = 0 /\ sendIo = 0
    BY <2>3 DEF LockInv, TokenInv
  <2> QED BY <2>1, <2>2, <2>3 DEF LockInv, TokenInv, TokenType, Threads, Owns
<1>5. RefInv'
  <2>1. state # "up" => pc'[t] \in NoRef
    BY <1>2 DEF LockInv, RefInv
  <2>2. \A u \in Threads : pc'[u] = "sendInc" => pc[u] = "sendInc"
    BY <1>2
  <2> QED BY <1>2, <2>1, <2>2 DEF LockInv, RefInv, Threads, NoRef
<1> QED BY <1>3, <1>4, <1>5 DEF LockInv

\* Where each step takes its thread.
LEMMA Moves ==
    ASSUME pc \in [Threads -> Pcs], NEW t \in Threads
    PROVE  /\ \A l : Goto(t, l) => Goto(t, pc'[t]) /\ pc'[t] = l /\ \A u \in Threads : u # t => pc'[u] = pc[u]
BY DEF Goto

\* SendPacket and CanSend up to the exchange, and RealSend up to WSASend.
LEMMA PlainLock ==
    ASSUME LockInv, NEW t \in Threads,
           \/ SendPacket(t) \/ Put(t) \/ Full(t) \/ CanConnect(t) \/ CanSize(t) \/ SendInc(t)
           \/ RealSize(t) \/ RealClaim(t) \/ RealUnmark(t) \/ RealStop(t)
           \/ PostFree(t) \/ PostClear(t)
    PROVE  LockInv'
<1> DEFINE Goes(P, Q) == pc[t] \in P /\ Goto(t, pc'[t]) /\ pc'[t] \in Q
<1>0. pc \in [Threads -> Pcs]
  BY DEF LockInv, TokenType
<1>1. \/ Goes({"idle"}, {"put", "full"}) /\ state = "up"
      \/ Goes({"put", "full", "connect", "size"}, {"connect", "broken", "size", "exchange", "idle"})
      \/ Goes({"sendInc"}, {"real"}) /\ state = "up"
      \/ Goes({"sendInc"}, {"idle"})
      \/ Goes({"real", "fill", "unmark", "free"}, {"broken", "fill", "unmark", "wsaSend", "clear"})
      \/ Goes({"clear"}, {"connect"})
  BY <1>0, Moves DEF SendPacket, Put, Full, CanConnect, CanSize, SendInc, RealSize, RealClaim, RealUnmark, RealStop,
                     PostFree, PostClear
<1>2. UNCHANGED <<life, state, sendPosted, sendIo>>
  BY DEF SendPacket, Put, Full, CanConnect, CanSize, SendInc, RealSize, RealClaim, RealUnmark, RealStop,
         PostFree, PostClear, lifeVars, sendVars
<1>3. isSending' \in BOOLEAN /\ (pc[t] = "clear" \/ UNCHANGED isSending)
  <2>0. isSending \in BOOLEAN
    BY DEF LockInv, TokenType
  <2>1. CASE PostClear(t)
    BY <2>1 DEF PostClear
  <2>2. CASE ~PostClear(t)
    <3>1. UNCHANGED isSending
      BY <2>2 DEF SendPacket, Put, Full, CanConnect, CanSize, SendInc, RealSize, RealClaim, RealUnmark, RealStop,
                  PostFree, sendVars
    <3> QED BY <2>0, <3>1
  <2> QED BY <2>1, <2>2
<1>4. /\ Goto(t, pc'[t]) /\ pc'[t] \in Pcs /\ pc'[t] # "sendInc"
      /\ pc[t] \notin NoRef \/ state = "up" \/ pc'[t] \in NoRef
      /\ pc'[t] \in Owns => pc[t] \in Owns
      /\ pc[t] = "clear" => pc[t] \in Owns /\ pc'[t] \notin Owns
  BY <1>1 DEF Pcs, Owns, NoRef
<1> QED BY <1>2, <1>3, <1>4, GoesOn

\* The exchange of _isSending: the thread that finds it off gets the right to send.
LEMMA ExchangeLock ==
    ASSUME LockInv, NEW t \in Threads, CanExchange(t)
    PROVE  LockInv'
<1> USE DEF lifeVars
<1>0. pc[t] = "exchange" /\ pc \in [Threads -> Pcs] /\ state = "up" /\ isSending \in BOOLEAN
  BY DEF CanExchange, LockInv, TokenType, RefInv, NoRef
<1>1. CASE isSending
  <2>1. Goto(t, pc'[t]) /\ pc'[t] = "idle" /\ isSending' = isSending
    BY <1>0, <1>1, Moves DEF CanExchange
  <2>2. UNCHANGED <<life, state, sendPosted, sendIo>>
    BY DEF CanExchange
  <2>3. pc'[t] \in Pcs /\ pc'[t] # "sendInc" /\ pc'[t] \notin Owns
    BY <2>1 DEF Pcs, Owns
  <2>4. isSending' \in BOOLEAN /\ UNCHANGED isSending
    BY <1>0, <2>1
  <2> QED BY <1>0, <2>1, <2>2, <2>3, <2>4, GoesOn
<1>2. CASE ~isSending
  <2>1. pc' = [pc EXCEPT ![t] = "again"] /\ isSending' = TRUE
        /\ UNCHANGED <<life, state, sendPosted, sendIo>>
    BY <1>2 DEF CanExchange, Goto
  <2>2. pc'[t] = "again" /\ \A u \in Threads : u # t => pc'[u] = pc[u]
    BY <1>0, <2>1
  <2>3. sendPosted = 0 /\ sendIo = 0 /\ \A u \in Threads : pc[u] \notin Owns
    BY <1>0, <1>2 DEF LockInv, TokenInv, TokenType
  <2>4. TokenType'
    BY <1>0, <2>1 DEF LockInv, TokenType, Threads, Pcs, Owns
  <2>5. TokenInv'
    BY <2>1, <2>2, <2>3 DEF TokenInv, Threads, Owns
  <2>6. RefInv'
    BY <1>0, <2>1, <2>2 DEF LockInv, RefInv, Threads, NoRef
  <2> QED BY <2>4, <2>5, <2>6 DEF LockInv
<1> QED BY <1>1, <1>2

\* Size is looked at again: the right is given back, or used at once or posted.
LEMMA RecheckLock ==
    ASSUME LockInv, NEW t \in Threads, CanRecheck(t)
    PROVE  LockInv'
<1>0. pc \in [Threads -> Pcs] /\ pc[t] = "again" /\ UNCHANGED <<life, state, sendPosted, sendIo>>
  BY DEF LockInv, TokenType, CanRecheck, lifeVars
<1>1. \/ Goto(t, pc'[t]) /\ pc'[t] = "size" /\ isSending' = FALSE
      \/ Goto(t, pc'[t]) /\ pc'[t] \in {"real", "post"} /\ isSending' = isSending
  BY <1>0, Moves DEF CanRecheck
<1>2. /\ Goto(t, pc'[t]) /\ pc'[t] \in Pcs /\ pc'[t] # "sendInc" /\ pc[t] \notin NoRef
      /\ pc[t] \in Owns /\ (pc'[t] # "size" => pc'[t] \in Owns) /\ "size" \notin Owns
  BY <1>0, <1>1 DEF Pcs, Owns, NoRef
<1>3. isSending' \in BOOLEAN /\ (pc'[t] = "size" \/ UNCHANGED isSending)
  <2>1. isSending \in BOOLEAN
    BY DEF LockInv, TokenType
  <2> QED BY <1>1, <2>1
<1> QED BY <1>0, <1>2, <1>3, GoesOn

\* A thread gives the right to send to the port or to the socket, or loses it.
LEMMA HandsOver ==
    ASSUME LockInv, NEW t \in Threads, pc[t] \in Owns \ NoRef, Goto(t, "idle"),
           UNCHANGED <<life, state, isSending>>,
           sendPosted' \in 0..1, sendIo' \in 0..1, sendPosted' = 0 \/ sendIo' = 0
    PROVE  LockInv'
<1>0. pc \in [Threads -> Pcs] /\ pc' = [pc EXCEPT ![t] = "idle"] /\ state = "up" /\ isSending
  BY DEF LockInv, TokenType, TokenInv, RefInv, Goto
<1>1. pc'[t] = "idle" /\ \A u \in Threads : u # t => pc'[u] = pc[u]
  BY <1>0
<1>2. \A u \in Threads : pc'[u] \notin Owns
  BY <1>1 DEF LockInv, TokenInv, Owns
<1>3. TokenType'
  BY <1>0 DEF LockInv, TokenType, Threads, Pcs, Owns
<1>4. TokenInv'
  BY <1>0, <1>2 DEF TokenInv, Threads, Owns
<1>5. RefInv'
  BY <1>0, <1>1 DEF LockInv, RefInv, Threads
<1> QED BY <1>3, <1>4, <1>5 DEF LockInv

LEMMA HandLock ==
    ASSUME LockInv, NEW t \in Threads, PostSendExecutable(t) \/ RealPost(t)
    PROVE  LockInv'
<1> USE DEF lifeVars
<1>0. pc[t] \in Owns => sendPosted = 0 /\ sendIo = 0
  BY DEF LockInv, TokenInv
<1>1. CASE PostSendExecutable(t)
  <2>1. pc[t] \in Owns \ NoRef /\ Goto(t, "idle") /\ sendPosted' = 1 /\ sendIo' = 0
        /\ UNCHANGED <<life, state, isSending>>
    BY <1>0, <1>1 DEF PostSendExecutable, Owns, NoRef
  <2> QED BY <2>1, HandsOver
<1>2. CASE RealPost(t)
  <2>1. pc[t] \in Owns \ NoRef /\ Goto(t, "idle") /\ sendPosted' = 0 /\ sendIo' \in 0..1
        /\ UNCHANGED <<life, state, isSending>>
    BY <1>0, <1>2 DEF RealPost, Owns, NoRef
  <2> QED BY <2>1, HandsOver
<1> QED BY <1>1, <1>2

\* A worker takes the right to send from the port, or, with a completion, from the
\* socket; after an error nobody has it.
LEMMA TakeLock ==
    ASSUME LockInv, NEW w \in Workers, TakeSend(w) \/ SendDone(w)
    PROVE  LockInv'
<1> USE DEF lifeVars
<1>0. w \in Threads /\ pc[w] = "idle" /\ pc \in [Threads -> Pcs]
  BY DEF Threads, TakeSend, SendDone, LockInv, TokenType
<1>1. sendPosted' = 0 /\ sendIo' = 0 /\ UNCHANGED <<life, state, isSending>>
  BY DEF TakeSend, SendDone, LockInv, TokenType, TokenInv
<1>2. \A u \in Threads : pc[u] \notin Owns
  BY DEF TakeSend, SendDone, LockInv, TokenType, TokenInv
<1>3. PICK l \in {"sendInc", "free", "idle"} :
         /\ pc' = [pc EXCEPT ![w] = l]
         /\ l = "sendInc" \/ sendIo > 0
         /\ l = "sendInc" => sendPosted > 0
  BY DEF TakeSend, SendDone, Goto
<1>4. pc'[w] = l /\ \A u \in Threads : u # w => pc'[u] = pc[u]
  BY <1>0, <1>3
<1>5. TokenType'
  BY <1>0, <1>1, <1>3 DEF LockInv, TokenType, Threads, Pcs, Owns
<1>6. TokenInv'
  <2>1. \A u \in Threads : pc'[u] \in Owns => u = w
    BY <1>2, <1>4
  <2>2. state = "up" => isSending
    BY <1>3 DEF LockInv, TokenInv, TokenType
  <2> QED BY <1>1, <2>1, <2>2 DEF TokenInv, Threads, Owns
<1>7. RefInv'
  <2>1. state # "up" => l = "sendInc" /\ state # "free"
    BY <1>3 DEF LockInv, RefInv, TokenType
  <2> QED BY <1>1, <1>4, <2>1 DEF LockInv, RefInv, Threads, NoRef
<1> QED BY <1>5, <1>6, <1>7 DEF LockInv

\* The life of the slot.
LEMMA SlotLock ==
    ASSUME Undisturbed, LockInv,
           \/ Disconnect \/ EndReceive \/ Release \/ Accept
           \/ \E w \in Workers : ReleaseExecute(w)
    PROVE  LockInv'
<1> USE DEF sendVars
<1>1. CASE Disconnect \/ EndReceive
  <2>1. UNCHANGED <<life, state, isSending, sendPosted, sendIo, pc>>
    BY <1>1 DEF Disconnect, EndReceive
  <2> QED BY <2>1 DEF LockInv, TokenType, TokenInv, RefInv, Threads, Pcs, Owns, NoRef
<1>2. CASE Release
  <2>1. /\ UNCHANGED <<life, isSending, sendPosted, sendIo, pc>> /\ state' = "released"
        /\ sendIo = 0 /\ \A t \in Threads : pc[t] \in NoRef
    BY <1>2 DEF Release
  <2> QED BY <2>1 DEF LockInv, TokenType, TokenInv, RefInv, Threads, Pcs, Owns, NoRef
<1>3. ASSUME NEW w \in Workers, ReleaseExecute(w) PROVE LockInv'
  <2>1. /\ UNCHANGED <<life, sendPosted, sendIo, pc>> /\ state' = "free" /\ isSending' = FALSE
        /\ state = "released" /\ sendPosted = 0 /\ pc[w] = "idle"
    BY <1>3 DEF ReleaseExecute, Reset
  <2>2. MaxLife = 1 \/ \A t \in Threads : pc[t] # "sendInc"
    BY <2>1 DEF Undisturbed, LockInv, RefInv
  <2> QED BY <2>1, <2>2 DEF LockInv, TokenType, TokenInv, RefInv, Threads, Pcs, Owns, NoRef
<1>4. CASE Accept
  <2>1. /\ UNCHANGED <<sendPosted, sendIo, pc>> /\ state' = "up" /\ isSending' = FALSE
        /\ life' = life + 1 /\ life < MaxLife /\ state = "free"
    BY <1>4 DEF Accept, Reset
  <2>2. MaxLife # 1 /\ life' \in 1..MaxLife
    BY <2>1, SendAssumption DEF LockInv, TokenType
  <2>3. sendPosted = 0 /\ sendIo = 0 /\ \A t \in Threads : pc[t] \in NoRef /\ pc[t] # "sendInc"
    BY <2>1, <2>2 DEF LockInv, RefInv
  <2>4. \A t \in Threads : pc[t] \notin Owns
    BY <2>3 DEF Owns, NoRef
  <2>5. TokenType'
    BY <2>1, <2>2 DEF LockInv, TokenType, Threads, Pcs, Owns
  <2>6. TokenInv'
    BY <2>1, <2>3, <2>4 DEF TokenInv, Threads, Owns
  <2>7. RefInv'
    BY <2>1, <2>3 DEF RefInv, Threads
  <2> QED BY <2>5, <2>6, <2>7 DEF LockInv
<1> QED BY <1>1, <1>2, <1>3, <1>4

LEMMA InitLock == Init => LockInv
<1> SUFFICES ASSUME Init PROVE LockInv
  OBVIOUS
<1>1. \A t \in Threads : pc[t] = "idle"
  BY DEF Init
<1>2. TokenType
  <2>1. life \in 1..MaxLife /\ pc \in [Threads -> Pcs] /\ sendPosted \in 0..1 /\ sendIo \in 0..1
    BY SendAssumption DEF Init, Pcs
  <2>2. isSending \in BOOLEAN /\ state \in {"up", "released", "free"}
    BY DEF Init
  <2> QED BY <2>1, <2>2 DEF TokenType
<1>3. TokenInv /\ RefInv
  BY <1>1 DEF Init, TokenInv, RefInv, Owns
<1> QED BY <1>2, <1>3 DEF LockInv

LEMMA NextLock ==
    ASSUME Undisturbed, LockInv, [Next]_vars
    PROVE  LockInv'
<1>0. Callers \subseteq Threads /\ Workers \subseteq Threads
  BY DEF Threads
<1>1. ASSUME NEW t \in Callers, SendPacket(t) PROVE LockInv'
  BY <1>0, <1>1, PlainLock
<1>2. ASSUME NEW t \in Threads, Step(t) PROVE LockInv'
  BY <1>2, PlainLock, ExchangeLock, RecheckLock, HandLock DEF Step, CanSend, RealSend
<1>3. ASSUME NEW w \in Workers, TakeSend(w) \/ SendDone(w) \/ Work(w) \/ ReleaseExecute(w)
      PROVE  LockInv'
  BY <1>0, <1>3, TakeLock, PlainLock, SlotLock DEF Work, PostSend
<1>4. CASE UNCHANGED vars
  BY <1>4 DEF vars, lifeVars, sendVars, LockInv, TokenType, TokenInv, RefInv, Threads, Pcs, Owns, NoRef
<1> QED BY <1>1, <1>2, <1>3, <1>4, SlotLock DEF Next

\* The right to send is in one place, whatever the ring holds.
THEOREM SendLockInvariance == Undisturbed => (Spec => []LockInv)
<1> SUFFICES ASSUME Undisturbed PROVE Spec => []LockInv
  OBVIOUS
<1>1. Init => LockInv
  BY InitLock
<1>2. LockInv /\ [Next]_vars => LockInv'
  BY NextLock
<1> QED BY <1>1, <1>2, PTL DEF Spec

\* _isSending is a lock: one thread, posted SendExecutable or send at a time uses
\* _sendingQ.
THEOREM SendHasOneSender == Undisturbed => (Spec => []OneSender)
<1> SUFFICES ASSUME Undisturbed PROVE Spec => []OneSender
  OBVIOUS
<1>1. LockInv => OneSender
  <2> SUFFICES ASSUME LockInv PROVE OneSender
    OBVIOUS
  <2> DEFINE senders == {t \in Threads : pc[t] \in Owns}
             n == Cardinality(senders) + sendPosted + sendIo
  <2>0. sendPosted \in 0..1 /\ sendIo \in 0..1 /\ (sendPosted = 0 \/ sendIo = 0)
    BY DEF LockInv, TokenType, TokenInv
  <2>1. CASE senders = {}
    <3>1. Cardinality(senders) = 0
      BY <2>1, FS_EmptySet
    <3>2. n <= 1 /\ (n = 1 /\ state = "up" => isSending)
      BY <2>0, <3>1 DEF LockInv, TokenInv
    <3> QED BY <3>2 DEF OneSender, Owns
  <2>2. CASE senders # {}
    <3>1. PICK t \in Threads : pc[t] \in Owns
      BY <2>2
    <3>2. senders = {t}
      BY <3>1 DEF LockInv, TokenInv
    <3>3. Cardinality(senders) = 1 /\ sendPosted = 0 /\ sendIo = 0
      BY <3>1, <3>2, FS_Singleton DEF LockInv, TokenInv
    <3>4. n <= 1 /\ (n = 1 /\ state = "up" => isSending)
      BY <3>1, <3>3 DEF LockInv, TokenInv
    <3> QED BY <3>4 DEF OneSender, Owns
  <2> QED BY <2>1, <2>2
<1> QED BY <1>1, SendLockInvariance, PTL

----------------------------------------------------------------------------
\* The rest is about what holds until an Enqueue is refused (overfull).  (Then a packet
\* is dropped, the session is to be disconnected, and the index that was taken for it
\* leaves a hole in the ring.)
Slots == 0..(BufferSize - 1)

DataType ==
    /\ headIndex \in Nat /\ tailIndex \in Nat /\ tailIndex <= MaxPacket
    /\ ring \in [Slots -> Packets \cup {None}]
    /\ sendingQ \in [1..BufferSize -> Packets \cup {None}] /\ dataNotSend \in 0..BufferSize
    /\ local \in [Threads -> Nat]
    /\ freed \in [Packets -> Nat] /\ ofLife \in [Packets -> 0..MaxLife]
    /\ sent \in Seq((1..MaxLife) \X Packets)

\* The ring holds the packets between its indices, each in its node, but for those
\* whose Enqueue is between its two steps.
NodeInv ==
    /\ headIndex <= tailIndex
    /\ \A s \in Slots : ring[s] # None =>
          ring[s] \in headIndex..(tailIndex - 1) /\ Slot(ring[s]) = s
    /\ \A i \in headIndex..(tailIndex - 1) :
          ring[Slot(i)] = None => \E t \in Threads : pc[t] = "put" /\ local[t] = i
    /\ \A t \in Threads : pc[t] = "put" =>
          local[t] \in headIndex..(tailIndex - 1) /\ ring[Slot(local[t])] = None
    /\ \A t, u \in Threads : pc[t] = "put" /\ pc[u] = "put" /\ local[t] = local[u] => t = u

\* The indices out are fewer than the nodes, and one fewer while the node of the last
\* packet dequeued is still marked as used.
RoomInv ==
    /\ tailIndex <= headIndex + BufferSize
    /\ \A t \in Threads : pc[t] = "unmark" => headIndex >= 1 /\ tailIndex < headIndex + BufferSize

\* Who is about to run RealSend has something to send.
Ready == {"post", "sendInc", "real"}
BusyInv ==
    /\ \A t \in Threads : pc[t] # "full" /\ pc[t] # "broken"
    /\ state = "up" /\ sendPosted > 0 => headIndex < tailIndex
    /\ state = "up" => \A t \in Threads : pc[t] \in Ready => headIndex < tailIndex
    /\ state = "free" => headIndex = tailIndex

\* _sendingQ holds the last m packets that left the ring, and the references to
\* those before them are released.
Holds(m) ==
    /\ m \in 0..BufferSize /\ m <= headIndex
    /\ \A j \in 1..m : sendingQ[j] = headIndex - m + j - 1
    /\ \A p \in Packets : freed[p] = IF p < headIndex - m THEN 1 ELSE 0

\* Who dequeues into _sendingQ counts what it holds, until dataNotSend is set.
Taking == {"fill", "unmark", "wsaSend"}
HoldInv ==
    /\ \A t \in Threads : pc[t] \in Taking => dataNotSend = 0 /\ Holds(local[t])
    /\ (\A t \in Threads : pc[t] \notin Taking) => Holds(dataNotSend)

\* dataNotSend is 0 unless a send is on its way, is being completed or has failed.
Fresh == {"again", "post", "sendInc", "real", "fill", "unmark", "wsaSend", "clear"}
ClearInv ==
    /\ state = "up" /\ ~isSending => dataNotSend = 0
    /\ state = "up" /\ sendPosted > 0 => dataNotSend = 0
    /\ state = "up" => \A t \in Threads : pc[t] \in Fresh => dataNotSend = 0
    /\ state = "free" => dataNotSend = 0

\* A packet is of the connection it was put for.
LifeInv ==
    \A p \in Packets :
        /\ p >= tailIndex => ofLife[p] = 0
        /\ p < headIndex => ofLife[p] # 0
        /\ p \in headIndex..(tailIndex - 1) =>
              ofLife[p] = IF ring[Slot(p)] = None THEN 0 ELSE life

\* What was sent has left the ring and is in order; what is about to be comes after
\* it and is of this connection.
SentInv ==
    /\ \A j \in 1..Len(sent) : sent[j][2] < headIndex /\ ofLife[sent[j][2]] = sent[j][1]
    /\ \A j, k \in 1..Len(sent) : j < k => sent[j][2] < sent[k][2]
    /\ \A t \in Threads : pc[t] \in Taking =>
          /\ \A j \in 1..Len(sent) : sent[j][2] < headIndex - local[t]
          /\ \A p \in (headIndex - local[t])..(headIndex - 1) : ofLife[p] = life

SInv == /\ LockInv /\ DataType /\ NodeInv /\ RoomInv /\ BusyInv
        /\ HoldInv /\ ClearInv /\ LifeInv /\ SentInv

----------------------------------------------------------------------------
\* Indices less than a round apart have different nodes.
LEMMA SlotsSame ==
    ASSUME NEW i \in Nat, NEW j \in Nat, Slot(i) = Slot(j), i - j < BufferSize, j - i < BufferSize
    PROVE  i = j
<1>1. BufferSize \in Nat \ {0}
  BY SendAssumption
<1>2. /\ i \div BufferSize \in Nat /\ i = (i \div BufferSize) * BufferSize + Slot(i)
      /\ j \div BufferSize \in Nat /\ j = (j \div BufferSize) * BufferSize + Slot(j)
      /\ Slot(i) \in Int /\ Slot(j) \in Int
  BY <1>1 DEF Slot
<1>3. \A p, q \in Nat : p * BufferSize - q * BufferSize < BufferSize => p <= q
  <2> TAKE p, q \in Nat
  <2> HAVE p * BufferSize - q * BufferSize < BufferSize
  <2> SUFFICES ASSUME q + 1 <= p PROVE FALSE
    OBVIOUS
  <2>1. p * BufferSize >= (q + 1) * BufferSize /\ (q + 1) * BufferSize = q * BufferSize + BufferSize
    BY <1>1
  <2>2. p * BufferSize \in Int /\ q * BufferSize \in Int
    BY <1>1
  <2> QED BY <1>1, <2>1, <2>2
<1>4. i \div BufferSize = j \div BufferSize
  <2> DEFINE p == i \div BufferSize  q == j \div BufferSize
  <2>1. p \in Nat /\ q \in Nat /\ p * BufferSize \in Int /\ q * BufferSize \in Int
    BY <1>1, <1>2
  <2>2. p * BufferSize - q * BufferSize < BufferSize /\ q * BufferSize - p * BufferSize < BufferSize
    BY <1>1, <1>2, <2>1
  <2> HIDE DEF p, q
  <2>3. p <= q /\ q <= p
    BY <1>3, <2>1, <2>2
  <2>4. p = q
    BY <2>1, <2>3
  <2> QED BY <2>4 DEF p, q
<1> QED BY <1>2, <1>4

\* A round later it is the same node.
LEMMA SlotLap ==
    ASSUME NEW i \in Nat
    PROVE  Slot(i + BufferSize) = Slot(i)
<1>1. BufferSize \in Nat \ {0}
  BY SendAssumption
<1>2. /\ i \div BufferSize \in Nat /\ i = (i \div BufferSize) * BufferSize + Slot(i)
      /\ (i + BufferSize) \div BufferSize \in Nat
      /\ i + BufferSize = ((i + BufferSize) \div BufferSize) * BufferSize + Slot(i + BufferSize)
      /\ Slot(i) \in 0..(BufferSize - 1) /\ Slot(i + BufferSize) \in 0..(BufferSize - 1)
  BY <1>1 DEF Slot
<1> DEFINE p == i \div BufferSize  q == (i + BufferSize) \div BufferSize
           a == Slot(i)  b == Slot(i + BufferSize)
<1>3. /\ p \in Nat /\ q \in Nat /\ a \in 0..(BufferSize - 1) /\ b \in 0..(BufferSize - 1)
      /\ i = p * BufferSize + a /\ i + BufferSize = q * BufferSize + b
  BY <1>2
<1> HIDE DEF p, q, a, b
<1>4. p + 1 \in Nat /\ (p + 1) * BufferSize = p * BufferSize + BufferSize
      /\ p * BufferSize \in Int /\ q * BufferSize \in Int
  BY <1>1, <1>3
<1>5. \A u, v \in Nat : u * BufferSize - v * BufferSize < BufferSize => u <= v
  <2> TAKE u, v \in Nat
  <2> HAVE u * BufferSize - v * BufferSize < BufferSize
  <2> SUFFICES ASSUME v + 1 <= u PROVE FALSE
    OBVIOUS
  <2>1. u * BufferSize >= (v + 1) * BufferSize /\ (v + 1) * BufferSize = v * BufferSize + BufferSize
    BY <1>1
  <2>2. u * BufferSize \in Int /\ v * BufferSize \in Int
    BY <1>1
  <2> QED BY <1>1, <2>1, <2>2
<1>6. /\ q * BufferSize - (p + 1) * BufferSize < BufferSize
      /\ (p + 1) * BufferSize - q * BufferSize < BufferSize
  BY <1>1, <1>3, <1>4
<1>7. q <= p + 1 /\ p + 1 <= q
  BY <1>3, <1>4, <1>5, <1>6
<1>8. q = p + 1
  BY <1>3, <1>7
<1>9. a = b
  BY <1>1, <1>3, <1>4, <1>8
<1> QED BY <1>9 DEF a, b

LEMMA SlotInRing ==
    ASSUME NEW i \in Nat
    PROVE  Slot(i) \in Slots
BY SendAssumption DEF Slot, Slots

\* A nonempty set of numbers has a least one.
LEMMA LeastOf ==
    ASSUME NEW T, T \subseteq Nat, T # {}
    PROVE  \E k \in T : \A j \in T : k <= j
<1> DEFINE R == OpToRel(<, Nat)
<1>1. IsWellFoundedOn(R, Nat)
  BY NatLessThanWellFounded
<1>2. \A j, k \in Nat : j < k => <<j, k>> \in R
  BY DEF OpToRel
<1> HIDE DEF R
<1>3. PICK k \in T : \A j \in T : ~(<<j, k>> \in R)
  BY <1>1, WFMin
<1>4. \A j \in T : ~(j < k)
  BY <1>2, <1>3
<1>5. k \in Nat /\ \A j \in T : j \in Nat
  OBVIOUS
<1>6. \A j \in T : k <= j
  BY <1>4, <1>5
<1> QED BY <1>6

\* There is a first node that holds nothing, or all hold something.
LEMMA RunExists ==
    ASSUME DataType
    PROVE  /\ Run \in 0..BufferSize
           /\ \A j \in 0..(Run - 1) : ring[Slot(headIndex + j)] # None
           /\ Run < BufferSize => ring[Slot(headIndex + Run)] = None
<1> DEFINE T == {k \in 0..BufferSize : k < BufferSize => ring[Slot(headIndex + k)] = None}
           P(k) == /\ \A j \in 0..(k - 1) : ring[Slot(headIndex + j)] # None
                   /\ k < BufferSize => ring[Slot(headIndex + k)] = None
<1>0. BufferSize \in Nat
  BY SendAssumption
<1>1. T \subseteq Nat /\ BufferSize \in T
  BY <1>0
<1>2. PICK k \in T : \A j \in T : k <= j
  BY <1>1, LeastOf
<1>3. k \in 0..BufferSize /\ P(k)
  <2>1. k \in 0..BufferSize /\ (k < BufferSize => ring[Slot(headIndex + k)] = None)
    BY <1>2
  <2>2. ASSUME NEW j \in 0..(k - 1), ring[Slot(headIndex + j)] = None PROVE FALSE
    <3>1. j \in T /\ ~(k <= j)
      BY <1>0, <2>1, <2>2
    <3> QED BY <1>2, <3>1
  <2> QED BY <2>1, <2>2
<1>4. Run = CHOOSE i \in 0..BufferSize : P(i)
  BY DEF Run
<1> HIDE DEF P
<1>5. Run \in 0..BufferSize /\ P(Run)
  BY <1>3, <1>4
<1> QED BY <1>5 DEF P

\* The numbers.
LEMMA SendNumbers ==
    ASSUME SInv
    PROVE  /\ headIndex \in Nat /\ tailIndex \in Nat /\ BufferSize \in Nat /\ MaxPacket \in Nat
           /\ BufferSize >= 1
           /\ headIndex <= tailIndex /\ tailIndex <= MaxPacket /\ tailIndex <= headIndex + BufferSize
           /\ Size = tailIndex - headIndex /\ None \notin Nat
           /\ \A i : i \in Packets <=> i \in Nat /\ i < MaxPacket
BY SendAssumption DEF SInv, DataType, NodeInv, RoomInv, Size, None, Packets

\* Between the indices a node holds its own packet, if any.
LEMMA NodeHolds ==
    ASSUME SInv, NEW i \in Nat, headIndex <= i, i < headIndex + BufferSize,
           ring[Slot(i)] # None
    PROVE  ring[Slot(i)] = i /\ i < tailIndex
<1>0. /\ headIndex \in Nat /\ tailIndex \in Nat /\ BufferSize \in Nat
      /\ tailIndex <= headIndex + BufferSize
  BY SendNumbers
<1>1. Slot(i) \in Slots
  BY SlotInRing
<1> DEFINE v == ring[Slot(i)]
<1>2. v \in headIndex..(tailIndex - 1) /\ Slot(v) = Slot(i)
  BY <1>1 DEF SInv, NodeInv
<1> HIDE DEF v
<1>3. v \in Nat /\ v - i < BufferSize /\ i - v < BufferSize /\ v < tailIndex
  BY <1>0, <1>2
<1>4. v = i
  BY <1>2, <1>3, SlotsSame
<1> QED BY <1>3, <1>4 DEF v

\* What a run of Dequeues takes: the next packets, up to one that is not put yet.
LEMMA RunTakes ==
    ASSUME SInv
    PROVE  /\ Run \in 0..BufferSize /\ headIndex + Run <= tailIndex
           /\ \A i \in headIndex..(headIndex + Run - 1) : ring[Slot(i)] = i
           /\ Taken = [j \in 1..Run |-> headIndex + j - 1]
           /\ (\A t \in Threads : pc[t] # "put") => headIndex + Run = tailIndex
<1>0. /\ headIndex \in Nat /\ tailIndex \in Nat /\ BufferSize \in Nat
      /\ headIndex <= tailIndex /\ tailIndex <= headIndex + BufferSize
  BY SendNumbers
<1>1. /\ Run \in 0..BufferSize
      /\ \A j \in 0..(Run - 1) : ring[Slot(headIndex + j)] # None
      /\ Run < BufferSize => ring[Slot(headIndex + Run)] = None
  BY RunExists DEF SInv
<1>2. ASSUME NEW j \in 0..(Run - 1)
      PROVE  ring[Slot(headIndex + j)] = headIndex + j /\ headIndex + j < tailIndex
  <2>1. headIndex + j \in Nat /\ headIndex <= headIndex + j /\ headIndex + j < headIndex + BufferSize
    BY <1>0, <1>1
  <2>2. ring[Slot(headIndex + j)] # None
    BY <1>1
  <2> QED BY <2>1, <2>2, NodeHolds
<1>3. headIndex + Run <= tailIndex
  <2>1. CASE Run = 0
    BY <1>0, <2>1
  <2>2. CASE Run # 0
    <3>1. Run - 1 \in 0..(Run - 1)
      BY <1>0, <1>1, <2>2
    <3>2. headIndex + (Run - 1) < tailIndex
      BY <1>2, <3>1
    <3> QED BY <1>0, <1>1, <3>2
  <2> QED BY <2>1, <2>2
<1>4. ASSUME NEW i \in headIndex..(headIndex + Run - 1) PROVE ring[Slot(i)] = i
  <2>1. i - headIndex \in 0..(Run - 1) /\ headIndex + (i - headIndex) = i
    BY <1>0, <1>1
  <2> QED BY <1>2, <2>1
<1>5. Taken = [j \in 1..Run |-> headIndex + j - 1]
  <2>1. ASSUME NEW j \in 1..Run PROVE ring[Slot(headIndex + j - 1)] = headIndex + j - 1
    <3>1. headIndex + j - 1 \in headIndex..(headIndex + Run - 1)
      BY <1>0, <1>1
    <3> QED BY <1>4, <3>1
  <2> QED BY <2>1 DEF Taken
<1>6. ASSUME \A t \in Threads : pc[t] # "put", headIndex + Run # tailIndex PROVE FALSE
  <2>1. Run < BufferSize /\ headIndex + Run \in headIndex..(tailIndex - 1)
    BY <1>0, <1>1, <1>3, <1>6
  <2>2. ring[Slot(headIndex + Run)] = None
    BY <1>1, <2>1
  <2> QED BY <1>6, <2>1, <2>2 DEF SInv, NodeInv
<1> QED BY <1>1, <1>3, <1>4, <1>5, <1>6

\* The threads between the two steps of Enqueue, and those that dequeue, and what they
\* have, are the same after the step.
SamePut == \A u \in Threads : /\ pc'[u] = "put" <=> pc[u] = "put"
                              /\ pc[u] = "put" => local'[u] = local[u]
SameTaking == \A u \in Threads : /\ pc'[u] \in Taking <=> pc[u] \in Taking
                                 /\ pc[u] \in Taking => local'[u] = local[u]

LEMMA NodesKept ==
    ASSUME SInv, SamePut, UNCHANGED queueVars
    PROVE  NodeInv'
BY DEF SInv, NodeInv, SamePut, queueVars, Threads, Slots, Slot, None

LEMMA LivesKept ==
    ASSUME SInv, UNCHANGED <<queueVars, ofLife, life>>
    PROVE  LifeInv'
BY DEF SInv, LifeInv, queueVars, Slot, Packets, None

LEMMA HoldsKept ==
    ASSUME SInv, SameTaking, UNCHANGED <<headIndex, sendingQ, dataNotSend, freed>>
    PROVE  HoldInv'
<1>1. ASSUME NEW t \in Threads, pc'[t] \in Taking PROVE dataNotSend' = 0 /\ Holds(local[t])'
  <2>1. pc[t] \in Taking /\ local'[t] = local[t]
    BY <1>1 DEF SameTaking
  <2>2. dataNotSend = 0 /\ Holds(local[t])
    BY <2>1 DEF SInv, HoldInv
  <2> QED BY <2>1, <2>2 DEF Holds, Packets
<1>2. ASSUME \A t \in Threads : pc'[t] \notin Taking PROVE Holds(dataNotSend)'
  <2>1. Holds(dataNotSend)
    BY <1>2 DEF SInv, HoldInv, SameTaking
  <2> QED BY <2>1 DEF Holds, Packets
<1> QED BY <1>1, <1>2 DEF HoldInv, Threads

LEMMA SentKept ==
    ASSUME SInv, SameTaking, UNCHANGED <<headIndex, sent, ofLife, life>>
    PROVE  SentInv'
<1>1. ASSUME NEW t \in Threads, pc'[t] \in Taking
      PROVE  /\ \A j \in 1..Len(sent) : sent[j][2] < headIndex - local'[t]
             /\ \A p \in (headIndex - local'[t])..(headIndex - 1) : ofLife[p] = life
  BY <1>1 DEF SInv, SentInv, SameTaking
<1> QED BY <1>1 DEF SInv, SentInv, Threads

\* A thread at a point with a reference has the connection up.
LEMMA UpWhile ==
    ASSUME SInv, NEW t \in Threads, pc[t] \notin NoRef
    PROVE  state = "up"
BY DEF SInv, LockInv, RefInv

\* A step that touches neither the ring nor the packets: what is to be shown is that
\* who gets ready to send has something to send and an empty _sendingQ.
LEMMA QuietStep ==
    ASSUME SInv, LockInv', NEW t \in Threads, Goto(t, pc'[t]),
           pc[t] # "put", pc'[t] \notin {"put", "full", "broken", "unmark"},
           pc'[t] \in Taking <=> pc[t] \in Taking,
           UNCHANGED <<life, state, queueVars, sendingQ, dataNotSend, local, ofLife, freed, sent>>,
           state = "up" /\ sendPosted' > 0 => headIndex < tailIndex /\ dataNotSend = 0,
           state = "up" /\ pc'[t] \in Ready => headIndex < tailIndex,
           state = "up" /\ pc'[t] \in Fresh => dataNotSend = 0,
           state = "up" /\ ~isSending' => dataNotSend = 0
    PROVE  SInv'
<1>1. pc \in [Threads -> Pcs]
  BY DEF SInv, LockInv, TokenType
<1>2. \A u \in Threads : u # t => pc'[u] = pc[u]
  BY <1>1 DEF Goto
<1>3. SamePut /\ SameTaking
  BY <1>2 DEF SamePut, SameTaking
<1>4. NodeInv' /\ LifeInv' /\ HoldInv' /\ SentInv'
  BY <1>3, NodesKept, LivesKept, HoldsKept, SentKept DEF queueVars
<1>5. DataType'
  BY DEF SInv, DataType, queueVars, Slots, Packets, Threads, None
<1>6. BusyInv'
  BY <1>2 DEF SInv, BusyInv, queueVars, Threads, Ready
<1>7. ClearInv'
  BY <1>2 DEF SInv, ClearInv, Threads, Fresh
<1>8. RoomInv'
  BY <1>2 DEF SInv, RoomInv, queueVars, Threads
<1> QED BY <1>4, <1>5, <1>6, <1>7, <1>8 DEF SInv

LEMMA CanSendQuiet ==
    ASSUME SInv, LockInv', NEW t \in Threads,
           \/ CanConnect(t) \/ CanSize(t) \/ CanExchange(t) \/ CanRecheck(t)
           \/ PostSendExecutable(t)
    PROVE  SInv'
<1>0. /\ pc \in [Threads -> Pcs] /\ isSending \in BOOLEAN /\ sendPosted \in 0..1
      /\ UNCHANGED <<life, state, queueVars, sendingQ, dataNotSend, local, ofLife, freed, sent>>
  BY DEF SInv, LockInv, TokenType, CanConnect, CanSize, CanExchange, CanRecheck,
         PostSendExecutable, lifeVars, sendVars, historyVars
<1>1. /\ headIndex \in Nat /\ tailIndex \in Nat /\ headIndex <= tailIndex
      /\ Size = tailIndex - headIndex
  BY SendNumbers
<1>2. /\ state = "up"
      /\ sendPosted > 0 => headIndex < tailIndex /\ dataNotSend = 0
      /\ ~isSending => dataNotSend = 0
      /\ pc[t] \in Ready => headIndex < tailIndex
      /\ pc[t] \in Fresh => dataNotSend = 0
  <2>1. state = "up"
    BY UpWhile DEF CanConnect, CanSize, CanExchange, CanRecheck, PostSendExecutable, NoRef
  <2> QED BY <2>1 DEF SInv, BusyInv, ClearInv
<1>3. CASE CanConnect(t) \/ CanSize(t)
  <2>1. /\ Goto(t, pc'[t]) /\ pc[t] \in {"connect", "size"} /\ pc'[t] \in {"size", "idle", "exchange"}
    BY <1>0, <1>3, Moves DEF CanConnect, CanSize
  <2>2. UNCHANGED sendPosted /\ UNCHANGED isSending
    BY <1>3 DEF CanConnect, CanSize, sendVars
  <2> QED BY <1>0, <1>2, <2>1, <2>2, QuietStep DEF Ready, Fresh, Taking
<1>4. CASE CanExchange(t)
  <2>1. Goto(t, pc'[t]) /\ pc[t] = "exchange" /\ pc'[t] \in {"idle", "again"} /\ UNCHANGED sendPosted
    BY <1>0, <1>4, Moves DEF CanExchange
  <2>2. isSending' /\ (pc'[t] = "again" => ~isSending)
    BY <1>0, <1>4, Moves DEF CanExchange
  <2> QED BY <1>0, <1>2, <2>1, <2>2, QuietStep DEF Ready, Fresh, Taking
<1>5. CASE CanRecheck(t)
  <2>1. Goto(t, pc'[t]) /\ pc[t] = "again" /\ pc'[t] \in {"size", "real", "post"} /\ UNCHANGED sendPosted
    BY <1>0, <1>5, Moves DEF CanRecheck
  <2>2. pc'[t] \in {"real", "post"} => headIndex < tailIndex
    BY <1>0, <1>1, <1>5, Moves DEF CanRecheck
  <2> QED BY <1>0, <1>2, <2>1, <2>2, QuietStep DEF Ready, Fresh, Taking
<1>6. CASE PostSendExecutable(t)
  <2>1. Goto(t, pc'[t]) /\ pc[t] = "post" /\ pc'[t] = "idle"
    BY <1>0, <1>6, Moves DEF PostSendExecutable
  <2>2. UNCHANGED isSending
    BY <1>6 DEF PostSendExecutable
  <2> QED BY <1>0, <1>2, <2>1, <2>2, QuietStep DEF Ready, Fresh, Taking
<1> QED BY <1>3, <1>4, <1>5, <1>6

LEMMA WorkQuiet ==
    ASSUME SInv, LockInv', NEW t \in Threads,
           \/ TakeSend(t) \/ SendInc(t) \/ RealUnmark(t) \/ RealStop(t) \/ SendDone(t)
           \/ PostClear(t)
    PROVE  SInv'
<1>0. /\ pc \in [Threads -> Pcs] /\ isSending \in BOOLEAN /\ sendPosted \in 0..1
      /\ UNCHANGED <<life, state, queueVars, sendingQ, dataNotSend, local, ofLife, freed, sent>>
  BY DEF SInv, LockInv, TokenType, TakeSend, SendInc, RealUnmark, RealStop, SendDone, PostClear,
         lifeVars, sendVars, historyVars
<1>1. /\ headIndex \in Nat /\ tailIndex \in Nat /\ headIndex <= tailIndex
      /\ Size = tailIndex - headIndex
  BY SendNumbers
<1>2. /\ state = "up" /\ sendPosted > 0 => headIndex < tailIndex /\ dataNotSend = 0
      /\ state = "up" /\ ~isSending => dataNotSend = 0
      /\ state = "up" /\ pc[t] \in Ready => headIndex < tailIndex
      /\ state = "up" /\ pc[t] \in Fresh => dataNotSend = 0
  BY DEF SInv, BusyInv, ClearInv
<1>3. CASE TakeSend(t)
  <2>1. /\ Goto(t, pc'[t]) /\ pc[t] = "idle" /\ pc'[t] = "sendInc"
        /\ sendPosted > 0 /\ sendPosted' = sendPosted - 1
    BY <1>0, <1>3, Moves DEF TakeSend
  <2>2. UNCHANGED isSending
    BY <1>3 DEF TakeSend
  <2> QED BY <1>0, <1>2, <2>1, <2>2, QuietStep DEF Ready, Fresh, Taking
<1>4. CASE SendInc(t)
  <2>1. /\ Goto(t, pc'[t]) /\ pc[t] = "sendInc" /\ pc'[t] \in {"real", "idle"}
    BY <1>0, <1>4, Moves DEF SendInc
  <2>2. UNCHANGED sendPosted /\ UNCHANGED isSending
    BY <1>4 DEF SendInc, sendVars
  <2> QED BY <1>0, <1>2, <2>1, <2>2, QuietStep DEF Ready, Fresh, Taking
<1>5. CASE RealUnmark(t) \/ RealStop(t)
  <2>1. Goto(t, pc'[t]) /\ pc[t] \in {"fill", "unmark"} /\ pc'[t] \in {"fill", "wsaSend"}
    BY <1>0, <1>5, Moves DEF RealUnmark, RealStop
  <2>2. UNCHANGED sendPosted /\ UNCHANGED isSending
    BY <1>5 DEF RealUnmark, RealStop, sendVars
  <2> QED BY <1>0, <1>2, <2>1, <2>2, QuietStep DEF Ready, Fresh, Taking
<1>6. CASE SendDone(t)
  <2>1. /\ Goto(t, pc'[t]) /\ pc[t] = "idle" /\ pc'[t] \in {"free", "idle"}
    BY <1>0, <1>6, Moves DEF SendDone
  <2>2. UNCHANGED sendPosted /\ UNCHANGED isSending
    BY <1>6 DEF SendDone
  <2> QED BY <1>0, <1>2, <2>1, <2>2, QuietStep DEF Ready, Fresh, Taking
<1>7. CASE PostClear(t)
  <2>1. /\ Goto(t, pc'[t]) /\ pc[t] = "clear" /\ pc'[t] = "connect" /\ UNCHANGED sendPosted
    BY <1>0, <1>7, Moves DEF PostClear
  <2> QED BY <1>0, <1>2, <2>1, QuietStep DEF Ready, Fresh, Taking
<1> QED BY <1>3, <1>4, <1>5, <1>6, <1>7

\* Enqueue takes an index; as long as there is room its node is empty.
LEMMA SendPacketStep ==
    ASSUME SInv, ~overfull', LockInv', NEW t \in Threads, SendPacket(t)
    PROVE  SInv'
<1>0. /\ headIndex \in Nat /\ tailIndex \in Nat /\ BufferSize \in Nat /\ MaxPacket \in Nat
      /\ headIndex <= tailIndex /\ tailIndex <= headIndex + BufferSize /\ BufferSize >= 1
      /\ \A i : i \in Packets <=> i \in Nat /\ i < MaxPacket
  BY SendNumbers
<1>1. /\ pc[t] = "idle" /\ state = "up" /\ tailIndex < MaxPacket /\ tailIndex' = tailIndex + 1
      /\ local' = [local EXCEPT ![t] = tailIndex]
      /\ UNCHANGED <<life, state, headIndex, ring, ofLife, freed, sent>>
      /\ UNCHANGED <<sendPosted, sendingQ, dataNotSend>> /\ UNCHANGED isSending
  BY DEF SendPacket, lifeVars, sendVars, historyVars
<1>2. pc \in [Threads -> Pcs] /\ local \in [Threads -> Nat]
  BY DEF SInv, LockInv, TokenType, DataType
<1>3. /\ tailIndex < headIndex + BufferSize
      /\ \A u \in Threads : pc[u] = "unmark" => tailIndex + 1 < headIndex + BufferSize
  <2>1. /\ ring[Slot(tailIndex)] = None
        /\ \A u \in Threads : pc[u] = "unmark" => Slot(headIndex - 1) # Slot(tailIndex)
        /\ \A u \in Threads : pc[u] = "put" => Slot(local[u]) # Slot(tailIndex)
    BY DEF SendPacket, Used
  <2>2. ASSUME tailIndex = headIndex + BufferSize PROVE FALSE
    <3>1. Slot(headIndex) = Slot(tailIndex) /\ headIndex \in headIndex..(tailIndex - 1)
      BY <1>0, <2>2, SlotLap
    <3> QED BY <2>1, <3>1 DEF SInv, NodeInv
  <2>3. ASSUME NEW u \in Threads, pc[u] = "unmark", tailIndex + 1 = headIndex + BufferSize
        PROVE  FALSE
    <3>1. headIndex - 1 \in Nat /\ tailIndex = (headIndex - 1) + BufferSize
      BY <1>0, <2>3 DEF SInv, RoomInv
    <3>2. Slot(headIndex - 1) = Slot(tailIndex)
      BY <3>1, SlotLap
    <3> QED BY <2>1, <2>3, <3>2
  <2> QED BY <1>0, <2>2, <2>3 DEF SInv, RoomInv
<1>4. ring[Slot(tailIndex)] = None /\ ~Used(tailIndex)
  <2>1. ~Used(tailIndex)
    BY DEF SendPacket
  <2> QED BY <2>1 DEF Used
<1>5. /\ pc'[t] = "put" /\ \A u \in Threads : u # t => pc'[u] = pc[u]
      /\ local'[t] = tailIndex /\ \A u \in Threads : u # t => local'[u] = local[u]
  BY <1>1, <1>2, <1>4, Moves DEF SendPacket
<1>6. DataType'
  <2>1. local' \in [Threads -> Nat] /\ tailIndex' \in Nat /\ tailIndex' <= MaxPacket
    BY <1>0, <1>1, <1>2
  <2> QED BY <1>1, <2>1 DEF SInv, DataType, Slots, Packets, Threads, None
<1>7. NodeInv'
  <2>1. ASSUME NEW s \in Slots, ring[s] # None
        PROVE  ring[s] \in headIndex..tailIndex /\ Slot(ring[s]) = s
    <3>1. ring[s] \in headIndex..(tailIndex - 1) /\ Slot(ring[s]) = s
      BY <2>1 DEF SInv, NodeInv
    <3> QED BY <1>0, <3>1
  <2>2. ASSUME NEW i \in headIndex..tailIndex, ring[Slot(i)] = None
        PROVE  \E u \in Threads : pc'[u] = "put" /\ local'[u] = i
    <3>1. CASE i = tailIndex
      BY <1>5, <3>1
    <3>2. CASE i # tailIndex
      <4>1. i \in headIndex..(tailIndex - 1)
        BY <1>0, <3>2
      <4>2. PICK u \in Threads : pc[u] = "put" /\ local[u] = i
        BY <2>2, <4>1 DEF SInv, NodeInv
      <4>3. u # t
        BY <1>1, <4>2
      <4> QED BY <1>5, <4>2, <4>3
    <3> QED BY <3>1, <3>2
  <2>3. ASSUME NEW u \in Threads, pc'[u] = "put", u # t
        PROVE  local'[u] \in headIndex..(tailIndex - 1) /\ ring[Slot(local'[u])] = None /\ pc[u] = "put"
    BY <1>5, <2>3 DEF SInv, NodeInv
  <2>4. ASSUME NEW u \in Threads, pc'[u] = "put"
        PROVE  local'[u] \in headIndex..tailIndex /\ ring[Slot(local'[u])] = None
    <3>1. CASE u = t
      BY <1>0, <1>4, <1>5, <3>1
    <3>2. CASE u # t
      BY <1>0, <2>3, <2>4, <3>2
    <3> QED BY <3>1, <3>2
  <2>5. ASSUME NEW u \in Threads, NEW v \in Threads, pc'[u] = "put", pc'[v] = "put",
               local'[u] = local'[v]
        PROVE  u = v
    <3>1. \A x \in Threads : pc'[x] = "put" /\ x # t => local'[x] # tailIndex
      BY <1>0, <2>3
    <3>2. CASE u = t \/ v = t
      BY <1>5, <2>5, <3>1, <3>2
    <3>3. CASE u # t /\ v # t
      BY <1>5, <2>3, <2>5, <3>3 DEF SInv, NodeInv
    <3> QED BY <3>2, <3>3
  <2>6. headIndex <= tailIndex + 1 /\ tailIndex' - 1 = tailIndex
    BY <1>0, <1>1
  <2> QED BY <1>1, <2>1, <2>2, <2>4, <2>5, <2>6 DEF NodeInv, Threads, Slots, Slot, None
<1>8. LifeInv'
  <2> SUFFICES ASSUME NEW p \in Packets
               PROVE  /\ p >= tailIndex + 1 => ofLife[p] = 0
                      /\ p < headIndex => ofLife[p] # 0
                      /\ p \in headIndex..tailIndex =>
                            ofLife[p] = IF ring[Slot(p)] = None THEN 0 ELSE life
    <3>1. tailIndex' - 1 = tailIndex
      BY <1>0, <1>1
    <3> QED BY <1>1, <3>1 DEF LifeInv, Packets, Slot, None
  <2>1. /\ p >= tailIndex => ofLife[p] = 0
        /\ p < headIndex => ofLife[p] # 0
        /\ p \in headIndex..(tailIndex - 1) =>
              ofLife[p] = IF ring[Slot(p)] = None THEN 0 ELSE life
    BY DEF SInv, LifeInv
  <2> QED BY <1>0, <1>4, <2>1
<1>9. HoldInv' /\ SentInv'
  <2>1. SameTaking
    BY <1>1, <1>5 DEF SameTaking, Taking
  <2> QED BY <1>1, <2>1, HoldsKept, SentKept
<1>10. BusyInv'
  BY <1>0, <1>1, <1>5 DEF SInv, BusyInv, Threads, Ready
<1>11. ClearInv'
  BY <1>1, <1>5 DEF SInv, ClearInv, Threads, Fresh
<1>12. RoomInv'
  <2>1. tailIndex' <= headIndex' + BufferSize
    BY <1>0, <1>1, <1>3
  <2>2. ASSUME NEW u \in Threads, pc'[u] = "unmark"
        PROVE  headIndex' >= 1 /\ tailIndex' < headIndex' + BufferSize
    <3>1. pc[u] = "unmark"
      BY <1>5, <2>2
    <3> QED BY <1>1, <1>3, <3>1 DEF SInv, RoomInv
  <2> QED BY <2>1, <2>2 DEF RoomInv, Threads
<1> QED BY <1>6, <1>7, <1>8, <1>9, <1>10, <1>11, <1>12 DEF SInv

\* Enqueue publishes the packet: nobody else has its node.
LEMMA PutStep ==
    ASSUME SInv, LockInv', NEW t \in Threads, Put(t)
    PROVE  SInv'
<1> DEFINE k == local[t]
<1>0. /\ headIndex \in Nat /\ tailIndex \in Nat /\ BufferSize \in Nat /\ MaxPacket \in Nat
      /\ headIndex <= tailIndex /\ tailIndex <= headIndex + BufferSize /\ tailIndex <= MaxPacket
      /\ \A i : i \in Packets <=> i \in Nat /\ i < MaxPacket
      /\ None \notin Nat
  BY SendNumbers
<1>1. /\ pc[t] = "put" /\ ring' = [ring EXCEPT ![Slot(k)] = k]
      /\ ofLife' = [ofLife EXCEPT ![k] = life]
      /\ UNCHANGED <<life, state, headIndex, tailIndex, local, freed, sent>>
      /\ UNCHANGED <<sendPosted, sendingQ, dataNotSend>> /\ UNCHANGED isSending
  BY DEF Put, lifeVars, sendVars
<1>2. /\ pc \in [Threads -> Pcs] /\ local \in [Threads -> Nat] /\ life \in 1..MaxLife
      /\ ring \in [Slots -> Packets \cup {None}] /\ ofLife \in [Packets -> 0..MaxLife]
  BY DEF SInv, LockInv, TokenType, DataType
<1>3. k \in headIndex..(tailIndex - 1) /\ ring[Slot(k)] = None /\ k \in Nat /\ k \in Packets
      /\ Slot(k) \in Slots
  <2>1. k \in headIndex..(tailIndex - 1) /\ ring[Slot(k)] = None
    BY <1>1 DEF SInv, NodeInv
  <2>2. k \in Nat /\ k \in Packets
    BY <1>0, <2>1
  <2> QED BY <2>1, <2>2, SlotInRing
<1>4. pc'[t] = "connect" /\ \A u \in Threads : u # t => pc'[u] = pc[u]
  <2>1. ASSUME NEW u \in Threads, pc[u] = "unmark", Slot(headIndex - 1) = Slot(k) PROVE FALSE
    <3>1. headIndex >= 1 /\ tailIndex < headIndex + BufferSize
      BY <2>1 DEF SInv, RoomInv
    <3> DEFINE i == headIndex - 1
    <3>2. i \in Nat /\ i - k < BufferSize /\ k - i < BufferSize /\ i # k
      BY <1>0, <1>3, <3>1
    <3>3. Slot(i) = Slot(k)
      BY <2>1
    <3> HIDE DEF i
    <3> QED BY <1>3, <3>2, <3>3, SlotsSame
  <2>2. ~Used(k)
    BY <1>3, <2>1 DEF Used
  <2> QED BY <1>2, <2>2, Moves DEF Put
<1>5. ring'[Slot(k)] = k /\ \A s \in Slots : s # Slot(k) => ring'[s] = ring[s]
  BY <1>1, <1>2, <1>3
<1>6. ofLife'[k] = life /\ \A p \in Packets : p # k => ofLife'[p] = ofLife[p]
  BY <1>1, <1>2, <1>3
<1>7. ASSUME NEW i \in headIndex..(tailIndex - 1), i # k
      PROVE  i \in Nat /\ Slot(i) \in Slots /\ Slot(i) # Slot(k) /\ ring'[Slot(i)] = ring[Slot(i)]
  <2>1. i \in Nat /\ i - k < BufferSize /\ k - i < BufferSize
    BY <1>0, <1>3
  <2>2. Slot(i) # Slot(k)
    BY <1>3, <1>7, <2>1, SlotsSame
  <2>3. Slot(i) \in Slots
    BY <2>1, SlotInRing
  <2> QED BY <1>5, <2>1, <2>2, <2>3
<1>8. DataType'
  <2>1. ring' \in [Slots -> Packets \cup {None}] /\ ofLife' \in [Packets -> 0..MaxLife]
    BY <1>1, <1>2, <1>3
  <2> QED BY <1>1, <2>1 DEF SInv, DataType, Slots, Packets, Threads, None
<1>9. NodeInv'
  <2>1. ASSUME NEW s \in Slots, ring'[s] # None
        PROVE  ring'[s] \in headIndex..(tailIndex - 1) /\ Slot(ring'[s]) = s
    <3>1. CASE s = Slot(k)
      BY <1>3, <1>5, <3>1
    <3>2. CASE s # Slot(k)
      BY <1>5, <2>1, <3>2 DEF SInv, NodeInv
    <3> QED BY <3>1, <3>2
  <2>2. ASSUME NEW i \in headIndex..(tailIndex - 1), ring'[Slot(i)] = None
        PROVE  \E u \in Threads : pc'[u] = "put" /\ local[u] = i
    <3>1. i # k
      BY <1>0, <1>3, <1>5, <2>2
    <3>2. ring[Slot(i)] = None
      BY <1>7, <2>2, <3>1
    <3>3. PICK u \in Threads : pc[u] = "put" /\ local[u] = i
      BY <3>2 DEF SInv, NodeInv
    <3>4. u # t
      BY <3>1, <3>3
    <3> QED BY <1>4, <3>3, <3>4
  <2>3. ASSUME NEW u \in Threads, pc'[u] = "put"
        PROVE  local[u] \in headIndex..(tailIndex - 1) /\ ring'[Slot(local[u])] = None
    <3>1. u # t /\ pc[u] = "put"
      BY <1>4, <2>3
    <3>2. local[u] \in headIndex..(tailIndex - 1) /\ ring[Slot(local[u])] = None /\ local[u] # k
      BY <1>1, <3>1 DEF SInv, NodeInv
    <3> QED BY <1>7, <3>2
  <2>4. ASSUME NEW u \in Threads, NEW v \in Threads, pc'[u] = "put", pc'[v] = "put",
               local[u] = local[v]
        PROVE  u = v
    BY <1>4, <2>4 DEF SInv, NodeInv
  <2> QED BY <1>0, <1>1, <2>1, <2>2, <2>3, <2>4 DEF NodeInv, Threads, Slots, Slot, None
<1>10. LifeInv'
  <2> SUFFICES ASSUME NEW p \in Packets
               PROVE  /\ p >= tailIndex => ofLife'[p] = 0
                      /\ p < headIndex => ofLife'[p] # 0
                      /\ p \in headIndex..(tailIndex - 1) =>
                            ofLife'[p] = IF ring'[Slot(p)] = None THEN 0 ELSE life
    BY <1>1 DEF LifeInv, Packets, Slot, None
  <2>1. CASE p = k
    BY <1>0, <1>3, <1>5, <1>6, <2>1
  <2>2. CASE p # k
    <3>1. /\ p >= tailIndex => ofLife[p] = 0
          /\ p < headIndex => ofLife[p] # 0
          /\ p \in headIndex..(tailIndex - 1) =>
                ofLife[p] = IF ring[Slot(p)] = None THEN 0 ELSE life
      BY DEF SInv, LifeInv
    <3> QED BY <1>6, <1>7, <2>2, <3>1
  <2> QED BY <2>1, <2>2
<1>11. SameTaking
  BY <1>1, <1>4 DEF SameTaking, Taking
<1>12. HoldInv'
  BY <1>1, <1>11, HoldsKept
<1>13. SentInv'
  <2>0. \A j \in 1..Len(sent) : sent[j][2] \in Packets
    <3>1. sent \in Seq((1..MaxLife) \X Packets)
      BY DEF SInv, DataType
    <3>2. \A j \in 1..Len(sent) : sent[j] \in (1..MaxLife) \X Packets
      BY <3>1, ElementOfSeq
    <3> QED BY <3>2
  <2>1. \A j \in 1..Len(sent) : sent[j][2] < headIndex /\ ofLife'[sent[j][2]] = sent[j][1]
    <3> TAKE j \in 1..Len(sent)
    <3>1. sent[j][2] < headIndex /\ ofLife[sent[j][2]] = sent[j][1]
      BY DEF SInv, SentInv
    <3>2. sent[j][2] # k
      BY <1>0, <1>3, <2>0, <3>1
    <3> QED BY <1>6, <2>0, <3>1, <3>2
  <2>2. ASSUME NEW u \in Threads, pc'[u] \in Taking
        PROVE  /\ \A j \in 1..Len(sent) : sent[j][2] < headIndex - local[u]
               /\ \A p \in (headIndex - local[u])..(headIndex - 1) : ofLife'[p] = life
    <3>1. pc[u] \in Taking
      BY <1>11, <2>2 DEF SameTaking
    <3>2. /\ \A j \in 1..Len(sent) : sent[j][2] < headIndex - local[u]
          /\ \A p \in (headIndex - local[u])..(headIndex - 1) : ofLife[p] = life
          /\ local[u] <= headIndex /\ local[u] \in Nat
      BY <1>2, <3>1 DEF SInv, SentInv, HoldInv, Holds
    <3>3. \A p \in (headIndex - local[u])..(headIndex - 1) : p # k /\ p \in Packets
      BY <1>0, <1>3, <3>2
    <3> QED BY <1>6, <3>2, <3>3
  <2> QED BY <1>1, <2>1, <2>2 DEF SInv, SentInv, Threads
<1>14. BusyInv'
  BY <1>1, <1>4 DEF SInv, BusyInv, Threads, Ready
<1>15. ClearInv'
  BY <1>1, <1>4 DEF SInv, ClearInv, Threads, Fresh
<1>16. RoomInv'
  BY <1>1, <1>4 DEF SInv, RoomInv, Threads
<1> QED BY <1>8, <1>9, <1>10, <1>12, <1>13, <1>14, <1>15, <1>16 DEF SInv

\* The next n packets are there.
Whole(n) == headIndex + n <= tailIndex /\ \A i \in headIndex..(headIndex + n - 1) : ring[Slot(i)] = i

\* Dequeues empty the nodes of what they take, and no other.
LEMMA DequeueFacts ==
    ASSUME SInv, NEW n \in 0..BufferSize, Dequeue(n), Whole(n)
    PROVE  /\ headIndex' = headIndex + n /\ tailIndex' = tailIndex
           /\ ring' \in [Slots -> Packets \cup {None}]
           /\ \A s \in Slots : ring'[s] # None =>
                 ring'[s] = ring[s] /\ ring[s] \in (headIndex + n)..(tailIndex - 1)
           /\ \A i \in (headIndex + n)..(tailIndex - 1) : ring'[Slot(i)] = ring[Slot(i)]
<1>0. /\ headIndex \in Nat /\ tailIndex \in Nat /\ BufferSize \in Nat
      /\ headIndex + n <= tailIndex /\ tailIndex <= headIndex + BufferSize
      /\ \A i \in headIndex..(headIndex + n - 1) : ring[Slot(i)] = i
  BY SendNumbers DEF Whole
<1>1. ring \in [Slots -> Packets \cup {None}] /\ DOMAIN ring = Slots
  BY DEF SInv, DataType
<1>2. \A s \in Slots : ring'[s] = IF \E j \in 0..(n - 1) : Slot(headIndex + j) = s
                                 THEN None ELSE ring[s]
  BY <1>1 DEF Dequeue
<1>3. ring' \in [Slots -> Packets \cup {None}]
  <2>1. ring' = [s \in Slots |-> IF \E j \in 0..(n - 1) : Slot(headIndex + j) = s
                                 THEN None ELSE ring[s]]
    BY <1>1 DEF Dequeue
  <2> QED BY <1>1, <2>1
<1>4. ASSUME NEW s \in Slots, ring'[s] # None
      PROVE  ring'[s] = ring[s] /\ ring[s] \in (headIndex + n)..(tailIndex - 1)
  <2>1. ring'[s] = ring[s] /\ ~\E j \in 0..(n - 1) : Slot(headIndex + j) = s
    BY <1>2, <1>4
  <2> DEFINE v == ring[s]
  <2>2. v \in headIndex..(tailIndex - 1) /\ Slot(v) = s
    BY <1>4, <2>1 DEF SInv, NodeInv
  <2> HIDE DEF v
  <2>3. ~(v < headIndex + n)
    <3> SUFFICES ASSUME v < headIndex + n PROVE FALSE
      OBVIOUS
    <3>1. v - headIndex \in 0..(n - 1) /\ headIndex + (v - headIndex) = v
      BY <1>0, <2>2
    <3> QED BY <2>1, <2>2, <3>1
  <2>4. v \in (headIndex + n)..(tailIndex - 1)
    BY <1>0, <2>2, <2>3
  <2> QED BY <2>1, <2>4 DEF v
<1>5. ASSUME NEW i \in (headIndex + n)..(tailIndex - 1) PROVE ring'[Slot(i)] = ring[Slot(i)]
  <2>1. i \in Nat
    BY <1>0
  <2>2. ASSUME NEW j \in 0..(n - 1), Slot(headIndex + j) = Slot(i) PROVE FALSE
    <3> DEFINE k == headIndex + j
    <3>1. k \in Nat /\ k - i < BufferSize /\ i - k < BufferSize /\ k # i
      BY <1>0
    <3>2. Slot(k) = Slot(i)
      BY <2>2
    <3> HIDE DEF k
    <3> QED BY <2>1, <3>1, <3>2, SlotsSame
  <2>3. Slot(i) \in Slots
    BY <2>1, SlotInRing
  <2> QED BY <1>2, <2>2, <2>3
<1> QED BY <1>3, <1>4, <1>5 DEF Dequeue

LEMMA DequeueNodes ==
    ASSUME SInv, NEW n \in 0..BufferSize, Dequeue(n), Whole(n), SamePut
    PROVE  NodeInv'
<1>0. /\ headIndex \in Nat /\ tailIndex \in Nat /\ BufferSize \in Nat
      /\ headIndex + n <= tailIndex /\ None \notin Nat
      /\ \A i \in headIndex..(headIndex + n - 1) : ring[Slot(i)] = i
  BY SendNumbers DEF Whole
<1>1. /\ headIndex' = headIndex + n /\ tailIndex' = tailIndex
      /\ \A s \in Slots : ring'[s] # None =>
            ring'[s] = ring[s] /\ ring[s] \in (headIndex + n)..(tailIndex - 1)
      /\ \A i \in (headIndex + n)..(tailIndex - 1) : ring'[Slot(i)] = ring[Slot(i)]
  BY DequeueFacts
<1>2. ASSUME NEW s \in Slots, ring'[s] # None
      PROVE  ring'[s] \in (headIndex + n)..(tailIndex - 1) /\ Slot(ring'[s]) = s
  BY <1>1, <1>2 DEF SInv, NodeInv
<1>3. ASSUME NEW i \in (headIndex + n)..(tailIndex - 1), ring'[Slot(i)] = None
      PROVE  \E u \in Threads : pc'[u] = "put" /\ local'[u] = i
  <2>1. ring[Slot(i)] = None /\ i \in headIndex..(tailIndex - 1)
    BY <1>0, <1>1, <1>3
  <2>2. PICK u \in Threads : pc[u] = "put" /\ local[u] = i
    BY <2>1 DEF SInv, NodeInv
  <2> QED BY <2>2 DEF SamePut
<1>4. ASSUME NEW u \in Threads, pc'[u] = "put"
      PROVE  local'[u] \in (headIndex + n)..(tailIndex - 1) /\ ring'[Slot(local'[u])] = None
  <2>1. pc[u] = "put" /\ local'[u] = local[u]
    BY <1>4 DEF SamePut
  <2> DEFINE i == local[u]
  <2>2. i \in headIndex..(tailIndex - 1) /\ ring[Slot(i)] = None
    BY <2>1 DEF SInv, NodeInv
  <2> HIDE DEF i
  <2>3. i \notin headIndex..(headIndex + n - 1)
    BY <1>0, <2>2
  <2>4. i \in (headIndex + n)..(tailIndex - 1)
    BY <1>0, <2>2, <2>3
  <2>5. ring'[Slot(i)] = None
    BY <1>1, <2>2, <2>4
  <2> QED BY <2>1, <2>4, <2>5 DEF i
<1>5. ASSUME NEW u \in Threads, NEW v \in Threads, pc'[u] = "put", pc'[v] = "put",
             local'[u] = local'[v]
      PROVE  u = v
  BY <1>5 DEF SamePut, SInv, NodeInv
<1> QED BY <1>0, <1>1, <1>2, <1>3, <1>4, <1>5 DEF NodeInv, Threads, Slots, Slot, None

\* What leaves the ring is of this connection; life changes only when it is empty.
LEMMA DequeueLives ==
    ASSUME SInv, NEW n \in 0..BufferSize, Dequeue(n), Whole(n), UNCHANGED ofLife,
           life' = life \/ headIndex + n = tailIndex
    PROVE  /\ LifeInv'
           /\ \A p \in headIndex..(headIndex + n - 1) : p \in Packets /\ ofLife[p] = life
<1>0. /\ headIndex \in Nat /\ tailIndex \in Nat /\ BufferSize \in Nat
      /\ headIndex + n <= tailIndex /\ None \notin Nat /\ tailIndex <= MaxPacket
      /\ \A i \in headIndex..(headIndex + n - 1) : ring[Slot(i)] = i
      /\ \A i : i \in Packets <=> i \in Nat /\ i < MaxPacket
      /\ MaxPacket \in Nat
  BY SendNumbers DEF Whole
<1>1. /\ headIndex' = headIndex + n /\ tailIndex' = tailIndex
      /\ \A i \in (headIndex + n)..(tailIndex - 1) : ring'[Slot(i)] = ring[Slot(i)]
  BY DequeueFacts
<1>2. ASSUME NEW p \in headIndex..(headIndex + n - 1)
      PROVE  p \in Packets /\ ofLife[p] = life
  <2>1. p \in Packets /\ p \in headIndex..(tailIndex - 1) /\ p \in Nat
    BY <1>0
  <2>2. ring[Slot(p)] # None
    BY <1>0, <2>1
  <2> QED BY <2>1, <2>2 DEF SInv, LifeInv
<1>3. ASSUME NEW p \in Packets
      PROVE  /\ p >= tailIndex => ofLife[p] = 0
             /\ p < headIndex + n => ofLife[p] # 0
             /\ p \in (headIndex + n)..(tailIndex - 1) =>
                   ofLife[p] = IF ring'[Slot(p)] = None THEN 0 ELSE life'
  <2>1. /\ p >= tailIndex => ofLife[p] = 0
        /\ p < headIndex => ofLife[p] # 0
        /\ p \in headIndex..(tailIndex - 1) =>
              ofLife[p] = IF ring[Slot(p)] = None THEN 0 ELSE life
    BY DEF SInv, LifeInv
  <2>2. life \in Nat /\ life >= 1
    BY SendAssumption DEF SInv, LockInv, TokenType
  <2>3. p < headIndex + n => ofLife[p] # 0
    BY <1>0, <1>2, <2>1, <2>2
  <2>4. ASSUME p \in (headIndex + n)..(tailIndex - 1)
        PROVE  ofLife[p] = IF ring'[Slot(p)] = None THEN 0 ELSE life'
    <3>1. p \in headIndex..(tailIndex - 1) /\ life' = life
      BY <1>0, <2>4
    <3> QED BY <1>1, <2>1, <2>4, <3>1
  <2> QED BY <2>1, <2>3, <2>4
<1>4. LifeInv'
  BY <1>1, <1>3 DEF LifeInv, Packets, Slot, None
<1> QED BY <1>2, <1>4

----------------------------------------------------------------------------
\* The references to the packets before k are released, and ps names each packet
\* from lo to hi - 1 once.
FreedBelow(k) == \A p \in Packets : freed[p] = IF p < k THEN 1 ELSE 0
Names(ps, n, lo, hi) ==
    /\ DOMAIN ps = 1..n
    /\ \A j, k \in 1..n : ps[j] = ps[k] => j = k
    /\ \A p \in Packets : (\E j \in 1..n : ps[j] = p) <=> lo <= p /\ p < hi

LEMMA FreedBy ==
    ASSUME NEW ps, NEW n \in Nat, NEW lo \in Nat, NEW hi \in Nat, lo <= hi, Names(ps, n, lo, hi),
           Free(ps), freed \in [Packets -> Nat], FreedBelow(lo)
    PROVE  /\ freed' \in [Packets -> Nat]
           /\ \A p \in Packets : freed'[p] = IF p < hi THEN 1 ELSE 0
<1> DEFINE at(p) == {j \in 1..n : ps[j] = p}
<1> USE DEF FreedBelow, Names
<1>1. freed' = [p \in Packets |-> freed[p] + Cardinality(at(p))]
  BY DEF Free
<1>2. ASSUME NEW p \in Packets
      PROVE  Cardinality(at(p)) = IF lo <= p /\ p < hi THEN 1 ELSE 0
  <2>1. CASE \E j \in 1..n : ps[j] = p
    <3>1. PICK j \in 1..n : ps[j] = p
      BY <2>1
    <3>2. at(p) = {j}
      BY <3>1
    <3> QED BY <2>1, <3>2, FS_Singleton
  <2>2. CASE ~\E j \in 1..n : ps[j] = p
    <3>1. at(p) = {}
      BY <2>2
    <3> QED BY <2>2, <3>1, FS_EmptySet
  <2> QED BY <2>1, <2>2
<1> HIDE DEF at
<1>3. ASSUME NEW p \in Packets
      PROVE  /\ freed[p] + Cardinality(at(p)) = IF p < hi THEN 1 ELSE 0
             /\ freed[p] + Cardinality(at(p)) \in Nat
  <2>1. p \in Int /\ freed[p] = IF p < lo THEN 1 ELSE 0
    BY DEF Packets
  <2> QED BY <1>2, <2>1
<1> QED BY <1>1, <1>3

\* What _sendingQ holds, as a sequence.
LEMMA SendingIs ==
    ASSUME SInv, NEW m, m = dataNotSend, Holds(m)
    PROVE  /\ m \in Nat /\ headIndex - m \in Nat
           /\ Sending = [j \in 1..m |-> headIndex - m + j - 1]
<1>1. m \in 0..BufferSize /\ m <= headIndex /\ headIndex \in Nat /\ BufferSize \in Nat
  BY SendNumbers DEF Holds
<1>2. m \in Nat /\ headIndex - m \in Nat
  BY <1>1
<1> QED BY <1>2 DEF Holds, Sending

\* A function on 1..n is a sequence of length n.
LEMMA FnIsSeq ==
    ASSUME NEW S, NEW n \in Nat, NEW f \in [1..n -> S]
    PROVE  f \in Seq(S) /\ Len(f) = n
<1>1. f \in Seq(S)
  BY SeqDef
<1>2. DOMAIN f = 1..n /\ DOMAIN f = 1..Len(f) /\ Len(f) \in Nat
  BY <1>1, LenProperties
<1> DEFINE l == Len(f)
<1>3. l \in Nat /\ 1..n = 1..l
  BY <1>2
<1> HIDE DEF l
<1>4. l = n
  <2>1. (n \in 1..n) <=> (n \in 1..l)
    BY <1>3
  <2>2. (l \in 1..n) <=> (l \in 1..l)
    BY <1>3
  <2> QED BY <1>3, <2>1, <2>2
<1> QED BY <1>1, <1>4 DEF l

\* RealSend begins: there is something to send, and _sendingQ is empty.
LEMMA RealSizeStep ==
    ASSUME SInv, LockInv', NEW t \in Threads, RealSize(t)
    PROVE  SInv'
<1>0. /\ headIndex \in Nat /\ tailIndex \in Nat /\ Size = tailIndex - headIndex
  BY SendNumbers
<1>1. /\ pc[t] = "real" /\ local' = [local EXCEPT ![t] = 0]
      /\ UNCHANGED <<life, state, queueVars, sendPosted, sendingQ, dataNotSend, ofLife, freed, sent>>
      /\ UNCHANGED isSending
  BY DEF RealSize, lifeVars, sendVars, historyVars
<1>2. pc \in [Threads -> Pcs] /\ local \in [Threads -> Nat]
  BY DEF SInv, LockInv, TokenType, DataType
<1>3. state = "up"
  BY <1>1, UpWhile DEF NoRef
<1>4. ~(Size < 1)
  BY <1>0, <1>1, <1>3 DEF SInv, BusyInv, Ready
<1>5. /\ pc'[t] = "fill" /\ \A u \in Threads : u # t => pc'[u] = pc[u]
      /\ local'[t] = 0 /\ \A u \in Threads : u # t => local'[u] = local[u]
  BY <1>1, <1>2, <1>4, Moves DEF RealSize
<1>6. sendPosted = 0 /\ \A u \in Threads : u # t => pc[u] \notin Owns
  BY <1>1 DEF SInv, LockInv, TokenInv, Owns
<1>7. \A u \in Threads : pc[u] \notin Taking /\ (pc'[u] \in Taking => u = t)
  BY <1>1, <1>5, <1>6 DEF Owns, Taking
<1>8. dataNotSend = 0 /\ Holds(0)
  <2>1. dataNotSend = 0
    BY <1>1, <1>3 DEF SInv, ClearInv, Fresh
  <2> QED BY <1>7, <2>1 DEF SInv, HoldInv
<1>9. NodeInv' /\ LifeInv'
  <2>1. SamePut
    BY <1>1, <1>5 DEF SamePut
  <2> QED BY <1>1, <2>1, NodesKept, LivesKept
<1>10. DataType'
  <2>1. local' \in [Threads -> Nat]
    BY <1>1, <1>2
  <2> QED BY <1>1, <2>1 DEF SInv, DataType, queueVars, Slots, Packets, Threads, None
<1>11. HoldInv'
  <2>1. dataNotSend' = 0 /\ Holds(local[t])'
    BY <1>1, <1>5, <1>8 DEF Holds, queueVars, Packets
  <2>2. ASSUME NEW u \in Threads, pc'[u] \in Taking PROVE dataNotSend' = 0 /\ Holds(local[u])'
    <3>1. u = t
      BY <1>7, <2>2
    <3> QED BY <2>1, <3>1
  <2>3. pc'[t] \in Taking
    BY <1>5 DEF Taking
  <2> QED BY <2>2, <2>3 DEF HoldInv, Threads
<1>12. SentInv'
  <2>1. /\ \A j \in 1..Len(sent) : sent[j][2] < headIndex /\ ofLife[sent[j][2]] = sent[j][1]
        /\ \A j, k \in 1..Len(sent) : j < k => sent[j][2] < sent[k][2]
    BY DEF SInv, SentInv
  <2>2. ASSUME NEW u \in Threads, pc'[u] \in Taking
        PROVE  /\ \A j \in 1..Len(sent) : sent[j][2] < headIndex - local'[u]
               /\ \A p \in (headIndex - local'[u])..(headIndex - 1) : ofLife[p] = life
    <3>1. headIndex - local'[u] = headIndex /\ headIndex..(headIndex - 1) = {}
      BY <1>0, <1>5, <1>7, <2>2
    <3> QED BY <2>1, <3>1
  <2> QED BY <1>1, <2>1, <2>2 DEF SentInv, Threads, queueVars
<1>13. RoomInv'
  BY <1>1, <1>5 DEF SInv, RoomInv, queueVars, Threads
<1>14. BusyInv'
  BY <1>1, <1>5 DEF SInv, BusyInv, queueVars, Threads, Ready
<1>15. ClearInv'
  BY <1>1, <1>8 DEF ClearInv
<1> QED BY <1>9, <1>10, <1>11, <1>12, <1>13, <1>14, <1>15 DEF SInv

\* RealSend dequeues one packet, which _sendingQ holds behind the others.
LEMMA RealClaimStep ==
    ASSUME SInv, LockInv', NEW t \in Threads, RealClaim(t)
    PROVE  SInv'
<1> DEFINE l == local[t]
<1>0. /\ headIndex \in Nat /\ tailIndex \in Nat /\ BufferSize \in Nat /\ MaxPacket \in Nat
      /\ BufferSize >= 1 /\ tailIndex <= headIndex + BufferSize /\ tailIndex <= MaxPacket
      /\ \A i : i \in Packets <=> i \in Nat /\ i < MaxPacket
  BY SendNumbers
<1>1. /\ pc[t] = "fill" /\ Dequeue(1) /\ local' = [local EXCEPT ![t] = l + 1]
      /\ l < BufferSize /\ ring[Slot(headIndex)] # None
      /\ sendingQ' = [sendingQ EXCEPT ![l + 1] = ring[Slot(headIndex)]]
      /\ UNCHANGED <<life, state, sendPosted, dataNotSend, ofLife, freed, sent>>
      /\ UNCHANGED isSending
  BY DEF RealClaim, lifeVars, historyVars
<1>2. /\ pc \in [Threads -> Pcs] /\ local \in [Threads -> Nat]
      /\ sendingQ \in [1..BufferSize -> Packets \cup {None}]
  BY DEF SInv, LockInv, TokenType, DataType
<1>3. /\ pc'[t] = "unmark" /\ \A u \in Threads : u # t => pc'[u] = pc[u]
      /\ local'[t] = l + 1 /\ \A u \in Threads : u # t => local'[u] = local[u]
  BY <1>1, <1>2, Moves DEF RealClaim
<1>4. state = "up"
  BY <1>1, UpWhile DEF NoRef
<1>5. sendPosted = 0 /\ \A u \in Threads : u # t => pc[u] \notin Owns
  BY <1>1 DEF SInv, LockInv, TokenInv, Owns
<1>6. dataNotSend = 0 /\ Holds(l)
  BY <1>1 DEF SInv, HoldInv, Taking
<1>7. ring[Slot(headIndex)] = headIndex /\ headIndex < tailIndex /\ headIndex \in Packets
  <2>1. headIndex < headIndex + BufferSize
    BY <1>0
  <2>2. ring[Slot(headIndex)] = headIndex /\ headIndex < tailIndex
    BY <1>0, <1>1, <2>1, NodeHolds
  <2> QED BY <1>0, <2>2
<1>8. Whole(1) /\ 1 \in 0..BufferSize
  <2>1. headIndex + 1 <= tailIndex /\ 1 \in 0..BufferSize
    BY <1>0, <1>7
  <2>2. ASSUME NEW i \in headIndex..(headIndex + 1 - 1) PROVE ring[Slot(i)] = i
    <3>1. i = headIndex
      BY <1>0
    <3> QED BY <1>7, <3>1
  <2> QED BY <2>1, <2>2 DEF Whole
<1>9. headIndex' = headIndex + 1 /\ tailIndex' = tailIndex /\ ring' \in [Slots -> Packets \cup {None}]
  BY <1>1, <1>8, DequeueFacts
<1>10. NodeInv'
  <2>1. SamePut
    BY <1>1, <1>3 DEF SamePut
  <2> QED BY <1>1, <1>8, <2>1, DequeueNodes
<1>11. LifeInv' /\ ofLife[headIndex] = life
  <2>1. LifeInv' /\ \A p \in headIndex..(headIndex + 1 - 1) : p \in Packets /\ ofLife[p] = life
    BY <1>1, <1>8, DequeueLives
  <2>2. headIndex \in headIndex..(headIndex + 1 - 1)
    BY <1>0
  <2> QED BY <2>1, <2>2
<1>12. /\ l \in Nat /\ l <= headIndex /\ l + 1 \in 1..BufferSize
       /\ \A j \in 1..l : sendingQ[j] = headIndex - l + j - 1
       /\ \A p \in Packets : freed[p] = IF p < headIndex - l THEN 1 ELSE 0
  <2>1. l \in Nat
    BY <1>2
  <2>2. l + 1 \in 1..BufferSize
    BY <1>0, <1>1, <2>1
  <2> QED BY <1>6, <2>1, <2>2 DEF Holds
<1>13. sendingQ' \in [1..BufferSize -> Packets \cup {None}]
  BY <1>1, <1>2, <1>7, <1>12
<1>14. \A j \in 1..(l + 1) : sendingQ'[j] = headIndex - l + j - 1
  <2> TAKE j \in 1..(l + 1)
  <2> HIDE DEF l
  <2>1. CASE j = l + 1
    <3>1. sendingQ'[j] = headIndex
      BY <1>1, <1>2, <1>7, <1>12, <2>1
    <3> QED BY <1>0, <1>12, <2>1, <3>1
  <2>2. CASE j # l + 1
    <3>1. j \in 1..l /\ j \in 1..BufferSize
      BY <1>0, <1>12, <2>2
    <3>2. sendingQ'[j] = sendingQ[j]
      BY <1>1, <1>2, <2>2, <3>1
    <3> QED BY <1>12, <3>1, <3>2
  <2> QED BY <2>1, <2>2
<1>15. DataType'
  <2>1. headIndex' \in Nat /\ tailIndex' \in Nat /\ local' \in [Threads -> Nat]
    BY <1>0, <1>1, <1>2, <1>9, <1>12
  <2> QED BY <1>1, <1>9, <1>13, <2>1 DEF SInv, DataType, Slots, Packets, Threads, None
<1>16. \A u \in Threads : pc'[u] \in Taking => u = t
  BY <1>3, <1>5 DEF Owns, Taking
<1>17. HoldInv'
  <2> DEFINE h == headIndex'  q == sendingQ'  m == local'[t]
  <2>1. /\ m \in 0..BufferSize /\ m <= h
        /\ \A j \in 1..m : q[j] = h - m + j - 1
        /\ \A p \in Packets : freed[p] = IF p < h - m THEN 1 ELSE 0
    <3>1. h = headIndex + 1 /\ m = l + 1 /\ h - m = headIndex - l
      BY <1>0, <1>3, <1>9, <1>12
    <3> HIDE DEF h, m, q, l
    <3>2. \A j \in 1..m : q[j] = h - m + j - 1
      BY <1>14, <3>1 DEF q
    <3> QED BY <1>0, <1>12, <3>1, <3>2
  <2>2. Holds(local[t])'
    BY <1>1, <2>1 DEF Holds, Packets
  <2>3. dataNotSend' = 0
    BY <1>1, <1>6
  <2>4. ASSUME NEW u \in Threads, pc'[u] \in Taking PROVE dataNotSend' = 0 /\ Holds(local[u])'
    <3>1. u = t
      BY <1>16, <2>4
    <3> QED BY <2>2, <2>3, <3>1
  <2>5. pc'[t] \in Taking
    BY <1>3 DEF Taking
  <2> QED BY <2>4, <2>5 DEF HoldInv, Threads
<1>18. SentInv'
  <2>0. \A j \in 1..Len(sent) : sent[j][2] \in Packets
    <3>1. sent \in Seq((1..MaxLife) \X Packets)
      BY DEF SInv, DataType
    <3>2. \A j \in 1..Len(sent) : sent[j] \in (1..MaxLife) \X Packets
      BY <3>1, ElementOfSeq
    <3> QED BY <3>2
  <2>1. /\ \A j \in 1..Len(sent) : sent[j][2] < headIndex /\ ofLife[sent[j][2]] = sent[j][1]
        /\ \A j, k \in 1..Len(sent) : j < k => sent[j][2] < sent[k][2]
        /\ \A j \in 1..Len(sent) : sent[j][2] < headIndex - l
        /\ \A p \in (headIndex - l)..(headIndex - 1) : ofLife[p] = life
    BY <1>1 DEF SInv, SentInv, Taking
  <2>2. \A j \in 1..Len(sent) : sent[j][2] < headIndex'
    BY <1>0, <1>9, <2>0, <2>1
  <2>3. headIndex' - local'[t] = headIndex - l /\ headIndex' - 1 = headIndex
    BY <1>0, <1>3, <1>9, <1>12
  <2>4. \A p \in (headIndex - l)..headIndex : ofLife[p] = life
    <3> TAKE p \in (headIndex - l)..headIndex
    <3>1. CASE p = headIndex
      BY <1>11, <3>1
    <3>2. CASE p # headIndex
      <4>1. p \in (headIndex - l)..(headIndex - 1)
        BY <1>0, <1>12, <3>2
      <4> QED BY <2>1, <4>1
    <3> QED BY <3>1, <3>2
  <2>5. ASSUME NEW u \in Threads, pc'[u] \in Taking
        PROVE  /\ \A j \in 1..Len(sent) : sent[j][2] < headIndex' - local'[u]
               /\ \A p \in (headIndex' - local'[u])..(headIndex' - 1) : ofLife[p] = life
    <3>1. u = t
      BY <1>16, <2>5
    <3> QED BY <2>1, <2>3, <2>4, <3>1
  <2> QED BY <1>1, <2>1, <2>2, <2>5 DEF SentInv, Threads
<1>19. RoomInv'
  BY <1>0, <1>9 DEF RoomInv
<1>20. BusyInv'
  <2>1. \A u \in Threads : pc'[u] \notin Ready /\ pc'[u] # "full" /\ pc'[u] # "broken"
    BY <1>3, <1>5 DEF Ready, Owns, SInv, BusyInv
  <2> QED BY <1>1, <1>4, <1>5, <2>1 DEF BusyInv, Threads, Ready
<1>21. ClearInv'
  BY <1>1, <1>6 DEF ClearInv
<1> QED BY <1>10, <1>11, <1>15, <1>17, <1>18, <1>19, <1>20, <1>21 DEF SInv

\* The packets given to WSASend stay in _sendingQ until the send completes.
LEMMA RealPostStep ==
    ASSUME SInv, LockInv', NEW t \in Threads, RealPost(t)
    PROVE  SInv'
<1> DEFINE m == local[t]
           new == [j \in 1..m |-> <<life, sendingQ[j]>>]
<1>0. /\ headIndex \in Nat /\ tailIndex \in Nat /\ BufferSize \in Nat /\ MaxPacket \in Nat
      /\ headIndex <= tailIndex /\ tailIndex <= MaxPacket
      /\ \A i : i \in Packets <=> i \in Nat /\ i < MaxPacket
  BY SendNumbers
<1>1. /\ pc[t] = "wsaSend" /\ dataNotSend' = m /\ (sent' = sent \/ sent' = sent \o new)
      /\ UNCHANGED <<life, state, queueVars, sendPosted, sendingQ, local, ofLife, freed>>
      /\ UNCHANGED isSending
  BY DEF RealPost, lifeVars
<1>2. pc \in [Threads -> Pcs] /\ life \in 1..MaxLife
  BY DEF SInv, LockInv, TokenType
<1>3. pc'[t] = "idle" /\ \A u \in Threads : u # t => pc'[u] = pc[u]
  BY <1>2, Moves DEF RealPost
<1>4. state = "up"
  BY <1>1, UpWhile DEF NoRef
<1>5. sendPosted = 0 /\ \A u \in Threads : u # t => pc[u] \notin Owns
  BY <1>1 DEF SInv, LockInv, TokenInv, Owns
<1>6. isSending
  BY <1>1, <1>4 DEF SInv, LockInv, TokenInv, Owns
<1>7. \A u \in Threads : pc'[u] \notin Owns
  BY <1>3, <1>5 DEF Owns
<1>8. Holds(m)
  BY <1>1 DEF SInv, HoldInv, Taking
<1>9. m \in 0..BufferSize /\ m \in Nat /\ headIndex - m \in Nat
      /\ \A j \in 1..m : sendingQ[j] = headIndex - m + j - 1 /\ sendingQ[j] \in Packets
  <2>1. m \in 0..BufferSize /\ m <= headIndex /\ \A j \in 1..m : sendingQ[j] = headIndex - m + j - 1
    BY <1>8 DEF Holds
  <2> HIDE DEF m
  <2> QED BY <1>0, <2>1
<1>10. NodeInv' /\ LifeInv'
  <2>1. SamePut
    BY <1>1, <1>3 DEF SamePut
  <2> QED BY <1>1, <2>1, NodesKept, LivesKept
<1>11. HoldInv'
  <2>1. Holds(dataNotSend)'
    BY <1>1, <1>8 DEF Holds, queueVars, Packets
  <2> QED BY <1>7, <2>1 DEF HoldInv, Threads, Owns, Taking
<1>12. sent \in Seq((1..MaxLife) \X Packets) /\ new \in Seq((1..MaxLife) \X Packets) /\ Len(new) = m
  <2>1. sent \in Seq((1..MaxLife) \X Packets)
    BY DEF SInv, DataType
  <2>2. new \in [1..m -> (1..MaxLife) \X Packets]
    BY <1>2, <1>9
  <2> HIDE DEF new, m
  <2>3. new \in Seq((1..MaxLife) \X Packets) /\ Len(new) = m
    BY <1>9, <2>2, FnIsSeq
  <2> QED BY <2>1, <2>3
<1>13. /\ sent' \in Seq((1..MaxLife) \X Packets)
       /\ sent' = sent \/
          /\ Len(sent') = Len(sent) + m /\ Len(sent) \in Nat
          /\ \A j \in 1..Len(sent) : sent'[j] = sent[j]
          /\ \A j \in (Len(sent) + 1)..(Len(sent) + m) : sent'[j] = new[j - Len(sent)]
  <2> HIDE DEF new, m
  <2>1. CASE sent' = sent
    BY <1>12, <2>1
  <2>2. CASE sent' = sent \o new
    <3>1. sent' \in Seq((1..MaxLife) \X Packets)
      BY <1>12, <2>2
    <3>2. Len(sent') = Len(sent) + m /\ Len(sent) \in Nat /\ m \in Nat
      BY <1>9, <1>12, <2>2, ConcatProperties, LenProperties
    <3>3. \A j \in 1..(Len(sent) + m) :
             sent'[j] = IF j <= Len(sent) THEN sent[j] ELSE new[j - Len(sent)]
      BY <1>12, <2>2, ConcatProperties
    <3>4. /\ \A j \in 1..Len(sent) : sent'[j] = sent[j]
          /\ \A j \in (Len(sent) + 1)..(Len(sent) + m) : sent'[j] = new[j - Len(sent)]
      BY <3>2, <3>3
    <3> QED BY <3>1, <3>2, <3>4
  <2> QED BY <1>1, <2>1, <2>2
<1>14. DataType'
  BY <1>1, <1>9, <1>13 DEF SInv, DataType, queueVars, Slots, Packets, Threads, None
<1>15. SentInv'
  <2>0. \A j \in 1..Len(sent) : sent[j][2] \in Packets
    <3>1. \A j \in 1..Len(sent) : sent[j] \in (1..MaxLife) \X Packets
      BY <1>12, ElementOfSeq
    <3> QED BY <3>1
  <2>1. /\ \A j \in 1..Len(sent) : ofLife[sent[j][2]] = sent[j][1] /\ sent[j][2] < headIndex
        /\ \A j, k \in 1..Len(sent) : j < k => sent[j][2] < sent[k][2]
        /\ \A j \in 1..Len(sent) : sent[j][2] < headIndex - m
        /\ \A p \in (headIndex - m)..(headIndex - 1) : ofLife[p] = life
    BY <1>1 DEF SInv, SentInv, Taking
  <2>2. /\ \A j \in 1..Len(sent') : sent'[j][2] < headIndex /\ ofLife[sent'[j][2]] = sent'[j][1]
        /\ \A j, k \in 1..Len(sent') : j < k => sent'[j][2] < sent'[k][2]
    <3>1. CASE sent' = sent
      BY <2>1, <3>1
    <3>2. CASE sent' # sent
      <4> DEFINE s == sent'  n == Len(sent)
      <4>1. /\ Len(s) = n + m /\ n \in Nat
            /\ \A j \in 1..n : s[j] = sent[j]
            /\ \A j \in (n + 1)..(n + m) : s[j] = new[j - n]
        BY <1>13, <3>2
      <4> HIDE DEF s, m
      <4>2. ASSUME NEW j \in (n + 1)..(n + m)
            PROVE  s[j][1] = life /\ s[j][2] = headIndex - m + (j - n) - 1
        <5>1. j - n \in 1..m
          BY <1>9, <4>1
        <5>2. new[j - n] = <<life, sendingQ[j - n]>>
          BY <5>1
        <5>3. sendingQ[j - n] = headIndex - m + (j - n) - 1
          BY <1>9, <5>1
        <5>4. s[j] = new[j - n]
          BY <4>1
        <5> QED BY <5>2, <5>3, <5>4
      <4>3. ASSUME NEW j \in (n + 1)..(n + m)
            PROVE  s[j][2] \in (headIndex - m)..(headIndex - 1) /\ s[j][1] = life
        BY <1>0, <1>9, <4>1, <4>2
      <4>4. ASSUME NEW j \in 1..n
            PROVE  /\ s[j][2] < headIndex - m /\ s[j][2] < headIndex /\ s[j][2] \in Nat
                   /\ ofLife[s[j][2]] = s[j][1]
        BY <1>0, <2>0, <2>1, <4>1
      <4>5. \A j \in 1..Len(s) : j \in 1..n \/ j \in (n + 1)..(n + m)
        BY <1>9, <4>1
      <4>6. ASSUME NEW j \in 1..Len(s) PROVE s[j][2] < headIndex /\ ofLife[s[j][2]] = s[j][1]
        <5>1. CASE j \in 1..n
          BY <4>4, <5>1
        <5>2. CASE j \in (n + 1)..(n + m)
          BY <1>0, <1>9, <2>1, <4>3, <5>2
        <5> QED BY <4>5, <5>1, <5>2
      <4>7. ASSUME NEW j \in 1..Len(s), NEW k \in 1..Len(s), j < k PROVE s[j][2] < s[k][2]
        <5>1. CASE k \in 1..n
          <6>1. j \in 1..n
            BY <4>1, <4>7, <5>1
          <6> QED BY <2>1, <4>1, <4>7, <5>1, <6>1
        <5>2. CASE j \in 1..n /\ k \in (n + 1)..(n + m)
          BY <1>0, <1>9, <4>3, <4>4, <5>2
        <5>3. CASE j \in (n + 1)..(n + m) /\ k \in (n + 1)..(n + m)
          BY <1>0, <1>9, <4>1, <4>2, <4>7, <5>3
        <5> QED BY <4>5, <5>1, <5>2, <5>3
      <4> QED BY <4>6, <4>7 DEF s
    <3> QED BY <3>1, <3>2
  <2> QED BY <1>1, <1>7, <2>2 DEF SentInv, Threads, Owns, Taking, queueVars
<1>16. BusyInv'
  <2>1. \A u \in Threads : pc'[u] # "full" /\ pc'[u] # "broken" /\ pc'[u] \notin Ready
    BY <1>3, <1>7 DEF SInv, BusyInv, Ready, Owns
  <2> QED BY <1>1, <1>4, <1>5, <2>1 DEF BusyInv, Threads, Ready
<1>17. ClearInv'
  <2>1. \A u \in Threads : pc'[u] \notin Fresh
    BY <1>7 DEF Fresh, Owns
  <2>2. isSending' /\ state' = "up" /\ sendPosted' = 0
    BY <1>1, <1>4, <1>5, <1>6
  <2> QED BY <2>1, <2>2 DEF ClearInv, Threads, Fresh
<1>18. RoomInv'
  BY <1>1, <1>3 DEF SInv, RoomInv, queueVars, Threads
<1> QED BY <1>10, <1>11, <1>14, <1>15, <1>16, <1>17, <1>18 DEF SInv

\* PostSend releases exactly what _sendingQ holds.
LEMMA PostFreeStep ==
    ASSUME SInv, LockInv', NEW t \in Threads, PostFree(t)
    PROVE  SInv'
<1> DEFINE m == dataNotSend
<1>0. /\ headIndex \in Nat /\ tailIndex \in Nat /\ BufferSize \in Nat /\ MaxPacket \in Nat
  BY SendNumbers
<1>1. /\ pc[t] = "free" /\ Free(Sending) /\ dataNotSend' = 0
      /\ UNCHANGED <<life, state, queueVars, sendPosted, sendingQ, local, ofLife, sent>>
      /\ UNCHANGED isSending
  BY DEF PostFree, lifeVars
<1>2. pc \in [Threads -> Pcs] /\ freed \in [Packets -> Nat]
  BY DEF SInv, LockInv, TokenType, DataType
<1>3. pc'[t] = "clear" /\ \A u \in Threads : u # t => pc'[u] = pc[u]
  BY <1>2, Moves DEF PostFree
<1>4. \A u \in Threads : pc[u] \notin Taking /\ pc'[u] \notin Taking
  BY <1>1, <1>3 DEF SInv, LockInv, TokenInv, Owns, Taking
<1>5. Holds(m)
  BY <1>4 DEF SInv, HoldInv
<1>6. m \in Nat /\ headIndex - m \in Nat /\ Sending = [j \in 1..m |-> headIndex - m + j - 1]
  BY <1>5, SendingIs
<1>7. /\ freed' \in [Packets -> Nat]
      /\ \A p \in Packets : freed'[p] = IF p < headIndex THEN 1 ELSE 0
  <2> DEFINE ps == Sending  lo == headIndex - m
  <2>1. DOMAIN ps = 1..m /\ \A j \in 1..m : ps[j] = lo + j - 1
    BY <1>6
  <2>2. \A p \in Packets : freed[p] = IF p < lo THEN 1 ELSE 0
    BY <1>5 DEF Holds
  <2>3. lo \in Nat /\ lo + m = headIndex
    BY <1>0, <1>6
  <2>4. Free(ps)
    BY <1>1
  <2> HIDE DEF ps, lo, m
  <2>5. m \in Nat /\ lo <= headIndex
    BY <1>0, <1>6, <2>3
  <2>6. \A j, k \in 1..m : ps[j] = ps[k] => j = k
    BY <2>1, <2>3, <2>5
  <2>7. \A p \in Packets : (\E j \in 1..m : ps[j] = p) <=> lo <= p /\ p < headIndex
    <3> TAKE p \in Packets
    <3>1. p \in Int
      BY DEF Packets
    <3>2. ASSUME NEW j \in 1..m, ps[j] = p PROVE lo <= p /\ p < headIndex
      BY <2>1, <2>3, <2>5, <3>2
    <3>3. ASSUME lo <= p, p < headIndex PROVE \E j \in 1..m : ps[j] = p
      <4>1. p - lo + 1 \in 1..m /\ lo + (p - lo + 1) - 1 = p
        BY <2>3, <2>5, <3>1, <3>3
      <4> QED BY <2>1, <4>1
    <3> QED BY <3>2, <3>3
  <2>8. Names(ps, m, lo, headIndex) /\ FreedBelow(lo)
    BY <2>1, <2>2, <2>6, <2>7 DEF Names, FreedBelow
  <2> QED BY <1>0, <1>2, <2>3, <2>4, <2>5, <2>8, FreedBy
<1>8. SamePut /\ SameTaking
  BY <1>1, <1>3, <1>4 DEF SamePut, SameTaking
<1>9. NodeInv' /\ LifeInv' /\ SentInv'
  BY <1>1, <1>8, NodesKept, LivesKept, SentKept DEF queueVars
<1>10. HoldInv'
  <2>1. Holds(dataNotSend)'
    BY <1>0, <1>1, <1>7 DEF Holds, queueVars, Packets
  <2> QED BY <1>4, <2>1 DEF HoldInv, Threads
<1>11. DataType'
  BY <1>0, <1>1, <1>7 DEF SInv, DataType, queueVars, Slots, Packets, Threads, None
<1>12. BusyInv'
  BY <1>1, <1>3 DEF SInv, BusyInv, queueVars, Threads, Ready
<1>13. ClearInv'
  BY <1>1 DEF ClearInv
<1>14. RoomInv'
  BY <1>1, <1>3 DEF SInv, RoomInv, queueVars, Threads
<1> QED BY <1>9, <1>10, <1>11, <1>12, <1>13, <1>14 DEF SInv

\* Reset, when nobody uses the slot: it empties the ring and _sendingQ, and releases
\* exactly what they held.
LEMMA ResetFacts ==
    ASSUME SInv, Reset, state # "up"
    PROVE  /\ headIndex' = tailIndex /\ tailIndex' = tailIndex /\ dataNotSend' = 0
           /\ headIndex <= tailIndex /\ headIndex + Run = tailIndex
           /\ freed' \in [Packets -> Nat]
           /\ \A p \in Packets : freed'[p] = IF p < tailIndex THEN 1 ELSE 0
           /\ \A t \in Threads : pc[t] \in NoRef
<1> DEFINE m == dataNotSend  r == Run  ps == Taken \o Sending  lo == headIndex - m  n == r + m
<1>0. /\ headIndex \in Nat /\ tailIndex \in Nat /\ r \in Nat /\ headIndex <= tailIndex
      /\ Taken = [j \in 1..r |-> headIndex + j - 1]
      /\ (\A t \in Threads : pc[t] # "put") => headIndex + r = tailIndex
  BY SendNumbers, RunTakes
<1>1. Dequeue(r) /\ dataNotSend' = 0 /\ Free(ps)
  BY DEF Reset
<1>2. \A t \in Threads : pc[t] \in NoRef
  BY DEF SInv, LockInv, RefInv
<1>3. headIndex + r = tailIndex
  BY <1>0, <1>2 DEF NoRef
<1>4. Holds(m)
  BY <1>2 DEF SInv, HoldInv, NoRef, Taking
<1>5. m \in Nat /\ lo \in Nat /\ Sending = [j \in 1..m |-> lo + j - 1]
  BY <1>4, SendingIs
<1>6. FreedBelow(lo)
  BY <1>4 DEF Holds, FreedBelow
<1>7. headIndex' = headIndex + r /\ tailIndex' = tailIndex
  BY <1>1 DEF Dequeue
<1>8. freed \in [Packets -> Nat]
  BY DEF SInv, DataType
<1> HIDE DEF r, m
<1>9. lo + m = headIndex /\ n \in Nat /\ lo <= tailIndex /\ lo <= headIndex
  BY <1>0, <1>5
<1>10. /\ DOMAIN ps = 1..n
       /\ \A j \in 1..n : ps[j] = IF j <= r THEN headIndex + j - 1 ELSE lo + (j - r) - 1
  <2> DEFINE a == Taken  b == Sending
  <2>1. a \in [1..r -> Nat] /\ b \in [1..m -> Nat]
    BY <1>0, <1>5
  <2>2. /\ \A j \in 1..r : a[j] = headIndex + j - 1
        /\ \A j \in 1..m : b[j] = lo + j - 1
    BY <1>0, <1>5
  <2> HIDE DEF a, b, lo
  <2>3. a \in Seq(Nat) /\ Len(a) = r /\ b \in Seq(Nat) /\ Len(b) = m
    BY <1>0, <1>5, <2>1, FnIsSeq
  <2>4. /\ a \o b \in Seq(Nat) /\ Len(a \o b) = n
        /\ \A j \in 1..n : (a \o b)[j] = IF j <= r THEN a[j] ELSE b[j - r]
    BY <2>3, ConcatProperties
  <2>5. DOMAIN (a \o b) = 1..n
    BY <2>4, LenProperties
  <2>6. ASSUME NEW j \in 1..n
        PROVE  (a \o b)[j] = IF j <= r THEN headIndex + j - 1 ELSE lo + (j - r) - 1
    <3>1. CASE j <= r
      BY <1>0, <2>2, <2>4, <3>1
    <3>2. CASE ~(j <= r)
      <4>1. j - r \in 1..m
        BY <1>0, <1>5, <3>2
      <4> QED BY <2>2, <2>4, <3>2, <4>1
    <3> QED BY <3>1, <3>2
  <2> QED BY <2>5, <2>6 DEF a, b
<1> HIDE DEF ps, lo
<1>11. Names(ps, n, lo, tailIndex)
  <2>1. \A j, k \in 1..n : ps[j] = ps[k] => j = k
    <3> DEFINE v(j) == IF j <= r THEN headIndex + j - 1 ELSE lo + (j - r) - 1
    <3>1. r \in Nat /\ m \in Nat /\ lo \in Nat /\ headIndex = lo + m
      BY <1>0, <1>5, <1>9
    <3>2. \A j, k \in 1..(r + m) : v(j) = v(k) => j = k
      BY <3>1
    <3> HIDE DEF v
    <3>3. \A j \in 1..n : ps[j] = v(j)
      BY <1>10 DEF v
    <3> QED BY <3>2, <3>3
  <2>2. ASSUME NEW p \in Packets, NEW j \in 1..n, ps[j] = p PROVE lo <= p /\ p < tailIndex
    <3>1. p = IF j <= r THEN headIndex + j - 1 ELSE lo + (j - r) - 1
      BY <1>10, <2>2
    <3> QED BY <1>0, <1>3, <1>5, <1>9, <3>1
  <2>3. ASSUME NEW p \in Packets, lo <= p, p < tailIndex PROVE \E j \in 1..n : ps[j] = p
    <3>0. p \in Int
      BY DEF Packets
    <3>1. CASE p < headIndex
      <4> DEFINE j == p - lo + 1 + r
      <4>1. j \in 1..n /\ ~(j <= r) /\ lo + (j - r) - 1 = p
        BY <1>0, <1>5, <1>9, <2>3, <3>0, <3>1
      <4> HIDE DEF j
      <4> QED BY <1>10, <4>1
    <3>2. CASE ~(p < headIndex)
      <4> DEFINE j == p - headIndex + 1
      <4>1. j \in 1..n /\ j <= r /\ headIndex + j - 1 = p
        BY <1>0, <1>3, <1>5, <1>9, <2>3, <3>0, <3>2
      <4> HIDE DEF j
      <4> QED BY <1>10, <4>1
    <3> QED BY <3>1, <3>2
  <2> QED BY <1>10, <2>1, <2>2, <2>3 DEF Names
<1>12. /\ freed' \in [Packets -> Nat]
       /\ \A p \in Packets : freed'[p] = IF p < tailIndex THEN 1 ELSE 0
  BY <1>0, <1>1, <1>5, <1>6, <1>8, <1>9, <1>11, FreedBy
<1> QED BY <1>0, <1>1, <1>2, <1>3, <1>7, <1>12 DEF r

\* The slot is reset when it is released and when it is accepted again.
LEMMA ResetStep ==
    ASSUME SInv, LockInv', (\E w \in Workers : ReleaseExecute(w)) \/ Accept
    PROVE  SInv'
<1>1. /\ Reset /\ state # "up" /\ UNCHANGED pc
      /\ UNCHANGED <<sendPosted, sendingQ, local, ofLife, sent>>
      /\ state' = "free" \/ (state = "free" /\ MaxLife # 1)
  <2>1. CASE Accept
    <3>1. life < MaxLife /\ life \in 1..MaxLife
      BY <2>1 DEF Accept, SInv, LockInv, TokenType
    <3>2. MaxLife # 1
      BY <3>1, SendAssumption
    <3> QED BY <2>1, <3>2 DEF Accept, Reset
  <2>2. CASE \E w \in Workers : ReleaseExecute(w)
    <3>1. Reset /\ state = "released" /\ state' = "free" /\ UNCHANGED pc
      BY <2>2 DEF ReleaseExecute
    <3>2. UNCHANGED <<sendPosted, sendingQ, local, ofLife, sent>>
      BY <3>1 DEF Reset
    <3>3. state # "up"
      BY <3>1
    <3> QED BY <3>1, <3>2, <3>3
  <2> QED BY <2>1, <2>2
<1>2. /\ headIndex' = tailIndex /\ tailIndex' = tailIndex /\ dataNotSend' = 0
      /\ headIndex <= tailIndex /\ headIndex + Run = tailIndex
      /\ freed' \in [Packets -> Nat]
      /\ \A p \in Packets : freed'[p] = IF p < tailIndex THEN 1 ELSE 0
      /\ \A t \in Threads : pc[t] \in NoRef
  BY <1>1, ResetFacts
<1>3. headIndex \in Nat /\ tailIndex \in Nat /\ BufferSize \in Nat /\ MaxPacket \in Nat
  BY SendNumbers
<1>4. Dequeue(Run) /\ Run \in 0..BufferSize /\ Whole(Run)
  BY <1>1, RunTakes DEF Reset, Whole
<1>5. ring' \in [Slots -> Packets \cup {None}]
  BY <1>4, DequeueFacts
<1>6. NodeInv'
  <2>1. SamePut
    BY <1>1 DEF SamePut
  <2> QED BY <1>4, <2>1, DequeueNodes
<1>7. LifeInv'
  BY <1>1, <1>2, <1>4, DequeueLives
<1>8. DataType'
  BY <1>1, <1>2, <1>3, <1>5 DEF SInv, DataType, Slots, Packets, Threads, None
<1>9. HoldInv'
  <2>1. Holds(dataNotSend)'
    BY <1>2, <1>3 DEF Holds, Packets
  <2> QED BY <1>1, <1>2, <2>1 DEF HoldInv, Threads, NoRef, Taking
<1>10. SentInv'
  <2>0. \A j \in 1..Len(sent) : sent[j][2] \in Packets
    <3>1. sent \in Seq((1..MaxLife) \X Packets)
      BY DEF SInv, DataType
    <3>2. \A j \in 1..Len(sent) : sent[j] \in (1..MaxLife) \X Packets
      BY <3>1, ElementOfSeq
    <3> QED BY <3>2
  <2>1. /\ \A j \in 1..Len(sent) : sent[j][2] < headIndex /\ ofLife[sent[j][2]] = sent[j][1]
        /\ \A j, k \in 1..Len(sent) : j < k => sent[j][2] < sent[k][2]
    BY DEF SInv, SentInv
  <2>2. \A j \in 1..Len(sent) : sent[j][2] < tailIndex
    BY <1>2, <1>3, <2>0, <2>1 DEF Packets
  <2> QED BY <1>1, <1>2, <2>1, <2>2 DEF SentInv, Threads, NoRef, Taking
<1>11. BusyInv'
  <2>1. state = "free" /\ MaxLife # 1 => sendPosted = 0 /\ \A t \in Threads : pc[t] # "sendInc"
    BY DEF SInv, LockInv, RefInv
  <2>2. \A t \in Threads : pc[t] # "full" /\ pc[t] # "broken" /\ (pc[t] \in Ready => pc[t] = "sendInc")
    BY <1>2 DEF SInv, BusyInv, Ready, NoRef
  <2> QED BY <1>1, <1>2, <2>1, <2>2 DEF BusyInv, Threads, Ready
<1>12. ClearInv'
  BY <1>2 DEF ClearInv
<1>13. RoomInv'
  BY <1>1, <1>2, <1>3 DEF RoomInv, Threads, NoRef
<1> QED BY <1>6, <1>7, <1>8, <1>9, <1>10, <1>11, <1>12, <1>13 DEF SInv

\* The rest of the slot's life touches nothing here but its state.
LEMMA StateStep ==
    ASSUME SInv, LockInv', Disconnect \/ EndReceive \/ Release
    PROVE  SInv'
<1>1. /\ UNCHANGED <<life, queueVars, sendPosted, sendingQ, dataNotSend, pc, local>>
      /\ UNCHANGED <<ofLife, freed, sent>> /\ UNCHANGED isSending
      /\ UNCHANGED state \/ state' = "released"
  BY DEF Disconnect, EndReceive, Release, sendVars, historyVars
<1>2. SamePut /\ SameTaking
  BY <1>1 DEF SamePut, SameTaking
<1>3. NodeInv' /\ LifeInv' /\ HoldInv' /\ SentInv'
  BY <1>1, <1>2, NodesKept, LivesKept, HoldsKept, SentKept DEF queueVars
<1>4. DataType'
  BY <1>1 DEF SInv, DataType, queueVars, Slots, Packets, Threads, None
<1>5. BusyInv'
  BY <1>1 DEF SInv, BusyInv, queueVars, Threads, Ready
<1>6. ClearInv'
  BY <1>1 DEF SInv, ClearInv, Threads, Fresh
<1>7. RoomInv'
  BY <1>1 DEF SInv, RoomInv, queueVars, Threads
<1> QED BY <1>3, <1>4, <1>5, <1>6, <1>7 DEF SInv

LEMMA InitSInv == Init => SInv
<1> SUFFICES ASSUME Init PROVE SInv
  OBVIOUS
<1>0. BufferSize \in Nat /\ MaxPacket \in Nat /\ MaxLife \in Nat
  BY SendAssumption
<1>1. LockInv
  BY InitLock
<1>2. \A t \in Threads : pc[t] = "idle"
  BY DEF Init
<1>3. DataType
  <2>1. sent \in Seq((1..MaxLife) \X Packets)
    BY EmptySeq DEF Init
  <2> QED BY <1>0, <2>1 DEF Init, DataType, Slots
<1>4. NodeInv
  <2>1. \A s \in Slots : ring[s] = None
    BY DEF Init, Slots
  <2>2. headIndex = 0 /\ tailIndex = 0 /\ headIndex..(tailIndex - 1) = {}
    BY DEF Init
  <2> QED BY <1>2, <2>1, <2>2 DEF NodeInv
<1>5. BusyInv
  BY <1>2 DEF Init, BusyInv, Ready
<1>6. HoldInv
  <2>1. Holds(0)
    BY <1>0 DEF Init, Holds, Packets
  <2> QED BY <1>2, <2>1 DEF Init, HoldInv, Taking
<1>7. ClearInv
  BY DEF Init, ClearInv
<1>8. LifeInv
  BY <1>0 DEF Init, LifeInv, Packets
<1>9. SentInv
  <2>1. Len(sent) = 0
    BY EmptySeq DEF Init
  <2> QED BY <1>2, <2>1 DEF SentInv, Taking
<1>10. RoomInv
  BY <1>0, <1>2 DEF Init, RoomInv
<1> QED BY <1>1, <1>3, <1>4, <1>5, <1>6, <1>7, <1>8, <1>9, <1>10 DEF SInv

LEMMA NextSInv ==
    ASSUME Undisturbed, SInv, ~overfull', [Next]_vars
    PROVE  SInv'
<1>0. Callers \subseteq Threads /\ Workers \subseteq Threads
  BY DEF Threads
<1>1. LockInv'
  BY NextLock DEF SInv
<1>2. ASSUME NEW t \in Callers, SendPacket(t) PROVE SInv'
  BY <1>0, <1>1, <1>2, SendPacketStep
<1>3. ASSUME NEW t \in Threads, Step(t) PROVE SInv'
  <2>1. ~Full(t)
    BY DEF Full, SInv, BusyInv
  <2>2. CASE Put(t)
    BY <1>1, <2>2, PutStep
  <2>3. CASE CanSend(t)
    BY <1>1, <2>3, CanSendQuiet DEF CanSend
  <2>4. CASE RealSend(t)
    BY <1>1, <2>4, WorkQuiet, RealSizeStep, RealClaimStep, RealPostStep DEF RealSend
  <2> QED BY <1>3, <2>1, <2>2, <2>3, <2>4 DEF Step
<1>4. ASSUME NEW w \in Workers, TakeSend(w) \/ SendDone(w) \/ Work(w) PROVE SInv'
  BY <1>0, <1>1, <1>4, WorkQuiet, PostFreeStep DEF Work, PostSend
<1>5. CASE (\E w \in Workers : ReleaseExecute(w)) \/ Accept
  BY <1>1, <1>5, ResetStep
<1>6. CASE Disconnect \/ EndReceive \/ Release
  BY <1>1, <1>6, StateStep
<1>7. CASE UNCHANGED vars
  <2>1. /\ UNCHANGED <<life, queueVars, sendPosted, sendingQ, dataNotSend, pc, local>>
        /\ UNCHANGED <<ofLife, freed, sent>> /\ UNCHANGED isSending /\ UNCHANGED state
    BY <1>7 DEF vars, lifeVars, sendVars, historyVars
  <2>2. SamePut /\ SameTaking
    BY <2>1 DEF SamePut, SameTaking
  <2>3. NodeInv' /\ LifeInv' /\ HoldInv' /\ SentInv'
    BY <2>1, <2>2, NodesKept, LivesKept, HoldsKept, SentKept DEF queueVars
  <2>4. DataType'
    BY <2>1 DEF SInv, DataType, queueVars, Slots, Packets, Threads, None
  <2>5. BusyInv'
    BY <2>1 DEF SInv, BusyInv, queueVars, Threads, Ready
  <2>6. ClearInv'
    BY <2>1 DEF SInv, ClearInv, Threads, Fresh
  <2>7. RoomInv'
    BY <2>1 DEF SInv, RoomInv, queueVars, Threads
  <2> QED BY <1>1, <2>3, <2>4, <2>5, <2>6, <2>7 DEF SInv
<1> QED BY <1>2, <1>3, <1>4, <1>5, <1>6, <1>7 DEF Next

\* That an Enqueue was refused is not forgotten.
LEMMA FullStays ==
    ASSUME [Next]_vars, overfull
    PROVE  overfull'
<1>1. ASSUME NEW t, SendPacket(t) PROVE overfull'
  BY <1>1 DEF SendPacket
<1>2. ASSUME NEW t, Step(t) \/ TakeSend(t) \/ SendDone(t) \/ Work(t) \/ ReleaseExecute(t)
      PROVE  overfull'
  BY <1>2 DEF Step, Put, Full, CanSend, CanConnect, CanSize, CanExchange, CanRecheck,
              PostSendExecutable, RealSend, RealSize, RealClaim, RealUnmark, RealStop, RealPost,
              TakeSend, SendDone, Work, SendInc, PostSend, PostFree, PostClear, ReleaseExecute,
              Reset, historyVars
<1>3. CASE Disconnect \/ EndReceive \/ Release \/ Accept \/ UNCHANGED vars
  BY <1>3 DEF Disconnect, EndReceive, Release, Accept, Reset, vars, historyVars
<1> QED BY <1>1, <1>2, <1>3 DEF Next

\* Until an Enqueue is refused, the ring and _sendingQ hold what they are meant to hold.
THEOREM SendInvariance == Undisturbed => (Spec => [](overfull \/ SInv))
<1> SUFFICES ASSUME Undisturbed PROVE Spec => [](overfull \/ SInv)
  OBVIOUS
<1>1. Init => overfull \/ SInv
  BY InitSInv
<1>2. (overfull \/ SInv) /\ [Next]_vars => (overfull \/ SInv)'
  BY NextSInv, FullStays
<1> QED BY <1>1, <1>2, PTL DEF Spec

\* RealSend always finds something to send and Enqueue an empty node: neither of the
\* __debugbreaks of Session.cpp:454 and LockFreeFixedQueue.h is reached before an Enqueue
\* is refused.
THEOREM SendNeverBreaks == Undisturbed => (Spec => []NoDebugBreak)
<1> SUFFICES ASSUME Undisturbed PROVE Spec => []NoDebugBreak
  OBVIOUS
<1>1. overfull \/ SInv => NoDebugBreak
  BY DEF SInv, BusyInv, NoDebugBreak
<1> QED BY <1>1, SendInvariance, PTL

\* Until an Enqueue is refused, each connection is sent its own packets, in the order of
\* the queue, each once.
THEOREM SendKeepsOrder == Undisturbed => (Spec => []SentInOrder)
<1> SUFFICES ASSUME Undisturbed PROVE Spec => []SentInOrder
  OBVIOUS
<1>1. overfull \/ SInv => SentInOrder
  <2> SUFFICES ASSUME SInv PROVE SentInOrder
    BY DEF SentInOrder
  <2>1. sent \in Seq((1..MaxLife) \X Packets)
    BY DEF SInv, DataType
  <2>2. DOMAIN sent = 1..Len(sent)
    BY <2>1, LenProperties
  <2> QED BY <2>2 DEF SInv, SentInv, SentInOrder
<1> QED BY <1>1, SendInvariance, PTL

\* Until an Enqueue is refused, _sendQ's reference to a packet is released exactly once,
\* by PostSend or by Reset.
THEOREM SendFreesOnce == Undisturbed => (Spec => []PacketsFreedOnce)
<1> SUFFICES ASSUME Undisturbed PROVE Spec => []PacketsFreedOnce
  OBVIOUS
<1>1. overfull \/ SInv => PacketsFreedOnce
  <2> SUFFICES ASSUME SInv, NEW p \in Packets
               PROVE  freed[p] <= 1 /\ (ofLife[p] # 0 /\ state = "free" => freed[p] = 1)
    BY DEF PacketsFreedOnce
  <2>0. headIndex \in Nat /\ tailIndex \in Nat /\ p \in Int
    BY DEF SInv, DataType, Packets
  <2>1. PICK m : Holds(m)
    BY DEF SInv, HoldInv
  <2>2. m \in Int /\ freed[p] = IF p < headIndex - m THEN 1 ELSE 0
    BY <2>1, SendAssumption DEF Holds
  <2>3. ASSUME ofLife[p] # 0, state = "free" PROVE freed[p] = 1
    <3>1. \A t \in Threads : pc[t] \notin Taking
      BY <2>3 DEF SInv, LockInv, RefInv, NoRef, Taking
    <3>2. Holds(0) /\ headIndex = tailIndex
      BY <2>3, <3>1 DEF SInv, HoldInv, ClearInv, BusyInv
    <3>3. p < headIndex
      BY <2>0, <2>3, <3>2 DEF SInv, LifeInv
    <3> QED BY <2>0, <3>2, <3>3 DEF Holds
  <2> QED BY <2>2, <2>3
<1> QED BY <1>1, SendInvariance, PTL
===============================================================================
