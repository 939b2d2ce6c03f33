------------------------------ MODULE RecvProofs ------------------------------
(***************************************************************************)
(* Proofs about RecvRing, for every size of the ring, of the packets and of *)
(* the stream and any number of groups.  If a client in a group sends less  *)
(* than half a ring ahead of its handler, no byte is lost or misplaced and  *)
(* only a malformed packet closes the session.  Whatever it sends, one      *)
(* handler at a time is inside a packet, and the packet is there.           *)
(***************************************************************************)
EXTENDS RecvRing, FiniteSetTheorems, SequenceTheorems, TLAPS

\* What the theorems ask of the clients and of the content: a packet fits into
\* the ring, a client in a group keeps less than half a ring unhandled (half a
\* ring is too much, see RecvRace.cfg), and nobody leaves the groups again.
Paced ==
    /\ PacketSize < BufferSize
    /\ 2 * Window < BufferSize
    /\ Hops \subseteq Handlers \X Groups

\* Bytes in the ring or received and not counted yet, and the rest of the packet
\* a handler is inside of.
Unhandled == rear + transferred - front
Rest == IF pc[groupId] = "pop" THEN left[groupId] ELSE 0

\* A group has the session's bytes to handle.
Busy(g) == jobs[g] > 0 \/ pc[g] # "idle"

\* Cells from rear to the end of the buffer, and cells free in all.
ToEnd == BufferSize - GetIndex(rear)
Free == BufferSize - 1 - (rear - front)

\* The parts of the inductive invariant.  The worker is in one place; the
\* receive is outstanding exactly when it is idle.
StepInv ==
    /\ step # "crashed" /\ \A h \in Handlers : pc[h] # "crashed"
    /\ step = "handler" <=> pc[Base] # "idle"
    /\ step = "idle" <=> io # "none"
    /\ io = "done" <=> transferred > 0

\* The ring is never overfull, and never full when a receive is to be posted.
SpanInv ==
    /\ front <= rear /\ rear + transferred <= MaxBytes
    /\ Unhandled <= BufferSize - 1
    /\ groupId # Base => Unhandled <= BufferSize - 2
    /\ step = "regions" /\ connect => Unhandled <= BufferSize - 2

\* Every byte that is in the ring is in its cell.
CellInv == \A i \in front..(rear + transferred - 1) : buffer[GetIndex(i)] = i

\* A group that may read has at most a window of bytes before it.
WindowInv ==
    /\ \A g \in Groups : Busy(g) => groupId # Base /\ Unhandled <= Window
    /\ groupId # Base /\ (io = "done" \/ step \in {"dispatch", "onRecv"}) => Unhandled <= Window

\* The regions that RecvNotIncrease computes.  They may be computed from two
\* fronts; the second then starts in the wrong cell, but is never reached.
Wide == groupId # Base /\ len[1] >= BufferSize - 1 - Window
RegionInv ==
    /\ step = "compare" => /\ len[1] >= 1 /\ len[2] = 0
                           /\ len[1] <= ToEnd /\ len[1] <= Free
                           /\ len[1] = ToEnd \/ len[1] = Free \/ Wide
    /\ step = "second" => /\ len[1] >= 1 /\ len[1] <= ToEnd /\ len[1] < Free
                          /\ len[1] = ToEnd \/ Wide
    /\ step = "post" \/ io = "posted" =>
          /\ len[1] + len[2] >= 1 /\ len[1] + len[2] <= Free /\ len[1] <= ToEnd
          /\ len[2] = 0 \/ len[1] = ToEnd \/ Wide

\* A handler inside a packet has the session, the packet is all there, and its
\* header has left the ring.
PopInv == \A h \in Handlers : pc[h] = "pop" =>
             groupId = h /\ left[h] <= rear - front /\ Unhandled <= BufferSize - 2

\* Handlers work packet by packet.  While the session is open they have not gone
\* past the wrong one; only a closed session has a packet that is decoded already.
AlignInv ==
    /\ \E k \in Nat : front + Rest = k * PacketSize /\ (connect => k <= Wrong)
    /\ ~connect => front >= Wrong * PacketSize
    /\ decoded => ~connect

\* No assertion has failed.
Unbroken == broken = {}

RInv == /\ TypeOK /\ Unbroken /\ StepInv /\ SpanInv /\ CellInv
        /\ WindowInv /\ RegionInv /\ PopInv /\ AlignInv

----------------------------------------------------------------------------
\* Quotient and remainder are unique.
LEMMA DivUnique ==
    ASSUME NEW B \in Nat, NEW p \in Nat, NEW q \in Nat, NEW r \in 0..(B - 1), NEW s \in 0..(B - 1),
           p * B + r = q * B + s
    PROVE  p = q /\ r = s
<1>0. p * B \in Int /\ q * B \in Int
  OBVIOUS
<1>1. ASSUME p < q PROVE FALSE
  <2>1. q * B >= p * B + B
    BY <1>1
  <2> QED BY <1>0, <2>1
<1>2. ASSUME q < p PROVE FALSE
  <2>1. p * B >= q * B + B
    BY <1>2
  <2> QED BY <1>0, <2>1
<1>3. p = q
  BY <1>1, <1>2
<1> QED BY <1>0, <1>3

\* A position is a multiple of the ring's size plus its index.
LEMMA IndexDiv ==
    ASSUME NEW n \in Nat
    PROVE  GetIndex(n) \in Cells /\ \E q \in Nat : n = q * BufferSize + GetIndex(n)
<1>1. BufferSize \in Nat \ {0}
  BY RingAssumption
<1>2. n % BufferSize \in Cells
  BY <1>1 DEF Cells
<1>3. n \div BufferSize \in Nat /\ n = (n \div BufferSize) * BufferSize + (n % BufferSize)
  BY <1>1
<1> QED BY <1>2, <1>3 DEF GetIndex

\* k cells on, at most a round, the index is k more or wraps once.
LEMMA IndexShift ==
    ASSUME NEW n \in Nat, NEW k \in 0..BufferSize
    PROVE  GetIndex(n + k) = IF GetIndex(n) + k < BufferSize THEN GetIndex(n) + k
                             ELSE GetIndex(n) + k - BufferSize
<1>0. BufferSize \in Nat /\ k \in Nat /\ n + k \in Nat
  BY RingAssumption
<1>1. PICK q \in Nat : n = q * BufferSize + GetIndex(n)
  BY IndexDiv
<1>2. PICK p \in Nat : n + k = p * BufferSize + GetIndex(n + k)
  BY <1>0, IndexDiv
<1>3. GetIndex(n) \in 0..(BufferSize - 1) /\ GetIndex(n + k) \in 0..(BufferSize - 1)
  BY <1>0, IndexDiv DEF Cells
<1>4. q * BufferSize \in Int /\ p * BufferSize \in Int
      /\ (q + 1) * BufferSize = q * BufferSize + BufferSize
  BY <1>0
<1>5. CASE GetIndex(n) + k < BufferSize
  <2>1. GetIndex(n) + k \in 0..(BufferSize - 1)
    BY <1>0, <1>3, <1>5
  <2>2. q * BufferSize + (GetIndex(n) + k) = p * BufferSize + GetIndex(n + k)
    BY <1>0, <1>1, <1>2, <1>3, <1>4
  <2>3. \A r, s \in 0..(BufferSize - 1) : q * BufferSize + r = p * BufferSize + s => r = s
    <3> TAKE r, s \in 0..(BufferSize - 1)
    <3> HAVE q * BufferSize + r = p * BufferSize + s
    <3> QED BY <1>0, DivUnique
  <2>4. GetIndex(n) + k = GetIndex(n + k)
    BY <1>3, <2>1, <2>2, <2>3
  <2> QED BY <1>5, <2>4
<1>6. CASE ~(GetIndex(n) + k < BufferSize)
  <2>1. GetIndex(n) + k - BufferSize \in 0..(BufferSize - 1)
    BY <1>0, <1>3, <1>6
  <2>2. (q + 1) * BufferSize + (GetIndex(n) + k - BufferSize) = p * BufferSize + GetIndex(n + k)
    BY <1>0, <1>1, <1>2, <1>3, <1>4
  <2>3. q + 1 \in Nat
    OBVIOUS
  <2>4. \A r, s \in 0..(BufferSize - 1) : (q + 1) * BufferSize + r = p * BufferSize + s => r = s
    <3> TAKE r, s \in 0..(BufferSize - 1)
    <3> HAVE (q + 1) * BufferSize + r = p * BufferSize + s
    <3> QED BY <1>0, <2>3, DivUnique
  <2>5. GetIndex(n) + k - BufferSize = GetIndex(n + k)
    BY <1>3, <2>1, <2>2, <2>4
  <2> QED BY <1>6, <2>5
<1> QED BY <1>5, <1>6

\* The indices of the first two rounds.
LEMMA SmallIndex ==
    ASSUME NEW r \in Cells
    PROVE  GetIndex(r) = r /\ GetIndex(r + 1) = IF r + 1 < BufferSize THEN r + 1 ELSE 0
<1>0. BufferSize \in Nat /\ BufferSize >= 2 /\ r \in 0..(BufferSize - 1)
  BY RingAssumption DEF Cells
<1>1. r \in Nat /\ 0 \in 0..BufferSize /\ 1 \in 0..BufferSize /\ r \in 0..BufferSize
  BY <1>0
<1>2. GetIndex(0) = 0
  <2>1. PICK q \in Nat : 0 = q * BufferSize + GetIndex(0)
    BY IndexDiv
  <2>2. GetIndex(0) \in 0..(BufferSize - 1) /\ q * BufferSize >= 0 /\ q * BufferSize \in Int
    BY <1>0, IndexDiv DEF Cells
  <2> QED BY <2>1, <2>2
<1>3. GetIndex(r) = r
  <2>1. GetIndex(0 + r) = IF GetIndex(0) + r < BufferSize THEN GetIndex(0) + r
                          ELSE GetIndex(0) + r - BufferSize
    BY <1>1, IndexShift
  <2>2. 0 + r = r
    BY <1>1
  <2> QED BY <1>0, <1>2, <2>1, <2>2
<1>4. GetIndex(r + 1) = IF GetIndex(r) + 1 < BufferSize THEN GetIndex(r) + 1
                        ELSE GetIndex(r) + 1 - BufferSize
  BY <1>1, IndexShift
<1> QED BY <1>0, <1>3, <1>4

\* What CRingBuffer computes from the two indices is what it should be, as long
\* as the ring is not overfull.
LEMMA Sizes ==
    ASSUME front \in Nat, rear \in Nat, front <= rear, rear - front <= BufferSize - 1
    PROVE  /\ Size = rear - front /\ FreeSize = Free
           /\ DirectEnqueueSize = IF ToEnd <= Free THEN ToEnd ELSE Free
           /\ DirectDequeueSize = IF rear - front <= BufferSize - GetIndex(front)
                                     /\ ~(GetIndex(front) + (rear - front) = BufferSize)
                                  THEN rear - front ELSE BufferSize - GetIndex(front)
           /\ ToEnd \in 1..BufferSize
<1>0. BufferSize \in Nat /\ rear - front \in 0..BufferSize /\ front + (rear - front) = rear
  BY RingAssumption
<1>1. GetIndex(front) \in 0..(BufferSize - 1) /\ GetIndex(rear) \in 0..(BufferSize - 1)
  BY IndexDiv DEF Cells
<1>2. GetIndex(rear) = IF GetIndex(front) + (rear - front) < BufferSize
                       THEN GetIndex(front) + (rear - front)
                       ELSE GetIndex(front) + (rear - front) - BufferSize
  <2>1. GetIndex(front + (rear - front)) = IF GetIndex(front) + (rear - front) < BufferSize
                       THEN GetIndex(front) + (rear - front)
                       ELSE GetIndex(front) + (rear - front) - BufferSize
    BY <1>0, IndexShift
  <2> QED BY <1>0, <2>1
<1>3. GetIndex(GetIndex(rear) + 1) = IF GetIndex(rear) + 1 < BufferSize
                                     THEN GetIndex(rear) + 1 ELSE 0
  BY <1>1, SmallIndex DEF Cells
<1>4. Size = rear - front
  BY <1>0, <1>1, <1>2 DEF Size
<1>5. FreeSize = Free
  BY <1>0, <1>4 DEF FreeSize, Free
<1>6. DirectEnqueueSize = IF ToEnd <= Free THEN ToEnd ELSE Free
  <2> DEFINE r == GetIndex(rear)  f == GetIndex(front)  n == GetIndex(r + 1)
  <2>1. DirectEnqueueSize = CASE n = f -> 0
                              [] n # f /\ r < f -> f - r - 1
                              [] r >= f /\ f = 0 -> BufferSize - r - 1
                              [] OTHER -> BufferSize - r
    BY DEF DirectEnqueueSize
  <2>2. r \in 0..(BufferSize - 1) /\ f \in 0..(BufferSize - 1)
        /\ n = (IF r + 1 < BufferSize THEN r + 1 ELSE 0)
        /\ rear - front = (IF r >= f THEN r - f ELSE r - f + BufferSize)
    BY <1>0, <1>1, <1>2, <1>3
  <2>3. ToEnd = BufferSize - r /\ Free = BufferSize - 1 - (rear - front)
    BY DEF ToEnd, Free
  <2> HIDE DEF r, f, n
  <2>4. CASE n = f
    BY <1>0, <2>1, <2>2, <2>3, <2>4
  <2>5. CASE n # f /\ r < f
    BY <1>0, <2>1, <2>2, <2>3, <2>5
  <2>6. CASE n # f /\ r >= f /\ f = 0
    BY <1>0, <2>1, <2>2, <2>3, <2>6
  <2>7. CASE n # f /\ r >= f /\ f # 0
    BY <1>0, <2>1, <2>2, <2>3, <2>7
  <2> QED BY <2>2, <2>4, <2>5, <2>6, <2>7
<1>7. DirectDequeueSize = IF rear - front <= BufferSize - GetIndex(front)
                             /\ ~(GetIndex(front) + (rear - front) = BufferSize)
                          THEN rear - front ELSE BufferSize - GetIndex(front)
  BY <1>0, <1>1, <1>2 DEF DirectDequeueSize
<1>8. ToEnd \in 1..BufferSize
  BY <1>0, <1>1 DEF ToEnd
<1> QED BY <1>4, <1>5, <1>6, <1>7, <1>8

\* Peek returns the bytes at the front, in one part or in two.
LEMMA PeekKept ==
    ASSUME front \in Nat, rear \in Nat, front <= rear, rear - front <= BufferSize - 1,
           \A i \in front..(rear - 1) : buffer[GetIndex(i)] = i,
           NEW n \in Nat, n <= rear - front, NEW j \in 0..(n - 1)
    PROVE  Peek(n)[j] = front + j
<1>0. BufferSize \in Nat /\ j \in 0..BufferSize /\ front + j \in front..(rear - 1)
  BY RingAssumption
<1>1. GetIndex(front) \in 0..(BufferSize - 1)
  BY IndexDiv DEF Cells
<1>2. GetIndex(front + j) = IF GetIndex(front) + j < BufferSize THEN GetIndex(front) + j
                            ELSE GetIndex(front) + j - BufferSize
  BY <1>0, IndexShift
<1>3. buffer[GetIndex(front + j)] = front + j
  BY <1>0
<1>4. DirectDequeueSize = IF rear - front <= BufferSize - GetIndex(front)
                                     /\ ~(GetIndex(front) + (rear - front) = BufferSize)
                                  THEN rear - front ELSE BufferSize - GetIndex(front)
  BY Sizes
<1>5. Peek(n)[j] = IF DirectDequeueSize >= n \/ j < DirectDequeueSize
                   THEN buffer[GetIndex(front) + j]
                   ELSE buffer[j - DirectDequeueSize]
  BY DEF Peek
<1>6. CASE DirectDequeueSize >= n \/ j < DirectDequeueSize
  <2>1. GetIndex(front + j) = GetIndex(front) + j
    BY <1>0, <1>1, <1>2, <1>4, <1>6
  <2> QED BY <1>3, <1>5, <1>6, <2>1
<1>7. CASE ~(DirectDequeueSize >= n \/ j < DirectDequeueSize)
  <2>1. GetIndex(front + j) = j - DirectDequeueSize
    BY <1>0, <1>1, <1>2, <1>4, <1>7
  <2> QED BY <1>3, <1>5, <1>7, <2>1
<1> QED BY <1>6, <1>7

----------------------------------------------------------------------------
\* What RInv says of the numbers.
LEMMA Numbers ==
    ASSUME RInv, Paced
    PROVE  /\ front \in Nat /\ rear \in Nat /\ transferred \in Nat
           /\ BufferSize \in Nat /\ BufferSize >= 2 /\ MaxBytes \in Nat
           /\ Window \in Nat /\ Window <= BufferSize - 1 - Window /\ Window <= BufferSize - 2
           /\ Header \in Nat /\ Payload \in Nat /\ Header >= 1 /\ Payload >= 1
           /\ PacketSize = Header + Payload /\ PacketSize < BufferSize /\ Wrong \in Nat
           /\ front <= rear /\ rear - front <= BufferSize - 1
           /\ Unhandled \in Nat /\ Free \in Nat /\ ToEnd \in 1..BufferSize
           /\ len[1] \in 0..BufferSize /\ len[2] \in 0..BufferSize
           /\ Size = rear - front /\ FreeSize = Free
           /\ DirectEnqueueSize = IF ToEnd <= Free THEN ToEnd ELSE Free
<1>1. /\ front \in Nat /\ rear \in Nat /\ transferred \in Nat
      /\ front <= rear /\ Unhandled <= BufferSize - 1
      /\ len[1] \in 0..BufferSize /\ len[2] \in 0..BufferSize
  BY RingAssumption DEF RInv, TypeOK, SpanInv
<1>2. /\ BufferSize \in Nat /\ BufferSize >= 2 /\ MaxBytes \in Nat
      /\ Window \in Nat /\ Header \in Nat /\ Payload \in Nat /\ Wrong \in Nat
      /\ Header >= 1 /\ Payload >= 1
  BY RingAssumption
<1>3. Window <= BufferSize - 1 - Window /\ Window <= BufferSize - 2
  BY <1>2 DEF Paced
<1>4. rear - front <= BufferSize - 1 /\ Unhandled \in Nat
  BY <1>1, <1>2 DEF Unhandled
<1>5. Free \in Nat
  BY <1>1, <1>2, <1>4 DEF Free
<1> QED BY <1>1, <1>2, <1>3, <1>4, <1>5, Sizes DEF Paced, PacketSize

\* Where the worker is tells whether the receive is outstanding.
LEMMA StepFacts ==
    ASSUME RInv, Paced
    PROVE  /\ step # "idle" => io = "none" /\ transferred = 0
           /\ io # "none" => step = "idle"
           /\ io # "done" => transferred = 0
           /\ step # "handler" => pc[Base] = "idle"
           /\ step = "handler" => pc[Base] # "idle"
           /\ TypeOK /\ StepInv
BY Numbers DEF RInv, StepInv, TypeOK

\* The ring, the handlers and the session are untouched by the worker's steps
\* between the handler and the posted receive.
LEMMA WorkerKeeps ==
    ASSUME RInv, UNCHANGED <<ringVars, transferred, pc, left, sessionVars, broken>>,
           io' # "done", step' \notin {"dispatch", "onRecv", "handler", "regions"}
    PROVE  /\ Unbroken' /\ SpanInv' /\ CellInv' /\ WindowInv' /\ PopInv' /\ AlignInv'
           /\ ToEnd' = ToEnd /\ Free' = Free
<1> USE DEF ringVars, sessionVars
<1>1. Unhandled' = Unhandled /\ Rest' = Rest /\ ToEnd' = ToEnd /\ Free' = Free
  BY DEF Unhandled, Rest, ToEnd, Free, GetIndex
<1>2. Unbroken' /\ SpanInv'
  BY <1>1 DEF RInv, Unbroken, SpanInv, Base
<1>3. CellInv'
  BY DEF RInv, CellInv, GetIndex
<1>4. WindowInv'
  BY <1>1 DEF RInv, WindowInv, Busy, Base
<1>5. PopInv'
  BY <1>1 DEF RInv, PopInv, Handlers, Base
<1>6. AlignInv'
  BY <1>1 DEF RInv, AlignInv, Handlers, Base, PacketSize
<1> QED BY <1>1, <1>2, <1>3, <1>4, <1>5, <1>6

\* RecvNotIncrease finds a cell free: the handler has left an incomplete packet,
\* less than a packet, or a window.
LEMMA RegionFirstStep ==
    ASSUME RInv, Paced, RegionFirst
    PROVE  RInv'
<1> USE DEF RegionFirst
<1>0. TypeOK /\ StepInv /\ io = "none" /\ transferred = 0 /\ pc[Base] = "idle"
  BY StepFacts
<1>1. step' \in {"compare", "released"}
  OBVIOUS
<1>2. /\ Unbroken' /\ SpanInv' /\ CellInv' /\ WindowInv' /\ PopInv' /\ AlignInv'
      /\ ToEnd' = ToEnd /\ Free' = Free
  BY <1>0, <1>1, WorkerKeeps
<1>3. step' = "compare" => /\ len' = <<DirectEnqueueSize, 0>>
                           /\ DirectEnqueueSize \in 1..BufferSize
                           /\ DirectEnqueueSize <= ToEnd /\ DirectEnqueueSize <= Free
                           /\ DirectEnqueueSize = ToEnd \/ DirectEnqueueSize = Free
  <2> SUFFICES ASSUME connect
               PROVE  /\ DirectEnqueueSize \in 1..BufferSize
                      /\ DirectEnqueueSize <= ToEnd /\ DirectEnqueueSize <= Free
                      /\ DirectEnqueueSize = ToEnd \/ DirectEnqueueSize = Free
    BY <1>0 DEF TypeOK
  <2>1. Free >= 1
    BY <1>0, Numbers DEF RInv, SpanInv, Free, Unhandled
  <2> QED BY <2>1, Numbers
<1>4. step' # "compare" => len' = len
  OBVIOUS
<1>5. TypeOK'
  <2>1. len' \in (0..BufferSize) \X (0..BufferSize)
    BY <1>0, <1>1, <1>3, <1>4, Numbers DEF TypeOK
  <2> QED BY <1>0, <1>1, <2>1 DEF TypeOK, ringVars, sessionVars
<1>6. StepInv'
  BY <1>0, <1>1 DEF StepInv, Base, Handlers
<1>7. RegionInv'
  BY <1>0, <1>1, <1>2, <1>3 DEF RegionInv, Wide
<1> QED BY <1>2, <1>5, <1>6, <1>7 DEF RInv

\* A second region is used only when the first one reaches the end of the
\* buffer, or when a group has taken bytes since the first was computed.
LEMMA RegionCompareStep ==
    ASSUME RInv, Paced, RegionCompare
    PROVE  RInv'
<1> USE DEF RegionCompare
<1>0. TypeOK /\ StepInv /\ io = "none" /\ transferred = 0 /\ pc[Base] = "idle"
  BY StepFacts
<1>1. step' \in {"second", "post"} /\ (step' = "second" <=> Free > len[1])
  BY Numbers
<1>2. /\ Unbroken' /\ SpanInv' /\ CellInv' /\ WindowInv' /\ PopInv' /\ AlignInv'
      /\ ToEnd' = ToEnd /\ Free' = Free
  BY <1>0, <1>1, WorkerKeeps
<1>3. TypeOK'
  BY <1>0, <1>1 DEF TypeOK, ringVars, sessionVars
<1>4. StepInv'
  BY <1>0, <1>1 DEF StepInv, Base, Handlers
<1>5. /\ len[1] >= 1 /\ len[2] = 0 /\ len[1] <= ToEnd /\ len[1] <= Free
      /\ len[1] = ToEnd \/ len[1] = Free \/ Wide
  BY DEF RInv, RegionInv
<1>6. Wide' <=> Wide
  BY DEF Wide, Base, sessionVars
<1>7. RegionInv'
  BY <1>0, <1>1, <1>2, <1>5, <1>6, Numbers DEF RegionInv
<1> QED BY <1>2, <1>3, <1>4, <1>7 DEF RInv

\* The second region is what is free beyond the first.
LEMMA RegionSecondStep ==
    ASSUME RInv, Paced, RegionSecond
    PROVE  RInv'
<1> USE DEF RegionSecond
<1>0. TypeOK /\ StepInv /\ io = "none" /\ transferred = 0 /\ pc[Base] = "idle"
  BY StepFacts
<1>1. len[1] >= 1 /\ len[1] <= ToEnd /\ len[1] < Free /\ (len[1] = ToEnd \/ Wide)
  BY DEF RInv, RegionInv
<1>2. /\ Unbroken' /\ SpanInv' /\ CellInv' /\ WindowInv' /\ PopInv' /\ AlignInv'
      /\ ToEnd' = ToEnd /\ Free' = Free
  BY <1>0, WorkerKeeps
<1>3. len'[1] = len[1] /\ len'[2] = Free - len[1] /\ Free - len[1] \in 0..BufferSize
      /\ len' \in (0..BufferSize) \X (0..BufferSize)
  BY <1>0, <1>1, Numbers DEF TypeOK, Free
<1>4. TypeOK'
  BY <1>0, <1>3 DEF TypeOK, ringVars, sessionVars
<1>5. StepInv'
  BY <1>0 DEF StepInv, Base, Handlers
<1>6. Wide => Wide'
  BY <1>3 DEF Wide, Base, sessionVars
<1>7. RegionInv'
  BY <1>0, <1>1, <1>2, <1>3, <1>6, Numbers DEF RegionInv
<1> QED BY <1>2, <1>4, <1>5, <1>7 DEF RInv

\* "RecvBuffer is 0" does not happen.
LEMMA PostRecvStep ==
    ASSUME RInv, Paced, PostRecv
    PROVE  RInv'
<1>0. step = "post" /\ UNCHANGED <<ringVars, len, transferred, pc, left, sessionVars>>
  BY DEF PostRecv
<1>s. TypeOK /\ StepInv /\ io = "none" /\ transferred = 0 /\ pc[Base] = "idle"
  BY <1>0, StepFacts
<1>1. /\ len[1] + len[2] >= 1 /\ len[1] + len[2] <= Free /\ len[1] <= ToEnd
      /\ len[2] = 0 \/ len[1] = ToEnd \/ Wide
  BY <1>0 DEF RInv, RegionInv
<1>n. ~(len[1] + len[2] = 0)
  BY <1>1, Numbers
<1>2. step' = "idle" /\ io' = "posted" /\ UNCHANGED broken
  BY <1>n DEF PostRecv
<1>3. /\ Unbroken' /\ SpanInv' /\ CellInv' /\ WindowInv' /\ PopInv' /\ AlignInv'
      /\ ToEnd' = ToEnd /\ Free' = Free
  BY <1>0, <1>s, <1>2, WorkerKeeps
<1>4. TypeOK'
  BY <1>0, <1>s, <1>2 DEF TypeOK, ringVars, sessionVars
<1>5. StepInv'
  BY <1>0, <1>s, <1>2 DEF StepInv, Base, Handlers
<1>6. Wide' <=> Wide
  BY <1>0 DEF Wide, Base, sessionVars
<1>7. RegionInv'
  BY <1>0, <1>1, <1>2, <1>3, <1>6 DEF RegionInv
<1> QED BY <1>3, <1>4, <1>5, <1>7 DEF RInv

\* A cancelled receive changes nothing in the ring.
LEMMA CancelledStep ==
    ASSUME RInv, Paced, Cancelled
    PROVE  RInv'
<1> USE DEF Cancelled
<1>0. TypeOK /\ StepInv /\ step = "idle" /\ transferred = 0 /\ pc[Base] = "idle"
  BY StepFacts
<1>1. /\ Unbroken' /\ SpanInv' /\ CellInv' /\ WindowInv' /\ PopInv' /\ AlignInv'
  BY <1>0, WorkerKeeps
<1>2. TypeOK'
  BY <1>0 DEF TypeOK, ringVars, sessionVars
<1>3. StepInv'
  BY <1>0 DEF StepInv, Base, Handlers
<1>4. RegionInv'
  BY DEF RegionInv
<1> QED BY <1>1, <1>2, <1>3, <1>4 DEF RInv

----------------------------------------------------------------------------
\* The kernel writes each byte to the cell it belongs to and to no cell in use:
\* it reaches the second region only if the first ends with the buffer.
LEMMA DeliverStep ==
    ASSUME RInv, Paced, Deliver
    PROVE  RInv'
<1>0. /\ io = "posted" /\ connect /\ io' = "done"
      /\ UNCHANGED <<front, rear, len, step, pc, left, sessionVars, broken>>
  BY DEF Deliver
<1>1. TypeOK /\ StepInv /\ step = "idle" /\ transferred = 0 /\ pc[Base] = "idle"
  BY <1>0, StepFacts
<1>2. PICK n \in 1..(len[1] + len[2]) :
        /\ rear + n <= MaxBytes
        /\ groupId = Base \/ rear + n - front <= Window
        /\ buffer' = [i \in Cells |->
               IF i >= GetIndex(rear) /\ i - GetIndex(rear) < n /\ i - GetIndex(rear) < len[1]
               THEN rear + i - GetIndex(rear)
               ELSE IF i < n - len[1] THEN rear + len[1] + i ELSE buffer[i]]
        /\ transferred' = n
  BY DEF Deliver
<1>3. /\ len[1] + len[2] <= Free /\ len[1] <= ToEnd
      /\ len[2] = 0 \/ len[1] = ToEnd \/ Wide
  BY <1>0 DEF RInv, RegionInv
<1> DEFINE r == GetIndex(rear)  l == len[1]  B == BufferSize
<1>4. /\ front \in Nat /\ rear \in Nat /\ n \in Nat /\ n >= 1 /\ B \in Nat /\ B >= 2
      /\ r \in 0..(B - 1) /\ l \in 0..B /\ front <= rear
      /\ n <= B - 1 - (rear - front) /\ l <= B - r
      /\ MaxBytes \in Nat /\ Window \in Nat /\ Window <= B - 2
  <2>1. /\ front \in Nat /\ rear \in Nat /\ B \in Nat /\ B >= 2 /\ front <= rear
        /\ l \in 0..B /\ len[2] \in 0..B
        /\ MaxBytes \in Nat /\ Window \in Nat /\ Window <= B - 2
    BY Numbers
  <2>2. r \in 0..(B - 1)
    BY <2>1, IndexDiv DEF Cells
  <2>3. n \in Nat /\ n >= 1 /\ n <= len[1] + len[2]
    BY <2>1
  <2>4. n <= B - 1 - (rear - front) /\ l <= B - r
    BY <1>3, <2>1, <2>3 DEF Free, ToEnd
  <2> QED BY <2>1, <2>2, <2>3, <2>4
<1>5. n > l => l = B - r
  <2>1. CASE Wide
    BY <1>2, <1>4, <2>1, Numbers DEF Wide
  <2>2. CASE ~Wide
    BY <1>2, <1>3, <1>4, <2>2, Numbers DEF ToEnd
  <2> QED BY <2>1, <2>2
<1>6. Unhandled' = rear + n - front
  BY <1>0, <1>2 DEF Unhandled
<1>7. TypeOK'
  <2>1. buffer' \in [Cells -> -1..(MaxBytes - 1)]
    <3>1. ASSUME NEW i \in Cells
          PROVE  (IF i >= r /\ i - r < n /\ i - r < l
                  THEN rear + i - r
                  ELSE IF i < n - l THEN rear + l + i ELSE buffer[i]) \in -1..(MaxBytes - 1)
      <4>1. i \in Nat /\ buffer[i] \in -1..(MaxBytes - 1)
        BY <1>1 DEF TypeOK, Cells
      <4> HIDE DEF r, l
      <4> QED BY <1>2, <1>4, <4>1
    <3> QED BY <1>2, <3>1
  <2>2. transferred' \in 0..BufferSize
    BY <1>2, <1>4
  <2> QED BY <1>0, <1>1, <2>1, <2>2 DEF TypeOK, sessionVars
<1>8. StepInv'
  BY <1>0, <1>1, <1>2, <1>4 DEF StepInv, Base, Handlers
<1>9. SpanInv'
  <2>1. front' <= rear' /\ rear' + transferred' <= MaxBytes'
    BY <1>0, <1>2, <1>4
  <2>2. Unhandled' <= BufferSize - 1 /\ (groupId # Base => Unhandled' <= BufferSize - 2)
    BY <1>2, <1>4, <1>6
  <2> QED BY <1>0, <1>1, <2>1, <2>2 DEF SpanInv, Base, sessionVars
<1>10. CellInv'
  <2> SUFFICES ASSUME NEW i \in front..(rear + n - 1) PROVE buffer'[GetIndex(i)] = i
    BY <1>0, <1>2 DEF CellInv, GetIndex
  <2> DEFINE c == GetIndex(i)
  <2>0. i \in Nat
    BY <1>4
  <2>1. i \in Nat /\ c \in Cells /\ c \in 0..(B - 1)
    BY <2>0, IndexDiv DEF Cells
  <2>2. buffer'[c] = IF c >= r /\ c - r < n /\ c - r < l
                     THEN rear + c - r
                     ELSE IF c < n - l THEN rear + l + c ELSE buffer[c]
    BY <1>2, <2>1
  <2>3. CASE i >= rear
    <3>1. i - rear \in 0..B /\ rear + (i - rear) = i
      BY <1>4, <2>1, <2>3
    <3>2. GetIndex(rear + (i - rear)) = IF r + (i - rear) < B THEN r + (i - rear)
                                        ELSE r + (i - rear) - B
      BY <1>4, <3>1, IndexShift
    <3>3. c = IF r + (i - rear) < B THEN r + (i - rear) ELSE r + (i - rear) - B
      BY <3>1, <3>2
    <3> HIDE DEF c, r, l
    <3>4. i - rear < n
      BY <1>4, <2>1
    <3>5. CASE i - rear < l
      <4>1. c = r + (i - rear)
        BY <1>4, <2>1, <3>3, <3>5
      <4>2. c >= r /\ c - r < n /\ c - r < l /\ rear + c - r = i
        BY <1>4, <2>1, <2>3, <3>4, <3>5, <4>1
      <4> QED BY <2>2, <4>2 DEF c
    <3>6. CASE i - rear >= l
      <4>1. l = B - r /\ c = i - rear - l
        BY <1>4, <1>5, <2>1, <3>3, <3>4, <3>6
      <4>2. c < r /\ c < n - l
        BY <1>4, <2>1, <3>4, <4>1
      <4> QED BY <1>4, <2>1, <2>2, <4>1, <4>2 DEF c
    <3> QED BY <1>4, <2>1, <3>5, <3>6
  <2>4. CASE i < rear
    <3>1. buffer[c] = i
      BY <1>1, <1>4, <2>1, <2>4 DEF RInv, CellInv
    <3>2. rear - i \in 0..B /\ i + (rear - i) = rear
      BY <1>4, <2>1, <2>4
    <3>3. GetIndex(i + (rear - i)) = IF c + (rear - i) < B THEN c + (rear - i)
                                     ELSE c + (rear - i) - B
      BY <2>1, <3>2, IndexShift
    <3>4. r = IF c + (rear - i) < B THEN c + (rear - i) ELSE c + (rear - i) - B
      BY <3>2, <3>3
    <3> HIDE DEF c, r, l
    <3>5. ~(c >= r /\ c - r < n /\ c - r < l)
      BY <1>4, <2>1, <2>4, <3>4
    <3>6. ~(c < n - l)
      BY <1>4, <1>5, <2>1, <2>4, <3>4
    <3> QED BY <2>2, <3>1, <3>5, <3>6 DEF c
  <2> QED BY <1>4, <2>1, <2>3, <2>4
<1>11. WindowInv'
  <2>1. groupId # Base => Unhandled' <= Window
    BY <1>2, <1>6
  <2>2. \A g \in Groups : Busy(g)' <=> Busy(g)
    BY <1>0 DEF Busy, sessionVars
  <2> QED BY <1>0, <2>1, <2>2 DEF RInv, WindowInv, Base, sessionVars
<1>12. RegionInv'
  BY <1>0, <1>1 DEF RegionInv
<1>13. PopInv'
  <2>1. \A h \in Handlers : pc[h] = "pop" => groupId = h /\ left[h] <= rear - front /\ h # Base
    BY <1>1 DEF RInv, PopInv
  <2>2. groupId # Base => Unhandled' <= BufferSize - 2
    BY <1>2, <1>4, <1>6
  <2> QED BY <1>0, <2>1, <2>2 DEF PopInv, Handlers, Base, sessionVars
<1>14. AlignInv' /\ Unbroken'
  BY <1>0 DEF RInv, AlignInv, Unbroken, Rest, Handlers, Base, PacketSize, sessionVars
<1> QED BY <1>7, <1>8, <1>9, <1>10, <1>11, <1>12, <1>13, <1>14 DEF RInv

\* MoveRear counts the bytes that are in the ring already.
LEMMA MoveRearStep ==
    ASSUME RInv, Paced, MoveRear
    PROVE  RInv'
<1> USE DEF MoveRear, sessionVars
<1>1. TypeOK /\ StepInv /\ pc[Base] = "idle"
  BY StepFacts
<1>2. /\ rear' = rear + transferred /\ transferred' = 0 /\ front' = front
      /\ transferred \in Nat /\ rear \in Nat /\ front \in Nat /\ BufferSize \in Nat /\ MaxBytes \in Nat
  BY Numbers
<1>3. Unhandled' = Unhandled
  BY <1>2 DEF Unhandled
<1>4. SpanInv'
  BY <1>2, <1>3 DEF RInv, SpanInv, Base
<1>5. TypeOK'
  BY <1>1, <1>2, <1>4 DEF TypeOK, RInv, SpanInv
<1>6. StepInv'
  BY <1>1, <1>2 DEF StepInv, Base, Handlers
<1>7. CellInv'
  <2>1. rear' + transferred' - 1 = rear + transferred - 1
    BY <1>2
  <2> QED BY <2>1 DEF RInv, CellInv, GetIndex
<1>8. WindowInv'
  BY <1>3 DEF RInv, WindowInv, Busy, Base
<1>9. RegionInv'
  BY DEF RegionInv
<1>10. PopInv'
  <2>1. \A h \in Handlers : left[h] \in Nat
    BY <1>1, RingAssumption DEF TypeOK
  <2> QED BY <1>2, <1>3, <2>1 DEF RInv, PopInv, Handlers, Base
<1>11. AlignInv' /\ Unbroken'
  BY DEF RInv, AlignInv, Unbroken, Rest, Handlers, Base, PacketSize
<1> QED BY <1>4, <1>5, <1>6, <1>7, <1>8, <1>9, <1>10, <1>11 DEF RInv

\* The bytes are the session's group's, or the worker's handler's.
LEMMA DispatchStep ==
    ASSUME RInv, Paced, Dispatch
    PROVE  RInv'
<1>0. /\ step = "dispatch"
      /\ UNCHANGED <<front, rear, buffer, io, len, transferred, left, groupId, jobs, connect, moves,
                     kind, decoded, broken>>
  BY DEF Dispatch, ringVars
<1>1. TypeOK /\ StepInv /\ pc[Base] = "idle" /\ io = "none" /\ transferred = 0
  BY <1>0, StepFacts
<1>2. Unhandled' = Unhandled
  BY <1>0 DEF Unhandled
<1>3. CellInv' /\ Unbroken'
  BY <1>0 DEF RInv, CellInv, Unbroken, GetIndex
<1>4. groupId # Base => Unhandled <= Window
  BY <1>0 DEF RInv, WindowInv
<1>5. CASE groupId # Base /\ ~isHandled
  <2>1. isHandled' = TRUE /\ step' = "onRecv" /\ UNCHANGED pc
    BY <1>5 DEF Dispatch
  <2>2. TypeOK'
    BY <1>0, <1>1, <2>1 DEF TypeOK
  <2>3. StepInv'
    BY <1>0, <1>1, <2>1 DEF StepInv, Base, Handlers
  <2>4. SpanInv'
    BY <1>0, <1>2, <2>1 DEF RInv, SpanInv, Base
  <2>5. WindowInv'
    BY <1>0, <1>1, <1>2, <1>4, <2>1 DEF RInv, WindowInv, Busy, Base
  <2>6. RegionInv'
    BY <1>0, <1>1, <2>1 DEF RegionInv
  <2>7. PopInv' /\ AlignInv'
    BY <1>0, <1>2, <2>1 DEF RInv, PopInv, AlignInv, Rest, Handlers, Base, PacketSize
  <2> QED BY <1>3, <2>2, <2>3, <2>4, <2>5, <2>6, <2>7 DEF RInv
<1>6. CASE ~(groupId # Base /\ ~isHandled)
  <2>1. pc' = [pc EXCEPT ![Base] = "look"] /\ step' = "handler" /\ UNCHANGED isHandled
    BY <1>6 DEF Dispatch
  <2>2. TypeOK'
    BY <1>0, <1>1, <2>1 DEF TypeOK
  <2>3. Base \in Handlers /\ pc'[Base] = "look" /\ \A h \in Handlers : h # Base => pc'[h] = pc[h]
    BY <1>1, <2>1 DEF TypeOK, Handlers
  <2>4. StepInv'
    BY <1>0, <1>1, <2>1, <2>3 DEF StepInv, Base, Handlers
  <2>5. SpanInv'
    BY <1>0, <1>2, <2>1 DEF RInv, SpanInv, Base
  <2>6. WindowInv'
    <3>1. \A g \in Groups : g \in Handlers /\ g # Base
      BY RingAssumption DEF Handlers, Base
    <3>2. \A g \in Groups : Busy(g)' <=> Busy(g)
      BY <1>0, <2>1, <2>3, <3>1 DEF Busy
    <3> QED BY <1>0, <1>1, <1>2, <2>1, <3>2 DEF RInv, WindowInv, Base
  <2>7. RegionInv'
    BY <1>0, <1>1, <2>1 DEF RegionInv
  <2>8. PopInv'
    BY <1>0, <1>2, <2>3 DEF RInv, PopInv, Handlers, Base
  <2>9. AlignInv'
    <3>1. Rest' = Rest
      BY <1>0, <1>1, <2>3 DEF Rest, TypeOK
    <3> QED BY <1>0, <3>1 DEF RInv, AlignInv, PacketSize
  <2> QED BY <1>3, <2>2, <2>4, <2>5, <2>6, <2>7, <2>8, <2>9 DEF RInv
<1> QED BY <1>5, <1>6

\* The session's group, wherever the session is by then, gets the job.
LEMMA OnRecvStep ==
    ASSUME RInv, Paced, OnRecv
    PROVE  RInv'
<1>0. /\ step = "onRecv" /\ groupId # Base /\ step' = "regions"
      /\ jobs' = [jobs EXCEPT ![groupId] = @ + 1]
      /\ UNCHANGED <<front, rear, buffer, io, len, transferred, pc, left, groupId, isHandled, connect,
                     moves, kind, decoded, broken>>
  BY DEF OnRecv, ringVars
<1>1. TypeOK /\ StepInv /\ pc[Base] = "idle" /\ io = "none" /\ transferred = 0
  BY <1>0, StepFacts
<1>2. Unhandled' = Unhandled
  BY <1>0 DEF Unhandled
<1>3. CellInv' /\ Unbroken'
  BY <1>0 DEF RInv, CellInv, Unbroken, GetIndex
<1>4. Unhandled <= Window
  BY <1>0 DEF RInv, WindowInv
<1>5. groupId \in Groups
  BY <1>0, <1>1 DEF TypeOK, Handlers
<1>6. TypeOK'
  BY <1>0, <1>1, <1>5 DEF TypeOK
<1>7. StepInv'
  BY <1>0, <1>1 DEF StepInv, Base, Handlers
<1>8. SpanInv'
  BY <1>0, <1>2, <1>4, Numbers DEF RInv, SpanInv, Base
<1>9. WindowInv'
  BY <1>0, <1>1, <1>2, <1>4 DEF WindowInv, Base
<1>10. RegionInv'
  BY <1>0, <1>1 DEF RegionInv
<1>11. PopInv' /\ AlignInv'
  BY <1>0, <1>2 DEF RInv, PopInv, AlignInv, Rest, Handlers, Base, PacketSize
<1> QED BY <1>3, <1>6, <1>7, <1>8, <1>9, <1>10, <1>11 DEF RInv

\* A group begins a job it was given.
LEMMA HandleRecvStep ==
    ASSUME RInv, Paced, NEW g \in Groups, HandleRecv(g)
    PROVE  RInv'
<1> USE DEF HandleRecv, ringVars, ioVars
<1>1. TypeOK /\ StepInv /\ g \in Handlers /\ g # Base
  BY StepFacts, RingAssumption DEF Handlers, Base
<1>2. pc'[g] = "look" /\ pc[g] = "idle" /\ \A h \in Handlers : h # g => pc'[h] = pc[h]
  BY <1>1 DEF TypeOK
<1>3. TypeOK'
  <2>1. jobs' \in [Groups -> Nat]
    BY <1>1 DEF TypeOK
  <2>2. pc' \in [Handlers -> {"idle", "look", "pop", "crashed"}]
    BY <1>1 DEF TypeOK
  <2>3. isHandled' \in BOOLEAN
    OBVIOUS
  <2> QED BY <1>1, <2>1, <2>2, <2>3 DEF TypeOK
<1>4. StepInv'
  BY <1>1, <1>2 DEF StepInv, Base, Handlers
<1>5. Unhandled' = Unhandled /\ Rest' = Rest /\ ToEnd' = ToEnd /\ Free' = Free
  BY <1>1, <1>2 DEF Unhandled, Rest, ToEnd, Free, GetIndex, TypeOK
<1>6. SpanInv' /\ CellInv' /\ Unbroken'
  BY <1>5 DEF RInv, SpanInv, CellInv, Unbroken, Base, GetIndex
<1>7. WindowInv'
  <2>1. \A f \in Groups : f \in Handlers
    BY DEF Handlers
  <2>2. \A f \in Groups : Busy(f)' => Busy(f)
    BY <1>1, <1>2, <2>1 DEF Busy, TypeOK
  <2> QED BY <1>5, <2>2 DEF RInv, WindowInv, Base
<1>8. RegionInv'
  BY <1>5 DEF RInv, RegionInv, Wide, Base
<1>9. PopInv'
  BY <1>2, <1>5 DEF RInv, PopInv, Handlers, Base
<1>10. AlignInv'
  BY <1>2, <1>5 DEF RInv, AlignInv, Handlers, Base, PacketSize
<1> QED BY <1>3, <1>4, <1>6, <1>7, <1>8, <1>9, <1>10 DEF RInv

----------------------------------------------------------------------------
\* A handler that has the session takes n bytes.  What the worker computed from
\* the old front stays usable: only a group moves front behind its back.
LEMMA FrontMoves ==
    ASSUME RInv, Paced, NEW h \in Handlers, groupId = h, pc[h] # "idle",
           NEW n \in Nat, n >= 1, n <= rear - front, front' = front + n,
           UNCHANGED <<rear, buffer, ioVars, groupId, connect, broken>>
    PROVE  /\ Unbroken' /\ SpanInv' /\ CellInv' /\ RegionInv'
           /\ Unhandled' = Unhandled - n
           /\ \A g \in Groups : Busy(g) => groupId # Base /\ Unhandled' <= Window
           /\ groupId # Base /\ (io = "done" \/ step \in {"dispatch", "onRecv"}) => Unhandled' <= Window
<1> USE DEF ioVars
<1>0. /\ front \in Nat /\ rear \in Nat /\ transferred \in Nat /\ BufferSize \in Nat
      /\ Window \in Nat /\ Free \in Nat /\ ToEnd \in 1..BufferSize /\ Unhandled \in Nat
      /\ len[1] \in 0..BufferSize /\ len[2] \in 0..BufferSize /\ MaxBytes \in Nat
  BY Numbers
<1>1. Unhandled' = Unhandled - n /\ Free' = Free + n /\ ToEnd' = ToEnd
  BY <1>0 DEF Unhandled, Free, ToEnd, GetIndex
<1>2. SpanInv' /\ Unbroken'
  BY <1>0, <1>1 DEF RInv, SpanInv, Unbroken, Base
<1>3. CellInv'
  BY <1>0 DEF RInv, CellInv, GetIndex
<1>4. /\ \A g \in Groups : Busy(g) => groupId # Base /\ Unhandled' <= Window
      /\ groupId # Base /\ (io = "done" \/ step \in {"dispatch", "onRecv"}) => Unhandled' <= Window
  BY <1>0, <1>1 DEF RInv, WindowInv
<1>5. RegionInv'
  <2>1. CASE h = Base
    <3>1. step = "handler" /\ io = "none"
      BY <2>1, StepFacts
    <3> QED BY <3>1 DEF RegionInv
  <2>2. CASE h # Base
    <3>1. groupId # Base /\ Unhandled <= Window
      BY <2>2 DEF RInv, WindowInv, Busy, Handlers
    <3>2. Free >= BufferSize - 1 - Window
      BY <1>0, <3>1 DEF Free, Unhandled
    <3>3. (Wide => Wide') /\ (len[1] = Free => Wide')
      BY <1>0, <3>1, <3>2 DEF Wide, Base
    <3> QED BY <1>0, <1>1, <3>3 DEF RInv, RegionInv
  <2> QED BY <2>1, <2>2
<1> QED BY <1>1, <1>2, <1>3, <1>4, <1>5

\* A handler that has the session is at a packet's start, and what it sees of the
\* packet is what the client sent.
LEMMA LookFacts ==
    ASSUME RInv, Paced, NEW h \in Handlers, pc[h] = "look", groupId = h
    PROVE  /\ \E k \in Nat : front = k * PacketSize /\ Number = k /\ (connect => k <= Wrong)
           /\ \A g \in Handlers : pc[g] # "pop"
           /\ Size >= Header => (GoodHeader <=> Number # Wrong \/ kind # "header")
           /\ Size >= PacketSize => (GoodSum <=> Number # Wrong \/ kind # "checksum")
<1>0. /\ front \in Nat /\ rear \in Nat /\ front <= rear /\ rear - front <= BufferSize - 1
      /\ Header \in Nat /\ PacketSize \in Nat /\ PacketSize >= 1 /\ Size = rear - front
      /\ transferred \in Nat /\ Wrong \in Nat
  BY Numbers
<1>1. \A g \in Handlers : pc[g] # "pop"
  BY DEF RInv, PopInv
<1>2. \A i \in front..(rear - 1) : buffer[GetIndex(i)] = i
  BY <1>0 DEF RInv, CellInv
<1>3. PICK k \in Nat : front = k * PacketSize /\ (connect => k <= Wrong)
  BY <1>0 DEF RInv, AlignInv, Rest
<1>4. Number = k
  <2>1. /\ front \div PacketSize \in Nat /\ front % PacketSize \in 0..(PacketSize - 1)
        /\ front = (front \div PacketSize) * PacketSize + (front % PacketSize)
    BY <1>0
  <2>2. k \in Nat /\ 0 \in 0..(PacketSize - 1) /\ front = k * PacketSize + 0
    BY <1>0, <1>3
  <2>3. \A p, q \in Nat, r, s \in 0..(PacketSize - 1) :
           p * PacketSize + r = q * PacketSize + s => p = q
    <3> TAKE p, q \in Nat, r, s \in 0..(PacketSize - 1)
    <3> HAVE p * PacketSize + r = q * PacketSize + s
    <3> QED BY <1>0, DivUnique
  <2>4. k = front \div PacketSize
    BY <2>1, <2>2, <2>3
  <2> QED BY <2>4 DEF Number
<1>5. ASSUME NEW n \in Nat, Size >= n
      PROVE  \A j \in 0..(n - 1) : Peek(n)[j] = front + j
  BY <1>0, <1>2, <1>5, PeekKept
<1>6. Size >= Header => (GoodHeader <=> Number # Wrong \/ kind # "header")
  BY <1>0, <1>5 DEF GoodHeader
<1>7. Size >= PacketSize => (GoodSum <=> Number # Wrong \/ kind # "checksum")
  BY <1>0, <1>5 DEF GoodSum
<1> QED BY <1>1, <1>3, <1>4, <1>6, <1>7

\* A handler that ends gives the session's bytes to nobody; if it was the
\* worker's, there is room for the next receive or the session is closed.
LEMMA LeaveKeeps ==
    ASSUME RInv, Paced, NEW h \in Handlers, pc[h] = "look", Leave(h),
           UNCHANGED <<ringVars, io, len, transferred, left, groupId, isHandled, jobs, moves,
                       kind, broken>>,
           connect' \in BOOLEAN, decoded' \in BOOLEAN, decoded' => ~connect',
           ~connect' => front >= Wrong * PacketSize,
           connect' => connect,
           h = Base /\ connect' => Unhandled <= BufferSize - 2
    PROVE  RInv'
<1> USE DEF ringVars
<1>1. TypeOK /\ StepInv
  BY StepFacts
<1>2. pc'[h] = "idle" /\ \A g \in Handlers : g # h => pc'[g] = pc[g]
  BY <1>1 DEF TypeOK, Leave
<1>3. /\ h = Base => step = "handler" /\ step' = "regions" /\ io = "none"
      /\ h # Base => step' = step
  BY StepFacts DEF Leave
<1>4. TypeOK'
  <2>1. pc' \in [Handlers -> {"idle", "look", "pop", "crashed"}]
    BY <1>1 DEF TypeOK, Leave
  <2>2. step' \in {"regions", "compare", "second", "post", "idle", "dispatch", "onRecv",
                   "handler", "released", "crashed"}
    BY <1>1, <1>3 DEF TypeOK
  <2> QED BY <1>1, <2>1, <2>2 DEF TypeOK
<1>5. StepInv'
  <2>0. Base \in Handlers
    BY DEF Handlers
  <2>1. step' # "crashed" /\ \A g \in Handlers : pc'[g] # "crashed"
    BY <1>1, <1>2, <1>3 DEF StepInv
  <2>2. step' = "handler" <=> pc'[Base] # "idle"
    BY <1>1, <1>2, <1>3, <2>0 DEF StepInv
  <2>3. (step' = "idle" <=> io' # "none") /\ (io' = "done" <=> transferred' > 0)
    BY <1>1, <1>3 DEF StepInv
  <2> QED BY <2>1, <2>2, <2>3 DEF StepInv, Handlers, Base
<1>6. Unhandled' = Unhandled /\ ToEnd' = ToEnd /\ Free' = Free /\ Rest' = Rest
  BY <1>1, <1>2 DEF Unhandled, ToEnd, Free, Rest, GetIndex, TypeOK
<1>7. Unbroken' /\ CellInv'
  BY DEF RInv, Unbroken, CellInv, GetIndex
<1>8. SpanInv'
  <2>1. step' = "regions" /\ connect' => Unhandled <= BufferSize - 2
    <3>1. CASE h = Base
      BY <3>1
    <3>2. CASE h # Base
      BY <1>3, <3>2 DEF RInv, SpanInv
    <3> QED BY <3>1, <3>2
  <2> QED BY <1>6, <2>1 DEF RInv, SpanInv, Base
<1>9. WindowInv'
  <2>0. \A g \in Groups : g \in Handlers
    BY DEF Handlers
  <2>1. \A g \in Groups : Busy(g)' => Busy(g)
    BY <1>2, <2>0 DEF Busy
  <2>2. step' \in {"dispatch", "onRecv"} => step \in {"dispatch", "onRecv"}
    BY <1>3
  <2> QED BY <1>6, <2>1, <2>2 DEF RInv, WindowInv, Base
<1>10. RegionInv'
  BY <1>3, <1>6 DEF RInv, RegionInv, Wide, Base
<1>11. PopInv'
  BY <1>2, <1>6 DEF RInv, PopInv, Handlers, Base
<1>12. AlignInv'
  BY <1>2, <1>6 DEF RInv, AlignInv, Handlers, Base, PacketSize
<1> QED BY <1>4, <1>5, <1>7, <1>8, <1>9, <1>10, <1>11, <1>12 DEF RInv

\* The loop ends: the worker has left less than a packet behind, or a group has
\* the session.
LEMMA LookEndStep ==
    ASSUME RInv, Paced, NEW h \in Handlers, LookEnd(h)
    PROVE  RInv'
<1>0. /\ pc[h] = "look" /\ Leave(h)
      /\ UNCHANGED <<ringVars, io, len, transferred, left, groupId, isHandled, jobs, connect, moves,
                     kind, decoded, broken>>
      /\ groupId # h \/ Size < Header \/ Size < PacketSize
  <2>1. Size \in Int /\ PacketSize \in Int
    BY Numbers
  <2> QED BY <2>1 DEF LookEnd, Mine, Complete, sessionVars
<1>1. TypeOK
  BY StepFacts
<1>n. /\ Size = rear - front /\ front \in Nat /\ rear \in Nat /\ BufferSize \in Nat
      /\ Header \in Nat /\ Payload \in Nat /\ PacketSize = Header + Payload
      /\ PacketSize < BufferSize /\ PacketSize \in Nat
  BY Numbers
<1>2. /\ ~connect => front >= Wrong * PacketSize
      /\ decoded => ~connect
  BY DEF RInv, AlignInv
<1>3. ASSUME h = Base PROVE Unhandled <= BufferSize - 2
  <2>1. CASE groupId # h
    BY <1>3, <2>1 DEF RInv, SpanInv
  <2>2. CASE Size < PacketSize
    <3>1. transferred = 0
      BY <1>0, <1>3, StepFacts
    <3> QED BY <1>n, <2>2, <3>1 DEF Unhandled
  <2> QED BY <1>0, <1>n, <2>1, <2>2
<1>4. connect' \in BOOLEAN /\ decoded' \in BOOLEAN
  BY <1>0, <1>1 DEF TypeOK
<1> QED BY <1>0, <1>2, <1>3, <1>4, LeaveKeeps

\* A session is closed at the wrong packet or behind it.
LEMMA LookCloses ==
    ASSUME RInv, Paced, NEW h \in Handlers, LookHeader(h) \/ LookSum(h)
    PROVE  front >= Wrong * PacketSize
<1>0. /\ pc[h] = "look" /\ groupId = h /\ Size >= Header
      /\ ~GoodHeader \/ (Size >= PacketSize /\ ~GoodSum)
  BY DEF LookHeader, LookSum, Mine, Complete, Sums
<1>1. PICK k \in Nat : front = k * PacketSize /\ Number = k
  BY <1>0, LookFacts
<1>2. /\ Size >= Header => (GoodHeader <=> Number # Wrong \/ kind # "header")
      /\ Size >= PacketSize => (GoodSum <=> Number # Wrong \/ kind # "checksum")
  BY <1>0, LookFacts
<1>3. Number = Wrong
  BY <1>0, <1>2
<1>4. front \in Nat /\ front = Wrong * PacketSize
  BY <1>1, <1>3, Numbers
<1> QED BY <1>4

\* A wrong packet closes the session.
LEMMA LookClosesStep ==
    ASSUME RInv, Paced, NEW h \in Handlers, LookHeader(h) \/ LookSum(h)
    PROVE  RInv'
<1>0. /\ pc[h] = "look" /\ Leave(h) /\ connect' = FALSE /\ (decoded' = decoded \/ decoded' = TRUE)
      /\ UNCHANGED <<ringVars, io, len, transferred, left, groupId, isHandled, jobs, moves, kind,
                     broken>>
  BY DEF LookHeader, LookSum
<1>1. front >= Wrong * PacketSize
  BY LookCloses
<1>2. connect' \in BOOLEAN
  BY <1>0
<1>3. decoded' \in BOOLEAN
  BY <1>0, StepFacts DEF TypeOK
<1> QED BY <1>0, <1>1, <1>2, <1>3, LeaveKeeps

\* A complete packet is taken.  While the session is open it is not the wrong one.
LEMMA LookTakeStep ==
    ASSUME RInv, Paced, NEW h \in Handlers, LookTake(h)
    PROVE  RInv'
<1>0. /\ pc[h] = "look"
      /\ UNCHANGED <<rear, buffer, io, len, transferred, groupId, isHandled, jobs, moves, kind, broken>>
  BY DEF LookTake, ioVars
<1>1. TypeOK /\ StepInv
  BY StepFacts
<1>n. /\ Size = rear - front /\ front \in Nat /\ rear \in Nat /\ BufferSize \in Nat
      /\ Header \in Nat /\ Payload \in Nat /\ PacketSize = Header + Payload
      /\ Header >= 1 /\ Payload >= 1 /\ PacketSize < BufferSize /\ PacketSize \in Nat
      /\ Wrong \in Nat /\ front <= rear
  BY Numbers
<1>2. /\ front' = front + Header /\ left' = [left EXCEPT ![h] = Payload]
      /\ pc' = [pc EXCEPT ![h] = "pop"] /\ decoded' = FALSE /\ UNCHANGED <<step, connect>>
  BY DEF LookTake, Dequeue, ioVars
<1>3. groupId = h /\ rear - front >= PacketSize /\ GoodHeader /\ (GoodSum \/ decoded)
  BY <1>n DEF LookTake, Mine, Complete, Sums
<1>4. PICK k \in Nat : front = k * PacketSize /\ Number = k /\ (connect => k <= Wrong)
  BY <1>0, <1>3, LookFacts
<1>5. /\ \A g \in Handlers : pc[g] # "pop"
      /\ Size >= Header => (GoodHeader <=> Number # Wrong \/ kind # "header")
      /\ Size >= PacketSize => (GoodSum <=> Number # Wrong \/ kind # "checksum")
  BY <1>0, <1>3, LookFacts
<1>a. connect => GoodSum /\ k # Wrong
  <2>1. connect => GoodSum
    BY <1>3 DEF RInv, AlignInv
  <2> QED BY <1>1, <1>n, <1>3, <1>4, <1>5, <2>1 DEF TypeOK
<1>6. pc'[h] = "pop" /\ left'[h] = Payload
      /\ \A g \in Handlers : g # h => pc'[g] = pc[g] /\ left'[g] = left[g]
  BY <1>1, <1>2 DEF TypeOK
<1>7. /\ Unbroken' /\ SpanInv' /\ CellInv' /\ RegionInv'
      /\ Unhandled' = Unhandled - Header
      /\ \A g \in Groups : Busy(g) => groupId # Base /\ Unhandled' <= Window
      /\ groupId # Base /\ (io = "done" \/ step \in {"dispatch", "onRecv"}) => Unhandled' <= Window
  BY <1>0, <1>n, <1>2, <1>3, FrontMoves DEF ioVars
<1>8. TypeOK'
  <2>1. front' \in 0..MaxBytes
    BY <1>1, <1>n, <1>2, <1>3, RingAssumption DEF TypeOK
  <2>2. left' \in [Handlers -> 0..Payload]
    BY <1>1, <1>n, <1>2 DEF TypeOK
  <2>3. pc' \in [Handlers -> {"idle", "look", "pop", "crashed"}]
    BY <1>1, <1>2 DEF TypeOK
  <2> QED BY <1>0, <1>1, <1>2, <2>1, <2>2, <2>3 DEF TypeOK
<1>9. StepInv'
  BY <1>0, <1>1, <1>2, <1>6 DEF StepInv, Handlers, Base
<1>10. WindowInv'
  <2>0. \A g \in Groups : g \in Handlers
    BY DEF Handlers
  <2>1. \A g \in Groups : Busy(g)' => Busy(g)
    BY <1>0, <1>6, <2>0 DEF Busy
  <2> QED BY <1>0, <1>2, <1>7, <2>1 DEF WindowInv, Base
<1>11. PopInv'
  <2>1. Unhandled <= BufferSize - 1 /\ Unhandled \in Nat
    BY Numbers DEF RInv, SpanInv
  <2>2. Unhandled' <= BufferSize - 2 /\ Payload <= rear - (front + Header)
    BY <1>n, <1>3, <1>7, <2>1
  <2> QED BY <1>0, <1>2, <1>3, <1>5, <1>6, <2>2 DEF PopInv, Handlers, Base
<1>12. AlignInv'
  <2>1. Rest' = Payload
    BY <1>0, <1>3, <1>6 DEF Rest
  <2>2. (k + 1) * PacketSize = k * PacketSize + PacketSize /\ k * PacketSize \in Int /\ k + 1 \in Nat
    BY <1>n
  <2>3. front' + Rest' = (k + 1) * PacketSize
    BY <1>n, <1>2, <1>4, <2>1, <2>2
  <2>4. connect' => k + 1 <= Wrong
    BY <1>n, <1>2, <1>4, <1>a
  <2>5. \E m \in Nat : front' + Rest' = m * PacketSize /\ (connect' => m <= Wrong)
    BY <2>2, <2>3, <2>4
  <2>6. ~connect' => front' >= Wrong * PacketSize
    <3>1. ~connect => front >= Wrong * PacketSize
      BY DEF RInv, AlignInv
    <3>2. Wrong * PacketSize \in Int
      BY <1>n
    <3> QED BY <1>n, <1>2, <3>1, <3>2
  <2> QED BY <1>2, <2>5, <2>6 DEF AlignInv, PacketSize
<1> QED BY <1>7, <1>8, <1>9, <1>10, <1>11, <1>12 DEF RInv

\* RecvHandler, up to the callback.
LEMMA LookStep ==
    ASSUME RInv, Paced, NEW h \in Handlers, Look(h)
    PROVE  RInv'
BY LookEndStep, LookClosesStep, LookTakeStep DEF Look

\* The callback pops bytes of the packet it was given; they are there.
LEMMA PopStep ==
    ASSUME RInv, Paced, NEW h \in Handlers, Pop(h)
    PROVE  RInv'
<1>0. pc[h] = "pop" /\ UNCHANGED <<rear, buffer, ioVars, sessionVars>>
  BY DEF Pop
<1>1. TypeOK /\ StepInv
  BY StepFacts
<1>2. groupId = h /\ left[h] <= rear - front /\ Unhandled <= BufferSize - 2
  BY <1>0 DEF RInv, PopInv
<1>n. /\ Size = rear - front /\ front \in Nat /\ rear \in Nat /\ BufferSize \in Nat
      /\ Payload \in Nat /\ left[h] \in 0..Payload /\ Unhandled \in Nat
  BY <1>1, Numbers DEF TypeOK
<1>3. PICK n \in 1..left[h] :
        IF Size < n
        THEN /\ broken' = broken \cup {"Peek"}
             /\ pc' = [pc EXCEPT ![h] = "crashed"]
             /\ UNCHANGED <<front, left>>
        ELSE /\ Dequeue(n)
             /\ left' = [left EXCEPT ![h] = @ - n]
             /\ UNCHANGED <<pc, broken>>
  BY DEF Pop
<1>4. n \in Nat /\ n >= 1 /\ n <= rear - front /\ n <= left[h] /\ ~(Size < n)
  BY <1>2, <1>n
<1>5. /\ front' = front + n /\ left' = [left EXCEPT ![h] = @ - n] /\ UNCHANGED <<pc, broken>>
  BY <1>3, <1>4 DEF Dequeue
<1>6. left'[h] = left[h] - n /\ \A g \in Handlers : g # h => left'[g] = left[g]
  BY <1>1, <1>5 DEF TypeOK
<1>7. /\ Unbroken' /\ SpanInv' /\ CellInv' /\ RegionInv'
      /\ Unhandled' = Unhandled - n
      /\ \A g \in Groups : Busy(g) => groupId # Base /\ Unhandled' <= Window
      /\ groupId # Base /\ (io = "done" \/ step \in {"dispatch", "onRecv"}) => Unhandled' <= Window
  BY <1>0, <1>2, <1>4, <1>5, FrontMoves DEF sessionVars
<1>8. TypeOK'
  <2>1. front' \in 0..MaxBytes
    BY <1>1, <1>4, <1>5, <1>n, RingAssumption DEF TypeOK
  <2>2. left' \in [Handlers -> 0..Payload]
    BY <1>1, <1>4, <1>5, <1>n DEF TypeOK
  <2> QED BY <1>0, <1>1, <1>5, <2>1, <2>2 DEF TypeOK, ioVars, sessionVars
<1>9. StepInv'
  BY <1>0, <1>1, <1>5 DEF StepInv, Handlers, Base, ioVars
<1>10. WindowInv'
  BY <1>0, <1>5, <1>7 DEF WindowInv, Base, Busy, ioVars, sessionVars
<1>11. PopInv'
  <2>1. \A g \in Handlers : pc[g] = "pop" => g = h
    BY <1>2 DEF RInv, PopInv
  <2>2. left[h] - n <= rear - (front + n) /\ Unhandled' <= BufferSize - 2
    BY <1>2, <1>4, <1>7, <1>n
  <2> QED BY <1>0, <1>2, <1>5, <1>6, <2>1, <2>2 DEF PopInv, Handlers, Base, sessionVars
<1>12. AlignInv'
  <2>1. Rest = left[h] /\ Rest' = left[h] - n
    BY <1>0, <1>2, <1>5, <1>6 DEF Rest, sessionVars
  <2>2. front' + Rest' = front + Rest
    BY <1>4, <1>5, <1>n, <2>1
  <2>3. ~connect => front' >= Wrong * PacketSize
    <3>1. ~connect => front >= Wrong * PacketSize
      BY DEF RInv, AlignInv
    <3>2. Wrong * PacketSize \in Int
      BY Numbers
    <3> QED BY <1>4, <1>5, <1>n, <3>1, <3>2
  <2> QED BY <1>0, <2>2, <2>3 DEF RInv, AlignInv, PacketSize, sessionVars
<1> QED BY <1>7, <1>8, <1>9, <1>10, <1>11, <1>12 DEF RInv

\* The callback has popped its packet and may have moved the session to a group.
LEMMA ReturnStep ==
    ASSUME RInv, Paced, NEW h \in Handlers, Return(h)
    PROVE  RInv'
<1>0. /\ pc[h] = "pop" /\ left[h] = 0 /\ pc' = [pc EXCEPT ![h] = "look"]
      /\ UNCHANGED <<ringVars, ioVars, left, isHandled, jobs, connect, kind, decoded,
                     broken>>
      /\ \/ UNCHANGED <<groupId, moves>>
         \/ /\ moves < MaxMove /\ moves' = moves + 1
            /\ groupId' \in {d \in Handlers : <<groupId, d>> \in Hops}
  BY DEF Return
<1>1. TypeOK /\ StepInv
  BY StepFacts
<1>2. groupId = h /\ Unhandled <= BufferSize - 2
  BY <1>0 DEF RInv, PopInv
<1>3. \A g \in Handlers : g # h => pc[g] # "pop"
  BY <1>2 DEF RInv, PopInv
<1>4. pc'[h] = "look" /\ \A g \in Handlers : g # h => pc'[g] = pc[g]
  BY <1>0, <1>1 DEF TypeOK
<1>5. \A g \in Handlers : pc'[g] # "pop"
  BY <1>3, <1>4
<1>6. groupId' \in Handlers /\ (groupId' # groupId => groupId' # Base)
  BY <1>0, <1>1, RingAssumption DEF TypeOK, Paced, Base
<1>7. TypeOK'
  <2>1. pc' \in [Handlers -> {"idle", "look", "pop", "crashed"}]
    BY <1>0, <1>1 DEF TypeOK
  <2>2. moves' \in 0..MaxMove
    BY <1>0, <1>1, RingAssumption DEF TypeOK
  <2> QED BY <1>0, <1>1, <1>6, <2>1, <2>2 DEF TypeOK, ringVars, ioVars
<1>8. StepInv'
  BY <1>0, <1>1, <1>4 DEF StepInv, Handlers, Base, ioVars
<1>9. Unhandled' = Unhandled /\ ToEnd' = ToEnd /\ Free' = Free
  BY <1>0 DEF Unhandled, ToEnd, Free, GetIndex, ringVars, ioVars
<1>10. SpanInv'
  BY <1>0, <1>2, <1>9 DEF RInv, SpanInv, ringVars, ioVars
<1>11. CellInv' /\ Unbroken'
  BY <1>0 DEF RInv, CellInv, Unbroken, GetIndex, ringVars, ioVars
<1>12. WindowInv'
  <2>0. \A g \in Groups : g \in Handlers /\ g # Base
    BY RingAssumption DEF Handlers, Base
  <2>1. \A g \in Groups : Busy(g)' => Busy(g)
    BY <1>0, <1>4, <2>0 DEF Busy
  <2>2. \A g \in Groups : Busy(g) => groupId' # Base /\ Unhandled <= Window
    BY <1>6 DEF RInv, WindowInv
  <2>3. io = "done" \/ step \in {"dispatch", "onRecv"} => groupId # Base
    BY <1>0, <1>2, StepFacts
  <2> QED BY <1>0, <1>9, <2>1, <2>2, <2>3 DEF RInv, WindowInv, Base, ioVars
<1>13. RegionInv'
  <2>1. Wide => Wide'
    BY <1>0, <1>6 DEF Wide, Base, ioVars
  <2> QED BY <1>0, <1>9, <2>1 DEF RInv, RegionInv, ioVars
<1>14. PopInv'
  BY <1>5 DEF PopInv, Handlers, Base
<1>15. AlignInv'
  <2>1. Rest = 0 /\ Rest' = 0
    BY <1>0, <1>2, <1>5, <1>6 DEF Rest
  <2> QED BY <1>0, <2>1 DEF RInv, AlignInv, PacketSize, ringVars
<1> QED BY <1>7, <1>8, <1>10, <1>11, <1>12, <1>13, <1>14, <1>15 DEF RInv

----------------------------------------------------------------------------
\* An empty ring with room for a receive.
LEMMA InitRInv == Init /\ Paced => RInv
<1> SUFFICES ASSUME Init, Paced PROVE RInv
  OBVIOUS
<1>0. /\ BufferSize \in Nat /\ BufferSize >= 2 /\ MaxBytes \in Nat /\ Payload \in Nat
      /\ Window \in Nat /\ MaxMove \in Nat /\ Wrong \in Nat /\ PacketSize \in Nat
  BY RingAssumption DEF PacketSize
<1>1. TypeOK
  <2>1. buffer \in [Cells -> -1..(MaxBytes - 1)]
    BY <1>0 DEF Init
  <2>2. Base \in Handlers
    BY DEF Handlers
  <2>3. pc \in [Handlers -> {"idle", "look", "pop", "crashed"}] /\ left \in [Handlers -> 0..Payload]
        /\ jobs \in [Groups -> Nat]
    BY <1>0 DEF Init
  <2>4. len \in (0..BufferSize) \X (0..BufferSize)
    BY <1>0 DEF Init
  <2>5. isHandled \in BOOLEAN /\ connect \in BOOLEAN /\ decoded \in BOOLEAN
    BY DEF Init
  <2> QED BY <1>0, <2>1, <2>2, <2>3, <2>4, <2>5 DEF Init, TypeOK
<1>2. StepInv /\ Unbroken
  BY DEF Init, StepInv, Unbroken, Handlers
<1>3. Unhandled = 0 /\ Rest = 0
  BY DEF Init, Unhandled, Rest, Handlers
<1>4. SpanInv
  BY <1>0, <1>3 DEF Init, SpanInv
<1>5. CellInv
  BY DEF Init, CellInv
<1>6. WindowInv /\ RegionInv /\ PopInv
  BY DEF Init, WindowInv, RegionInv, PopInv, Busy, Handlers
<1>7. AlignInv
  <2>1. 0 \in Nat /\ 0 <= Wrong /\ 0 * PacketSize = 0
    BY <1>0
  <2>2. front + Rest = 0 * PacketSize
    BY <1>3, <2>1 DEF Init
  <2> QED BY <2>1, <2>2 DEF Init, AlignInv
<1> QED BY <1>1, <1>2, <1>4, <1>5, <1>6, <1>7 DEF RInv

\* A step that changes nothing.
LEMMA StutterRInv ==
    ASSUME RInv, UNCHANGED vars
    PROVE  RInv'
<1> USE DEF vars, ringVars, ioVars, sessionVars
<1>1. Unhandled' = Unhandled /\ Rest' = Rest /\ ToEnd' = ToEnd /\ Free' = Free /\ (Wide' <=> Wide)
  BY DEF Unhandled, Rest, ToEnd, Free, GetIndex, Wide, Base
<1>2. TypeOK' /\ Unbroken' /\ StepInv'
  BY DEF RInv, TypeOK, Unbroken, StepInv, Handlers, Base, Cells
<1>3. SpanInv' /\ CellInv' /\ RegionInv'
  BY <1>1 DEF RInv, SpanInv, CellInv, RegionInv, GetIndex, Base
<1>4. WindowInv' /\ PopInv' /\ AlignInv'
  BY <1>1 DEF RInv, WindowInv, PopInv, AlignInv, Busy, Handlers, Base, PacketSize
<1> QED BY <1>2, <1>3, <1>4 DEF RInv

\* Every step of the worker, the kernel and the handlers keeps the invariant.
LEMMA NextRInv ==
    ASSUME Paced, RInv, [Next]_vars
    PROVE  RInv'
<1>1. CASE RecvNotIncrease
  BY <1>1, RegionFirstStep, RegionCompareStep, RegionSecondStep, PostRecvStep DEF RecvNotIncrease
<1>2. CASE Deliver \/ Cancelled \/ MoveRear \/ Dispatch \/ OnRecv
  BY <1>2, DeliverStep, CancelledStep, MoveRearStep, DispatchStep, OnRecvStep
<1>3. ASSUME NEW g \in Groups, HandleRecv(g) PROVE RInv'
  BY <1>3, HandleRecvStep
<1>4. ASSUME NEW h \in Handlers, RecvHandler(h) PROVE RInv'
  BY <1>4, LookStep, PopStep, ReturnStep DEF RecvHandler
<1> QED BY <1>1, <1>2, <1>3, <1>4, StutterRInv DEF Next

\* The invariant holds for every size of ring, packet and stream, any number of
\* groups and any malformed packet, as long as the clients are paced.
THEOREM RecvInvariance == Paced => (Spec => []RInv)
<1> SUFFICES ASSUME Paced PROVE Spec => []RInv
  OBVIOUS
<1>1. Init => RInv
  BY InitRInv
<1>2. RInv /\ [Next]_vars => RInv'
  BY NextRInv
<1> QED BY <1>1, <1>2, PTL DEF Spec

\* No receive writes over a byte that is still to be read, or beside its cell,
\* although front moves while the regions are computed.
THEOREM RecvKeepsBytes == Paced => (Spec => []BytesKept)
<1> SUFFICES ASSUME Paced PROVE Spec => []BytesKept
  OBVIOUS
<1>1. RInv => BytesKept
  <2> SUFFICES ASSUME RInv PROVE BytesKept
    OBVIOUS
  <2>1. front \in Nat /\ rear \in Nat /\ transferred \in Nat
    BY Numbers
  <2> QED BY <2>1 DEF RInv, CellInv, BytesKept
<1> QED BY <1>1, RecvInvariance, PTL

\* The session is closed at the wrong packet and at none before it, and as long as
\* it is open nothing of the wrong packet is handled.
THEOREM RecvClosesOnlyWrong == Paced => (Spec => []OnlyWrongClosed)
<1> SUFFICES ASSUME Paced PROVE Spec => []OnlyWrongClosed
  OBVIOUS
<1>1. RInv => OnlyWrongClosed
  <2> SUFFICES ASSUME RInv PROVE OnlyWrongClosed
    OBVIOUS
  <2>0. /\ PacketSize \in Nat /\ PacketSize >= 1 /\ Wrong \in Nat /\ front \in Nat
        /\ TypeOK /\ Payload \in Nat
    BY Numbers DEF RInv
  <2>1. PICK k \in Nat : front + Rest = k * PacketSize /\ (connect => k <= Wrong)
    BY DEF RInv, AlignInv
  <2>2. Rest \in Nat
    BY <2>0 DEF Rest, TypeOK
  <2>3. connect => k * PacketSize <= Wrong * PacketSize
    BY <2>0, <2>1
  <2>4. k * PacketSize \in Int /\ Wrong * PacketSize \in Int
    BY <2>0
  <2>5. connect => front <= Wrong * PacketSize
    BY <2>0, <2>1, <2>2, <2>3, <2>4
  <2>6. ~connect => front >= Wrong * PacketSize
    BY DEF RInv, AlignInv
  <2> QED BY <2>5, <2>6 DEF OnlyWrongClosed
<1> QED BY <1>1, RecvInvariance, PTL

----------------------------------------------------------------------------
\* The bytes of the stream from position a up to b.
Span(a, b) == [j \in 1..(b - a) |-> a + j - 1]

\* A span is a sequence of positions.
LEMMA SpanIsSeq ==
    ASSUME NEW a \in Nat, NEW b \in Nat, a <= b
    PROVE  /\ Span(a, b) \in Seq(Nat) /\ Len(Span(a, b)) = b - a
           /\ \A j \in 1..(b - a) : Span(a, b)[j] = a + j - 1
<1>1. b - a \in Nat /\ \A j \in 1..(b - a) : a + j - 1 \in Nat
  OBVIOUS
<1>2. Span(a, b) \in [1..(b - a) -> Nat]
  BY <1>1 DEF Span
<1>3. Span(a, b) \in Seq(Nat)
  BY <1>1, <1>2, SeqDef
<1>4. Len(Span(a, b)) = b - a
  BY <1>1, <1>2, <1>3, LenProperties
<1> QED BY <1>3, <1>4 DEF Span

\* Spans that meet make one.
LEMMA SpanConcat ==
    ASSUME NEW a \in Nat, NEW b \in Nat, NEW c \in Nat, a <= b, b <= c
    PROVE  Span(a, c) = Span(a, b) \o Span(b, c)
<1> DEFINE s == Span(a, b)  t == Span(b, c)  u == Span(a, c)
<1>1. s \in Seq(Nat) /\ Len(s) = b - a /\ \A j \in 1..(b - a) : s[j] = a + j - 1
  BY SpanIsSeq
<1>2. t \in Seq(Nat) /\ Len(t) = c - b /\ \A j \in 1..(c - b) : t[j] = b + j - 1
  BY SpanIsSeq
<1>3. u \in Seq(Nat) /\ Len(u) = c - a /\ \A j \in 1..(c - a) : u[j] = a + j - 1
  BY SpanIsSeq
<1> HIDE DEF s, t, u
<1>4. /\ s \o t \in Seq(Nat) /\ Len(s \o t) = Len(s) + Len(t)
      /\ \A i \in 1..(Len(s) + Len(t)) : (s \o t)[i] = IF i <= Len(s) THEN s[i] ELSE t[i - Len(s)]
  BY <1>1, <1>2, ConcatProperties
<1>5. Len(u) = Len(s \o t)
  BY <1>1, <1>2, <1>3, <1>4
<1>6. ASSUME NEW i \in 1..Len(u) PROVE u[i] = (s \o t)[i]
  <2>1. u[i] = a + i - 1 /\ i \in 1..(Len(s) + Len(t)) /\ i \in 1..(c - a)
    BY <1>1, <1>2, <1>3
  <2>2. CASE i <= Len(s)
    <3>1. (s \o t)[i] = s[i]
      BY <1>4, <2>1, <2>2
    <3>2. i \in 1..(b - a)
      BY <1>1, <2>1, <2>2
    <3> QED BY <1>1, <2>1, <3>1, <3>2
  <2>3. CASE ~(i <= Len(s))
    <3>1. (s \o t)[i] = t[i - Len(s)]
      BY <1>4, <2>1, <2>3
    <3>2. i - Len(s) \in 1..(c - b) /\ b + (i - Len(s)) - 1 = a + i - 1
      BY <1>1, <2>1, <2>3
    <3> QED BY <1>2, <2>1, <3>1, <3>2
  <2> QED BY <2>2, <2>3
<1>7. u = s \o t
  BY <1>3, <1>4, <1>5, <1>6, SeqEqual
<1> QED BY <1>7 DEF s, t, u

\* A span without its first n bytes is the rest of it.
LEMMA SpanRest ==
    ASSUME NEW a \in Nat, NEW b \in Nat, NEW n \in Nat, a + n <= b
    PROVE  Span(a + n, b) = SubSeq(Span(a, b), n + 1, b - a)
<1> DEFINE s == Span(a, b)  t == SubSeq(s, n + 1, b - a)  u == Span(a + n, b)
<1>1. s \in Seq(Nat) /\ Len(s) = b - a /\ \A j \in 1..(b - a) : s[j] = a + j - 1
  BY SpanIsSeq
<1>0. a + n \in Nat
  OBVIOUS
<1>2. u \in Seq(Nat) /\ Len(u) = b - (a + n) /\ \A j \in 1..(b - (a + n)) : u[j] = (a + n) + j - 1
  BY <1>0, SpanIsSeq
<1>3. \A i \in (n + 1)..(b - a) : s[i] \in Nat
  BY <1>1
<1> HIDE DEF s, u
<1>4. /\ t \in Seq(Nat) /\ Len(t) = IF n + 1 <= b - a THEN (b - a) - (n + 1) + 1 ELSE 0
      /\ \A i \in 1..((b - a) - (n + 1) + 1) : t[i] = s[(n + 1) + i - 1]
  BY <1>3, SubSeqProperties
<1> HIDE DEF t
<1>5. Len(u) = Len(t)
  BY <1>2, <1>4
<1>6. ASSUME NEW i \in 1..Len(u) PROVE u[i] = t[i]
  BY <1>1, <1>2, <1>4
<1>7. u = t
  BY <1>2, <1>4, <1>5, <1>6, SeqEqual
<1> QED BY <1>7 DEF s, t, u

\* Cells that hold their bytes hold the span.
LEMMA CellsAreSpan ==
    ASSUME NEW f \in Nat, NEW r \in Nat, NEW n \in Nat, NEW cells,
           \A i \in f..(r + n - 1) : cells[GetIndex(i)] = i
    PROVE  \A j \in 1..(r - f) : cells[GetIndex(f + j - 1)] = f + j - 1
<1> TAKE j \in 1..(r - f)
<1>1. f + j - 1 \in f..(r + n - 1)
  OBVIOUS
<1> QED BY <1>1

\* What the ring holds is the span from front to rear, before and after a step.
Content == [j \in 1..(rear - front) |-> buffer[GetIndex(front + j - 1)]]

LEMMA ContentIsSpan ==
    ASSUME RInv
    PROVE  front \in Nat /\ rear \in Nat /\ front <= rear /\ Content = Span(front, rear)
<1>1. front \in Nat /\ rear \in Nat /\ transferred \in Nat /\ front <= rear
  BY DEF RInv, TypeOK, SpanInv
<1>2. \A i \in front..(rear + transferred - 1) : buffer[GetIndex(i)] = i
  BY DEF RInv, CellInv
<1>3. \A j \in 1..(rear - front) : buffer[GetIndex(front + j - 1)] = front + j - 1
  BY <1>1, <1>2, CellsAreSpan
<1> QED BY <1>1, <1>3 DEF Content, Span

LEMMA ContentIsSpanNext ==
    ASSUME RInv'
    PROVE  front' \in Nat /\ rear' \in Nat /\ front' <= rear' /\ Content' = Span(front', rear')
<1>1. front' \in Nat /\ rear' \in Nat /\ transferred' \in Nat /\ front' <= rear'
  BY DEF RInv, TypeOK, SpanInv
<1>2. \A i \in front'..(rear' + transferred' - 1) : buffer'[GetIndex(i)] = i
  BY DEF RInv, CellInv, GetIndex
<1>0. \A f, r, n \in Nat : \A cells : (\A i \in f..(r + n - 1) : cells[GetIndex(i)] = i)
        => \A j \in 1..(r - f) : cells[GetIndex(f + j - 1)] = f + j - 1
  BY CellsAreSpan
<1>3. \A j \in 1..(rear' - front') : buffer'[GetIndex(front' + j - 1)] = front' + j - 1
  <2> DEFINE f == front'  r == rear'  n == transferred'  cells == buffer'
  <2>1. f \in Nat /\ r \in Nat /\ n \in Nat /\ \A i \in f..(r + n - 1) : cells[GetIndex(i)] = i
    BY <1>1, <1>2
  <2> HIDE DEF f, r, n, cells
  <2>2. \A j \in 1..(r - f) : cells[GetIndex(f + j - 1)] = f + j - 1
    BY <1>0, <2>1
  <2> QED BY <2>2 DEF f, r, n, cells
<1> QED BY <1>1, <1>3 DEF Content, Span, GetIndex

\* What a step does to the two positions: the worker's MoveRear adds what has
\* arrived, a handler takes bytes from the front.
LEMMA PositionsMove ==
    ASSUME Paced, RInv, [Next]_vars
    PROVE  \/ UNCHANGED <<front, rear>>
           \/ UNCHANGED front /\ rear' > rear
           \/ UNCHANGED rear /\ \E n \in 1..(rear - front) : front' = front + n
<1>0. /\ front \in Nat /\ rear \in Nat /\ front <= rear /\ Size = rear - front /\ transferred \in Nat
      /\ Header \in Nat /\ Header >= 1 /\ Payload \in Nat /\ TypeOK
  BY Numbers DEF RInv
<1>1. CASE RecvNotIncrease \/ Deliver \/ Cancelled \/ Dispatch \/ OnRecv \/ \E g \in Groups : HandleRecv(g)
  BY <1>1 DEF RecvNotIncrease, RegionFirst, RegionCompare, RegionSecond, PostRecv, Deliver,
              Cancelled, Dispatch, OnRecv, HandleRecv, ringVars
<1>2. CASE MoveRear
  <2>1. transferred > 0 /\ front' = front /\ rear' = rear + transferred
    BY <1>2, StepFacts DEF MoveRear, StepInv
  <2> QED BY <1>0, <2>1
<1>3. ASSUME NEW h \in Handlers, Look(h), front' # front
      PROVE  UNCHANGED rear /\ \E n \in 1..(rear - front) : front' = front + n
  <2>1. front' = front + Header /\ rear' = rear /\ Size >= Header
    BY <1>3 DEF Look, LookEnd, LookHeader, LookSum, LookTake, Dequeue, ringVars
  <2> QED BY <1>0, <2>1
<1>4. ASSUME NEW h \in Handlers, Pop(h), front' # front
      PROVE  UNCHANGED rear /\ \E n \in 1..(rear - front) : front' = front + n
  <2>1. PICK n \in 1..left[h] : front' = front + n /\ ~(Size < n)
    BY <1>4 DEF Pop, Dequeue
  <2>2. n \in 1..(rear - front) /\ rear' = rear
    BY <1>0, <1>4, <2>1 DEF Pop, TypeOK
  <2> QED BY <2>1, <2>2
<1>5. ASSUME NEW h \in Handlers, Look(h) \/ Pop(h) PROVE UNCHANGED rear
  BY <1>5 DEF Look, LookEnd, LookHeader, LookSum, LookTake, Pop, ringVars
<1>6. ASSUME NEW h \in Handlers, Return(h) PROVE UNCHANGED <<front, rear>>
  BY <1>6 DEF Return, ringVars
<1>7. ASSUME NEW h \in Handlers, RecvHandler(h)
      PROVE  \/ UNCHANGED <<front, rear>>
             \/ UNCHANGED rear /\ \E n \in 1..(rear - front) : front' = front + n
  BY <1>3, <1>4, <1>5, <1>6, <1>7 DEF RecvHandler
<1>8. CASE UNCHANGED vars
  BY <1>8 DEF vars, ringVars
<1> QED BY <1>1, <1>2, <1>7, <1>8 DEF Next

\* Every step is a step of the stream: bytes arrive, bytes are handled, or
\* nothing is to be seen.
LEMMA StepIsStreamStep ==
    ASSUME Paced, RInv, RInv', [Next]_vars
    PROVE  [Stream!Arrive \/ Stream!Handle]_(Stream!streamVars)
<1>1. front \in Nat /\ rear \in Nat /\ front <= rear /\ Content = Span(front, rear)
  BY ContentIsSpan
<1>2. front' \in Nat /\ rear' \in Nat /\ front' <= rear' /\ Content' = Span(front', rear')
  BY ContentIsSpanNext
<1>3. CASE UNCHANGED <<front, rear>>
  <2>1. Content' = Content
    BY <1>1, <1>2, <1>3
  <2> QED BY <1>3, <2>1 DEF Stream!streamVars, Content
<1>4. CASE UNCHANGED front /\ rear' > rear
  <2>1. Content' = Content \o Span(rear, rear')
    <3>1. rear \in Nat /\ rear <= rear'
      BY <1>1, <1>2, <1>4
    <3>2. Span(front, rear') = Span(front, rear) \o Span(rear, rear')
      BY <1>1, <1>2, <3>1, SpanConcat
    <3> QED BY <1>1, <1>2, <1>4, <3>2
  <2> QED BY <1>4, <2>1 DEF Stream!Arrive, Content, Span
<1>5. CASE UNCHANGED rear /\ \E n \in 1..(rear - front) : front' = front + n
  <2>1. PICK n \in 1..(rear - front) : front' = front + n
    BY <1>5
  <2>2. Len(Content) = rear - front
    BY <1>1, SpanIsSeq
  <2>3. Content' = SubSeq(Content, n + 1, Len(Content))
    <3>1. n \in Nat /\ front + n <= rear
      BY <1>1
    <3>2. Span(front + n, rear) = SubSeq(Span(front, rear), n + 1, rear - front)
      BY <1>1, <3>1, SpanRest
    <3> QED BY <1>1, <1>2, <1>5, <2>1, <2>2, <3>2
  <2>4. \E k \in 1..Len(Content) : Content' = SubSeq(Content, k + 1, Len(Content))
    BY <2>2, <2>3
  <2> QED BY <1>5, <2>4 DEF Stream!Handle, Content
<1> QED BY <1>3, <1>4, <1>5, PositionsMove

\* The ring implements the byte stream its callers rely on: the bytes are
\* handled in the order they were sent, none missing and none invented.
THEOREM RecvRefinesStream == Paced => (Spec => ImplementsStream)
<1> SUFFICES ASSUME Paced PROVE Spec => ImplementsStream
  OBVIOUS
<1>1. Init => Stream!StreamInit
  <2> SUFFICES ASSUME Init PROVE Stream!StreamInit
    OBVIOUS
  <2>1. front = 0 /\ rear = 0
    BY DEF Init
  <2>2. [j \in 1..(rear - front) |-> buffer[GetIndex(front + j - 1)]] = << >>
    BY <2>1
  <2> QED BY <2>1, <2>2 DEF Stream!StreamInit
<1>2. RInv /\ RInv' /\ [Next]_vars => [Stream!Arrive \/ Stream!Handle]_(Stream!streamVars)
  BY StepIsStreamStep
<1>3. Spec => []RInv
  BY RecvInvariance
<1> QED BY <1>1, <1>2, <1>3, PTL DEF Spec, ImplementsStream, Stream!Spec
----------------------------------------------------------------------------
\* Without pacing: whatever the client sends and wherever content moves the
\* session, also with bytes lost to the race of the regions, a handler inside a
\* packet is the only one, and its bytes are there.
FloodStep ==
    /\ \A h \in Handlers : pc[h] # "crashed"
    /\ step = "handler" <=> pc[Base] # "idle"
    /\ step = "idle" <=> io # "none"
    /\ io = "done" <=> transferred > 0

FloodSpan ==
    /\ front <= rear /\ rear + transferred <= MaxBytes
    /\ Unhandled <= BufferSize - 1

\* The regions are never larger than what is free.
FloodRegion ==
    /\ step \in {"compare", "second"} => len[1] <= Free
    /\ step = "compare" => len[2] = 0
    /\ step = "post" \/ io = "posted" => len[1] + len[2] <= Free

FloodPop == \A h \in Handlers : pc[h] = "pop" => groupId = h /\ left[h] <= rear - front

FInv == TypeOK /\ PeekHasBytes /\ FloodStep /\ FloodSpan /\ FloodRegion /\ FloodPop

\* What FInv says of the numbers.
LEMMA FloodNumbers ==
    ASSUME FInv
    PROVE  /\ front \in Nat /\ rear \in Nat /\ transferred \in Nat
           /\ BufferSize \in Nat /\ BufferSize >= 2 /\ MaxBytes \in Nat
           /\ Header \in Nat /\ Payload \in Nat /\ Header >= 1 /\ Payload >= 1
           /\ PacketSize = Header + Payload
           /\ front <= rear /\ rear - front <= BufferSize - 1
           /\ Unhandled \in Nat /\ Free \in 0..BufferSize
           /\ len[1] \in 0..BufferSize /\ len[2] \in 0..BufferSize
           /\ Size = rear - front /\ FreeSize = Free
           /\ DirectEnqueueSize \in 0..BufferSize /\ DirectEnqueueSize <= Free
<1>1. /\ front \in Nat /\ rear \in Nat /\ transferred \in Nat
      /\ front <= rear /\ Unhandled <= BufferSize - 1
      /\ len[1] \in 0..BufferSize /\ len[2] \in 0..BufferSize
  BY RingAssumption DEF FInv, TypeOK, FloodSpan
<1>2. /\ BufferSize \in Nat /\ BufferSize >= 2 /\ MaxBytes \in Nat
      /\ Header \in Nat /\ Payload \in Nat /\ Header >= 1 /\ Payload >= 1
  BY RingAssumption
<1>3. rear - front <= BufferSize - 1 /\ Unhandled \in Nat
  BY <1>1, <1>2 DEF Unhandled
<1>4. Free \in 0..BufferSize
  BY <1>1, <1>2, <1>3 DEF Free
<1>5. /\ Size = rear - front /\ FreeSize = Free /\ ToEnd \in 1..BufferSize
      /\ DirectEnqueueSize = IF ToEnd <= Free THEN ToEnd ELSE Free
  BY <1>1, <1>3, Sizes
<1> QED BY <1>1, <1>2, <1>3, <1>4, <1>5 DEF PacketSize

\* The worker's steps between the handler and the posted receive.
LEMMA FloodWorker ==
    ASSUME FInv, RecvNotIncrease \/ Cancelled
    PROVE  FInv'
<1>0. TypeOK /\ FloodStep /\ Base \in Handlers
  BY DEF FInv, Handlers
<1>1. /\ UNCHANGED <<ringVars, transferred, pc, left, sessionVars>>
      /\ step \in {"regions", "compare", "second", "post"} \/ (io = "posted" /\ step = "idle")
  BY <1>0 DEF RecvNotIncrease, RegionFirst, RegionCompare, RegionSecond, PostRecv, Cancelled,
              FloodStep
<1>2. Unhandled' = Unhandled /\ Free' = Free
  BY <1>1 DEF Unhandled, Free, ringVars
<1>3. FloodSpan' /\ FloodPop'
  BY <1>1, <1>2 DEF FInv, FloodSpan, FloodPop, Handlers, Base, ringVars, sessionVars
<1>4. PeekHasBytes'
  <2>1. broken' = broken \/ broken' = broken \cup {"RecvBuffer is 0"}
    BY DEF RecvNotIncrease, RegionFirst, RegionCompare, RegionSecond, PostRecv, Cancelled
  <2>2. "Peek" # "RecvBuffer is 0"
    OBVIOUS
  <2> QED BY <2>1, <2>2 DEF FInv, PeekHasBytes
<1>5. /\ step' \in {"compare", "second", "post", "idle", "released", "crashed"}
      /\ step' = "idle" <=> io' # "none"
      /\ io' \in {"none", "posted"}
  BY <1>0 DEF RecvNotIncrease, RegionFirst, RegionCompare, RegionSecond, PostRecv, Cancelled,
              FloodStep, TypeOK
<1>6. FloodStep'
  <2>1. transferred = 0 /\ pc[Base] = "idle"
    BY <1>0, <1>1, RingAssumption DEF FloodStep, TypeOK
  <2> QED BY <1>0, <1>1, <1>5, <2>1 DEF FloodStep, Handlers, Base
<1>7. /\ len' \in (0..BufferSize) \X (0..BufferSize)
      /\ step' \in {"compare", "second"} => len'[1] <= Free
      /\ step' = "compare" => len'[2] = 0
      /\ step' = "post" \/ io' = "posted" => len'[1] + len'[2] <= Free
  <2>n. /\ Free \in 0..BufferSize /\ FreeSize = Free /\ BufferSize \in Nat
        /\ len[1] \in 0..BufferSize /\ len[2] \in 0..BufferSize
        /\ DirectEnqueueSize \in 0..BufferSize /\ DirectEnqueueSize <= Free
    BY FloodNumbers
  <2>r. FloodRegion
    BY DEF FInv
  <2>1. CASE RegionFirst
    BY <1>0, <2>n, <2>1 DEF RegionFirst, TypeOK, FloodStep
  <2>2. CASE RegionCompare
    BY <1>0, <2>n, <2>r, <2>2 DEF RegionCompare, TypeOK, FloodStep, FloodRegion
  <2>3. CASE RegionSecond
    <3>1. len' = [len EXCEPT ![2] = Free - len[1]] /\ len[1] <= Free /\ step' = "post"
      BY <2>n, <2>r, <2>3 DEF RegionSecond, FloodRegion
    <3>2. len'[1] = len[1] /\ len'[2] = Free - len[1]
          /\ len' \in (0..BufferSize) \X (0..BufferSize)
      BY <1>0, <2>n, <3>1 DEF TypeOK
    <3> QED BY <2>n, <3>1, <3>2
  <2>4. CASE PostRecv
    BY <1>0, <2>n, <2>r, <2>4 DEF PostRecv, TypeOK, FloodRegion
  <2>5. CASE Cancelled
    BY <1>0, <2>5 DEF Cancelled, TypeOK
  <2> QED BY <2>1, <2>2, <2>3, <2>4, <2>5 DEF RecvNotIncrease
<1>8. FloodRegion'
  BY <1>2, <1>7 DEF FloodRegion
<1>9. TypeOK'
  BY <1>0, <1>1, <1>5, <1>7 DEF TypeOK, ringVars, sessionVars
<1> QED BY <1>3, <1>4, <1>6, <1>8, <1>9 DEF FInv

\* The kernel writes no more than what is free.
LEMMA FloodDeliver ==
    ASSUME FInv, Deliver
    PROVE  FInv'
<1>0. /\ io = "posted" /\ io' = "done"
      /\ UNCHANGED <<front, rear, len, step, pc, left, sessionVars, broken>>
      /\ TypeOK /\ FloodStep
  BY DEF Deliver, FInv
<1>1. PICK n \in 1..(len[1] + len[2]) :
        /\ rear + n <= MaxBytes
        /\ buffer' = [i \in Cells |->
               IF i >= GetIndex(rear) /\ i - GetIndex(rear) < n /\ i - GetIndex(rear) < len[1]
               THEN rear + i - GetIndex(rear)
               ELSE IF i < n - len[1] THEN rear + len[1] + i ELSE buffer[i]]
        /\ transferred' = n
  BY DEF Deliver
<1> DEFINE r == GetIndex(rear)  l == len[1]
<1>n. /\ front \in Nat /\ rear \in Nat /\ BufferSize \in Nat /\ MaxBytes \in Nat
      /\ l \in Nat /\ len[2] \in Nat /\ Free \in Nat /\ front <= rear
      /\ Free = BufferSize - 1 - (rear - front)
  BY FloodNumbers DEF Free
<1>r. r \in 0..(BufferSize - 1)
  BY <1>n, IndexDiv DEF Cells
<1>2. n \in Nat /\ n >= 1 /\ n <= Free
  BY <1>0, <1>n DEF FInv, FloodRegion
<1>3. buffer' \in [Cells -> -1..(MaxBytes - 1)]
  <2>1. ASSUME NEW i \in Cells
        PROVE  (IF i >= r /\ i - r < n /\ i - r < l
                THEN rear + i - r
                ELSE IF i < n - l THEN rear + l + i ELSE buffer[i]) \in -1..(MaxBytes - 1)
    <3>1. i \in Nat /\ buffer[i] \in -1..(MaxBytes - 1)
      BY <1>0, <1>n DEF TypeOK, Cells
    <3> HIDE DEF r, l
    <3> QED BY <1>1, <1>2, <1>n, <1>r, <3>1
  <2> QED BY <1>1, <2>1
<1>4. TypeOK'
  <2>1. transferred' \in 0..BufferSize
    BY <1>1, <1>2, <1>n
  <2> QED BY <1>0, <1>3, <2>1 DEF TypeOK, sessionVars
<1>5. FloodStep' /\ PeekHasBytes'
  BY <1>0, <1>1, <1>2 DEF FInv, FloodStep, PeekHasBytes, Handlers, Base
<1>6. FloodSpan'
  BY <1>0, <1>1, <1>2, <1>n DEF FloodSpan, Unhandled
<1>7. FloodRegion'
  BY <1>0 DEF FInv, FloodStep, FloodRegion
<1>8. FloodPop'
  BY <1>0 DEF FInv, FloodPop, Handlers, Base, sessionVars
<1> QED BY <1>4, <1>5, <1>6, <1>7, <1>8 DEF FInv

\* MoveRear and the choice of who handles the bytes.
LEMMA FloodDispatch ==
    ASSUME FInv, MoveRear \/ Dispatch \/ OnRecv
    PROVE  FInv'
<1>0. /\ TypeOK /\ FloodStep /\ Base \in Handlers
      /\ UNCHANGED <<front, buffer, left, groupId, connect, moves, kind, decoded, broken>>
      /\ pc[Base] = "idle"
  BY DEF FInv, MoveRear, Dispatch, OnRecv, FloodStep, Handlers, ringVars, sessionVars
<1>n. /\ front \in Nat /\ rear \in Nat /\ transferred \in Nat /\ MaxBytes \in Nat
      /\ BufferSize \in Nat /\ front <= rear /\ 0 \in 0..BufferSize
      /\ rear + transferred <= MaxBytes
  BY FloodNumbers DEF FInv, FloodSpan
<1>1. /\ rear' \in 0..MaxBytes /\ transferred' \in 0..BufferSize
      /\ rear' = rear + transferred
      /\ len' \in (0..BufferSize) \X (0..BufferSize)
      /\ step' \in {"dispatch", "onRecv", "handler", "regions"}
      /\ io' = "none" /\ transferred' = 0
  <2>1. CASE MoveRear
    BY <1>0, <1>n, <2>1 DEF MoveRear, TypeOK
  <2>2. CASE Dispatch \/ OnRecv
    <3>1. io = "none" /\ transferred = 0
      BY <1>0, <1>n, <2>2 DEF Dispatch, OnRecv, FloodStep, TypeOK
    <3> QED BY <1>0, <1>n, <2>2, <3>1 DEF Dispatch, OnRecv, TypeOK, ringVars
  <2> QED BY <2>1, <2>2
<1>2. /\ pc' \in [Handlers -> {"idle", "look", "pop", "crashed"}]
      /\ \A h \in Handlers : pc'[h] # "crashed" /\ (pc'[h] = "pop" => pc[h] = "pop")
      /\ step' = "handler" <=> pc'[Base] # "idle"
  BY <1>0 DEF MoveRear, Dispatch, OnRecv, TypeOK, FloodStep
<1>3. isHandled' \in BOOLEAN
  BY <1>0 DEF MoveRear, Dispatch, OnRecv, TypeOK, sessionVars
<1>4. jobs' \in [Groups -> Nat]
  BY <1>0 DEF MoveRear, Dispatch, OnRecv, TypeOK, sessionVars, Handlers
<1>5. TypeOK'
  BY <1>0, <1>1, <1>2, <1>3, <1>4 DEF TypeOK
<1>6. FloodStep' /\ PeekHasBytes'
  BY <1>0, <1>1, <1>2 DEF FInv, FloodStep, PeekHasBytes, Handlers, Base
<1>7. FloodSpan'
  <2>0. front' = front /\ rear' = rear + transferred /\ transferred' = 0
    BY <1>0, <1>1
  <2>1. front' <= rear' /\ rear' + transferred' <= MaxBytes
    BY <1>n, <2>0
  <2>2. Unhandled' = Unhandled
    BY <1>n, <2>0 DEF Unhandled
  <2> QED BY <2>1, <2>2 DEF FInv, FloodSpan
<1>8. FloodRegion'
  BY <1>1 DEF FloodRegion
<1>9. FloodPop'
  <2>1. \A h \in Handlers : left[h] \in Nat
    BY <1>0, RingAssumption DEF TypeOK
  <2> QED BY <1>0, <1>1, <1>2, <1>n, <2>1 DEF FInv, FloodPop, Handlers, Base
<1> QED BY <1>5, <1>6, <1>7, <1>8, <1>9 DEF FInv

\* A handler begins, or ends outside of a packet.
LEMMA FloodTurn ==
    ASSUME FInv, NEW h \in Handlers, pc[h] # "pop",
           UNCHANGED <<ringVars, io, len, transferred, left, groupId, moves, kind, broken>>,
           \/ pc' = [pc EXCEPT ![h] = "look"] /\ pc[h] = "idle" /\ h # Base /\ step' = step
           \/ pc[h] = "look" /\ Leave(h),
           isHandled' \in BOOLEAN, connect' \in BOOLEAN, decoded' \in BOOLEAN,
           jobs' \in [Groups -> Nat]
    PROVE  FInv'
<1>0. TypeOK /\ FloodStep /\ Base \in Handlers
  BY DEF FInv, Handlers
<1>1. /\ pc' \in [Handlers -> {"idle", "look", "pop", "crashed"}]
      /\ pc'[h] \in {"idle", "look"} /\ \A g \in Handlers : g # h => pc'[g] = pc[g]
      /\ step' = step \/ (step = "handler" /\ step' = "regions")
      /\ step' = "handler" <=> pc'[Base] # "idle"
  BY <1>0 DEF TypeOK, Leave, FloodStep
<1>2. TypeOK'
  BY <1>0, <1>1 DEF TypeOK, ringVars
<1>3. FloodStep' /\ PeekHasBytes'
  BY <1>0, <1>1 DEF FInv, FloodStep, PeekHasBytes, Handlers, Base
<1>4. Unhandled' = Unhandled /\ Free' = Free
  BY DEF Unhandled, Free, ringVars
<1>5. FloodSpan' /\ FloodRegion'
  BY <1>1, <1>4 DEF FInv, FloodSpan, FloodRegion, ringVars
<1>6. FloodPop'
  BY <1>1 DEF FInv, FloodPop, Handlers, Base, ringVars
<1> QED BY <1>2, <1>3, <1>5, <1>6 DEF FInv

\* A handler that has the session takes n bytes that are there.
LEMMA FloodTakes ==
    ASSUME FInv, NEW h \in Handlers, groupId = h, pc[h] \in {"look", "pop"},
           NEW n \in Nat, n <= rear - front, front' = front + n,
           pc' = [pc EXCEPT ![h] = "pop"],
           NEW m \in 0..Payload, left' = [left EXCEPT ![h] = m], m <= rear - (front + n),
           decoded' \in BOOLEAN,
           UNCHANGED <<rear, buffer, ioVars, groupId, isHandled, jobs, connect, moves, kind, broken>>
    PROVE  FInv'
<1>0. TypeOK /\ FloodStep /\ Base \in Handlers
  BY DEF FInv, Handlers
<1>n. /\ front \in Nat /\ rear \in Nat /\ transferred \in Nat /\ MaxBytes \in Nat
      /\ BufferSize \in Nat /\ front <= rear /\ Free \in Nat /\ Unhandled \in Nat
      /\ len[1] \in Nat /\ len[2] \in Nat /\ rear <= MaxBytes
  BY <1>0, FloodNumbers DEF TypeOK
<1>1. /\ pc' \in [Handlers -> {"idle", "look", "pop", "crashed"}]
      /\ left' \in [Handlers -> 0..Payload] /\ left'[h] = m
      /\ pc'[h] = "pop" /\ \A g \in Handlers : g # h => pc'[g] = pc[g] /\ left'[g] = left[g]
  BY <1>0 DEF TypeOK
<1>2. TypeOK'
  <2>1. front' \in 0..MaxBytes
    BY <1>n
  <2> QED BY <1>0, <1>1, <2>1 DEF TypeOK, ioVars
<1>3. FloodStep' /\ PeekHasBytes'
  <2>1. \A g \in Handlers : pc'[g] # "crashed" /\ (pc'[g] = "idle" <=> pc[g] = "idle")
    BY <1>0, <1>1 DEF FloodStep
  <2> QED BY <1>0, <2>1 DEF FInv, FloodStep, PeekHasBytes, Handlers, Base, ioVars
<1>4. Unhandled' = Unhandled - n /\ Free' = Free + n
  BY <1>n DEF Unhandled, Free, ioVars
<1>5. FloodSpan'
  BY <1>4, <1>n DEF FInv, FloodSpan, ioVars
<1>6. FloodRegion'
  BY <1>4, <1>n DEF FInv, FloodRegion, ioVars
<1>7. FloodPop'
  <2>1. \A g \in Handlers : g # h => pc[g] # "pop"
    BY DEF FInv, FloodPop
  <2> QED BY <1>1, <2>1 DEF FloodPop, Handlers, Base
<1> QED BY <1>2, <1>3, <1>5, <1>6, <1>7 DEF FInv

\* RecvHandler, of the worker or of a group.
LEMMA FloodHandler ==
    ASSUME FInv, NEW h \in Handlers, RecvHandler(h)
    PROVE  FInv'
<1>0. TypeOK /\ FloodStep
  BY DEF FInv
<1>n. /\ Size = rear - front /\ front \in Nat /\ rear \in Nat /\ Header \in Nat /\ Payload \in Nat
      /\ PacketSize = Header + Payload
  BY FloodNumbers
<1>1. CASE LookEnd(h) \/ LookHeader(h) \/ LookSum(h)
  <2>1. /\ pc[h] = "look" /\ Leave(h)
        /\ UNCHANGED <<ringVars, io, len, transferred, left, groupId, isHandled, jobs, moves, kind,
                       broken>>
    BY <1>1 DEF LookEnd, LookHeader, LookSum, sessionVars
  <2>2. connect' \in BOOLEAN
    BY <1>0, <1>1 DEF LookEnd, LookHeader, LookSum, sessionVars, TypeOK
  <2>3. decoded' \in BOOLEAN
    BY <1>0, <1>1 DEF LookEnd, LookHeader, LookSum, sessionVars, TypeOK
  <2>4. isHandled' \in BOOLEAN /\ jobs' \in [Groups -> Nat]
    BY <1>0, <2>1 DEF TypeOK
  <2> QED BY <2>1, <2>2, <2>3, <2>4, FloodTurn
<1>2. CASE LookTake(h)
  <2>1. /\ pc[h] = "look" /\ groupId = h /\ Size >= PacketSize
        /\ front' = front + Header /\ left' = [left EXCEPT ![h] = Payload]
        /\ pc' = [pc EXCEPT ![h] = "pop"] /\ decoded' = FALSE
        /\ UNCHANGED <<rear, buffer, ioVars, groupId, isHandled, jobs, connect, moves, kind, broken>>
    BY <1>2 DEF LookTake, Mine, Complete, Dequeue
  <2>2. Header <= rear - front /\ Payload \in 0..Payload /\ Payload <= rear - (front + Header)
    BY <1>n, <2>1
  <2>3. decoded' \in BOOLEAN
    BY <2>1
  <2> QED BY <1>n, <2>1, <2>2, <2>3, FloodTakes
<1>3. CASE Pop(h)
  <2>0. pc[h] = "pop" /\ UNCHANGED <<rear, buffer, ioVars, sessionVars>>
    BY <1>3 DEF Pop
  <2>1. groupId = h /\ left[h] <= rear - front /\ left[h] \in 0..Payload
    BY <1>0, <2>0 DEF FInv, FloodPop, TypeOK
  <2>2. PICK n \in 1..left[h] :
          IF Size < n
          THEN /\ broken' = broken \cup {"Peek"}
               /\ pc' = [pc EXCEPT ![h] = "crashed"]
               /\ UNCHANGED <<front, left>>
          ELSE /\ Dequeue(n)
               /\ left' = [left EXCEPT ![h] = @ - n]
               /\ UNCHANGED <<pc, broken>>
    BY <1>3 DEF Pop
  <2>3. n \in Nat /\ n <= rear - front /\ ~(Size < n) /\ left[h] - n \in 0..Payload
        /\ left[h] - n <= rear - (front + n)
    BY <1>n, <2>1
  <2>4. front' = front + n /\ left' = [left EXCEPT ![h] = left[h] - n] /\ UNCHANGED <<pc, broken>>
    BY <2>2, <2>3 DEF Dequeue
  <2>5. pc' = [pc EXCEPT ![h] = "pop"]
    BY <1>0, <2>0, <2>4 DEF TypeOK
  <2>6. decoded' \in BOOLEAN
    BY <1>0, <2>0 DEF TypeOK, sessionVars
  <2>7. UNCHANGED <<rear, buffer, ioVars, groupId, isHandled, jobs, connect, moves, kind, broken>>
    BY <2>0, <2>4 DEF sessionVars
  <2> QED BY <2>0, <2>1, <2>3, <2>4, <2>5, <2>6, <2>7, FloodTakes
<1>4. CASE Return(h)
  <2>0. /\ pc[h] = "pop" /\ pc' = [pc EXCEPT ![h] = "look"]
        /\ UNCHANGED <<ringVars, ioVars, left, isHandled, jobs, connect, kind, decoded, broken>>
        /\ groupId' \in Handlers /\ moves' \in 0..MaxMove
    BY <1>0, <1>4, RingAssumption DEF Return, TypeOK
  <2>1. /\ pc' \in [Handlers -> {"idle", "look", "pop", "crashed"}]
        /\ pc'[h] = "look" /\ \A g \in Handlers : g # h => pc'[g] = pc[g]
    BY <1>0, <2>0 DEF TypeOK
  <2>2. \A g \in Handlers : g # h => pc[g] # "pop"
    BY <2>0 DEF FInv, FloodPop
  <2>3. TypeOK'
    BY <1>0, <2>0, <2>1 DEF TypeOK, ringVars, ioVars
  <2>4. FloodStep' /\ PeekHasBytes'
    BY <1>0, <2>0, <2>1 DEF FInv, FloodStep, PeekHasBytes, Handlers, Base, ioVars
  <2>5. Unhandled' = Unhandled /\ Free' = Free
    BY <2>0 DEF Unhandled, Free, ringVars, ioVars
  <2>6. FloodSpan' /\ FloodRegion'
    BY <2>0, <2>5 DEF FInv, FloodSpan, FloodRegion, ringVars, ioVars
  <2>7. FloodPop'
    BY <2>1, <2>2 DEF FloodPop, Handlers, Base
  <2> QED BY <2>3, <2>4, <2>6, <2>7 DEF FInv
<1> QED BY <1>1, <1>2, <1>3, <1>4 DEF RecvHandler, Look

\* The invariant of a client that is not paced.
THEOREM FloodInvariance == Spec => []FInv
<1>1. Init => FInv
  <2> SUFFICES ASSUME Init PROVE FInv
    OBVIOUS
  <2>0. /\ BufferSize \in Nat /\ BufferSize >= 2 /\ MaxBytes \in Nat /\ Payload \in Nat
        /\ MaxMove \in Nat /\ Base \in Handlers
    BY RingAssumption DEF Handlers
  <2>1. buffer \in [Cells -> -1..(MaxBytes - 1)]
    BY <2>0 DEF Init
  <2>2. pc \in [Handlers -> {"idle", "look", "pop", "crashed"}] /\ left \in [Handlers -> 0..Payload]
        /\ jobs \in [Groups -> Nat]
    BY <2>0 DEF Init
  <2>3. len \in (0..BufferSize) \X (0..BufferSize)
    BY <2>0 DEF Init
  <2>4. isHandled \in BOOLEAN /\ connect \in BOOLEAN /\ decoded \in BOOLEAN
    BY DEF Init
  <2>5. TypeOK
    BY <2>0, <2>1, <2>2, <2>3, <2>4 DEF Init, TypeOK
  <2>6. FloodStep /\ PeekHasBytes /\ FloodPop
    BY DEF Init, FloodStep, PeekHasBytes, FloodPop, Handlers
  <2>7. FloodSpan /\ FloodRegion
    BY <2>0 DEF Init, FloodSpan, FloodRegion, Unhandled
  <2> QED BY <2>5, <2>6, <2>7 DEF FInv
<1>2. FInv /\ [Next]_vars => FInv'
  <2> SUFFICES ASSUME FInv, [Next]_vars PROVE FInv'
    OBVIOUS
  <2>1. ASSUME NEW g \in Groups, HandleRecv(g) PROVE FInv'
    <3>0. TypeOK /\ g \in Handlers /\ g # Base
      BY RingAssumption DEF FInv, Handlers, Base
    <3>1. /\ pc[g] = "idle" /\ pc' = [pc EXCEPT ![g] = "look"] /\ step' = step
          /\ UNCHANGED <<ringVars, io, len, transferred, left, groupId, moves, kind, broken>>
      BY <2>1 DEF HandleRecv, ioVars
    <3>2. jobs' \in [Groups -> Nat]
      BY <2>1, <3>0 DEF HandleRecv, TypeOK
    <3>3. isHandled' \in BOOLEAN
      BY <2>1 DEF HandleRecv
    <3>4. connect' \in BOOLEAN /\ decoded' \in BOOLEAN
      BY <2>1, <3>0 DEF HandleRecv, TypeOK
    <3> QED BY <3>0, <3>1, <3>2, <3>3, <3>4, FloodTurn
  <2>2. ASSUME NEW h \in Handlers, RecvHandler(h) PROVE FInv'
    BY <2>2, FloodHandler
  <2>3. CASE UNCHANGED vars
    <3>1. UNCHANGED <<ringVars, ioVars, pc, left, sessionVars, broken>>
      BY <2>3 DEF vars
    <3>2. TypeOK' /\ PeekHasBytes' /\ FloodStep'
      BY <3>1 DEF FInv, TypeOK, PeekHasBytes, FloodStep, ringVars, ioVars, sessionVars
    <3>3. FloodSpan' /\ FloodRegion' /\ FloodPop'
      BY <3>1 DEF FInv, FloodSpan, FloodRegion, FloodPop, Unhandled, Free, ringVars, ioVars,
                  sessionVars
    <3> QED BY <3>2, <3>3 DEF FInv
  <2> QED BY <2>1, <2>2, <2>3, FloodWorker, FloodDeliver, FloodDispatch DEF Next
<1> QED BY <1>1, <1>2, PTL DEF Spec

\* The bytes a handler has seen are there until it pops them: Peek never throws,
\* for any client, any size of ring and any moves between the groups.
THEOREM RecvPeekHasBytes == Spec => []PeekHasBytes
<1>1. FInv => PeekHasBytes
  BY DEF FInv
<1> QED BY <1>1, FloodInvariance, PTL

\* The ring has one reader at a time, for any client and any moves.
THEOREM RecvOneReader == Spec => []OneHandler
<1>1. FInv => OneHandler
  <2> SUFFICES ASSUME FInv PROVE OneHandler
    OBVIOUS
  <2> DEFINE P == {h \in Handlers : pc[h] = "pop"}
  <2>1. P \subseteq {groupId}
    BY DEF FInv, FloodPop
  <2>2. P = {} \/ P = {groupId}
    BY <2>1
  <2>3. Cardinality(P) = 0 \/ Cardinality(P) = 1
    BY <2>2, FS_EmptySet, FS_Singleton
  <2> QED BY <2>3 DEF OneHandler
<1> QED BY <1>1, FloodInvariance, PTL
===============================================================================
