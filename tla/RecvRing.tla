------------------------------- MODULE RecvRing -------------------------------
(***************************************************************************)
(* The receive ring of one connection (CRingBuffer, CRecvBuffer) between    *)
(* the kernel, which fills the regions of the posted receive, the worker    *)
(* that computes those regions (Session::RecvNotIncrease), and whoever      *)
(* handles the packets: the worker, or the thread that runs the session's   *)
(* group.                                                                   *)
(*                                                                          *)
(* A byte is named by its position in the stream the client sends, so that  *)
(* _front and _rear are also positions.  They are ints that wrap in the     *)
(* code; BufferSize divides 2^32, so the wrap changes no index.  Decode is  *)
(* part of the step that looks at the packet at the front; it works in      *)
(* place, so a packet that stays in the ring stays there decoded.           *)
(***************************************************************************)
EXTENDS Integers, FiniteSets

CONSTANTS
    Groups,       \* the groups, as positive numbers
    BufferSize,   \* BUFFER_SIZE
    Header,       \* sizeof(Header)
    Payload,      \* header.len of the packets the client sends
    Wrong,        \* the number of the first malformed packet the client sends
    Hops,         \* the moves content makes, as pairs <<src, dst>>
    Window,       \* the bytes a client in a group sends ahead of the handler
    MaxMove,      \* bound: MoveSession calls
    MaxBytes      \* bound: length of the stream

ASSUME RingAssumption ==
    /\ Groups \subseteq Nat \ {0}
    /\ BufferSize \in Nat \ {0, 1}
    /\ Header \in Nat \ {0} /\ Payload \in Nat \ {0}
    /\ Hops \subseteq (Groups \cup {0}) \X (Groups \cup {0})
    /\ Wrong \in Nat
    /\ Window \in Nat /\ MaxMove \in Nat /\ MaxBytes \in Nat

Base == 0                    \* GroupManager::BaseGroupID; also the worker
Handlers == Groups \cup {Base}
PacketSize == Header + Payload
Cells == 0..(BufferSize - 1)

VARIABLES
    front, rear,  \* _front and _rear
    buffer,       \* _buffer: the stream position of each byte, -1 before the first
    io,           \* the receive: "posted", "done" or "none"
    len,          \* its regions: from rear on, and from the start of the buffer
    transferred,  \* bytes of the receive that is done
    step,         \* where the worker is in Execute and RecvNotIncrease
    pc,           \* where each handler is in its RecvHandler
    left,         \* CRecvBuffer::_size: what the callback has not popped yet
    groupId,      \* Session::_groupId
    isHandled,    \* Session::_isHandled
    jobs,         \* Recv jobs queued in each group
    connect,      \* Session::_connect
    decoded,      \* the packet at the front was decoded before and left in the ring
    kind,         \* what is wrong with that packet: its header or its checksum
    broken,       \* history: assertions that failed
    moves         \* counter for the bound

ringVars == <<front, rear, buffer>>
ioVars == <<io, len, transferred, step>>
sessionVars == <<groupId, isHandled, jobs, connect, moves, kind, decoded>>
vars == <<ringVars, ioVars, pc, left, sessionVars, broken>>

----------------------------------------------------------------------------
GetIndex(n) == n % BufferSize

Size == IF GetIndex(rear) >= GetIndex(front)
        THEN GetIndex(rear) - GetIndex(front)
        ELSE BufferSize - (GetIndex(front) - GetIndex(rear))

\* Mutant: a ring that is full may have no cell between rear and front.
FreeSizeAll == BufferSize - Size

\* rear + 1 = front is full: one cell stays empty.
FreeSize == BufferSize - Size - 1

\* Mutant: the cell before front is given away although front is at index 0.
DirectEnqueueToEnd ==
    LET r == GetIndex(rear)
        f == GetIndex(front)
    IN CASE GetIndex(r + 1) = f -> 0
         [] GetIndex(r + 1) # f /\ r < f -> f - r - 1
         [] OTHER -> BufferSize - r

DirectEnqueueSize ==
    LET r == GetIndex(rear)
        f == GetIndex(front)
    IN CASE GetIndex(r + 1) = f -> 0
         [] GetIndex(r + 1) # f /\ r < f -> f - r - 1
         [] r >= f /\ f = 0 -> BufferSize - r - 1
         [] OTHER -> BufferSize - r

DirectDequeueSize ==
    IF GetIndex(rear) >= GetIndex(front) THEN GetIndex(rear) - GetIndex(front)
                                         ELSE BufferSize - GetIndex(front)

\* Peek copies the first n bytes in one part or in two.
Peek(n) == [j \in 0..(n - 1) |->
              IF DirectDequeueSize >= n \/ j < DirectDequeueSize
              THEN buffer[GetIndex(front) + j]
              ELSE buffer[j - DirectDequeueSize]]

Dequeue(n) == front' = front + n

\* What the client put at the front of the stream, if the ring still has it.
Number == front \div PacketSize
GoodHeader ==
    (Number # Wrong \/ kind # "header") /\ \A j \in 0..(Header - 1) : Peek(Header)[j] = front + j
GoodSum ==
    (Number # Wrong \/ kind # "checksum") /\ \A j \in 0..(PacketSize - 1) : Peek(PacketSize)[j] = front + j

\* What ChecksumValid may say after Decode: a packet decoded twice has any sum.
Sums == IF GoodSum THEN {TRUE} ELSE IF decoded THEN BOOLEAN ELSE {FALSE}

Init ==
    /\ front = 0 /\ rear = 0
    /\ buffer = [i \in Cells |-> -1]
    /\ io = "none" /\ len = <<0, 0>> /\ transferred = 0
    /\ step = "regions"
    /\ pc = [h \in Handlers |-> "idle"]
    /\ left = [h \in Handlers |-> 0]
    /\ groupId = Base /\ isHandled = FALSE
    /\ jobs = [g \in Groups |-> 0]
    /\ connect = TRUE
    /\ kind \in {"header", "checksum"} /\ decoded = FALSE
    /\ broken = {}
    /\ moves = 0

----------------------------------------------------------------------------
\* RecvNotIncrease: GetRear and DirectEnqueueSize ...
RegionFirst ==
    /\ step = "regions"
    /\ IF connect THEN step' = "compare" /\ len' = <<DirectEnqueueSize, 0>>
                  ELSE step' = "released" /\ UNCHANGED len
    /\ UNCHANGED <<ringVars, io, transferred, pc, left, sessionVars, broken>>

\* ... then "FreeSize() > len" ...
RegionCompare ==
    /\ step = "compare"
    /\ step' = IF FreeSize > len[1] THEN "second" ELSE "post"
    /\ UNCHANGED <<ringVars, io, len, transferred, pc, left, sessionVars, broken>>

\* ... then FreeSize once more; front may have moved each time.
RegionSecond ==
    /\ step = "second"
    /\ len' = [len EXCEPT ![2] = FreeSize - len[1]]
    /\ step' = "post"
    /\ UNCHANGED <<ringVars, io, transferred, pc, left, sessionVars, broken>>

\* ASSERT_CRASH(... != 0, "RecvBuffer is 0"), then WSARecv.
PostRecv ==
    /\ step = "post"
    /\ IF len[1] + len[2] = 0
       THEN broken' = broken \cup {"RecvBuffer is 0"} /\ step' = "crashed" /\ UNCHANGED io
       ELSE UNCHANGED broken /\ step' = "idle" /\ io' = "posted"
    /\ UNCHANGED <<ringVars, len, transferred, pc, left, sessionVars>>

RecvNotIncrease == RegionFirst \/ RegionCompare \/ RegionSecond \/ PostRecv

\* The kernel completes the receive with what has arrived, at least a byte.
Deliver ==
    /\ io = "posted" /\ connect
    /\ \E n \in 1..(len[1] + len[2]) :
        /\ rear + n <= MaxBytes
        /\ groupId = Base \/ rear + n - front <= Window
        /\ buffer' = [i \in Cells |->
               IF i >= GetIndex(rear) /\ i - GetIndex(rear) < n /\ i - GetIndex(rear) < len[1]
               THEN rear + i - GetIndex(rear)
               ELSE IF i < n - len[1] THEN rear + len[1] + i ELSE buffer[i]]
        /\ transferred' = n
    /\ io' = "done"
    /\ UNCHANGED <<front, rear, len, step, pc, left, sessionVars, broken>>

\* Close cancels the receive; nothing is transferred.
Cancelled ==
    /\ io = "posted" /\ ~connect
    /\ io' = "none" /\ step' = "released"
    /\ UNCHANGED <<ringVars, len, transferred, pc, left, sessionVars, broken>>

\* RecvExecutable::Execute: MoveRear.
MoveRear ==
    /\ step = "idle" /\ io = "done"
    /\ io' = "none"
    /\ rear' = rear + transferred
    /\ step' = "dispatch"
    /\ len' = <<0, 0>> /\ transferred' = 0
    /\ UNCHANGED <<front, buffer, pc, left, sessionVars, broken>>

\* One Recv job for a session in a group, else the worker's own RecvHandler.
Dispatch ==
    /\ step = "dispatch"
    /\ IF groupId # Base /\ ~isHandled
       THEN /\ isHandled' = TRUE
            /\ step' = "onRecv"
            /\ UNCHANGED pc
       ELSE /\ pc' = [pc EXCEPT ![Base] = "look"]
            /\ step' = "handler"
            /\ UNCHANGED isHandled
    /\ UNCHANGED <<ringVars, io, len, transferred, left, groupId, jobs, connect, moves, kind,
                   decoded, broken>>

\* OnRecv gets the group id that is read once more; without a group the worker
\* stops at a null pointer (see Group).
OnRecv ==
    /\ step = "onRecv" /\ groupId # Base
    /\ jobs' = [jobs EXCEPT ![groupId] = @ + 1]
    /\ step' = "regions"
    /\ UNCHANGED <<ringVars, io, len, transferred, pc, left, groupId, isHandled, connect, moves,
                   kind, decoded, broken>>

----------------------------------------------------------------------------
\* A RecvHandler is over; the worker's is followed by RecvNotIncrease.
Leave(h) ==
    /\ pc' = [pc EXCEPT ![h] = "idle"]
    /\ step' = IF h = Base THEN "regions" ELSE step

\* The group takes a Recv job; setRecvHandled(false) is its first act.
HandleRecv(g) ==
    /\ pc[g] = "idle" /\ jobs[g] > 0
    /\ jobs' = [jobs EXCEPT ![g] = @ - 1]
    /\ isHandled' = FALSE
    /\ pc' = [pc EXCEPT ![g] = "look"]
    /\ UNCHANGED <<ringVars, ioVars, left, groupId, connect, moves, kind, decoded, broken>>

\* Mutant: the loop does not ask whose the session is.
MineAlways(h) == TRUE

\* The loop's first question: is the session this handler's?
Mine(h) == groupId = h

\* Mutant: a packet is taken as soon as its header is there.
CompleteEarly == TRUE

\* Is the packet all there?
Complete == Size >= PacketSize

\* RecvHandler, up to the callback.  The loop ends when the session is not this
\* handler's or the packet is not complete.
LookEnd(h) ==
    /\ pc[h] = "look"
    /\ ~Mine(h) \/ Size < Header \/ (GoodHeader /\ ~Complete)
    /\ Leave(h)
    /\ UNCHANGED <<ringVars, io, len, transferred, left, sessionVars, broken>>

\* A wrong code or length closes the session.
LookHeader(h) ==
    /\ pc[h] = "look"
    /\ Mine(h) /\ Size >= Header /\ ~GoodHeader
    /\ Leave(h)
    /\ connect' = FALSE
    /\ UNCHANGED <<ringVars, io, len, transferred, left, groupId, isHandled, jobs, moves, kind,
                   decoded, broken>>

\* So does a wrong sum, and the packet stays, decoded.
LookSum(h) ==
    /\ pc[h] = "look"
    /\ Mine(h) /\ Size >= Header /\ GoodHeader /\ Complete /\ FALSE \in Sums
    /\ Leave(h)
    /\ connect' = FALSE /\ decoded' = TRUE
    /\ UNCHANGED <<ringVars, io, len, transferred, left, groupId, isHandled, jobs, moves, kind,
                   broken>>

\* The callback gets the packet.
LookTake(h) ==
    /\ pc[h] = "look"
    /\ Mine(h) /\ Size >= Header /\ GoodHeader /\ Complete /\ TRUE \in Sums
    /\ Dequeue(Header)
    /\ left' = [left EXCEPT ![h] = Payload]
    /\ pc' = [pc EXCEPT ![h] = "pop"]
    /\ decoded' = FALSE
    /\ UNCHANGED <<rear, buffer, ioVars, groupId, isHandled, jobs, connect, moves, kind, broken>>

Look(h) == LookEnd(h) \/ LookHeader(h) \/ LookSum(h) \/ LookTake(h)

\* Mutant: CanPop is not asked, and a byte more than the packet has is popped.
PopUnchecked(h) ==
    /\ pc[h] = "pop" /\ left[h] > 0
    /\ IF Size < left[h] + 1
       THEN /\ broken' = broken \cup {"Peek"}
            /\ pc' = [pc EXCEPT ![h] = "crashed"]
            /\ UNCHANGED <<front, left>>
       ELSE /\ Dequeue(left[h] + 1)
            /\ left' = [left EXCEPT ![h] = 0]
            /\ UNCHANGED <<pc, broken>>
    /\ UNCHANGED <<rear, buffer, ioVars, sessionVars>>

\* CRecvBuffer's operators: CanPop, Peek, which throws if there is too little, and
\* Dequeue.
Pop(h) ==
    /\ pc[h] = "pop"
    /\ \E n \in 1..left[h] :
        IF Size < n
        THEN /\ broken' = broken \cup {"Peek"}
             /\ pc' = [pc EXCEPT ![h] = "crashed"]
             /\ UNCHANGED <<front, left>>
        ELSE /\ Dequeue(n)
             /\ left' = [left EXCEPT ![h] = @ - n]
             /\ UNCHANGED <<pc, broken>>
    /\ UNCHANGED <<rear, buffer, ioVars, sessionVars>>

\* The callback returns, perhaps after it moved the session.
Return(h) ==
    /\ pc[h] = "pop" /\ left[h] = 0
    /\ pc' = [pc EXCEPT ![h] = "look"]
    /\ \/ UNCHANGED <<groupId, moves>>
       \/ /\ moves < MaxMove
          /\ moves' = moves + 1
          /\ groupId' \in {d \in Handlers : <<groupId, d>> \in Hops}
    /\ UNCHANGED <<ringVars, ioVars, left, isHandled, jobs, connect, kind, decoded, broken>>

RecvHandler(h) == Look(h) \/ Pop(h) \/ Return(h)

----------------------------------------------------------------------------
Next ==
    \/ RecvNotIncrease \/ Deliver \/ Cancelled \/ MoveRear \/ Dispatch \/ OnRecv
    \/ \E g \in Groups : HandleRecv(g)
    \/ \E h \in Handlers : RecvHandler(h)

Spec == Init /\ [][Next]_vars

----------------------------------------------------------------------------
\* The variables' types.
TypeOK ==
    /\ front \in 0..MaxBytes /\ rear \in 0..MaxBytes
    /\ buffer \in [Cells -> -1..(MaxBytes - 1)]
    /\ io \in {"none", "posted", "done"}
    /\ len \in (0..BufferSize) \X (0..BufferSize)
    /\ transferred \in 0..BufferSize
    /\ step \in {"regions", "compare", "second", "post", "idle", "dispatch", "onRecv",
                 "handler", "released", "crashed"}
    /\ pc \in [Handlers -> {"idle", "look", "pop", "crashed"}]
    /\ left \in [Handlers -> 0..Payload]
    /\ groupId \in Handlers /\ isHandled \in BOOLEAN /\ connect \in BOOLEAN
    /\ jobs \in [Groups -> Nat]
    /\ moves \in 0..MaxMove /\ kind \in {"header", "checksum"} /\ decoded \in BOOLEAN

\* The ring keeps what the client sent until it is handled: no receive writes a
\* byte to the wrong cell or over one that is still to be read, although front
\* moves while RecvNotIncrease computes the regions ("front는 변할 수 있지만 rear는
\* 변하지 않음", CRingBuffer.cpp:90).
BytesKept == \A i \in front..(rear - 1) : buffer[GetIndex(i)] = i

\* "ASSERT_CRASH(... != 0, "RecvBuffer is 0")" (Session.cpp:181): there is room in
\* the ring whenever a receive is to be posted.
RecvHasRoom == "RecvBuffer is 0" \notin broken

\* Peek never throws (CRingBuffer.cpp:207): what a handler has seen in the ring is
\* there until it takes it itself, whoever else is at work on the session, also
\* when the client fills the ring up.
PeekHasBytes == "Peek" \notin broken

\* The worker's RecvHandler and those of the groups are never inside a packet
\* together, so CRingBuffer has one reader (RecvExecutable.cpp:43, Group.cpp:325).
OneHandler == Cardinality({h \in Handlers : pc[h] = "pop"}) <= 1

\* The session is closed at the wrong packet (wrong code, length or checksum in
\* RecvHandler): not for an earlier one, and before anything of it is handled.
\* (A second Recv job may find the closed session's packet, decode it once more
\* and handle it after all.)
OnlyWrongClosed ==
    IF connect THEN front <= Wrong * PacketSize ELSE front >= Wrong * PacketSize

\* Cells and positions together are the byte stream of the connection.
Stream == INSTANCE ByteStream
    WITH content <- [j \in 1..(rear - front) |-> buffer[GetIndex(front + j - 1)]],
         next <- rear

\* The ring implements the byte stream.
ImplementsStream == Stream!Spec
===============================================================================
