# Verification of the ChatServer network library

TLA+ models, TLC runs and TLAPS proofs for the IOCP server library in `src/`
and `include/`. Paths below are the repository's (`src/Session.cpp`,
`include/Session.h`); `PROJECT.json` maps every definition to its lines.

## The system

The library is a Windows server framework. Content (the game or chat server)
derives from `IOCP` and from `Group` and gets callbacks; the library runs
sockets, sessions and groups. There are several kinds of threads, and almost all
shared state is handled by interlocked operations, not by locks.

| Component | State | Operations | Shared with |
|---|---|---|---|
| `Session` (`Session.cpp`, `Session.h`) | `_refCount` with the release flag, `_connect`, `_sessionId`, `_isSending`, `_isHandled`, `_groupId`, `_socket`, `_sendQ`, `_sendingQ`, `_recvQ` | `IncreaseRef`, `Release`, `RecvNotIncrease`, `CanSend`, `RealSend`, `TrySend`, `Close`, `CheckTimeout`, `Reset` | every thread |
| `IOCP` (`NormalIOCP.cpp`) | array of sessions, `_freeIndex`, `g_sessionId`, `_sessionCount`, completion port | `AcceptThread`, `WorkerThread`, `TimeoutThread`, `FindSession`, `SendPacket`, `SendPacketBlocking`, `DisconnectSession`, `CheckPostRelease`, `MoveSession`, `GetClientSession`, `Start`, `Stop` | content calls it with a `SessionID` from any thread |
| Executables | one OVERLAPPED per purpose and session | `RecvExecutable`, `SendExecutable`, `PostSendExecutable`, `ReleaseExecutable`, `GroupExecutable` | posted by any thread, executed by workers |
| `LockFreeFixedQueue` | ring of nodes, `headIndex`, `tailIndex` | `Enqueue`, `Dequeue`, `Size` | `Session::_sendQ` (512), `Group::_jobs` (8192) |
| `Group`, `GroupManager` | `_sessions`, `_jobs`, `_isRun`; the group table and its SRW lock | `MoveSession`, `Update`, `HandleJob`, `OnRecv`, `SessionDisconnected`, `CreateGroup` | workers, group ticks, content |
| `CRingBuffer`, `CRecvBuffer` | receive ring: `_front`, `_rear`, the bytes | `DirectEnqueueSize`, `FreeSize`, `MoveRear`, `Peek`, `Dequeue`, `Decode` | kernel receive, worker, group thread |
| `CSendBuffer`, `SendBuffer` | packet bytes, reference count, `isEncrypt` and its lock | `Alloc`, `Clear`, `IncreaseRef`, `Release`, `WriteNetHeader`, `WriteLanHeader`, `TryEncode` | senders of all sessions |
| `LockFreeStack`, `MultiThreadObjectPool` | tagged top, nodes, free nodes | `Push`, `Pop`, `Alloc`, `Free` | `_freeIndex`: accept thread, workers that release, client side |
| `TlsPool`, `SingleThreadObjectPool` | global buckets of nodes, a local chain and its count per thread | `Alloc`, `Free`, `AcquireNode`, `ReleaseNode` | send buffers |
| Settings, subnet table, logger, profiler, monitor, database, Redis, web hook | configuration and I/O | | not part of the session protocol |

How they interact: `AcceptThread` takes an index, resets the slot, clears the
release flag, calls `OnConnect` and posts the first receive. A worker that gets a
receive handles the packets, or queues a Recv job for the session's group, and
posts the next receive. `SendPacket` looks the session up, puts the packet into
`_sendQ` and, when nobody is sending, posts a `SendExecutable`. Whoever takes the
reference count to 0 exchanges it for the release flag and posts a
`ReleaseExecutable`, or queues a Leave job so that the group does. The worker that
executes it calls `OnDisconnect`, resets the slot and returns its index.

What is hard: lookups are lock-free and count on a slot before they know whose it
is; `Release` is a decrement followed by an exchange; a receive is posted while
another thread closes the session; the executables of a slot outlive the
connection; the queue has no check that keeps the tail behind the head; the regions
of a receive are computed while a group dequeues; nodes of the free-index stack are
reused while others look at them; one send buffer is encoded and released by many
sessions' senders; a group is run by whoever comes first, and its callbacks call back
into it; it learns of moves and disconnects by jobs that may be handled much later. The list
is under `hazards` in `PROJECT.json`, each at its line.

## Modules

| Module | Models | Lines of code it stands for |
|---|---|---|
| `Session` | one slot of the session array: accept, lookup, reference count, receive and send I/O, close, timeout, release, reuse | `Session.cpp`, `NormalIOCP.cpp`, the executables |
| `SessionProofs` | theorems about `Session`: the slot and its references; the callbacks and the session count | |
| `LockFreeFixedQueue` | `Enqueue` and `Dequeue`, one atomic access per step | `LockFreeFixedQueue.h` |
| `TicketQueue` | what the ring promises: tickets are drawn, filled in any order, served in order | abstract |
| `SessionSend` | `_sendQ`, `_sendingQ`, `_isSending`, `SendPacket`, `CanSend`, `RealSend`, `PostSend`, `Reset` over several connections of a slot | the send path |
| `Group` | groups, jobs, moves, Recv jobs and the group's part of a release | `Group.cpp`, `GroupManager.cpp`, `RecvExecutable.cpp` |
| `GroupUpdate` | who runs a group: `_isRun`, inline and posted `Update`, the SRW lock, the tick, `CreateGroup` | `Group.cpp`, `GroupManager.cpp`, `GroupManager.h`, `NormalIOCP.cpp` |
| `RecvRing` | the receive ring between kernel, worker and groups | `CRingBuffer`, `CRecvBuffer`, `RecvNotIncrease`, both `RecvHandler`s |
| `ByteStream` | what the ring promises: bytes come out in the order they came in | abstract |
| `LockFreeStack` | the free-index stack and the pool of its nodes, one atomic access per step, and its users | `LockFreeStack.h`, `MultiThreadObjectPool.h`, `NormalIOCP.cpp` |
| `IndexStack` | what it promises: a stack | abstract |
| `PacketCodec` | `WriteNetHeader`, `Encode`, `Decode`, `ChecksumValid` on chars of `Width` bits | `CSendBuffer.cpp`, `CRingBuffer.cpp` |
| `SendBuffer` | a buffer's life: pool, handles, reference count, queues, encoding, release | `CSendBuffer`, `SendBuffer.h`, `TLSPool.h`, `SingleThreadObjectPool.h` |
| `QueueProofs`, `SendProofs`, `GroupProofs`, `GroupUpdateProofs`, `RecvProofs`, `StackProofs` | theorems about `LockFreeFixedQueue`, `SessionSend`, `Group`, `GroupUpdate`, `RecvRing` and `LockFreeStack` | |
| `BufferProofs` | theorems about `PacketCodec` and `SendBuffer` | |
| `MCQueue`, `MCSend`, `MCGroup`, `MCGroupUpdate`, `MCRecv`, `MCStack`, `MCBuffer` | values, symmetry sets and move patterns for TLC | |

How they compose: `Session` says when a slot may be used, and what is proved of it is
the premise of `SessionSend`, `Group` and `SendBuffer` (no release while somebody has a
reference). `LockFreeFixedQueue` is the queue of `SessionSend`, which has the refused
`Enqueue` too, and of `GroupUpdate`, which has its effect (`burnt`). `SessionSend`'s
`OneSender` is the premise of `SendBuffer`, `OneRunner` of `GroupUpdate` that of
`Group`, where a group is one actor. `RecvRing` takes from `Group` how a session is
moved and adds the bytes. `LockFreeStack` is what lets `Session` count an index.

### Session

Each variable is a field of the code or of the kernel's view of it. `pc[t]` says
where thread `t` is between two accesses to shared state, and `call[t]` is its
locals. There is one thread for `AcceptThread`, a set of workers, and a set of
content threads (`Callers`) some of which also run `TimeoutThread` (`Timers`).
The steps of `AcceptThread` are `AcceptPop` ... `AcceptCount`; `RecvNotIncrease`
is `RecvCheck`, then one of `RecvPending`, `RecvImmediate`, `RecvFails`, then
`RecvRecheck`; `FindSession` is `FindInc` and `FindCheck`; `Release` is
`ReleaseDec`, `ReleaseCas`, `PostRelease`.

Abstractions. One slot is modelled: no operation touches two slots, and the
free-index stack is used only for the number of times this slot's index is on it.
Calls that a callback makes are made by the `Callers`, who may have any id that
`OnConnect` announced. The completion port is a FIFO whose contents are counters.
What is sent and received is left out (`SessionSend`, `Group`); `CanSend` is the
part of it that depends on this module's state, with the queue's size a free
choice. That an `Enqueue` was once refused is kept (`hole`): `RealSend` may then spin in
`while (sendPackets == 0)` with its reference, until some later packet fills the hole
(`SpinEnds`). Error codes, statistics, time stamps and log lines are left out; whether
a timeout has expired is a free choice. Interlocked operations and the stores
between them are taken as sequentially consistent. The branch of `RecvCheck` that
finds the release flag set is never taken (`Pinned`).

### LockFreeFixedQueue and TicketQueue

A value is named by the index its `Enqueue` reserved. `Ahead` is how far callers
let the tail run ahead of the oldest node in use: the code itself has no such
bound, so the run has `Ahead < BufferSize` and shows what the ring does when it is
never overfull; `SessionSend` has the refused `Enqueue`. `ImplementsTickets` is the
refinement: `headIndex`, `tailIndex` and the accepted values are a ticket queue.
With two consumers, and the tail a whole ring ahead, a consumer that stalls
between its claim and the clearing of the node lets another one claim that node
again; both users of the queue have one consumer at a time, so this is a limit
on its use.

### SessionSend

A packet is its index in `_sendQ`. `Enqueue` is two steps (index and look, then
publish), and so is each `Dequeue` of the one sender: `RealClaim` moves `headIndex`,
`RealUnmark` clears the node, and an `Enqueue` in between is refused although `Size()` is
below the ring's. A refused `Enqueue` has taken an index and published nothing at it: a
hole, at which `RealSend` and `Reset` stop. Two producers a lap apart may have one node.
`overfull` records that one of the two has happened; the ring is never repaired, so the
properties that need an intact ring hold until then and say so, and `NothingTwice` is
what holds afterwards. Whether a session may be released is taken from what is
proved of `Session`: no thread, receive or send uses it. `Reset` frees what is in
`_sendQ` up to the first hole, and what is in `_sendingQ`.

### Group

The slot of a session is followed over several connections. A group is run by
one thread at a time (`_isRun`), so the group is the actor and its queue a
sequence. `Hops` are the moves content makes; `Movers`, other threads that call
`MoveSession`; `Revisit`, whether a session comes back to a group. In `group`
sessions leave to no group before they enter the next (`ViaBase`), in `group_direct` they go
anywhere (`AnyHop`). Moves are made by the session's own
callbacks (`OnRecvPacket` in the worker, `OnRecv` in the group) and by `Movers`.
`unread` is what is in `_recvQ`, by the group whose Recv job stands for it; packets that
no job stands for, because they came in no group, were there when the session
moved, or came under an `_isHandled` that an earlier group or connection left, are under
`Base`. `CheckPostRelease` is four steps: the group id, the session id, the count, and
the assertion of the id in `GetRefCount`. A worker that meets the null group, and a group
that meets a failed assertion, stop.

### GroupUpdate

What a thread still has to do is a sequence of steps, innermost call first, so that
an `Update` inside an `Enqueue` inside a callback is a longer sequence, and the shared
lock is held as often as there are `unlock` steps whose `lock` is past. `lock` waits
while `CreateGroup` waits, as an SRW lock does. The job queue is the set of its used nodes,
counted from `headIndex`, and the node `tailIndex` is at: a refused `Enqueue` moves the
tail and burns an index, so that `hasJob` is true from then on, and `HandleJob` finds nothing
where the hole is. The clock is a free choice: `GroupThread` may find an update
due at any time, and `Update` leaves its loop when there is no job; `OnUpdate` changes
no state of the library. `Modes` says whether callbacks call, whether groups are
created meanwhile, and how long the job queues are.

### RecvRing and ByteStream

A byte is its position in the stream, so `_front` and `_rear` are positions as well.
`RecvNotIncrease` reads `front` three times, once in each of `RegionFirst`,
`RegionCompare` and `RegionSecond`; the group may dequeue in between. `Deliver` is the
kernel, which fills the regions as far as data has arrived. A handler is the worker
(`Base`) or a group; `Look` is a `RecvHandler` up to its callback, `Pop` one pop of the
callback, `Return` its end with or without a move. The worker reads the group id twice
(`Dispatch`, `OnRecv`), and a group may move the session in between; where `Group` has the
null pointer, the worker here goes no further. One packet of the stream (`Wrong`) has
a bad header or a bad checksum. `Decode` works in place: a packet whose checksum was bad
stays in the ring, `decoded`, and for a handler that looks again the sum may come
out right (`Sums`). A header that the ring has lost counts as a wrong one.

`Window` is how much a client whose session is in a group sends ahead of the handler. The
code has no such limit. `BytesKept`, `OnlyWrongClosed` and the refinement need
`2 * Window < BufferSize`, and `recv_race` shows that they fail beyond; `OneHandler` and
`PeekHasBytes` need no limit, and their theorems have none; `RecvHasRoom` is false without one.

Limits: sessions are moved by their own callback after it has popped the packet (a
move by another thread, or before the pop, makes two handlers); in the runs no session
returns to no group, in the theorems without `Paced` it may; the ring is not cleared for a next connection. `CRecvBuffer::GetWstr` asks
`CanPop` for characters and pops bytes; the model pops what the packet has.

### LockFreeStack and IndexStack

There are two tops, of the stack and of the pool of its nodes, with the same algorithm.
Reading a top, reading the node behind it, and the compare and exchange are steps; a
node has one `next` for each of the two. The tag has `TagCount` values (2^17 in the
code), and `Stall` is how many pushes a thread may sleep between its read and its
compare. `Stall < TagCount` is the assumption on the scheduler under which the stack is
correct: with `Stall = TagCount`, `IndexOnce` fails. The constructor pushes all indices,
clients are connected (`GetClientSession`) before `Start`, which is when its comment says it
is usually called, then threads take and return indices. `MaxClient` does not exceed the
number of indices: `GetClientSession` does not look at the result of `GetFreeIndex`, and with more clients two of them would have one
index.

### PacketCodec and SendBuffer

A packet is its checksum and payload, the part of it that is encoded. The exclusive or
of two chars is defined bit by bit, as a function of the width. `MCBuffer`
assumes, and TLC evaluates, `CodecInverse`: for every payload of up to three 2-bit
chars, every random key and static key, `Decode` undoes `Encode` and the checksum is
right; `DecodeUndoesEncode` is the same for any width and length. `SendBuffer` runs the codec on 3-bit chars in place, in the step in which the
code does. Content threads allocate, copy, send and drop handles; all threads are
workers. The steps are accesses to what threads share: a reference count, a bucket,
a queue, `isEncrypt`, the lock. A session is open, closing or released, and is not
opened again; its queue is a bounded sequence, and what a refused `Enqueue` does to the ring
itself is in `SessionSend`. All sessions of a run have the same key, 0 for LAN: a buffer is encoded
once, with the key of the first sender, so a broadcast to sessions of different keys
(`SetSessionStaticKey`) or to LAN and net sessions cannot be read by all, and
`WireReadable` fails with such a `KeyMaps`. The payload is written in one step:
`SetWstr` and `operator<<(LPWSTR)` compare characters with the room in bytes.

## What the runs show

Bounds are named constants. Two connections per slot (`MaxLife` = 2, and `MaxId` = 3
in `session`) are what a stale id or a stale executable needs. `session` has one
worker, one content thread that also runs `TimeoutThread`, and the accept thread:
one that is inside a lookup, one that releases and one that accepts. An executable
that is queued and not taken stands for another worker that has not touched the
session yet, and the theorems below are for any number of threads. `send` has two
workers and two senders, which is what a race for `_isSending` needs. The ring has
2 to 4 nodes and is lapped where laps matter; `send_reuse` has five packets for two
nodes, so that packets follow behind the hole of a refused one, in the same connection and in
the next.

`recv` has a ring of 8 cells, packets of 3 bytes and a stream of 25, so that the ring
is lapped three times and packets, headers and regions wrap at every offset; two groups
and three moves let an old group still be in its loop when the new one starts.
`stack` has
two indices, two nodes of which the pool starts with one, and tags that wrap; the
ABA case needs a thread that sleeps while the other pops, pushes and pops again. `buffer` has
two sessions for a broadcast, a send queue of one packet so that it is full, batches of
two, pools of two nodes with six in all, so that local pools overflow into the global one
and the global one runs dry; at most one buffer is live, which is one that everybody
works on. `group_update` has two groups and three calls in all, in two modes: callbacks that
call, nested as deep as that allows, while groups are created; and a job queue of two
nodes, which gets full and has its hole passed by the tail. `group` has two connections and
two groups; its eight moves are all that content which does not come back to a group can
make, and its six receives let each connection have packets in no group, in both groups, and
under a flag the other has left.

| Run | Shows |
|---|---|
| `session` | `RefCountExact`: the count is the references held, plus the flag exactly while the slot is released, free or being accepted. `ReleasedOnce`, `FoundSessionStays`, `OneReceive`, `SessionCountExact`, `NoCloseDuringIo`, `CallbackOrder`. `c1` also runs `TimeoutThread`, which takes a reference before it knows an id. `ClosedSessionReleased`: a closed session goes away and its index is free again, also when `Close` found no receive to cancel; unless a thread spins in `RealSend` for ever |
| `queue` | order, no loss, no `__debugbreak`, every accepted value taken, and the refinement of `TicketQueue` |
| `send` | `OneSender`: `_isSending` is a lock handed from thread to port to kernel to worker. Until an `Enqueue` is refused, `SentInOrder` and `NoDebugBreak` |
| `send_reuse` | for one sender and one worker, across release and reuse: `NothingTwice`, with holes in the queue as well; until an `Enqueue` is refused, `SentInOrder`, `PacketsFreedOnce` and `AcceptedIsSent`: no lost wakeup between `CanSend` and `PostSend` |
| `send_full` | violated: `FullIsDisconnected` |
| `group` | when moves go by way of no group: one release (`ReleasedOnce`), no ghost member (`NoGhostMember`), `OnLeave` before `OnDisconnect` (`LeftBeforeDisconnect`); `ReleasedIsDisconnected`; `PacketsAreHandled`: what a Recv job stands for is handled |
| `group_direct` | violated: `LeaveFindsMember`, with direct moves |
| `group_update` | `OneRunner`: `_isRun` counts the running `Update`s, nested ones included. `JobsAreHandled`: what the hand-over of `_isRun` misses, the tick repairs. `CallsReturn`: the recursive shared lock (`LockedOut`) is the only way to wait for ever while no queue is full |
| `recv` | `BytesKept`, `OneHandler`, `PeekHasBytes`, `OnlyWrongClosed` (a session is closed at the malformed packet and nowhere else), and the refinement of `ByteStream` |
| `recv_race` | violated: `BytesKept`, with one more byte in the window |
| `stack` | `NodeOnce`, `IndexOnce`, the refinement of `IndexStack`, and `SomeCallReturns`: threads that retry do not all retry for ever |
| `buffer` | `RefExact`, `PooledOnce`, `WireReadable`: what is on the wire decodes to the message, while others send, encode and release the same buffer |

Every module states its `TypeOK`, the domain of its state, which the proofs need. Only
`Session`'s is among the properties of a run; the others restate types that TLC has
also confirmed on the instances above.

Three runs end in a counterexample, because the code disagrees with its own comments or
assertions (`findings` quotes them).

- `send_full`: a refused `Enqueue` leaves a hole, `RealSend` spins at it with a reference,
  and the session that "is disconnected when the buffer is full" is never released.
- `group_direct`: `MoveSession` stores the group id before it queues the Enter job; the new
  group handles a Recv job in between, moves the session on, and the Leave job meets the
  `__debugbreak` of `HandleJob`. Two groups and three moves are enough.
- `recv_race`, with `Window` = 4 of 8 cells: `DirectEnqueueSize` is read, then the group
  dequeues and `front` wraps or leaves index 0, then `FreeSize` counts the new room into the
  second region, which starts at the buffer's first cell although the first region does not
  end at its last. A byte lands where no handler looks for it.

Properties that do not hold, or not outside of the runs' instances, with the constants
that show it (all others as in the run named):

| Property | Instance | Counterexample |
|---|---|---|
| `NoDebugBreak` | `send` with one caller, `MaxLife = 2` | a `SendExecutable` taken before the release sends on the next connection, whose queue is empty |
| `ReleasedOnce` | `group` with one group, `Revisit = TRUE`, `MaxLife = 1`, `MaxMove = 4` | a session that came back to a group is released twice, by its old Leave job and the last one |
| `ReleasedOnce`, `NoGhostMember` | `group` with `Movers = {m1}` | a thread that moves somebody else's session |
| `RecvFindsGroup` | `group` with one group, `MaxLife = 1`, `MaxMove = 2`, `MaxRecv = 3` | `RecvExecutable` reads the group id twice; the group moves the session to no group in between, and `_groups[0]` is null |
| `CheckedIdStays` | `group` with one group, `Movers = {m1}`, `MaxMove = 2`, `MaxRecv = 1` | `CheckPostRelease` has seen the id, another thread moves the session out, the slot is released and accepted again, and `GetRefCount` asserts the id |
| `RecvHasRoom` | `recv` with `BufferSize = 5`, `Window = 5`, `Wrong = 4`, `MaxMove = 1`, `MaxBytes = 15` | a worker posts the next receive at once, whatever the group has handled: the ring is full, "RecvBuffer is 0" |
| `IndexOnce` | `stack` with `Stall = 3` | the tag has wrapped to the value that was read |

`PacketsAreHandled` was also checked, and holds, with any moves: `group` with
`Movers = {m1}`, `Hops <- AnyHop`, `Revisit = TRUE`, `MaxMove = 2`, `MaxRecv = 4`. So were
`OneHandler` and `PeekHasBytes` with a ring that fills (the instance of `RecvHasRoom` with
`MaxMove = 2`).

What the exemptions of the properties stand for, each reached in the run named:

- `overfull` (`send_reuse`; `send` has as many nodes as packets): behind a hole packets are sent out of order, `Reset` leaves
  some unfreed, and the next connection in the slot gets them. With two callers and a ring
  of two nodes (`send` with one worker, `BufferSize = 2`) two producers publish one
  node and meet the `__debugbreak` of `Enqueue`.
- `Spinning` and the clause about `AcceptConnect` (`session`): the spin above, and a
  `Close` by `TimeoutThread` before `AcceptThread` stores `_connect = true`, which
  overwrites it. `TimeoutThread` can do that as soon as the flag is off, since `Reset` does
  not touch `lastRecv`.
- `LockedOut` (`group_update`): a callback takes the shared lock a second time while
  `CreateGroup` waits for it. Both, and whoever wants the lock after them, wait for ever.
- `EverFull` (`group_update`): `Size()` of a job queue that once refused a job is never 0 again,
  `Update` of that group never leaves its loop, and its worker is lost to others.
- packets under `Base` (`group`): they stay in the ring until another receive
  comes, and if `_isHandled` was left set by an earlier group or connection (`Reset` does not
  clear it) for as long as the session is in a group.
- `OnlyWrongClosed` (`recv`) ends with the closing: a second Recv job, queued before,
  decodes the left packet again and may hand it to content, in a closed session.

One more observation: `FindSession` may give a reference back with the flag off, against
the comment at `NormalIOCP.cpp:1205`; the count is exact all the same.

Deadlock is checked for `Session` and `LockFreeFixedQueue`. The other models may stop:
their bounds (packets, bytes, calls, buffers) run out and clients need not come. That
nobody is stuck is what `AcceptedIsSent`, `PacketsAreHandled`, `JobsAreHandled`,
`CallsReturn` and `SomeCallReturns` say.

### Fairness

Threads inside a call go on (`Step`, `Execute`, `MoveSession`); the completion
port is a FIFO, so what is queued is taken; a send completes or TCP gives up; a
cancelled receive completes; `GroupThread` posts `Update` every tick, so a queued
job is handled. Nothing says that clients connect, that data arrives or that a
peer leaves. In `Session` nothing says that a packet comes to fill a hole (`SpinEnds`). In
`GroupUpdate` the tick comes again and again for every group, `CreateGroup` gets the lock
when it is free, and what is posted is executed though workers have other things to do
(strong fairness: the port is a FIFO). In `LockFreeStack` only the steps of a thread inside
a call are fair. For `Session` the content's calls end at some time (`CallsEnd`): a
lookup that hits the count between the decrement and the exchange of every
`Release`, forever, would keep a closed session alive.

## What is proved

All theorems hold for any sets of threads, groups and handlers, any sizes and any
bounds that satisfy the assumptions the modules name (`SessionAssumption`,
`QueueAssumption`, `SendAssumption`, `GroupAssumption`, `UpdateAssumption`,
`RingAssumption`, `StackAssumption`, `BufferAssumption`, `CodecAssumption`). Where a theorem needs more, because the code is correct only for
such content or such clients, the hypothesis is a named formula in front of it, and the
text below says what TLC finds without it.

| Module | Theorems | Hypothesis |
|---|---|---|
| `SessionProofs` | `TypeCorrect`, `RefCountCorrect`, `ReleaseCorrect`, `FindCorrect`, `ReceiveCorrect`, `SocketCorrect`; `SessionCountCorrect`, `CallbackCorrect` | none |
| `QueueProofs` | `QueueNeverBreaks`, `QueueKeepsAll`, `QueueRefinesTickets` | `NeverOverfull` |
| `SendProofs` | `SendHasOneSender`; `SendNeverBreaks`, `SendKeepsOrder`, `SendFreesOnce` | `Undisturbed` |
| `GroupProofs` | `GroupReleasesOnce`, `GroupHasNoGhost`, `GroupLeftBeforeDisconnect` | `OwnMoves` |
| `GroupUpdateProofs` | `GroupHasOneRunner` | none |
| `RecvProofs` | `RecvPeekHasBytes`, `RecvOneReader`; `RecvKeepsBytes`, `RecvClosesOnlyWrong`, `RecvRefinesStream` | none; the last three `Paced` |
| `StackProofs` | `StackKeepsNodes`, `StackRefinesStack`; `StackGivesIndexOnce`, `StackTypeCorrect` | `TagOutlasts`; the last two also `EnoughIndices` |
| `BufferProofs` | `DecodeUndoesEncode`, `ReferencesExact`, `NodesPooledOnce`, `BufferTypeCorrect`; `SendsReadable` | none; the last one `OneKey` |

Each module has the same shape: lemmas about the operators, the parts of an inductive
invariant, one lemma per action (or per group of actions that disturb the same parts),
the invariance theorem, and the properties as its consequences. TLC checked each
inductive invariant on an instance before it was proved.

**Session** (`IInv`). `RefCountExact` says the count is
`Held + flag`; that a decrement to 0 followed by a successful exchange makes a new
owner only if there is none needs `ReleasedOnce`; that a thread past a check
still has the session needs to know that a held reference excludes owners. That
is `Pinned`: a thread past the check of `FindSession`, `RealSend` or
`CheckTimeout`, and I/O outstanding, imply no owner, and a slot with no owner has
its session's socket. The key step is `FindCheckStep`
with `FindIncStep`: a lookup whose increment returned at most the flag saw a
count without it, so there was no owner, and its own reference has kept it so.
`MoveCounts` says how a step of one thread changes the number of threads at a
set of points; `Sums` and `Keep` turn that into what it does to `Held` and
`Owners`.

**Callbacks** (`CInv`, on top of `IInv`). What has been announced for an id is a function
of the slot's id and its owner (`PhaseOf`): newer ids are new, older ones gone, and the
slot's own is connected unless the acceptor has not announced it yet or a releasing
worker has. So `_sessionCount` is the number of connected ids, less the one that
`AcceptThread` has announced and not counted (`CountInv`).

**Ring** (`QInv`). `Live` is a published index whose node has not been given back.
Used nodes and live indices correspond one to one, every reserved and every claimed
index has one owner, and all indices more than `Ahead` behind the tail are done, so
that two live indices are less than a lap apart and have different nodes. The code does not
keep its callers from overfilling the ring. `NeverOverfull` says they do not, with one
node to spare when there are several consumers; each step is then a step of
`TicketQueue` or silent.

**Send path** (`LockInv`, `SInv`). The right to send is in one place, a thread, the port
or the socket, and `_isSending` is set while it is somewhere (`TokenInv`); a released
session is used by nobody but a `SendExecutable` (`RefInv`). This is proved with no assumption
on the queue, for one connection or one worker (`Undisturbed`): with a second
worker, a `SendExecutable` taken from the port before the release acts on the next
connection in the slot. `SInv` adds which indices are published, in `_sendingQ`, sent or freed, and for
which connection. It holds until an `Enqueue` finds its node used or being filled
(`overfull`), which is also when the three properties built on it stop claiming
anything. The head has moved before the node is cleared, so `SInv` follows the one node whose
`Dequeue` is between its two steps.

**Groups** (`GInv`). For each group: its queue has no
Enter or Leave job twice, who is to enter is no member, who is to leave is one or enters
before (`Orderly`); a member that is not the connection of now, or not in this group
any more, has a Leave job (`StaysOf`); a group that this connection has not reached has
nothing of it (`Clean`); and a Leave job of a session that is still in the group exists only
while the group itself is between `MoveLeave` and `MoveSet` (`LeaveOf`). The last is why
`CheckPostRelease`, which decides by three separate reads, posts exactly for the Leave job of
the disconnect, and when the group has nothing of the session left. `OwnMoves` is needed in each part: `ReleasedOnce`, `LeaveFindsMember` and
`NoGhostMember` all fail on a small instance with a thread that moves somebody else's session
(`Movers = {m1}`) and with a session that comes back (`Revisit = TRUE`), the latter two
with direct moves among three groups. `LeaveFindsMember` is part of the invariant under
`OwnMoves` and no theorem of its own: what it is about, a job that comes between the
stored group id and the Enter job, needs the moves that `OwnMoves` rules out.

**Who runs a group** (`UInv`). `_isRun` is set exactly while one thread has one `loop` or `end`
step of the group among its nested calls. The lemmas say what pushing, replacing and
dropping the first steps of a thread's sequence does to that.

**Receive ring** (`FInv`; `RInv`). `FInv` is for any client and any moves. Who is inside
a packet has the session's group id, since only its own callback moves it, so there is
one, and what it still has to pop is in the ring: `rear` only grows and nobody else
dequeues. `RInv`, for a client that keeps to its window (`Paced`), has the bytes as well. `RegionInv`
says what each region length is worth relative to the `front` of now, although it was
computed from an older one: the first region ends at the buffer's end or at the last free
cell, or it is at least `BufferSize - 1 - Window` wide, and then such a client never
fills the misplaced second one. That is where `2 * Window < BufferSize` is needed, and
`recv_race` shows that half a ring is too much. `AlignInv` says handlers work packet by
packet, so that they stop at the wrong one; what is behind it, and a second `Decode` of
it, can only be met in a closed session. `CellInv` and `SpanInv` give the refinement of
`ByteStream`.

**Free-index stack** (`NInv`, then `IInv`). A created node is on one of the two chains or
belongs to one thread inside a call (`PlaceInv`), and both chains end (`ChainInv`, which
says what `Walk` yields: a linked list without a cycle). `TagInv` is the ABA argument. A
top's tag is the tag a thread has read plus the number of pushes it has slept through, so
with fewer than `TagCount` of them (`TagOutlasts`: `Stall < TagCount`) an equal tag means
none. Then what the thread saw is still the top or is off the chain, and if it is the top
the `next`, and for the stack the index (`ReadInv`), it has read from it still hold: pops alone cannot bring a
node back. A successful exchange is therefore a push or a pop of `IndexStack`, and every
other step is silent. `IInv` adds that an index is on the stack, with one thread or in use,
each in one place, and that `GetClientSession` always finds one: the indices off the stack
and the pops under way are at most the calls so far, which `EnoughIndices` (`MaxClient` not
above the number of indices) bounds. Both hypotheses are tight on small instances:
`IndexOnce` fails with `TagCount = 2`, `Stall = 2`, and with three calls for two indices;
`NodeOnce` fails with `TagCount = 1`, `Stall = 1` and three threads.

**Codec.** One round of `Encode` xors each char with a value that depends on the round's
result before it; `XorTwice`, on the bits, makes `Decode`'s two rounds undo it. The
functions are recursive over the width or the position. What they compute for every
argument is proved without the library's induction rules: if it failed anywhere, there
would be a least place where it does (`LeastOf`, `UpTo`), and `Recursion` says that the
functions exist.

**Send buffers** (`BInv`). `CallsInv` says what a thread in a call has: who is past `fill` is
the only sender of its session and works on a buffer of its batch, and who writes has
the buffer's lock while `isEncrypt` is 0. `RefInv` is `RefExact` for buffers that do not exist yet
as well, and `PoolInv` the same for `PooledOnce`: a buffer that was not created is nowhere. The
two need each other: `Release` frees a buffer when the count is 1, and the count says
that it is then in no queue, batch or handle; `Alloc` gives one with no references, since a
buffer in a pool is not in use. The counting lemmas say what a step that changes one
sequence of a family does to the number of places of a buffer in all of them.
`CodeInv` (for `WireReadable`) says a buffer in use is as content wrote it, or encoded once with the
key (`BodyInv`), and what a session has in its batch has its header, or is being given
one by the session's own sender (`BatchInv`). It needs `OneKey`: a buffer is encoded with
the key of the first session that sends it, and `_head` is one for all. TLC finds
`WireReadable` violated on the instance of `buffer` with two different keys in `KeyMaps`, and
with a LAN session (key 0) beside a net session.

Only model-checked: the send path behind a hole (`NothingTwice`), where `SInv` does not
hold, and all liveness, which the prover cannot do.

## Not modelled

- `GetClientSession` beyond the index it takes, `Init`, `Start`, `Stop` and the wait for
  threads: the connecting calls are system I/O, and `Stop` ends the process without a
  protocol.
- `CRingBuffer::Clear` by `Reset`, and the string operators of both buffers.
- Settings and subnets: sequential parsers, run once before any thread; their results are
  constants here. Logging, profiling, monitoring, database, Redis and web hook are I/O
  around the core.
- Containers and pools the server does not use (`LockFreeQueue`, `TLSLockFreeQueue`,
  `LockQueue`, `LockStack`, `SPSCQueue`, ...), empty files (`ThreadPool`, `RUDPSocket`).
- The vendored headers under `include/externalHeader`, which are nearly all lines of the
  repository. Of the library's own core (sessions, executables, groups, queue, stack,
  pools, buffers, codec) most lines are mapped.
- Weak memory ordering: interlocked operations and the accesses between them are
  sequentially consistent.

## Plan

Done: all models above. Every safety property, action property and refinement of the
passing runs but `NothingTwice` is a theorem, for the instances the hypotheses name. What could come next: an
invariant of `SessionSend` with holes, for `NothingTwice`; the receive ring with the
packets of a next connection; the `SendExecutable` that runs on the next connection; and a
model of `Group` in which content waits for `OnEnter` before it moves a session again, to
see whether that is enough for `LeaveFindsMember`. The second and the third need a decision about what
the code is meant to do there.
