------------------------------ MODULE SendBuffer ------------------------------
(***************************************************************************)
(* A send buffer's life: CSendBuffer and its handle SendBuffer, TlsPool     *)
(* with its thread-local SingleThreadObjectPool, the encoding in RealSend   *)
(* and the releases after a send.                                           *)
(*                                                                          *)
(* Threads run content, which allocates buffers, copies their handles,      *)
(* broadcasts and drops them, and are workers too.  The bucket stack is a   *)
(* stack (LockFreeStack), the send queue a queue (LockFreeFixedQueue), and  *)
(* a session has one sender at a time (SessionSend); of a session's life    *)
(* there is only what releases buffers.  A step is an access to what the    *)
(* threads share: a reference count, a bucket, a queue, isEncrypt, a lock.  *)
(***************************************************************************)
EXTENDS PacketCodec, FiniteSets

CONSTANTS
    Threads,      \* the workers
    Contents,     \* those that also run content
    Sessions,
    LocalSize,    \* _localPoolSize
    Multiplier,   \* _globalPoolMultiplier: buckets the pool starts with
    QueueSize,    \* packets _sendQ holds
    MaxSend,      \* MAX_SEND_COUNT
    KeyMaps,      \* the _staticKey of each session; 0 is a LAN session
    Messages,     \* payloads content writes
    MaxBuffer,    \* bound: nodes the pool creates
    MaxAlloc,     \* bound: Alloc calls
    MaxLive,      \* bound: no Alloc while so many buffers are in use
    MaxHandle     \* bound: handles on a buffer

ASSUME BufferAssumption ==
    /\ IsFiniteSet(Threads) /\ Contents \subseteq Threads /\ "none" \notin Threads
    /\ IsFiniteSet(Sessions)
    /\ LocalSize \in Nat \ {0} /\ Multiplier \in Nat
    /\ QueueSize \in Nat \ {0} /\ MaxSend \in Nat \ {0}
    /\ MaxBuffer \in Nat /\ Multiplier * LocalSize <= MaxBuffer
    /\ MaxHandle \in Nat \ {0} /\ MaxAlloc \in Nat
    /\ KeyMaps \subseteq [Sessions -> Chars]
    /\ \A m \in Messages : m \in Seq(Chars) /\ m # <<>>

Buffers == 1..MaxBuffer
None == 0
NoOne == "none"

VARIABLES
    buckets,    \* _nextBucket: the chains on it, the top first
    local,      \* the chain of each thread's pool
    count,      \* its _objectCount
    created,    \* nodes so far
    allocs,     \* Alloc calls so far
    ref,        \* _refCount
    held,       \* SendBuffer handles of each thread on each buffer
    bytes,      \* what is in _buffer from the checksum on
    form,       \* the header that _head points at
    isEncrypt,
    lock,       \* who holds _encodeLock
    key,        \* each session's _staticKey
    message,    \* what content writes
    sendQ,
    batch,      \* _sendingQ up to dataNotSend
    busy,       \* _isSending
    flight,     \* is a send outstanding?
    state,      \* "open", "closing" and "released" sessions
    pc,
    at,         \* the session a thread has a reference to
    got,        \* the buffer a thread works on
    todo        \* buffers a thread has to release

poolVars == <<buckets, local, count, created>>
bufferVars == <<bytes, form, isEncrypt, lock>>
sessionVars == <<sendQ, batch, busy, flight, state>>
fixed == <<key, message>>
localVars == <<pc, at, got, todo>>
vars == <<poolVars, allocs, ref, held, bufferVars, sessionVars, fixed, localVars>>

\* MakeControl: a chain of fresh nodes.
MakeControl(n) == [i \in 1..LocalSize |-> n + i]

Live == {b \in Buffers : ref[b] > 0}
HandleCount(b) == Cardinality({h \in Contents \X (1..MaxHandle) : h[2] <= held[h[1]][b]})
AllReleased(t) == got[t] = None /\ todo[t] = <<>>
Releasing == {"release", "postSend", "reset"}
Goto(t, l) == pc' = [pc EXCEPT ![t] = l]

Init ==
    /\ buckets = [i \in 1..Multiplier |-> MakeControl((Multiplier - i) * LocalSize)]
    /\ local = [t \in Threads |-> <<>>]
    /\ count = [t \in Threads |-> 0]
    /\ created = Multiplier * LocalSize
    /\ allocs = 0
    /\ ref = [b \in Buffers |-> 0]
    /\ held = [t \in Contents |-> [b \in Buffers |-> 0]]
    /\ bytes = [b \in Buffers |-> <<>>]
    /\ form = [b \in Buffers |-> "none"]
    /\ isEncrypt = [b \in Buffers |-> 0]
    /\ lock = [b \in Buffers |-> NoOne]
    /\ key \in KeyMaps
    /\ message \in Messages
    /\ sendQ = [s \in Sessions |-> <<>>]
    /\ batch = [s \in Sessions |-> <<>>]
    /\ busy = [s \in Sessions |-> FALSE]
    /\ flight = [s \in Sessions |-> FALSE]
    /\ state = [s \in Sessions |-> "open"]
    /\ pc = [t \in Threads |-> "idle"]
    /\ at = [t \in Threads |-> NoOne]
    /\ got = [t \in Threads |-> None]
    /\ todo = [t \in Threads |-> <<>>]

----------------------------------------------------------------------------
\* Content.

\* CSendBuffer::Clear.
Clear(b) ==
    /\ form' = [form EXCEPT ![b] = "none"]
    /\ isEncrypt' = [isEncrypt EXCEPT ![b] = 0]

\* The local pool's Alloc off a chain of n nodes, and CSendBuffer::Alloc's Clear
\* and IncreaseRef; content then writes its message.
Take(t, chain, n) ==
    LET b == Head(chain) IN
    /\ local' = [local EXCEPT ![t] = Tail(chain)]
    /\ count' = [count EXCEPT ![t] = n - 1]
    /\ Clear(b)
    /\ ref' = [ref EXCEPT ![b] = @ + 1]
    /\ held' = [held EXCEPT ![t][b] = @ + 1]
    /\ bytes' = [bytes EXCEPT ![b] = <<0>> \o message]

\* TlsPool::Alloc, with a bucket from AcquireNode if the local pool is empty.
Alloc(t) ==
    /\ pc[t] = "idle" /\ allocs < MaxAlloc
    /\ allocs' = allocs + 1
    /\ \/ /\ count[t] # 0
          /\ Take(t, local[t], count[t])
          /\ UNCHANGED <<buckets, pc>>
       \/ /\ count[t] = 0 /\ buckets # <<>>
          /\ buckets' = Tail(buckets)
          /\ Take(t, Head(buckets), LocalSize)
          /\ UNCHANGED pc
       \/ /\ count[t] = 0 /\ buckets = <<>>
          /\ created + 2 * LocalSize <= MaxBuffer
          /\ Goto(t, "make")
          /\ UNCHANGED <<buckets, local, count, ref, held, bytes, form, isEncrypt>>
    /\ UNCHANGED <<created, lock, sessionVars, fixed, at, got, todo>>

\* AcquireNode found no bucket: it makes two and pushes one.
AcquireMake(t) ==
    /\ pc[t] = "make"
    /\ created + 2 * LocalSize <= MaxBuffer
    /\ buckets' = <<MakeControl(created)>> \o buckets
    /\ created' = created + 2 * LocalSize
    /\ Take(t, MakeControl(created + LocalSize), LocalSize)
    /\ Goto(t, "idle")
    /\ UNCHANGED <<allocs, lock, sessionVars, fixed, at, got, todo>>

\* A handle is copied, for this thread or another.  A move swaps pointers and
\* counts nothing.
Copy(t, u, b) ==
    /\ pc[t] = "idle" /\ held[t][b] > 0
    /\ ref' = [ref EXCEPT ![b] = @ + 1]
    /\ held' = [held EXCEPT ![u][b] = @ + 1]
    /\ UNCHANGED <<poolVars, allocs, bufferVars, sessionVars, fixed, localVars>>

\* ~SendBuffer.
Drop(t, b) ==
    /\ pc[t] = "idle" /\ held[t][b] > 0
    /\ held' = [held EXCEPT ![t][b] = @ - 1]
    /\ todo' = [todo EXCEPT ![t] = <<b>>]
    /\ Goto(t, "release")
    /\ UNCHANGED <<poolVars, allocs, ref, bufferVars, sessionVars, fixed, at, got>>

\* SendPacket: ProcessBuffer's IncreaseRef.
SendPacket(t, s, b) ==
    /\ pc[t] = "idle" /\ held[t][b] > 0 /\ state[s] # "released"
    /\ ref' = [ref EXCEPT ![b] = @ + 1]
    /\ at' = [at EXCEPT ![t] = s]
    /\ got' = [got EXCEPT ![t] = b]
    /\ Goto(t, "process")
    /\ UNCHANGED <<poolVars, allocs, held, bufferVars, sessionVars, fixed, todo>>

\* Mutant: the reference of a refused packet is kept.
ProcessBufferKeeps(t) ==
    LET s == at[t] IN
    /\ pc[t] = "process"
    /\ IF Len(sendQ[s]) < QueueSize
       THEN /\ sendQ' = [sendQ EXCEPT ![s] = Append(@, got[t])]
            /\ UNCHANGED state
       ELSE /\ state' = [state EXCEPT ![s] = "closing"]
            /\ UNCHANGED sendQ
    /\ Goto(t, "idle")
    /\ at' = [at EXCEPT ![t] = NoOne]
    /\ got' = [got EXCEPT ![t] = None]
    /\ UNCHANGED <<poolVars, allocs, ref, held, bufferVars, batch, busy, flight, fixed, todo>>

\* Its Enqueue.  With a full queue the reference goes and the session is closed.
ProcessBuffer(t) ==
    LET s == at[t] IN
    /\ pc[t] = "process"
    /\ IF Len(sendQ[s]) < QueueSize
       THEN /\ sendQ' = [sendQ EXCEPT ![s] = Append(@, got[t])]
            /\ at' = [at EXCEPT ![t] = NoOne]
            /\ Goto(t, "idle")
            /\ UNCHANGED <<state, todo>>
       ELSE /\ state' = [state EXCEPT ![s] = "closing"]
            /\ todo' = [todo EXCEPT ![t] = <<got[t]>>]
            /\ Goto(t, "release")
            /\ UNCHANGED <<sendQ, at>>
    /\ got' = [got EXCEPT ![t] = None]
    /\ UNCHANGED <<poolVars, allocs, ref, held, bufferVars, batch, busy, flight, fixed>>

----------------------------------------------------------------------------
\* RealSend.

RealSend(t, s) ==
    /\ pc[t] = "idle" /\ state[s] # "released"
    /\ ~busy[s] /\ sendQ[s] # <<>>
    /\ busy' = [busy EXCEPT ![s] = TRUE]
    /\ at' = [at EXCEPT ![t] = s]
    /\ Goto(t, "fill")
    /\ UNCHANGED <<poolVars, allocs, ref, held, bufferVars, sendQ, batch, flight, state, fixed,
                   got, todo>>

\* A packet is dequeued; WriteLanHeader, or on to TryEncode.
Fill(t) ==
    LET s == at[t]  b == Head(sendQ[s]) IN
    /\ pc[t] = "fill" /\ sendQ[s] # <<>> /\ Len(batch[s]) < MaxSend
    /\ sendQ' = [sendQ EXCEPT ![s] = Tail(@)]
    /\ batch' = [batch EXCEPT ![s] = Append(@, b)]
    /\ IF key[s] = 0
       THEN /\ form' = [form EXCEPT ![b] = "lan"]
            /\ UNCHANGED <<got, pc>>
       ELSE /\ got' = [got EXCEPT ![t] = b]
            /\ Goto(t, "check")
            /\ UNCHANGED form
    /\ UNCHANGED <<poolVars, allocs, ref, held, bytes, isEncrypt, lock, busy, flight, state,
                   fixed, at, todo>>

\* TryEncode's first look at isEncrypt.
EncodeCheck(t) ==
    /\ pc[t] = "check"
    /\ Goto(t, IF isEncrypt[got[t]] = 0 THEN "lock" ELSE "fill")
    /\ UNCHANGED <<poolVars, allocs, ref, held, bufferVars, sessionVars, fixed, at, got, todo>>

\* Mutant: no second look.
EncodeLockOnly(t) ==
    LET b == got[t] IN
    /\ pc[t] = "lock" /\ lock[b] = NoOne
    /\ lock' = [lock EXCEPT ![b] = t]
    /\ Goto(t, "encode")
    /\ UNCHANGED <<poolVars, allocs, ref, held, bytes, form, isEncrypt, sessionVars, fixed,
                   at, got, todo>>

\* The lock and the second look.
EncodeLock(t) ==
    LET b == got[t] IN
    /\ pc[t] = "lock" /\ lock[b] = NoOne
    /\ IF isEncrypt[b] = 0
       THEN lock' = [lock EXCEPT ![b] = t] /\ Goto(t, "encode")
       ELSE Goto(t, "fill") /\ UNCHANGED lock
    /\ UNCHANGED <<poolVars, allocs, ref, held, bytes, form, isEncrypt, sessionVars, fixed,
                   at, got, todo>>

\* WriteNetHeader, and Encode in place.
EncodeWrite(t) ==
    LET b == got[t] IN
    /\ pc[t] = "encode"
    /\ form' = [form EXCEPT ![b] = "net"]
    /\ bytes' = [bytes EXCEPT ![b] = Encode(WriteNetHeader(Tail(@)), key[at[t]])]
    /\ Goto(t, "mark")
    /\ UNCHANGED <<poolVars, allocs, ref, held, isEncrypt, lock, sessionVars, fixed, at, got, todo>>

\* isEncrypt, and the lock is released.
EncodeMark(t) ==
    LET b == got[t] IN
    /\ pc[t] = "mark"
    /\ isEncrypt' = [isEncrypt EXCEPT ![b] = @ + 1]
    /\ lock' = [lock EXCEPT ![b] = NoOne]
    /\ Goto(t, "fill")
    /\ UNCHANGED <<poolVars, allocs, ref, held, bytes, form, sessionVars, fixed, at, got, todo>>

TryEncode(t) == EncodeCheck(t) \/ EncodeLock(t) \/ EncodeWrite(t) \/ EncodeMark(t)

\* WSASend: outstanding, or the connection is gone and the buffers wait for Reset.
SendPost(t) ==
    LET s == at[t] IN
    /\ pc[t] = "fill" /\ (sendQ[s] = <<>> \/ Len(batch[s]) = MaxSend)
    /\ \/ flight' = [flight EXCEPT ![s] = TRUE] /\ UNCHANGED state
       \/ state' = [state EXCEPT ![s] = "closing"] /\ UNCHANGED flight
    /\ Goto(t, "idle")
    /\ at' = [at EXCEPT ![t] = NoOne]
    /\ got' = [got EXCEPT ![t] = None]
    /\ UNCHANGED <<poolVars, allocs, ref, held, bufferVars, sendQ, batch, busy, fixed, todo>>

\* The completion: PostSendExecutable releases the buffers, an error leaves them
\* to Reset.
SendDone(t, s) ==
    /\ pc[t] = "idle" /\ flight[s]
    /\ flight' = [flight EXCEPT ![s] = FALSE]
    /\ \/ /\ todo' = [todo EXCEPT ![t] = batch[s]]
          /\ at' = [at EXCEPT ![t] = s]
          /\ Goto(t, "postSend")
          /\ UNCHANGED state
       \/ /\ state' = [state EXCEPT ![s] = "closing"]
          /\ UNCHANGED <<pc, at, todo>>
    /\ UNCHANGED <<poolVars, allocs, ref, held, bufferVars, sendQ, batch, busy, fixed, got>>

\* Its last buffer is released.
PostSendEnd(t) ==
    LET s == at[t] IN
    /\ pc[t] = "postSend" /\ AllReleased(t)
    /\ batch' = [batch EXCEPT ![s] = <<>>]
    /\ busy' = [busy EXCEPT ![s] = FALSE]
    /\ at' = [at EXCEPT ![t] = NoOne]
    /\ Goto(t, "idle")
    /\ UNCHANGED <<poolVars, allocs, ref, held, bufferVars, sendQ, flight, state, fixed, got, todo>>

----------------------------------------------------------------------------
\* The connection ends.
Close(s) ==
    /\ state[s] = "open"
    /\ state' = [state EXCEPT ![s] = "closing"]
    /\ UNCHANGED <<poolVars, allocs, ref, held, bufferVars, sendQ, batch, busy, flight, fixed,
                   localVars>>

\* Nobody has a reference to the session any more: Reset takes what is queued and
\* what was not sent.
Reset(t, s) ==
    /\ pc[t] = "idle" /\ state[s] = "closing"
    /\ ~flight[s] /\ \A u \in Threads : at[u] # s
    /\ state' = [state EXCEPT ![s] = "released"]
    /\ todo' = [todo EXCEPT ![t] = sendQ[s] \o batch[s]]
    /\ sendQ' = [sendQ EXCEPT ![s] = <<>>]
    /\ batch' = [batch EXCEPT ![s] = <<>>]
    /\ busy' = [busy EXCEPT ![s] = FALSE]
    /\ at' = [at EXCEPT ![t] = s]
    /\ Goto(t, "reset")
    /\ UNCHANGED <<poolVars, allocs, ref, held, bufferVars, flight, fixed, got>>

\* The session is gone.
ResetEnd(t) ==
    /\ pc[t] = "reset" /\ AllReleased(t)
    /\ at' = [at EXCEPT ![t] = NoOne]
    /\ Goto(t, "idle")
    /\ UNCHANGED <<poolVars, allocs, ref, held, bufferVars, sessionVars, fixed, got, todo>>

----------------------------------------------------------------------------
\* CSendBuffer::Release.
Release(t) ==
    /\ pc[t] \in Releasing /\ got[t] = None /\ todo[t] # <<>>
    /\ LET b == Head(todo[t]) IN
        /\ ref' = [ref EXCEPT ![b] = @ - 1]
        /\ got' = [got EXCEPT ![t] = IF ref[b] = 1 THEN b ELSE None]
    /\ todo' = [todo EXCEPT ![t] = Tail(@)]
    /\ UNCHANGED <<poolVars, allocs, held, bufferVars, sessionVars, fixed, pc, at>>

\* Mutant: the bucket goes back one node short.
FreeShort(t) ==
    LET chain == <<got[t]>> \o local[t]
        n == count[t] + 1 IN
    /\ pc[t] \in Releasing /\ got[t] # None
    /\ IF n > 2 * LocalSize
       THEN /\ buckets' = <<SubSeq(chain, 1, LocalSize - 1)>> \o buckets
            /\ local' = [local EXCEPT ![t] = SubSeq(chain, LocalSize, n)]
            /\ count' = [count EXCEPT ![t] = n - LocalSize]
       ELSE /\ local' = [local EXCEPT ![t] = chain]
            /\ count' = [count EXCEPT ![t] = n]
            /\ UNCHANGED buckets
    /\ got' = [got EXCEPT ![t] = None]
    /\ UNCHANGED <<created, allocs, ref, held, bufferVars, sessionVars, fixed, pc, at, todo>>

\* The last reference is gone: TlsPool::Free to the thread's own pool, which gives
\* its top LocalSize nodes back as a bucket when it has more than twice as many.
Free(t) ==
    LET chain == <<got[t]>> \o local[t]
        n == count[t] + 1 IN
    /\ pc[t] \in Releasing /\ got[t] # None
    /\ IF n > 2 * LocalSize
       THEN /\ buckets' = <<SubSeq(chain, 1, LocalSize)>> \o buckets
            /\ local' = [local EXCEPT ![t] = SubSeq(chain, LocalSize + 1, n)]
            /\ count' = [count EXCEPT ![t] = n - LocalSize]
       ELSE /\ local' = [local EXCEPT ![t] = chain]
            /\ count' = [count EXCEPT ![t] = n]
            /\ UNCHANGED buckets
    /\ got' = [got EXCEPT ![t] = None]
    /\ UNCHANGED <<created, allocs, ref, held, bufferVars, sessionVars, fixed, pc, at, todo>>

\* A destructor, or ProcessBuffer, has released its buffer.
ReleaseEnd(t) ==
    /\ pc[t] = "release" /\ AllReleased(t)
    /\ Goto(t, "idle")
    /\ at' = [at EXCEPT ![t] = NoOne]
    /\ UNCHANGED <<poolVars, allocs, ref, held, bufferVars, sessionVars, fixed, got, todo>>

----------------------------------------------------------------------------
Content(t) ==
    \/ Cardinality(Live) < MaxLive /\ Alloc(t)
    \/ AcquireMake(t)
    \/ \E b \in Buffers :
        \/ \E u \in Contents : HandleCount(b) < MaxHandle /\ Copy(t, u, b)
        \/ Drop(t, b)
        \/ \E s \in Sessions : SendPacket(t, s, b)
    \/ ProcessBuffer(t)

Worker(t) ==
    \/ \E s \in Sessions : RealSend(t, s) \/ SendDone(t, s) \/ Reset(t, s)
    \/ Fill(t) \/ TryEncode(t) \/ SendPost(t) \/ PostSendEnd(t) \/ ResetEnd(t)
    \/ Release(t) \/ Free(t) \/ ReleaseEnd(t)

Next == (\E t \in Contents : Content(t)) \/ (\E t \in Threads : Worker(t)) \/ (\E s \in Sessions : Close(s))

Spec == Init /\ [][Next]_vars

----------------------------------------------------------------------------
\* The variables' types.
TypeOK ==
    /\ buckets \in Seq(Seq(Buffers)) /\ local \in [Threads -> Seq(Buffers)]
    /\ count \in [Threads -> 0..(2 * LocalSize)]
    /\ created \in 0..MaxBuffer /\ allocs \in 0..MaxAlloc
    /\ ref \in [Buffers -> Nat] /\ held \in [Contents -> [Buffers -> 0..MaxHandle]]
    /\ bytes \in [Buffers -> Seq(Chars)]
    /\ form \in [Buffers -> {"none", "lan", "net"}]
    /\ isEncrypt \in [Buffers -> 0..1]
    /\ lock \in [Buffers -> Threads \cup {NoOne}]
    /\ sendQ \in [Sessions -> Seq(Buffers)] /\ batch \in [Sessions -> Seq(Buffers)]
    /\ busy \in [Sessions -> BOOLEAN] /\ flight \in [Sessions -> BOOLEAN]
    /\ state \in [Sessions -> {"open", "closing", "released"}]
    /\ at \in [Threads -> Sessions \cup {NoOne}]
    /\ got \in [Threads -> Buffers \cup {None}]
    /\ todo \in [Threads -> Seq(Buffers)]

\* Where a buffer is, each place as an index into its sequence.
In(b, q, x) == {<<x, i>> : i \in {j \in DOMAIN q : q[j] = b}}

\* The buffers of a session's batch that are not yet released.
Unreleased(s) ==
    IF \E t \in Threads : pc[t] = "postSend" /\ at[t] = s THEN <<>> ELSE batch[s]

\* A reference count is the number of handles, queued and sent packets and calls
\* that have the buffer.
RefExact ==
    \A b \in 1..created :
        ref[b] = HandleCount(b)
               + Cardinality(UNION {In(b, sendQ[s], s) : s \in Sessions})
               + Cardinality(UNION {In(b, Unreleased(s), s) : s \in Sessions})
               + Cardinality(UNION {In(b, todo[t], t) : t \in Threads})
               + Cardinality({t \in Threads : pc[t] = "process" /\ got[t] = b})

\* Every node is in one bucket, in one local pool, on its way there, or in use;
\* buckets are full, and a pool's count is the length of its chain, which is why
\* TlsPool::Alloc may set _objectCount to _localPoolSize without counting and
\* Free may walk that many nodes (TLSPool.h:149, 174).
PooledOnce ==
    /\ \A i \in DOMAIN buckets : Len(buckets[i]) = LocalSize
    /\ \A t \in Threads : count[t] = Len(local[t])
    /\ \A b \in 1..created :
        Cardinality(UNION {In(b, buckets[i], i) : i \in DOMAIN buckets})
        + Cardinality(UNION {In(b, local[t], t) : t \in Threads})
        + Cardinality({t \in Threads : pc[t] \in Releasing /\ got[t] = b})
        + (IF ref[b] > 0 THEN 1 ELSE 0) = 1

\* A peer with the session's key reads the message from every outstanding send,
\* while other threads send the same buffer to other sessions.
WireReadable ==
    \A s \in Sessions : flight[s] =>
        \A i \in DOMAIN batch[s] :
            LET b == batch[s][i] IN
            IF key[s] = 0 THEN form[b] = "lan" /\ Tail(bytes[b]) = message
            ELSE LET x == Decode(bytes[b], key[s]) IN
                 form[b] = "net" /\ ChecksumValid(x) /\ Tail(x) = message
===============================================================================
