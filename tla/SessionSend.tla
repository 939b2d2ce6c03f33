----------------------------- MODULE SessionSend -----------------------------
(***************************************************************************)
(* The send path of one slot: SendPacket, CanSend, RealSend and PostSend,   *)
(* the ring _sendQ, the array _sendingQ, and what Reset does with them when *)
(* the slot is released and accepted again.                                 *)
(*                                                                          *)
(* Reference counting is Session's; here a session is released when no      *)
(* thread, no send and no receive uses it, which is what RefCountExact and  *)
(* ReleasedOnce of that module say.  A packet is named by the index it gets *)
(* in _sendQ.  The ring's own atomic accesses are LockFreeFixedQueue's; an  *)
(* Enqueue is two steps here, its index and its node, and so is a Dequeue   *)
(* of the one thread that may be sending.  An Enqueue that finds its node   *)
(* used has an index all the same, and publishes nothing at it: a hole.     *)
(***************************************************************************)
EXTENDS Integers, FiniteSets, Sequences

CONSTANTS
    Workers,     \* threads of IOCP::WorkerThread
    Callers,     \* content threads that send
    BufferSize,  \* MAX_SEND_COUNT: nodes of _sendQ, entries of _sendingQ
    MaxPacket,   \* bound: packets sent to the slot
    MaxLife      \* bound: connections accepted into the slot

ASSUME SendAssumption ==
    /\ Workers \cap Callers = {}
    /\ BufferSize \in Nat \ {0}
    /\ MaxPacket \in Nat
    /\ MaxLife \in Nat \ {0}

Threads == Workers \cup Callers
Packets == 0..(MaxPacket - 1)
Slot(i) == i % BufferSize
None == -1

VARIABLES
    life,         \* which connection the slot has, or had last
    state,        \* "up", "released" (ReleaseExecutable queued) or "free"
    connect,      \* Session::_connect
    receiving,    \* the receive's reference
    headIndex,
    tailIndex,
    ring,         \* the published nodes of _sendQ
    isSending,    \* Session::_isSending
    sendPosted,   \* SendExecutables queued on the completion port
    sendingQ,     \* Session::_sendingQ
    dataNotSend,  \* PostSendExecutable::dataNotSend
    sendIo,       \* overlapped sends outstanding
    pc,           \* where each thread is
    local,        \* its packet, or RealSend's sendPackets
    ofLife,       \* history: the connection a packet was accepted for, 0 if none
    freed,        \* history: how often _sendQ's reference to a packet was released
    sent,         \* history: packets given to WSASend, with the connection
    failed,       \* history: a send of this connection failed
    overfull      \* history: an Enqueue found its node used, or being filled

lifeVars == <<life, state, connect, receiving>>
queueVars == <<headIndex, tailIndex, ring>>
sendVars == <<isSending, sendPosted, sendingQ, dataNotSend, sendIo>>
historyVars == <<ofLife, freed, sent, failed, overfull>>
vars == <<lifeVars, queueVars, sendVars, pc, local, historyVars>>

----------------------------------------------------------------------------
Size == tailIndex - headIndex

Goto(t, l) == pc' = [pc EXCEPT ![t] = l]

\* isUsed of the node of index i: it holds a packet, or Dequeue has moved headIndex
\* past it and not yet cleared it.
Used(i) == \/ ring[Slot(i)] # None
           \/ \E t \in Threads : pc[t] = "unmark" /\ Slot(headIndex - 1) = Slot(i)

\* n Dequeues that return true.
Dequeue(n) ==
    /\ headIndex' = headIndex + n
    /\ ring' = [s \in DOMAIN ring |->
                  IF \E j \in 0..(n - 1) : Slot(headIndex + j) = s THEN None ELSE ring[s]]
    /\ UNCHANGED tailIndex

\* How many Dequeues return true, one after the other, when nobody enqueues: up to
\* a hole, if there is one.
Run == CHOOSE k \in 0..BufferSize :
          /\ \A j \in 0..(k - 1) : ring[Slot(headIndex + j)] # None
          /\ k < BufferSize => ring[Slot(headIndex + k)] = None

\* What they return.
Taken == [j \in 1..Run |-> ring[Slot(headIndex + j - 1)]]

Free(ps) == freed' = [p \in Packets |-> freed[p] + Cardinality({j \in DOMAIN ps : ps[j] = p})]

Sending == [j \in 1..dataNotSend |-> sendingQ[j]]

\* A thread holds a reference at every point but these.
NoRef == {"idle", "sendInc", "broken"}

Init ==
    /\ life = 1
    /\ state = "up"
    /\ connect = TRUE
    /\ receiving = TRUE
    /\ headIndex = 0
    /\ tailIndex = 0
    /\ ring = [s \in 0..(BufferSize - 1) |-> None]
    /\ isSending = FALSE
    /\ sendPosted = 0
    /\ sendingQ = [j \in 1..BufferSize |-> None]
    /\ dataNotSend = 0
    /\ sendIo = 0
    /\ pc = [t \in Threads |-> "idle"]
    /\ local = [t \in Threads |-> 0]
    /\ ofLife = [p \in Packets |-> 0]
    /\ freed = [p \in Packets |-> 0]
    /\ sent = <<>>
    /\ failed = FALSE
    /\ overfull = FALSE

----------------------------------------------------------------------------
\* SendPacket and SendPacketBlocking: FindSession succeeds, ProcessBuffer takes
\* an index of the ring.
SendPacket(t) ==
    /\ pc[t] = "idle"
    /\ state = "up"
    /\ tailIndex < MaxPacket
    /\ tailIndex' = tailIndex + 1
    /\ local' = [local EXCEPT ![t] = tailIndex]
    /\ Goto(t, IF Used(tailIndex) THEN "full" ELSE "put")
    /\ overfull' = \/ overfull \/ Used(tailIndex)
                   \/ \E u \in Threads : pc[u] = "put" /\ Slot(local[u]) = Slot(tailIndex)
    /\ UNCHANGED <<lifeVars, headIndex, ring, sendVars, ofLife, freed, sent, failed>>

\* Enqueue's other half: "if (isUsed.exchange(true) == true) __debugbreak();"
Put(t) ==
    /\ pc[t] = "put"
    /\ ring' = [ring EXCEPT ![Slot(local[t])] = local[t]]
    /\ ofLife' = [ofLife EXCEPT ![local[t]] = life]
    /\ Goto(t, IF Used(local[t]) THEN "broken" ELSE "connect")
    /\ UNCHANGED <<lifeVars, headIndex, tailIndex, sendVars, local, freed, sent, failed, overfull>>

\* The queue is full: the packet is dropped and the session disconnected.
Full(t) ==
    /\ pc[t] = "full"
    /\ freed' = [freed EXCEPT ![local[t]] = @ + 1]
    /\ connect' = FALSE
    /\ Goto(t, "connect")
    /\ UNCHANGED <<life, state, receiving, queueVars, sendVars, local, ofLife, sent, failed,
                   overfull>>

\* CanSend: _connect, then Size, then the exchange of _isSending, then Size again.
CanConnect(t) ==
    /\ pc[t] = "connect"
    /\ Goto(t, IF connect THEN "size" ELSE "idle")
    /\ UNCHANGED <<lifeVars, queueVars, sendVars, local, historyVars>>

CanSize(t) ==
    /\ pc[t] = "size"
    /\ Goto(t, IF Size = 0 THEN "idle" ELSE "exchange")
    /\ UNCHANGED <<lifeVars, queueVars, sendVars, local, historyVars>>

\* Mutant: _isSending is read, not exchanged.
CanRead(t) ==
    /\ pc[t] = "exchange"
    /\ Goto(t, IF isSending THEN "idle" ELSE "again")
    /\ UNCHANGED <<lifeVars, queueVars, sendVars, local, historyVars>>

CanExchange(t) ==
    /\ pc[t] = "exchange"
    /\ isSending' = TRUE
    /\ Goto(t, IF isSending THEN "idle" ELSE "again")
    /\ UNCHANGED <<lifeVars, queueVars, sendPosted, sendingQ, dataNotSend, sendIo,
                   local, historyVars>>

\* Mutant: Size is not looked at again.
CanRecheckNever(t) ==
    /\ pc[t] = "again"
    /\ \/ Goto(t, "real")
       \/ t \in Callers /\ Goto(t, "post")
    /\ UNCHANGED <<lifeVars, queueVars, sendVars, local, historyVars>>

\* True: a worker and SendPacketBlocking send at once, SendPacket posts.
CanRecheck(t) ==
    /\ pc[t] = "again"
    /\ IF Size = 0
       THEN isSending' = FALSE /\ Goto(t, "size")
       ELSE /\ UNCHANGED isSending
            /\ \/ Goto(t, "real")
               \/ t \in Callers /\ Goto(t, "post")
    /\ UNCHANGED <<lifeVars, queueVars, sendPosted, sendingQ, dataNotSend, sendIo,
                   local, historyVars>>

PostSendExecutable(t) ==
    /\ pc[t] = "post"
    /\ sendPosted' = sendPosted + 1
    /\ Goto(t, "idle")
    /\ UNCHANGED <<lifeVars, queueVars, isSending, sendingQ, dataNotSend, sendIo,
                   local, historyVars>>

CanSend(t) == \/ CanConnect(t) \/ CanSize(t) \/ CanExchange(t) \/ CanRecheck(t)
              \/ PostSendExecutable(t)

----------------------------------------------------------------------------
\* A worker takes the SendExecutable from the port, and holds no reference until
\* RealSend's IncreaseRef; a released session is left alone.
TakeSend(w) ==
    /\ pc[w] = "idle" /\ sendPosted > 0
    /\ sendPosted' = sendPosted - 1
    /\ Goto(w, "sendInc")
    /\ UNCHANGED <<lifeVars, queueVars, isSending, sendingQ, dataNotSend, sendIo,
                   local, historyVars>>

SendInc(w) ==
    /\ pc[w] = "sendInc"
    /\ Goto(w, IF state = "up" THEN "real" ELSE "idle")
    /\ UNCHANGED <<lifeVars, queueVars, sendVars, local, historyVars>>

\* RealSend: "if (queueSize < 1) __debugbreak();"
RealSize(t) ==
    /\ pc[t] = "real"
    /\ local' = [local EXCEPT ![t] = 0]
    /\ Goto(t, IF Size < 1 THEN "broken" ELSE "fill")
    /\ UNCHANGED <<lifeVars, queueVars, sendVars, historyVars>>

\* It dequeues into _sendingQ: headIndex first ...
RealClaim(t) ==
    /\ pc[t] = "fill"
    /\ local[t] < BufferSize
    /\ ring[Slot(headIndex)] # None
    /\ Dequeue(1)
    /\ sendingQ' = [sendingQ EXCEPT ![local[t] + 1] = ring[Slot(headIndex)]]
    /\ local' = [local EXCEPT ![t] = local[t] + 1]
    /\ Goto(t, "unmark")
    /\ UNCHANGED <<lifeVars, isSending, sendPosted, dataNotSend, sendIo, historyVars>>

\* ... then the node's isUsed.
RealUnmark(t) ==
    /\ pc[t] = "unmark"
    /\ Goto(t, "fill")
    /\ UNCHANGED <<lifeVars, queueVars, sendVars, local, historyVars>>

\* Until _sendingQ is full or Dequeue returns false; with nothing dequeued so far
\* the loop goes on, and there is no step.
RealStop(t) ==
    /\ pc[t] = "fill"
    /\ local[t] > 0
    /\ local[t] = BufferSize \/ ring[Slot(headIndex)] = None
    /\ Goto(t, "wsaSend")
    /\ UNCHANGED <<lifeVars, queueVars, sendVars, local, historyVars>>

\* WSASend, pending or complete; or it fails and only the reference is released.
RealPost(t) ==
    /\ pc[t] = "wsaSend"
    /\ dataNotSend' = local[t]
    /\ \/ /\ sendIo' = sendIo + 1
          /\ sent' = sent \o [j \in 1..local[t] |-> <<life, sendingQ[j]>>]
          /\ UNCHANGED failed
       \/ failed' = TRUE /\ UNCHANGED <<sendIo, sent>>
    /\ Goto(t, "idle")
    /\ UNCHANGED <<lifeVars, queueVars, isSending, sendPosted, sendingQ, local, ofLife, freed,
                   overfull>>

RealSend(t) == \/ RealSize(t) \/ RealClaim(t) \/ RealUnmark(t) \/ RealStop(t) \/ RealPost(t)

----------------------------------------------------------------------------
\* A send completes; after an error the worker only releases the reference.
SendDone(w) ==
    /\ pc[w] = "idle" /\ sendIo > 0
    /\ sendIo' = sendIo - 1
    /\ \/ Goto(w, "free") /\ UNCHANGED failed
       \/ Goto(w, "idle") /\ failed' = TRUE
    /\ UNCHANGED <<lifeVars, queueVars, isSending, sendPosted, sendingQ, dataNotSend,
                   local, ofLife, freed, sent, overfull>>

\* Mutant: dataNotSend is not reset.
PostFreeKeeps(w) ==
    /\ pc[w] = "free"
    /\ Free(Sending)
    /\ Goto(w, "clear")
    /\ UNCHANGED <<lifeVars, queueVars, isSending, sendPosted, sendingQ, dataNotSend, sendIo,
                   local, ofLife, sent, failed, overfull>>

\* PostSendExecutable::Execute: the packets' references, then _isSending, then
\* TrySend.
PostFree(w) ==
    /\ pc[w] = "free"
    /\ Free(Sending)
    /\ dataNotSend' = 0
    /\ Goto(w, "clear")
    /\ UNCHANGED <<lifeVars, queueVars, isSending, sendPosted, sendingQ, sendIo,
                   local, ofLife, sent, failed, overfull>>

\* Mutant: no TrySend after the send.
PostClearOnly(w) ==
    /\ pc[w] = "clear"
    /\ isSending' = FALSE
    /\ Goto(w, "idle")
    /\ UNCHANGED <<lifeVars, queueVars, sendPosted, sendingQ, dataNotSend, sendIo,
                   local, historyVars>>

PostClear(w) ==
    /\ pc[w] = "clear"
    /\ isSending' = FALSE
    /\ Goto(w, "connect")
    /\ UNCHANGED <<lifeVars, queueVars, sendPosted, sendingQ, dataNotSend, sendIo,
                   local, historyVars>>

PostSend(w) == PostFree(w) \/ PostClear(w)

----------------------------------------------------------------------------
\* DisconnectSession by content; the peer may go at any time.
Disconnect ==
    /\ state = "up"
    /\ connect' = FALSE
    /\ UNCHANGED <<life, state, receiving, queueVars, sendVars, pc, local, historyVars>>

EndReceive ==
    /\ receiving
    /\ receiving' = FALSE
    /\ UNCHANGED <<life, state, connect, queueVars, sendVars, pc, local, historyVars>>

\* The last reference is released.
Release ==
    /\ state = "up"
    /\ ~receiving /\ sendIo = 0 /\ \A t \in Threads : pc[t] \in NoRef
    /\ state' = "released"
    /\ UNCHANGED <<life, connect, receiving, queueVars, sendVars, pc, local, historyVars>>

\* Mutant: Reset forgets the packets of a send that failed.
ResetQueueOnly ==
    /\ Dequeue(Run)
    /\ isSending' = FALSE
    /\ dataNotSend' = 0
    /\ Free(Taken)
    /\ UNCHANGED <<sendPosted, sendingQ, sendIo, local, ofLife, sent, overfull>>

\* Session::Reset: what Dequeue still returns and what is left in _sendingQ is
\* released; nobody enqueues now.
Reset ==
    /\ Dequeue(Run)
    /\ isSending' = FALSE
    /\ dataNotSend' = 0
    /\ Free(Taken \o Sending)
    /\ UNCHANGED <<sendPosted, sendingQ, sendIo, local, ofLife, sent, overfull>>

\* ReleaseExecutable::Execute.  The port is a FIFO: what was posted before the
\* ReleaseExecutable has been taken by some worker.
ReleaseExecute(w) ==
    /\ pc[w] = "idle"
    /\ state = "released"
    /\ sendPosted = 0
    /\ Reset
    /\ state' = "free"
    /\ UNCHANGED <<life, connect, receiving, pc, failed>>

\* AcceptThread takes the slot again.
Accept ==
    /\ state = "free"
    /\ life < MaxLife
    /\ Reset
    /\ life' = life + 1
    /\ state' = "up"
    /\ connect' = TRUE
    /\ receiving' = TRUE
    /\ failed' = FALSE
    /\ UNCHANGED pc

----------------------------------------------------------------------------
Step(t) == Put(t) \/ Full(t) \/ CanSend(t) \/ RealSend(t)
Work(w) == SendInc(w) \/ PostSend(w)

Next ==
    \/ \E t \in Callers : SendPacket(t)
    \/ \E t \in Threads : Step(t)
    \/ \E w \in Workers : TakeSend(w) \/ SendDone(w) \/ Work(w) \/ ReleaseExecute(w)
    \/ Disconnect \/ EndReceive \/ Release \/ Accept

Spec == Init /\ [][Next]_vars

\* Threads inside a call go on, workers serve the port, a send ends, a release
\* happens, and the receive of a closed or failed connection ends.
Fairness ==
    /\ \A t \in Threads : WF_vars(Step(t))
    /\ \A w \in Workers : WF_vars(Work(w))
    /\ WF_vars(\E w \in Workers : TakeSend(w))
    /\ WF_vars(\E w \in Workers : SendDone(w))
    /\ WF_vars(\E w \in Workers : ReleaseExecute(w))
    /\ WF_vars(Release)
    /\ WF_vars((~connect \/ failed) /\ EndReceive)

FairSpec == Spec /\ Fairness

----------------------------------------------------------------------------
\* The variables' types.
TypeOK ==
    /\ life \in 1..MaxLife
    /\ state \in {"up", "released", "free"}
    /\ connect \in BOOLEAN /\ receiving \in BOOLEAN /\ isSending \in BOOLEAN
    /\ headIndex \in 0..MaxPacket /\ tailIndex \in 0..MaxPacket
    /\ ring \in [0..(BufferSize - 1) -> Packets \cup {None}]
    /\ sendPosted \in 0..1
    /\ sendingQ \in [1..BufferSize -> Packets \cup {None}]
    /\ dataNotSend \in 0..BufferSize
    /\ sendIo \in 0..1
    /\ pc \in [Threads -> {"idle", "put", "full", "connect", "size", "exchange",
                           "again", "post", "sendInc", "real", "fill", "unmark",
                           "wsaSend", "free", "clear", "broken"}]
    /\ freed \in [Packets -> Nat]
    /\ ofLife \in [Packets -> 0..MaxLife]

\* _isSending is a lock: while a connection lasts, at most one thread, posted
\* SendExecutable or send is between CanSend's exchange and PostSend's store, so
\* _sendingQ and dataNotSend have one user.
OneSender ==
    LET senders == {t \in Threads : pc[t] \in {"again", "post", "sendInc", "real", "fill",
                                              "unmark", "wsaSend", "free", "clear"}}
        n == Cardinality(senders) + sendPosted + sendIo
    IN n <= 1 /\ (n = 1 /\ state = "up" => isSending)

\* "if (queueSize < 1) { __debugbreak(); }" (Session.cpp:454): RealSend is only
\* run when there is something to send, and no two threads have the same node,
\* as long as no Enqueue was refused for lack of room.
NoDebugBreak == overfull \/ \A t \in Threads : pc[t] # "broken"

\* The connection gets its own packets, in the order of the queue, each once, as
\* long as no Enqueue was refused.  (Past a hole they come in another order, and
\* those Reset left behind it go to the next connection.)
SentInOrder ==
    \/ overfull
    \/ /\ \A j \in DOMAIN sent : ofLife[sent[j][2]] = sent[j][1]
       /\ \A j, k \in DOMAIN sent : j < k => sent[j][2] < sent[k][2]

\* The queue's reference to a packet is released exactly once, as long as no
\* Enqueue was refused: never twice, and by the time the slot is free again it
\* has been released.  (Reset stops at a hole.)
PacketsFreedOnce ==
    \/ overfull
    \/ \A p \in Packets :
          /\ freed[p] <= 1
          /\ ofLife[p] # 0 /\ state = "free" => freed[p] = 1

\* Also with holes in the queue, after any number of laps and connections, no
\* packet is sent twice and no reference released twice (or it would be freed
\* under its next user), a refused packet's among them.
NothingTwice ==
    /\ \A j, k \in DOMAIN sent : sent[j][2] = sent[k][2] => j = k
    /\ \A p \in Packets : freed[p] <= 1

\* No lost wakeup: a packet that was accepted is given to WSASend, unless the
\* session is disconnected, a send of it fails, the peer goes, or an Enqueue was
\* refused (RealSend then waits at the hole).
AcceptedIsSent ==
    \A p \in Packets :
        ofLife[p] # 0
            ~> \/ \E j \in DOMAIN sent : sent[j][2] = p
               \/ ~connect \/ failed \/ ~receiving \/ life # ofLife[p]
               \/ overfull

\* "버퍼가 가득 찰 정도면 끊는다." (NormalIOCP.cpp:408): a session whose send queue is
\* full is disconnected, that is, released in the end.
FullIsDisconnected ==
    \A l \in 1..MaxLife :
        (life = l /\ \E t \in Threads : pc[t] = "full") ~> (life # l \/ state # "up")
==============================================================================
