------------------------------- MODULE Session -------------------------------
(***************************************************************************)
(* The life of one slot of the session array (Session.cpp, NormalIOCP.cpp  *)
(* and the Executables): accept, lookup by id, reference counting, receive *)
(* and send I/O, close, release and reuse of the slot.                     *)
(*                                                                         *)
(* Every operation of the code touches one slot and, at most, the number   *)
(* of times that slot's index is on the free-index stack, so the slots of  *)
(* the array do not interact and one of them is modelled.  The session is  *)
(* in no group (group 0); the group's part of a release is not here.       *)
(*                                                                         *)
(* A thread that is inside the code is at a program point pc[t]; a point   *)
(* is a place where another thread may run between two accesses to shared  *)
(* state.  Calls a user callback makes are made here by the Callers.       *)
(***************************************************************************)
EXTENDS Integers, FiniteSets

CONSTANTS
    Workers,      \* threads of IOCP::WorkerThread
    Callers,      \* content threads that call the IOCP's methods with an id
    Timers,       \* the callers that run IOCP::TimeoutThread as well
    Acceptor,     \* the thread of IOCP::AcceptThread
    ReleaseFlag,  \* RELEASE_FLAG, the bit above every reference count
    MaxId,        \* bound: number of connections accepted into the slot
    MaxSend       \* bound: sends outstanding, and SendExecutables queued

ASSUME SessionAssumption ==
    /\ IsFiniteSet(Workers) /\ IsFiniteSet(Callers)
    /\ Timers \subseteq Callers
    /\ Workers \cap Callers = {}
    /\ Acceptor \notin Workers \cup Callers
    /\ ReleaseFlag \in Nat \ {0}
    /\ MaxId \in Nat
    /\ MaxSend \in Nat

Threads == Workers \cup Callers \cup {Acceptor}
Ids == 1..MaxId

VARIABLES
    refCount,      \* Session::_refCount
    connect,       \* Session::_connect
    sessionId,     \* Session::_sessionId, 0 before the first connection
    isSending,     \* Session::_isSending
    socket,        \* Session::_socket: the connection it is of, 0 if INVALID_SOCKET
    recvIo,        \* the one overlapped receive, as the kernel sees it
    sendIo,        \* overlapped sends outstanding
    sendPosted,    \* SendExecutables queued on the completion port
    releasePosted, \* ReleaseExecutables queued on the completion port
    freeIndex,     \* how often the slot's index is on _freeIndex
    lastId,        \* g_sessionId
    sessionCount,  \* _sessionCount
    hole,          \* an Enqueue was refused: _sendQ has an index nobody published
    pc,            \* where each thread is
    call,          \* each thread's locals: what its call is for, the id it looks
                   \* up, what IncreaseRef returned
    phase          \* the callbacks made for each id: OnConnect, OnDisconnect

slotVars == <<refCount, connect, sessionId, isSending, socket>>
ioVars == <<recvIo, sendIo, sendPosted, releasePosted>>
serverVars == <<freeIndex, lastId, sessionCount, hole>>  \* they outlive a connection
vars == <<slotVars, ioVars, serverVars, pc, call, phase>>

----------------------------------------------------------------------------
\* A thread holds one reference at these points ...
HoldPcs == {"accInstall", "accOffFlag", "accConnect", "accOnConnect",
            "recvCheck", "recvPost", "recvClose", "recvCancel",
            "findCheck", "hold", "cancel", "dec",
            "sendPost", "spin", "postSend", "trySend", "nestedInc",
            "nestedPost", "nestedSpin", "nestedDec"}
\* ... and a second one, taken by the RealSend that TrySend calls, at these.
Hold2Pcs == {"nestedPost", "nestedSpin", "nestedDec"}
\* A thread at these points owns the slot: it is releasing or accepting it.
OwnPcs == {"post", "relReset", "relPush",
           "accReset", "accInc", "accInstall", "accOffFlag"}
\* A thread at these points is about to post the session's receive.
RecvPcs == {"accConnect", "accOnConnect", "recvCheck", "recvPost",
            "recvClose", "recvCancel"}
Pcs == HoldPcs \cup OwnPcs
         \cup {"idle", "recvRecheck", "find", "cas", "accCount", "timeout", "report"}
Ops == {"none", "disconnect", "send", "probe", "timeout"}
Calls == [op : Ops, id : 0..MaxId, inc : Nat]
NoCall == [op |-> "none", id |-> 0, inc |-> 0]

At(P) == {t \in Threads : pc[t] \in P}

Goto(t, l) == pc' = [pc EXCEPT ![t] = l]
Locals(t, o, i, n) == call' = [call EXCEPT ![t] = [op |-> o, id |-> i, inc |-> n]]
Forget(t) == Locals(t, "none", 0, 0)

\* Where RecvNotIncrease, Release and DisconnectSession return to.
Return(t) == IF t = Acceptor THEN "accCount"
             ELSE IF call[t].op = "timeout" THEN "report" ELSE "idle"

Released == refCount >= ReleaseFlag

----------------------------------------------------------------------------
Init ==
    /\ refCount = ReleaseFlag
    /\ connect = FALSE
    /\ sessionId = 0
    /\ isSending = FALSE
    /\ socket = 0
    /\ recvIo = "none"
    /\ sendIo = 0
    /\ sendPosted = 0
    /\ releasePosted = 0
    /\ freeIndex = 1
    /\ lastId = 0
    /\ sessionCount = 0
    /\ hole = FALSE
    /\ pc = [t \in Threads |-> "idle"]
    /\ call = [t \in Threads |-> NoCall]
    /\ phase = [i \in Ids |-> "new"]

----------------------------------------------------------------------------
\* Mutant: the index is taken without asking whether there is one.
AcceptPopUnchecked ==
    /\ pc[Acceptor] = "idle"
    /\ lastId < MaxId
    /\ freeIndex' = freeIndex - 1
    /\ lastId' = lastId + 1
    /\ Goto(Acceptor, "accReset")
    /\ UNCHANGED <<slotVars, ioVars, sessionCount, hole, call, phase>>

\* AcceptThread: an accepted socket gets the slot's index and the next id.
AcceptPop ==
    /\ pc[Acceptor] = "idle"
    /\ freeIndex > 0
    /\ lastId < MaxId
    /\ freeIndex' = freeIndex - 1
    /\ lastId' = lastId + 1
    /\ Goto(Acceptor, "accReset")
    /\ UNCHANGED <<slotVars, ioVars, sessionCount, hole, call, phase>>

\* Session::Reset, as far as this module keeps the session's fields.
Reset ==
    /\ isSending' = FALSE
    /\ socket' = 0
    /\ UNCHANGED <<refCount, connect, sessionId>>

AcceptReset ==
    /\ pc[Acceptor] = "accReset"
    /\ Reset
    /\ Goto(Acceptor, "accInc")
    /\ UNCHANGED <<ioVars, serverVars, call, phase>>

AcceptInc ==
    /\ pc[Acceptor] = "accInc"
    /\ refCount' = refCount + 1
    /\ Goto(Acceptor, "accInstall")
    /\ UNCHANGED <<connect, sessionId, isSending, socket,
                   ioVars, serverVars, call, phase>>

AcceptInstall ==
    /\ pc[Acceptor] = "accInstall"
    /\ sessionId' = lastId
    /\ socket' = lastId
    /\ Goto(Acceptor, "accOffFlag")
    /\ UNCHANGED <<refCount, connect, isSending,
                   ioVars, serverVars, call, phase>>

OffReleaseFlag ==
    /\ pc[Acceptor] = "accOffFlag"
    /\ refCount' = IF Released THEN refCount - ReleaseFlag ELSE refCount
    /\ Goto(Acceptor, "accConnect")
    /\ UNCHANGED <<connect, sessionId, isSending, socket,
                   ioVars, serverVars, call, phase>>

AcceptConnect ==
    /\ pc[Acceptor] = "accConnect"
    /\ connect' = TRUE
    /\ Goto(Acceptor, "accOnConnect")
    /\ UNCHANGED <<refCount, sessionId, isSending, socket,
                   ioVars, serverVars, call, phase>>

AcceptOnConnect ==
    /\ pc[Acceptor] = "accOnConnect"
    /\ phase' = [phase EXCEPT ![sessionId] = "connected"]
    /\ Goto(Acceptor, "recvCheck")
    /\ UNCHANGED <<slotVars, ioVars, serverVars, call>>

\* The session is counted only after its first receive has been posted.
AcceptCount ==
    /\ pc[Acceptor] = "accCount"
    /\ sessionCount' = sessionCount + 1
    /\ Goto(Acceptor, "idle")
    /\ UNCHANGED <<slotVars, ioVars, freeIndex, lastId, hole, call, phase>>

Accept == \/ AcceptPop \/ AcceptReset \/ AcceptInc \/ AcceptInstall
          \/ OffReleaseFlag \/ AcceptConnect \/ AcceptOnConnect \/ AcceptCount

----------------------------------------------------------------------------
\* RecvNotIncrease: the caller's reference becomes the receive's.
RecvCheck(t) ==
    /\ pc[t] = "recvCheck"
    /\ Goto(t, IF Released \/ ~connect THEN "dec" ELSE "recvPost")
    /\ UNCHANGED <<slotVars, ioVars, serverVars, call, phase>>

\* Mutant: the caller's reference is given back although the receive needs it.
RecvPendingReleases(t) ==
    /\ pc[t] = "recvPost"
    /\ recvIo' = "pending"
    /\ Goto(t, "dec")
    /\ UNCHANGED <<slotVars, sendIo, sendPosted, releasePosted,
                   serverVars, call, phase>>

\* Mutant: WSA_IO_PENDING is taken for an error and the receive tried again.
RecvPendingRetries(t) ==
    /\ pc[t] = "recvPost"
    /\ recvIo' = "pending"
    /\ Goto(t, "recvCheck")
    /\ UNCHANGED <<slotVars, sendIo, sendPosted, releasePosted,
                   serverVars, call, phase>>

RecvPending(t) ==
    /\ pc[t] = "recvPost"
    /\ recvIo' = "pending"
    /\ Locals(t, "disconnect", sessionId, 0)
    /\ Goto(t, "recvRecheck")
    /\ UNCHANGED <<slotVars, sendIo, sendPosted, releasePosted,
                   serverVars, phase>>

\* WSARecv succeeds at once: the completion is queued and nothing is rechecked.
RecvImmediate(t) ==
    /\ pc[t] = "recvPost"
    /\ recvIo' = "data"
    /\ Goto(t, Return(t))
    /\ UNCHANGED <<slotVars, sendIo, sendPosted, releasePosted,
                   serverVars, call, phase>>

\* Mutant: the error path forgets to Release.
RecvFailsLeaks(t) ==
    /\ pc[t] = "recvPost"
    /\ Goto(t, Return(t))
    /\ UNCHANGED <<slotVars, ioVars, serverVars, call, phase>>

RecvFails(t) ==
    /\ pc[t] = "recvPost"
    /\ Goto(t, "dec")
    /\ UNCHANGED <<slotVars, ioVars, serverVars, call, phase>>

\* Mutant: no recheck after WSA_IO_PENDING.
RecvNoRecheck(t) ==
    /\ pc[t] = "recvRecheck"
    /\ Goto(t, Return(t)) /\ Forget(t)
    /\ UNCHANGED <<slotVars, ioVars, serverVars, phase>>

\* After WSA_IO_PENDING: was the session closed before the receive was there?
\* The thread holds no reference now, so it disconnects by the id it read.
RecvRecheck(t) ==
    /\ pc[t] = "recvRecheck"
    /\ IF connect THEN Goto(t, Return(t)) /\ Forget(t)
                  ELSE Goto(t, "find") /\ UNCHANGED call
    /\ UNCHANGED <<slotVars, ioVars, serverVars, phase>>

RecvNotIncrease(t) ==
    RecvCheck(t) \/ RecvPending(t) \/ RecvImmediate(t) \/ RecvFails(t) \/ RecvRecheck(t)

----------------------------------------------------------------------------
\* A content thread calls DisconnectSession, SendPacket or, for "probe", one of
\* IsValidSession, SetTimeout and SetSessionStaticKey, with an id it was given.
Call(t) ==
    /\ pc[t] = "idle"
    /\ \E i \in Ids, o \in {"disconnect", "send", "probe"} :
          /\ phase[i] # "new"
          /\ Locals(t, o, i, 0)
    /\ Goto(t, "find")
    /\ UNCHANGED <<slotVars, ioVars, serverVars, phase>>

\* FindSession: IncreaseRef, then the id is read.
FindInc(t) ==
    /\ pc[t] = "find"
    /\ refCount' = refCount + 1
    /\ Locals(t, call[t].op, call[t].id, refCount + 1)
    /\ Goto(t, "findCheck")
    /\ UNCHANGED <<connect, sessionId, isSending, socket,
                   ioVars, serverVars, phase>>

\* Mutant: the flag is checked and the id is not.
FindCheckAnyId(t) ==
    /\ pc[t] = "findCheck"
    /\ IF call[t].inc > ReleaseFlag
       THEN Goto(t, "dec") /\ Forget(t)
       ELSE Goto(t, "hold") /\ Locals(t, call[t].op, call[t].id, 0)
    /\ UNCHANGED <<slotVars, ioVars, serverVars, phase>>

FindCheck(t) ==
    /\ pc[t] = "findCheck"
    /\ IF call[t].inc > ReleaseFlag \/ sessionId # call[t].id
       THEN Goto(t, "dec") /\ Forget(t)
       ELSE Goto(t, "hold") /\ Locals(t, call[t].op, call[t].id, 0)
    /\ UNCHANGED <<slotVars, ioVars, serverVars, phase>>

Probe(t) ==
    /\ pc[t] = "hold" /\ call[t].op = "probe"
    /\ Forget(t)
    /\ Goto(t, "dec")
    /\ UNCHANGED <<slotVars, ioVars, serverVars, phase>>

\* Session::Close: first the flag, then CancelIO on whatever is pending.  It is
\* called by DisconnectSession, which SendPacket calls when the send queue is
\* full (CanSend is then false), and by RecvHandler on a malformed packet.  The
\* refused Enqueue has taken an index of _sendQ that it published nothing at.
CloseFlag(t) ==
    /\ \/ /\ pc[t] = "hold" /\ call[t].op \in {"disconnect", "send"}
          /\ hole' = (hole \/ call[t].op = "send")
          /\ Goto(t, "cancel")
       \/ /\ pc[t] = "recvClose"
          /\ UNCHANGED hole
          /\ Goto(t, "recvCancel")
    /\ connect' = FALSE
    /\ UNCHANGED <<refCount, sessionId, isSending, socket, ioVars,
                   freeIndex, lastId, sessionCount, call, phase>>

CancelIO(t) ==
    /\ \/ pc[t] = "cancel" /\ Goto(t, "dec")
       \/ pc[t] = "recvCancel" /\ Goto(t, "recvCheck")
    /\ recvIo' = IF recvIo = "pending" THEN "failed" ELSE recvIo
    /\ Forget(t)
    /\ UNCHANGED <<slotVars, sendIo, sendPosted, releasePosted,
                   serverVars, phase>>

\* CanSend, when it finds a packet in the queue.
CanSend == connect /\ ~Released /\ ~isSending

\* SendPacket: the SendExecutable is queued and takes no reference with it.
SendPacket(t) ==
    /\ pc[t] = "hold" /\ call[t].op = "send"
    /\ \/ /\ CanSend
          /\ sendPosted < MaxSend
          /\ isSending' = TRUE
          /\ sendPosted' = sendPosted + 1
       \/ UNCHANGED <<isSending, sendPosted>>
    /\ Forget(t)
    /\ Goto(t, "dec")
    /\ UNCHANGED <<refCount, connect, sessionId, socket, recvIo, sendIo,
                   releasePosted, serverVars, phase>>

\* SendPacketBlocking: the caller itself runs TrySend.
SendPacketBlocking(t) ==
    /\ pc[t] = "hold" /\ call[t].op = "send"
    /\ Forget(t)
    /\ Goto(t, "trySend")
    /\ UNCHANGED <<slotVars, ioVars, serverVars, phase>>

Use(t) == \/ FindInc(t) \/ FindCheck(t) \/ Probe(t)
          \/ CloseFlag(t) \/ CancelIO(t)
          \/ SendPacket(t) \/ SendPacketBlocking(t)

----------------------------------------------------------------------------
\* Session::Release: InterlockedDecrement, then the exchange of 0 by the flag,
\* then PostRelease.
ReleaseDec(t) ==
    /\ pc[t] = "dec"
    /\ refCount' = refCount - 1
    /\ Goto(t, IF refCount = 1 THEN "cas" ELSE Return(t))
    /\ UNCHANGED <<connect, sessionId, isSending, socket,
                   ioVars, serverVars, call, phase>>

\* Mutant: the flag is stored, not exchanged for 0.
ReleaseStore(t) ==
    /\ pc[t] = "cas"
    /\ refCount' = ReleaseFlag
    /\ Goto(t, "post")
    /\ UNCHANGED <<connect, sessionId, isSending, socket,
                   ioVars, serverVars, call, phase>>

ReleaseCas(t) ==
    /\ pc[t] = "cas"
    /\ IF refCount = 0
       THEN refCount' = ReleaseFlag /\ Goto(t, "post")
       ELSE UNCHANGED refCount /\ Goto(t, Return(t))
    /\ UNCHANGED <<connect, sessionId, isSending, socket,
                   ioVars, serverVars, call, phase>>

PostRelease(t) ==
    /\ pc[t] = "post"
    /\ releasePosted' = releasePosted + 1
    /\ Goto(t, Return(t))
    /\ UNCHANGED <<slotVars, recvIo, sendIo, sendPosted,
                   serverVars, call, phase>>

Release(t) == ReleaseDec(t) \/ ReleaseCas(t) \/ PostRelease(t)

----------------------------------------------------------------------------
\* WorkerThread: a receive ended with no bytes or with an error.
RecvEnd(w) ==
    /\ pc[w] = "idle" /\ recvIo = "failed"
    /\ recvIo' = "none"
    /\ Goto(w, "dec")
    /\ UNCHANGED <<slotVars, sendIo, sendPosted, releasePosted,
                   serverVars, call, phase>>

\* RecvExecutable::Execute: the packets are handled, or a malformed one makes
\* the handler Close the session; RecvNotIncrease follows in both cases.
RecvExecute(w) ==
    /\ pc[w] = "idle" /\ recvIo = "data"
    /\ recvIo' = "none"
    /\ Goto(w, "recvCheck") \/ Goto(w, "recvClose")
    /\ UNCHANGED <<slotVars, sendIo, sendPosted, releasePosted,
                   serverVars, call, phase>>

\* SendExecutable::Execute, that is RealSend up to WSASend.
SendExecute(w) ==
    /\ pc[w] = "idle" /\ sendPosted > 0
    /\ sendPosted' = sendPosted - 1
    /\ refCount' = refCount + 1
    /\ Goto(w, IF refCount + 1 >= ReleaseFlag THEN "dec" ELSE "sendPost")
    /\ UNCHANGED <<connect, sessionId, isSending, socket, recvIo, sendIo,
                   releasePosted, serverVars, call, phase>>

\* "while (sendPackets == 0)": Dequeue stops at an index that was not published.
\* Else WSASend: the reference becomes the send's, or it fails and Release follows.
RealSend(w) ==
    /\ pc[w] = "sendPost"
    /\ \/ /\ sendIo < MaxSend
          /\ sendIo' = sendIo + 1
          /\ Goto(w, "idle")
       \/ /\ UNCHANGED sendIo
          /\ Goto(w, "dec")
       \/ /\ hole
          /\ UNCHANGED sendIo
          /\ Goto(w, "spin")
    /\ UNCHANGED <<slotVars, recvIo, sendPosted, releasePosted,
                   serverVars, call, phase>>

\* A send completes; one that failed is only released, isSending stays set.
SendDone(w) ==
    /\ pc[w] = "idle" /\ sendIo > 0
    /\ sendIo' = sendIo - 1
    /\ \/ Goto(w, "postSend")
       \/ Goto(w, "dec")
    /\ UNCHANGED <<slotVars, recvIo, sendPosted, releasePosted,
                   serverVars, call, phase>>

\* PostSendExecutable::Execute: isSending is cleared, then TrySend ...
PostSend(w) ==
    /\ pc[w] = "postSend"
    /\ isSending' = FALSE
    /\ Goto(w, "trySend")
    /\ UNCHANGED <<refCount, connect, sessionId, socket,
                   ioVars, serverVars, call, phase>>

\* ... which finds a packet queued and sends, or does not.
TrySend(t) ==
    /\ pc[t] = "trySend"
    /\ \/ CanSend /\ isSending' = TRUE /\ Goto(t, "nestedInc")
       \/ UNCHANGED isSending /\ Goto(t, "dec")
    /\ UNCHANGED <<refCount, connect, sessionId, socket,
                   ioVars, serverVars, call, phase>>

NestedInc(t) ==
    /\ pc[t] = "nestedInc"
    /\ refCount' = refCount + 1
    /\ Goto(t, IF refCount + 1 >= ReleaseFlag THEN "nestedDec" ELSE "nestedPost")
    /\ UNCHANGED <<connect, sessionId, isSending, socket,
                   ioVars, serverVars, call, phase>>

NestedSend(t) ==
    /\ pc[t] = "nestedPost"
    /\ \/ /\ sendIo < MaxSend
          /\ sendIo' = sendIo + 1
          /\ Goto(t, "dec")
       \/ /\ UNCHANGED sendIo
          /\ Goto(t, "nestedDec")
       \/ /\ hole
          /\ UNCHANGED sendIo
          /\ Goto(t, "nestedSpin")
    /\ UNCHANGED <<slotVars, recvIo, sendPosted, releasePosted,
                   serverVars, call, phase>>

\* The loop ends when Enqueue, a lap later, publishes a packet in that node.
SpinEnds(t) ==
    /\ \/ pc[t] = "spin" /\ Goto(t, "sendPost")
       \/ pc[t] = "nestedSpin" /\ Goto(t, "nestedPost")
    /\ UNCHANGED <<slotVars, ioVars, serverVars, call, phase>>

\* The Release inside RealSend; the caller's own reference is still counted, so
\* it cannot be the last one (RefCountExact).
NestedDec(t) ==
    /\ pc[t] = "nestedDec"
    /\ refCount' = refCount - 1
    /\ Goto(t, "dec")
    /\ UNCHANGED <<connect, sessionId, isSending, socket,
                   ioVars, serverVars, call, phase>>

SendInline(t) == TrySend(t) \/ NestedInc(t) \/ NestedSend(t) \/ NestedDec(t)

\* Mutant: _onDisconnect does not count.
OnDisconnectUncounted(w) ==
    /\ pc[w] = "idle" /\ releasePosted > 0
    /\ releasePosted' = releasePosted - 1
    /\ phase' = [phase EXCEPT ![sessionId] = "gone"]
    /\ Goto(w, "relReset")
    /\ UNCHANGED <<slotVars, recvIo, sendIo, sendPosted, serverVars, call>>

\* ReleaseExecutable::Execute: _onDisconnect, Reset, ReleaseFreeIndex.
OnDisconnect(w) ==
    /\ pc[w] = "idle" /\ releasePosted > 0
    /\ releasePosted' = releasePosted - 1
    /\ sessionCount' = sessionCount - 1
    /\ phase' = [phase EXCEPT ![sessionId] = "gone"]
    /\ Goto(w, "relReset")
    /\ UNCHANGED <<slotVars, recvIo, sendIo, sendPosted, freeIndex, lastId, hole, call>>

ReleaseReset(w) ==
    /\ pc[w] = "relReset"
    /\ Reset
    /\ Goto(w, "relPush")
    /\ UNCHANGED <<ioVars, serverVars, call, phase>>

ReleaseFreeIndex(w) ==
    /\ pc[w] = "relPush"
    /\ freeIndex' = freeIndex + 1
    /\ Goto(w, "idle")
    /\ UNCHANGED <<slotVars, ioVars, lastId, sessionCount, hole, call, phase>>

Dequeue(w) == RecvEnd(w) \/ RecvExecute(w) \/ SendExecute(w) \/ SendDone(w) \/ OnDisconnect(w)

Execute(w) == RealSend(w) \/ PostSend(w) \/ ReleaseReset(w) \/ ReleaseFreeIndex(w)

----------------------------------------------------------------------------
\* TimeoutThread visits the slot: CheckTimeout looks at the count, then takes a
\* reference without asking for an id; whether the wait was too long is data.
TimeoutVisit(t) ==
    /\ pc[t] = "idle"
    /\ ~Released
    /\ Goto(t, "timeout")
    /\ UNCHANGED <<slotVars, ioVars, serverVars, call, phase>>

CheckTimeout(t) ==
    /\ pc[t] = "timeout"
    /\ refCount' = refCount + 1
    /\ \/ /\ refCount + 1 < ReleaseFlag
          /\ Locals(t, "timeout", 0, 0)
       \/ UNCHANGED call
    /\ Goto(t, "dec")
    /\ UNCHANGED <<connect, sessionId, isSending, socket,
                   ioVars, serverVars, phase>>

\* OnSessionTimeout gets the id that is in the slot now; content ignores the
\* timeout or disconnects the session.
OnSessionTimeout(t) ==
    /\ pc[t] = "report"
    /\ \/ /\ Locals(t, "disconnect", sessionId, 0)
          /\ Goto(t, "find")
       \/ Forget(t) /\ Goto(t, "idle")
    /\ UNCHANGED <<slotVars, ioVars, serverVars, phase>>

----------------------------------------------------------------------------
\* The network: bytes arrive, or the peer is gone.
Network ==
    /\ recvIo = "pending"
    /\ recvIo' \in {"data", "failed"}
    /\ UNCHANGED <<slotVars, sendIo, sendPosted, releasePosted,
                   serverVars, pc, call, phase>>

\* What a thread does next once it is inside a call.
Step(t) == RecvNotIncrease(t) \/ Use(t) \/ SendInline(t) \/ Release(t)

Next ==
    \/ Accept
    \/ \E t \in Threads : Step(t) \/ SpinEnds(t)
    \/ \E w \in Workers : Dequeue(w) \/ Execute(w)
    \/ \E t \in Callers : Call(t)
    \/ \E t \in Timers : TimeoutVisit(t) \/ CheckTimeout(t) \/ OnSessionTimeout(t)
    \/ Network

Spec == Init /\ [][Next]_vars
----------------------------------------------------------------------------
\* Fairness.  Threads that are inside a call keep running; the completion port
\* is a FIFO, so each packet is taken in the end; a send completes or is given
\* up by TCP; a cancelled receive completes.  Nothing says that clients connect,
\* that data arrives or that a packet fills a hole of _sendQ (SpinEnds).  Content stops looking the session up at some time: a
\* lookup that keeps hitting the count between the decrement and the exchange
\* of Release would keep a closed session alive (see the README); the packets
\* that end a RealSend's loop are content's too.
Fairness ==
    /\ WF_vars(Accept /\ ~AcceptPop)
    /\ \A t \in Threads : WF_vars(Step(t))
    /\ \A w \in Workers : WF_vars(Execute(w))
    /\ \A t \in Timers : WF_vars(CheckTimeout(t) \/ OnSessionTimeout(t))
    /\ WF_vars(\E w \in Workers : RecvEnd(w))
    /\ WF_vars(\E w \in Workers : RecvExecute(w))
    /\ WF_vars(\E w \in Workers : SendExecute(w))
    /\ WF_vars(\E w \in Workers : SendDone(w))
    /\ WF_vars(\E w \in Workers : OnDisconnect(w))

CallsEnd == <>[][/\ \A t \in Callers : ~Call(t) /\ ~TimeoutVisit(t)
                 /\ \A t \in Threads : ~SpinEnds(t)]_vars

FairSpec == Spec /\ Fairness /\ CallsEnd

----------------------------------------------------------------------------
\* The variables' types; _refCount and the stack of indices never go below 0.
TypeOK ==
    /\ refCount \in Nat
    /\ connect \in BOOLEAN
    /\ sessionId \in 0..MaxId
    /\ isSending \in BOOLEAN
    /\ socket \in 0..MaxId
    /\ recvIo \in {"none", "pending", "data", "failed"}
    /\ sendIo \in Nat
    /\ sendPosted \in Nat
    /\ releasePosted \in Nat
    /\ freeIndex \in Nat
    /\ lastId \in 0..MaxId
    /\ sessionCount \in Int
    /\ hole \in BOOLEAN
    /\ pc \in [Threads -> Pcs]
    /\ call \in [Threads -> Calls]
    /\ phase \in [Ids -> {"new", "connected", "gone"}]

\* References that are really held: by threads, the receive and the sends.
Held == Cardinality(At(HoldPcs)) + Cardinality(At(Hold2Pcs))
          + (IF recvIo = "none" THEN 0 ELSE 1) + sendIo

\* Owners of a slot no session is in: a queued release, a thread that releases
\* or accepts, an entry of the free-index stack.
Owners == Cardinality(At(OwnPcs)) + releasePosted + freeIndex

\* _refCount is exact: the references held plus, as long as the slot is being
\* released, free or being accepted, the flag (InterlockedIncrement, -Decrement
\* and -CompareExchange in IncreaseRef, Release and OffReleaseFlag).
RefCountExact == refCount = Held + (IF Owners = 0 THEN 0 ELSE ReleaseFlag)

\* A session is released once: the slot is never owned twice, so PostRelease
\* runs once per connection and the index is pushed once, even when a lookup
\* revives the count between Release's decrement and its exchange.
ReleasedOnce == Owners <= 1

\* A thread that FindSession gave the session to keeps it: until it releases it,
\* the slot holds the session of the id it asked for and that session's socket.
FoundSessionStays ==
    \A t \in Threads :
        pc[t] = "hold"
            => sessionId = call[t].id /\ socket = call[t].id /\ Owners = 0

\* The session's one receive OVERLAPPED is never posted twice: of the threads
\* on their way into WSARecv and the receive itself there is at most one.
OneReceive ==
    Cardinality(At(RecvPcs)) + (IF recvIo = "none" THEN 0 ELSE 1) <= 1

\* Why these hold: a thread past the check of FindSession, RealSend or
\* CheckTimeout, and I/O that is outstanding, keep the slot from being owned;
\* a slot that is not owned has its session's socket.
PinPcs == HoldPcs \ {"findCheck", "dec", "accInstall", "accOffFlag"}

Pinned ==
    /\ \A t \in Threads :
          pc[t] \in PinPcs \/ (pc[t] = "findCheck" /\ call[t].inc <= ReleaseFlag)
              => Owners = 0
    /\ recvIo # "none" \/ sendIo > 0 => Owners = 0
    /\ Owners = 0 \/ pc[Acceptor] = "accOffFlag" => socket = sessionId

\* The inductive invariant of the proofs.
IInv == /\ TypeOK /\ RefCountExact /\ ReleasedOnce
        /\ FoundSessionStays /\ OneReceive /\ Pinned

\* "io 도중에 closeSocket 호출 / 생기면 안 됨" (NormalIOCP.cpp:918): no socket is
\* closed, and none replaced, while I/O on it is outstanding.
NoCloseDuringIo ==
    [][socket' # socket => recvIo = "none" /\ sendIo = 0]_vars

\* The content sees OnConnect once and then OnDisconnect once for an id, the
\* latter when no thread and no I/O uses the session any more.
CallbackOrder ==
    [][\A i \in Ids : phase'[i] # phase[i] =>
          \/ phase[i] = "new" /\ phase'[i] = "connected"
          \/ phase[i] = "connected" /\ phase'[i] = "gone"
               /\ recvIo = "none" /\ sendIo = 0]_vars

\* _sessionCount is the number of connected sessions, less the one the accept
\* thread has announced and not counted yet (it may be -1 for that long).
SessionCountExact ==
    sessionCount = Cardinality({i \in Ids : phase[i] = "connected"})
      - (IF pc[Acceptor] \in {"idle", "accReset", "accInc", "accInstall",
                               "accOffFlag", "accConnect", "accOnConnect"} THEN 0
         ELSE IF phase[lastId] = "new" THEN 0 ELSE 1)

\* The session in the slot is closed, _connect was cleared after AcceptThread set it
\* (what clears it before that, as a timeout can, is undone by AcceptConnect); or it
\* is on its way from the release flag to the return of its index.
Closing ==
    \/ Owners = 0 /\ sessionId # 0 /\ ~connect /\ pc[Acceptor] # "accConnect"
    \/ releasePosted > 0 \/ At({"post", "relReset", "relPush"}) # {}

\* A thread is in RealSend's loop, with a reference, at a hole of _sendQ.
Spinning == At({"spin", "nestedSpin"}) # {}

\* A closed session goes away: once Close has cleared _connect, also when there
\* was no receive for CancelIO to cancel (the case the recheck after
\* WSA_IO_PENDING is for), the session is released, OnDisconnect called and the
\* index returned; unless a thread stays in RealSend's loop, where a refused
\* Enqueue can leave it.  (Nothing but that ends Closing, and with the calls'
\* end a thread that is in the loop again and again stays there.)
ClosedSessionReleased == []<>(~Closing \/ Spinning)
==============================================================================
