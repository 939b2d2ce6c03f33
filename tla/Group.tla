-------------------------------- MODULE Group --------------------------------
(***************************************************************************)
(* Groups and the sessions in them (Group.cpp, GroupManager.cpp, the group  *)
(* part of RecvExecutable and of Session::Release, CheckPostRelease).       *)
(*                                                                          *)
(* One slot of the session array is followed through MaxLife connections;   *)
(* an id is the number of the connection.  A group is run by one thread at  *)
(* a time (_isRun), whichever that is: its own tick, or the thread that put *)
(* a job into its queue.  So the group itself is the actor here, and the    *)
(* job queue, which has one consumer, is a sequence (see LockFreeFixedQueue *)
(* for what happens when it is overfull).                                   *)
(***************************************************************************)
EXTENDS Integers, FiniteSets, Sequences

CONSTANTS
    Groups,    \* the groups, as positive numbers
    Movers,    \* threads that call IOCP::MoveSession outside of the session's own
               \* callbacks OnRecvPacket and Group::OnRecv
    Hops,      \* the moves content makes, as pairs <<src, dst>>
    Revisit,   \* does it move a session back to a group it was in?
    MaxLife,   \* bound: connections accepted into the slot
    MaxMove,   \* bound: MoveSession calls
    MaxRecv    \* bound: receives

ASSUME GroupAssumption ==
    /\ Groups \subseteq Nat \ {0}
    /\ Movers \cap Groups = {}
    /\ Hops \subseteq (Groups \cup {0}) \X (Groups \cup {0})
    /\ Revisit \in BOOLEAN
    /\ MaxLife \in Nat /\ MaxMove \in Nat /\ MaxRecv \in Nat

Base == 0                     \* GroupManager::BaseGroupID: in no group
Worker == -1                  \* the worker that has the session's receive
Actors == Movers \cup Groups \cup {Worker}
Ids == 1..MaxLife
Jobs == [type : {"enter", "leave", "recv"}, id : Ids]

VARIABLES
    sessionId,   \* the connection in the slot, or the last one; 0 before the first
    up,          \* the release flag is off
    receiving,   \* the receive's reference
    releasing,   \* a thread is past the exchange in Session::Release
    groupId,     \* Session::_groupId
    isHandled,   \* Session::_isHandled: a Recv job of the session is queued
    unread,      \* the packets in _recvQ, by the group whose Recv job stands for them;
                 \* Base if no job does: they came in no group, under an _isHandled that
                 \* an earlier group or connection left, or before the last move
    posted,      \* ReleaseExecutables queued
    freeIndex,   \* how often the slot's index is on _freeIndex
    jobs,        \* Group::_jobs of each group
    sessions,    \* Group::_sessions of each group
    pc,          \* where each actor is
    arg,         \* its locals: the id, and MoveSession's src and dst
    jobOf,       \* history: connection and group of the last Recv job
    visited,     \* history: groups this connection has been in
    gone,        \* history: ids OnDisconnect was called for
    broken,      \* history: assertions and null pointers that were met
    moves, recvs \* counters for the bounds

sessionVars == <<sessionId, up, receiving, releasing>>
recvVars == <<isHandled, unread, jobOf>>
slotVars == <<posted, freeIndex>>
groupVars == <<jobs, sessions>>
countVars == <<moves, recvs>>
vars == <<sessionVars, groupId, recvVars, slotVars, groupVars, pc, arg,
          visited, gone, broken, countVars>>

----------------------------------------------------------------------------
Goto(a, l) == pc' = [pc EXCEPT ![a] = l]

\* Group::Enqueue; the Update it may run inline is the group's own step.
Enqueue(g, type, id) == jobs' = [jobs EXCEPT ![g] = Append(@, [type |-> type, id |-> id])]

Job(g) == Head(jobs[g])
Done(g) == jobs' = [jobs EXCEPT ![g] = Tail(@)]

\* An actor at these points has a reference from FindSession.
MovePcs == {"leave", "set", "enter"}
HoldPcs == MovePcs \cup {"recv", "read"}

Init ==
    /\ sessionId = 0 /\ up = FALSE /\ receiving = FALSE /\ releasing = FALSE
    /\ groupId = Base
    /\ isHandled = FALSE /\ unread = {} /\ jobOf = <<0, Base>>
    /\ posted = 0 /\ freeIndex = 1
    /\ jobs = [g \in Groups |-> <<>>]
    /\ sessions = [g \in Groups |-> {}]
    /\ pc = [a \in Actors |-> "idle"]
    /\ arg = [a \in Actors |-> [id |-> 0, src |-> Base, dst |-> Base]]
    /\ visited = {} /\ gone = {} /\ broken = {}
    /\ moves = 0 /\ recvs = 0

----------------------------------------------------------------------------
\* AcceptThread: Reset leaves _isHandled as it is.
Accept ==
    /\ freeIndex > 0
    /\ sessionId < MaxLife
    /\ freeIndex' = freeIndex - 1
    /\ sessionId' = sessionId + 1
    /\ up' = TRUE /\ receiving' = TRUE
    /\ groupId' = Base
    /\ unread' = {}
    /\ visited' = {}
    /\ UNCHANGED <<releasing, isHandled, jobOf, posted, groupVars, pc, arg, gone, broken, countVars>>

----------------------------------------------------------------------------
\* MoveSession: FindSession and src, the Leave job, SetGroupID, the Enter job.
MoveFind(a, dst) ==
    /\ up
    /\ moves < MaxMove
    /\ <<groupId, dst>> \in Hops
    /\ Revisit \/ dst \notin visited
    /\ moves' = moves + 1
    /\ arg' = [arg EXCEPT ![a] = [id |-> sessionId, src |-> groupId, dst |-> dst]]
    /\ Goto(a, "leave")

MoveCall(t) ==
    /\ pc[t] = "idle"
    /\ \E dst \in Groups \cup {Base} : MoveFind(t, dst)
    /\ UNCHANGED <<sessionVars, groupId, recvVars, slotVars, groupVars,
                   visited, gone, broken, recvs>>

\* Mutant: the source group is not told.
MoveNoLeave(a) ==
    /\ pc[a] = "leave"
    /\ Goto(a, "set")
    /\ UNCHANGED <<sessionVars, groupId, recvVars, slotVars, groupVars, arg,
                   visited, gone, broken, countVars>>

MoveLeave(a) ==
    /\ pc[a] = "leave"
    /\ IF arg[a].src = Base THEN UNCHANGED jobs ELSE Enqueue(arg[a].src, "leave", arg[a].id)
    /\ Goto(a, "set")
    /\ UNCHANGED <<sessionVars, groupId, recvVars, slotVars, sessions, arg,
                   visited, gone, broken, countVars>>

MoveSet(a) ==
    /\ pc[a] = "set"
    /\ groupId' = arg[a].dst
    /\ visited' = visited \cup ({arg[a].dst} \ {Base})
    /\ unread' = {Base : k \in unread}
    /\ Goto(a, "enter")
    /\ UNCHANGED <<sessionVars, isHandled, jobOf, slotVars, groupVars, arg, gone, broken, countVars>>

MoveEnter(a) ==
    /\ pc[a] = "enter"
    /\ IF arg[a].dst = Base THEN UNCHANGED jobs ELSE Enqueue(arg[a].dst, "enter", arg[a].id)
    /\ Goto(a, "idle")
    /\ UNCHANGED <<sessionVars, groupId, recvVars, slotVars, sessions, arg,
                   visited, gone, broken, countVars>>

MoveSession(a) == MoveLeave(a) \/ MoveSet(a) \/ MoveEnter(a)

----------------------------------------------------------------------------
\* RecvExecutable::Execute: for a session in a group one Recv job is queued
\* until the group gets to it; for the others the worker handles the packets,
\* and OnRecvPacket may move the session.  The next receive is not posted before
\* Execute is over.
RecvExecute ==
    /\ pc[Worker] = "idle" /\ receiving
    /\ recvs < MaxRecv
    /\ recvs' = recvs + 1
    /\ unread' = unread \cup
                  {IF ~isHandled \/ jobOf = <<sessionId, groupId>> THEN groupId ELSE Base}
    /\ IF groupId # Base /\ ~isHandled
       THEN isHandled' = TRUE /\ Goto(Worker, "onRecv")
       ELSE UNCHANGED isHandled /\ Goto(Worker, "handler")
    /\ UNCHANGED <<sessionVars, groupId, jobOf, slotVars, groupVars, arg,
                   visited, gone, broken, moves>>

\* RecvExecutable::RecvHandler: nothing as soon as the session is in a group.
RecvHandler ==
    /\ pc[Worker] = "handler"
    /\ \/ /\ groupId # Base
          /\ Goto(Worker, "idle")
          /\ UNCHANGED <<unread, arg, moves>>
       \/ /\ groupId = Base
          /\ unread' = {}
          /\ Goto(Worker, "idle")
          /\ UNCHANGED <<arg, moves>>
       \/ /\ groupId = Base
          /\ unread' \in SUBSET unread
          /\ \E dst \in Groups : MoveFind(Worker, dst)
    /\ UNCHANGED <<sessionVars, groupId, isHandled, jobOf, slotVars, groupVars,
                   visited, gone, broken, recvs>>

\* GroupManager::OnRecv with the group id read once more; _groups[0] is null.
OnRecv ==
    /\ pc[Worker] = "onRecv"
    /\ IF groupId = Base
       THEN /\ broken' = broken \cup {"null group"} /\ Goto(Worker, "broken")
            /\ UNCHANGED <<jobs, jobOf>>
       ELSE /\ Enqueue(groupId, "recv", sessionId) /\ Goto(Worker, "idle")
            /\ jobOf' = <<sessionId, groupId>>
            /\ UNCHANGED broken
    /\ UNCHANGED <<sessionVars, groupId, isHandled, unread, slotVars, sessions, arg,
                   visited, gone, countVars>>

\* The peer goes or the session was closed.
EndReceive ==
    /\ receiving /\ pc[Worker] = "idle"
    /\ receiving' = FALSE
    /\ UNCHANGED <<sessionId, up, releasing, groupId, recvVars, slotVars, groupVars, pc, arg,
                   visited, gone, broken, countVars>>

----------------------------------------------------------------------------
\* Session::Release by whoever has the last reference: the flag, then
\* PostRelease, or a Leave job for the group the session is in.
Release ==
    /\ up /\ ~receiving
    /\ \A a \in Actors : pc[a] \notin HoldPcs
    /\ up' = FALSE /\ releasing' = TRUE
    /\ UNCHANGED <<sessionId, receiving, groupId, recvVars, slotVars, groupVars, pc, arg,
                   visited, gone, broken, countVars>>

\* Mutant: PostRelease although the session is in a group.
PostReleaseAlways ==
    /\ releasing
    /\ releasing' = FALSE
    /\ posted' = posted + 1
    /\ IF groupId = Base THEN UNCHANGED jobs ELSE Enqueue(groupId, "leave", sessionId)
    /\ UNCHANGED <<sessionId, up, receiving, groupId, recvVars, freeIndex, sessions, pc, arg,
                   visited, gone, broken, countVars>>

SessionDisconnected ==
    /\ releasing
    /\ releasing' = FALSE
    /\ IF groupId = Base
       THEN posted' = posted + 1 /\ UNCHANGED jobs
       ELSE Enqueue(groupId, "leave", sessionId) /\ UNCHANGED posted
    /\ UNCHANGED <<sessionId, up, receiving, groupId, recvVars, freeIndex, sessions, pc, arg,
                   visited, gone, broken, countVars>>

\* ReleaseExecutable::Execute: OnDisconnect, Reset, ReleaseFreeIndex.
ReleaseExecute ==
    /\ posted > 0
    /\ posted' = posted - 1
    /\ gone' = gone \cup {sessionId}
    /\ groupId' = Base
    /\ unread' = {}
    /\ freeIndex' = freeIndex + 1
    /\ UNCHANGED <<sessionVars, isHandled, jobOf, groupVars, pc, arg, visited, broken, countVars>>

----------------------------------------------------------------------------
\* HandleJob: Enter.
HandleEnter(g) ==
    /\ pc[g] = "idle" /\ jobs[g] # <<>> /\ Job(g).type = "enter"
    /\ sessions' = [sessions EXCEPT ![g] = @ \cup {Job(g).id}]
    /\ Done(g)
    /\ UNCHANGED <<sessionVars, groupId, recvVars, slotVars, pc, arg,
                   visited, gone, broken, countVars>>

\* Leave: "if (_sessions.erase(...) == 0) __debugbreak();", OnLeave.
HandleLeave(g) ==
    /\ pc[g] = "idle" /\ jobs[g] # <<>> /\ Job(g).type = "leave"
    /\ broken' = IF Job(g).id \in sessions[g] THEN broken ELSE broken \cup {"not a member"}
    /\ sessions' = [sessions EXCEPT ![g] = @ \ {Job(g).id}]
    /\ arg' = [arg EXCEPT ![g].id = Job(g).id]
    /\ Done(g)
    /\ Goto(g, "check")
    /\ UNCHANGED <<sessionVars, groupId, recvVars, slotVars, visited, gone, countVars>>

\* CheckPostRelease: the group id, the session id and the count, one after the
\* other; GetRefCount asserts the id once more when it has the count.
CheckGroup(g) ==
    /\ pc[g] = "check"
    /\ Goto(g, IF groupId = g THEN "checkId" ELSE "idle")
    /\ UNCHANGED <<sessionVars, groupId, recvVars, slotVars, groupVars, arg,
                   visited, gone, broken, countVars>>

CheckId(g) ==
    /\ pc[g] = "checkId"
    /\ Goto(g, IF sessionId = arg[g].id THEN "count" ELSE "idle")
    /\ UNCHANGED <<sessionVars, groupId, recvVars, slotVars, groupVars, arg,
                   visited, gone, broken, countVars>>

\* Mutant: the flag is never seen.
CheckCountNever(g) ==
    /\ pc[g] = "count"
    /\ Goto(g, "held")
    /\ UNCHANGED <<sessionVars, groupId, recvVars, slotVars, groupVars, arg,
                   visited, gone, broken, countVars>>

CheckCount(g) ==
    /\ pc[g] = "count"
    /\ Goto(g, IF up THEN "held" ELSE "released")
    /\ UNCHANGED <<sessionVars, groupId, recvVars, slotVars, groupVars, arg,
                   visited, gone, broken, countVars>>

CheckAssert(g) ==
    /\ pc[g] \in {"held", "released"}
    /\ \/ /\ sessionId = arg[g].id
          /\ posted' = IF pc[g] = "released" THEN posted + 1 ELSE posted
          /\ Goto(g, "idle")
          /\ UNCHANGED broken
       \/ /\ sessionId # arg[g].id
          /\ broken' = broken \cup {"wrong id"}
          /\ Goto(g, "broken")
          /\ UNCHANGED posted
    /\ UNCHANGED <<sessionVars, groupId, recvVars, freeIndex, groupVars, arg,
                   visited, gone, countVars>>

\* Recv: FindSession, and nothing if the session is gone.
HandleRecv(g) ==
    /\ pc[g] = "idle" /\ jobs[g] # <<>> /\ Job(g).type = "recv"
    /\ Done(g)
    /\ IF up /\ sessionId = Job(g).id THEN Goto(g, "recv") ELSE UNCHANGED pc
    /\ UNCHANGED <<sessionVars, groupId, recvVars, slotVars, sessions, arg,
                   visited, gone, broken, countVars>>

\* Mutant: setRecvHandled(false) is forgotten.
RecvHandledNever(g) ==
    /\ pc[g] = "recv"
    /\ Goto(g, "read")
    /\ UNCHANGED <<sessionVars, groupId, recvVars, slotVars, groupVars, arg,
                   visited, gone, broken, countVars>>

\* Group::RecvHandler: setRecvHandled(false) comes before the first look at the
\* queue.
RecvHandled(g) ==
    /\ pc[g] = "recv"
    /\ isHandled' = FALSE
    /\ Goto(g, "read")
    /\ UNCHANGED <<sessionVars, groupId, unread, jobOf, slotVars, groupVars, arg,
                   visited, gone, broken, countVars>>

\* All packets are handled, as long as the session is in this group; OnRecv may
\* move it, which ends the loop with packets perhaps left.
RecvRead(g) ==
    /\ pc[g] = "read"
    /\ \/ /\ groupId # g
          /\ Goto(g, "idle")
          /\ UNCHANGED <<unread, arg, moves>>
       \/ /\ groupId = g
          /\ unread' = {}
          /\ Goto(g, "idle")
          /\ UNCHANGED <<arg, moves>>
       \/ /\ groupId = g
          /\ unread' \in SUBSET unread
          /\ \E dst \in Groups \cup {Base} : MoveFind(g, dst)
    /\ UNCHANGED <<sessionVars, groupId, isHandled, jobOf, slotVars, groupVars,
                   visited, gone, broken, recvs>>

HandleJob(g) == \/ HandleEnter(g) \/ HandleLeave(g) \/ HandleRecv(g)
                \/ CheckGroup(g) \/ CheckId(g) \/ CheckCount(g) \/ CheckAssert(g)
                \/ RecvHandled(g) \/ RecvRead(g)

----------------------------------------------------------------------------
Next ==
    \/ Accept \/ RecvExecute \/ RecvHandler \/ OnRecv \/ EndReceive
    \/ Release \/ SessionDisconnected \/ ReleaseExecute
    \/ \E t \in Movers : MoveCall(t)
    \/ \E a \in Actors : MoveSession(a)
    \/ \E g \in Groups : HandleJob(g)

Spec == Init /\ [][Next]_vars

\* Threads inside a call go on, and GroupThread posts every group's Update again
\* each _loopMs, so a queued job is handled.
Fairness ==
    /\ \A a \in Actors : WF_vars(MoveSession(a))
    /\ \A g \in Groups : WF_vars(HandleJob(g))
    /\ WF_vars(OnRecv) /\ WF_vars(RecvHandler) /\ WF_vars(Release) /\ WF_vars(SessionDisconnected)
    /\ WF_vars(ReleaseExecute)

FairSpec == Spec /\ Fairness

----------------------------------------------------------------------------
\* The variables' types.
TypeOK ==
    /\ sessionId \in 0..MaxLife
    /\ up \in BOOLEAN /\ receiving \in BOOLEAN /\ releasing \in BOOLEAN
    /\ groupId \in Groups \cup {Base}
    /\ isHandled \in BOOLEAN /\ unread \subseteq Groups \cup {Base}
    /\ posted \in Nat /\ freeIndex \in Nat
    /\ jobs \in [Groups -> Seq(Jobs)]
    /\ sessions \in [Groups -> SUBSET Ids]
    /\ gone \subseteq Ids

\* A session in a group is released once as well: the group's CheckPostRelease
\* and Session::Release post one ReleaseExecutable for a connection between them,
\* whenever the group gets to the Leave jobs ("해당 세션이 언제 나갈지 모르는데 상관 없나?
\* 어짜피 동시에 처리되는 건 아니니까 상관 x.", Group.cpp:229).
ReleasedOnce ==
    posted + freeIndex + (IF up \/ releasing THEN 1 ELSE 0) <= 1

\* "if (_sessions.erase(job.sessionId) == 0) { __debugbreak(); }" (Group.cpp:147):
\* a Leave job finds the session in the group.
LeaveFindsMember == "not a member" \notin broken

\* "객체의 주소를 받아오고 나서 락을 해제해도 문제 x" (GroupManager.cpp:59): OnRecv gets
\* the address of a group, also when the session is moved meanwhile.
RecvFindsGroup == "null group" \notin broken

\* "ASSERT_CRASH(_sessionId == id, L"Session ID Wrong");" (Session.cpp:322): the
\* session a group asks for the count, after it has seen its id, is still that
\* session when it has the count.
CheckedIdStays == "wrong id" \notin broken

\* Where the queue of a group has the Enter and Leave jobs of a connection.
Visits(g, i) == {k \in 1..Len(jobs[g]) : jobs[g][k].type # "recv" /\ jobs[g][k].id = i}

\* After OnDisconnect no group keeps the session: a group that still has it, or
\* will still let it enter, has a Leave job of it behind that
\* (GroupManager::SessionDisconnected, MoveSession).
NoGhostMember ==
    \A i \in gone, g \in Groups :
        \/ Visits(g, i) = {} /\ i \notin sessions[g]
        \/ \E k \in Visits(g, i) : /\ \A j \in Visits(g, i) : j <= k
                                   /\ jobs[g][k].type = "leave"

\* OnLeave comes before OnDisconnect: when the release of a session in a group is
\* queued, by CheckPostRelease and not by Session::Release, that group has done
\* with it (it is no member, and no Enter or Leave job of it is left).
LeftBeforeDisconnect ==
    posted > 0 /\ groupId # Base
        => sessionId \notin sessions[groupId] /\ Visits(groupId, sessionId) = {}

\* A session whose last reference is gone is disconnected, through its group or
\* not.
ReleasedIsDisconnected ==
    \A i \in Ids : (sessionId = i /\ releasing) ~> i \in gone

\* No lost wakeup between RecvExecutable and Group::RecvHandler: packets that a
\* Recv job stands for are handled, unless the session moves on or ends, whatever
\* else moves the session and whatever was in the slot before.  (No job stands for
\* what came in no group, for what was there when the session moved, and for what
\* came while _isHandled was left by an earlier group or connection.)
PacketsAreHandled ==
    \A g \in Groups : g \in unread ~> (g \notin unread \/ ~up)
==============================================================================
