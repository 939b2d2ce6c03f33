------------------------------ MODULE GroupUpdate ------------------------------
(***************************************************************************)
(* Who runs a group: Group::Enqueue and Update, GroupManager::MoveSession,  *)
(* SessionDisconnected, OnRecv, Update and CreateGroup, GroupThread, and    *)
(* the calls between them.  A job is handled by whoever enqueued it, inside *)
(* Enqueue, unless the group is running; what that misses is left to the    *)
(* group's executable, which GroupThread posts when an update is due.       *)
(*                                                                          *)
(* What a thread still has to do is a sequence of steps, the innermost      *)
(* call's first.  The sessions and what a job does to them are in Group;    *)
(* here a job may make calls.  The job queue is LockFreeFixedQueue.  Time   *)
(* is left out: whenever NeedUpdate looks at the clock an update may be due *)
(* and OnUpdate itself changes nothing here.                                *)
(***************************************************************************)
EXTENDS Integers, Sequences, FiniteSets

CONSTANTS
    Workers,
    Groups,      \* all groups
    First,       \* those created before the threads start
    Modes,       \* what content does, see below
    MaxPost,     \* bound: posted executables of a group
    MaxCall      \* bound: calls

\* In a mode, callbacks may make calls or not, groups are created while the
\* threads run or not, and the job queues have a size, 8192 in the code.
ASSUME UpdateAssumption ==
    /\ First \subseteq Groups
    /\ Modes \subseteq [nest : BOOLEAN, create : BOOLEAN, size : Nat \ {0}]
    /\ MaxPost \in Nat \ {0} /\ MaxCall \in Nat

VARIABLES
    mode,
    groups,     \* _groups
    jobs,       \* the nodes of a group's queue that are in use, as distances from
                \* headIndex: where Dequeue looks is node 0
    tail,       \* where the next Enqueue looks, a distance as well
    burnt,      \* did a refused Enqueue take an index?  Size is never 0 again
    isRun,
    posted,     \* how often _executable is on the port
    waiting,    \* does CreateGroup wait for _groupLock?
    todo,       \* the steps of each thread
    calls

vars == <<mode, groups, jobs, tail, burnt, isRun, posted, waiting, todo, calls>>

Base == 0

\* A step: what it does, with which group, and Enqueue's update.
Do(op, g) == [op |-> op, group |-> g, update |-> FALSE]
Put(g, update) == [op |-> "put", group |-> g, update |-> update]
Lock == Do("lock", Base)
Unlock == Do("unlock", Base)

----------------------------------------------------------------------------
\* The calls.
Puts(g, update) == IF g = Base THEN <<>> ELSE <<Put(g, update)>>

MoveSession(src, dst, update) ==
    <<Lock>> \o Puts(src, update) \o Puts(dst, update) \o <<Unlock>>

SessionDisconnected(g) == <<Lock, Put(g, TRUE), Unlock>>

OnRecv(g) == <<Lock, Unlock, Put(g, TRUE)>>

Update(g) == <<Do("run", g)>>

\* A callback of a group: Group::MoveSession does not update; the last Release of
\* a session in another group, or IOCP::MoveSession, does.
CallbackCalls(g) ==
    {MoveSession(g, d, FALSE) : d \in (groups \cup {Base}) \ {g}}
    \cup {MoveSession(g, d, TRUE) : d \in (groups \cup {Base}) \ {g}}
    \cup {SessionDisconnected(d) : d \in groups}

WorkerCalls ==
    {OnRecv(g) : g \in groups} \cup {SessionDisconnected(g) : g \in groups}
    \cup UNION {{MoveSession(g, d, TRUE) : d \in (groups \cup {Base}) \ {g}} : g \in groups \cup {Base}}

----------------------------------------------------------------------------
Init ==
    /\ mode \in Modes
    /\ groups = IF mode.create THEN First ELSE Groups
    /\ jobs = [g \in Groups |-> {}]
    /\ tail = [g \in Groups |-> 0]
    /\ burnt = [g \in Groups |-> FALSE]
    /\ isRun = [g \in Groups |-> 0]
    /\ posted = [g \in Groups |-> 0]
    /\ waiting = FALSE
    /\ todo = [t \in Workers |-> <<>>]
    /\ calls = 0

\* The thread's next step is op with group g; s takes its place.  The release of
\* the lock goes with the step before it.
At(t, op, g) == todo[t] # <<>> /\ Head(todo[t]).op = op /\ Head(todo[t]).group = g
Become(t, s) ==
    LET rest == s \o Tail(todo[t]) IN
    todo' = [todo EXCEPT ![t] = IF rest # <<>> /\ Head(rest) = Unlock THEN Tail(rest) ELSE rest]

\* How often a thread holds the lock shared: the Unlocks it has to come to whose
\* Lock it is past.
Count(t, s) == Cardinality({i \in DOMAIN todo[t] : todo[t][i] = s})
Shared(t) == Count(t, Unlock) - Count(t, Lock)

\* A worker runs content or completions.
Call(t) ==
    /\ t \in Workers /\ todo[t] = <<>> /\ calls < MaxCall
    /\ \E c \in WorkerCalls : todo' = [todo EXCEPT ![t] = c]
    /\ calls' = calls + 1
    /\ UNCHANGED <<mode, groups, jobs, tail, burnt, isRun, posted, waiting>>

\* It takes a group's executable from the port.
Execute(t, g) ==
    /\ t \in Workers /\ todo[t] = <<>> /\ posted[g] > 0
    /\ posted' = [posted EXCEPT ![g] = @ - 1]
    /\ todo' = [todo EXCEPT ![t] = Update(g)]
    /\ UNCHANGED <<mode, groups, jobs, tail, burnt, isRun, waiting, calls>>

\* Mutant: the lock is taken exclusively.
AcquireExclusive(t) ==
    /\ At(t, "lock", Base) /\ ~waiting /\ \A u \in Workers : Shared(u) = 0
    /\ Become(t, <<>>)
    /\ UNCHANGED <<mode, groups, jobs, tail, burnt, isRun, posted, waiting, calls>>

\* AcquireSRWLockShared: not while CreateGroup waits for the lock.
AcquireShared(t) ==
    /\ At(t, "lock", Base) /\ ~waiting
    /\ Become(t, <<>>)
    /\ UNCHANGED <<mode, groups, jobs, tail, burnt, isRun, posted, waiting, calls>>

\* Mutant: the executable is posted for a group that runs.
GroupThreadRunning(g) ==
    /\ g \in groups /\ ~waiting /\ isRun[g] = 1 /\ posted[g] < MaxPost
    /\ posted' = [posted EXCEPT ![g] = @ + 1]
    /\ UNCHANGED <<mode, groups, jobs, tail, burnt, isRun, waiting, todo, calls>>

\* GroupThread, every millisecond: GroupManager::Update, with the lock, posts the
\* executable of a group for which NeedUpdate.
GroupThread(g) ==
    /\ g \in groups /\ ~waiting /\ posted[g] < MaxPost
    /\ posted' = [posted EXCEPT ![g] = @ + 1]
    /\ UNCHANGED <<mode, groups, jobs, tail, burnt, isRun, waiting, todo, calls>>

----------------------------------------------------------------------------
\* Group::Enqueue: the loop, and what follows it.
AfterPut(s) == IF s.update THEN <<Do("look", s.group)>> ELSE <<>>

Enqueue(t, g) ==
    /\ At(t, "put", g)
    /\ tail[g] \notin jobs[g]
    /\ jobs' = [jobs EXCEPT ![g] = @ \cup {tail[g]}]
    /\ tail' = [tail EXCEPT ![g] = (@ + 1) % mode.size]
    /\ Become(t, AfterPut(Head(todo[t])))
    /\ UNCHANGED <<mode, groups, burnt, isRun, posted, waiting, calls>>

\* It is full, and the try has cost an index: the next one looks at the next node.
EnqueueFull(t, g) ==
    /\ At(t, "put", g)
    /\ tail[g] \in jobs[g]
    /\ tail' = [tail EXCEPT ![g] = (@ + 1) % mode.size]
    /\ burnt' = [burnt EXCEPT ![g] = TRUE]
    /\ UNCHANGED <<mode, groups, jobs, isRun, posted, waiting, todo, calls>>

\* Is the group running?
Look(t, g) ==
    /\ At(t, "look", g)
    /\ Become(t, IF isRun[g] = 0 THEN Update(g) ELSE <<>>)
    /\ UNCHANGED <<mode, groups, jobs, tail, burnt, isRun, posted, waiting, calls>>

----------------------------------------------------------------------------
\* Group::Update.

\* Mutant: _isRun is not looked at again.
UpdateStore(t, g) ==
    /\ At(t, "run", g)
    /\ isRun' = [isRun EXCEPT ![g] = 1]
    /\ Become(t, <<Do("loop", g)>>)
    /\ UNCHANGED <<mode, groups, jobs, tail, burnt, posted, waiting, calls>>

UpdateExchange(t, g) ==
    /\ At(t, "run", g)
    /\ isRun' = [isRun EXCEPT ![g] = 1]
    /\ Become(t, IF isRun[g] = 1 THEN <<>> ELSE <<Do("loop", g)>>)
    /\ UNCHANGED <<mode, groups, jobs, tail, burnt, posted, waiting, calls>>

hasJob(g) == jobs[g] # {} \/ burnt[g]

\* HandleJob's Dequeue and the job, whose callback may call.  Only the group's
\* runner dequeues; where a try left a hole it finds nothing and looks again.
HandleJob(t, g) ==
    /\ At(t, "loop", g)
    /\ 0 \in jobs[g]
    /\ jobs' = [jobs EXCEPT ![g] = {i - 1 : i \in @ \ {0}}]
    /\ tail' = [tail EXCEPT ![g] = (@ + mode.size - 1) % mode.size]
    /\ \/ UNCHANGED <<todo, calls>>
       \/ /\ mode.nest /\ calls < MaxCall
          /\ \E c \in CallbackCalls(g) : todo' = [todo EXCEPT ![t] = c \o @]
          /\ calls' = calls + 1
    /\ UNCHANGED <<mode, groups, burnt, isRun, posted, waiting>>

\* No job, and no update is due.
UpdateLeave(t, g) ==
    /\ At(t, "loop", g)
    /\ ~hasJob(g)
    /\ Become(t, <<Do("end", g)>>)
    /\ UNCHANGED <<mode, groups, jobs, tail, burnt, isRun, posted, waiting, calls>>

UpdateEnd(t, g) ==
    /\ At(t, "end", g)
    /\ isRun' = [isRun EXCEPT ![g] = 0]
    /\ Become(t, <<>>)
    /\ UNCHANGED <<mode, groups, jobs, tail, burnt, posted, waiting, calls>>

----------------------------------------------------------------------------
\* CreateGroup: OnCreate is through and the lock wanted exclusively.
CreateWait ==
    /\ mode.create /\ ~waiting /\ groups # Groups
    /\ waiting' = TRUE
    /\ UNCHANGED <<mode, groups, jobs, tail, burnt, isRun, posted, todo, calls>>

\* It is had, the group added, and released.
CreateGroup ==
    /\ waiting /\ \A t \in Workers : Shared(t) = 0
    /\ \E g \in Groups \ groups : groups' = groups \cup {g}
    /\ waiting' = FALSE
    /\ UNCHANGED <<mode, jobs, tail, burnt, isRun, posted, todo, calls>>

----------------------------------------------------------------------------
GroupStep(t, g) ==
    \/ Enqueue(t, g) \/ EnqueueFull(t, g) \/ Look(t, g)
    \/ UpdateExchange(t, g) \/ HandleJob(t, g)
    \/ UpdateLeave(t, g) \/ UpdateEnd(t, g)

Step(t) == AcquireShared(t) \/ \E g \in Groups : GroupStep(t, g)

Next ==
    \/ \E t \in Workers : Call(t) \/ Step(t) \/ \E g \in Groups : Execute(t, g)
    \/ CreateWait \/ CreateGroup
    \/ \E g \in Groups : GroupThread(g)

Spec == Init /\ [][Next]_vars

\* Threads go on, every group is due again and again when GroupThread looks and not
\* due when Update looks, and the port hands out what is posted in order.
FairSpec ==
    /\ Spec
    /\ \A t \in Workers : WF_vars(Step(t))
    /\ WF_vars(CreateGroup)
    /\ \A g \in Groups :
        /\ WF_vars(GroupThread(g))
        /\ SF_vars(\E t \in Workers : Execute(t, g))

----------------------------------------------------------------------------
Steps == [op : {"lock", "unlock", "put", "look", "run", "loop", "end"},
          group : Groups \cup {Base}, update : BOOLEAN]

\* The variables' types.
TypeOK ==
    /\ mode \in Modes /\ groups \subseteq Groups
    /\ jobs \in [Groups -> SUBSET (0..(mode.size - 1))] /\ burnt \in [Groups -> BOOLEAN]
    /\ tail \in [Groups -> 0..(mode.size - 1)]
    /\ isRun \in [Groups -> 0..1]
    /\ posted \in [Groups -> 0..MaxPost]
    /\ waiting \in BOOLEAN
    /\ todo \in [Workers -> Seq(Steps)] /\ calls \in 0..MaxCall

\* The Update calls that are inside a group, over all threads and their nested
\* calls.
Running(g) ==
    UNION {{<<t, i>> : i \in {j \in DOMAIN todo[t] :
                todo[t][j].group = g /\ todo[t][j].op \in {"loop", "end"}}} : t \in Workers}

\* One thread at a time runs a group, once, although callbacks enqueue to their
\* own group and run other groups that enqueue back; _isRun says so.
OneRunner == \A g \in Groups : Cardinality(Running(g)) = isRun[g]

EverFull == \E g \in Groups : burnt[g]

\* A thread that has the lock shared wants it again, with CreateGroup waiting in
\* between (GroupManager.cpp:17).
LockedOut == waiting /\ \E t \in Workers : At(t, "lock", Base) /\ Shared(t) > 0

\* A job is handled although its Enqueue found the group running that was about
\* to leave its loop (Group.cpp:63, 118); unless a queue was ever full or a thread
\* is locked out.  Calls are bounded, so every job is handled when the queues are
\* empty again and again.
JobsAreHandled == []<>((\A g \in Groups : jobs[g] = {}) \/ LockedOut \/ EverFull)

\* Groups run each other from their callbacks, under the lock, and are created
\* meanwhile, and still every call returns, CreateGroup too.  What it takes is
\* that no queue is ever full and no thread is locked out: there is no other way
\* to wait forever, for the lock or for a group.
CallsReturn ==
    /\ \A t \in Workers : []<>(todo[t] = <<>> \/ LockedOut \/ EverFull)
    /\ []<>(~waiting \/ LockedOut \/ EverFull)
===============================================================================
