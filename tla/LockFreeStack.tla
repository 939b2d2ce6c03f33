----------------------------- MODULE LockFreeStack -----------------------------
(***************************************************************************)
(* The stack of free session indices: LockFreeStack<unsigned short>, with   *)
(* the MultiThreadObjectPool its nodes come from, which is a second stack   *)
(* of the same kind, and its users IOCP::AcceptThread, GetClientSession and *)
(* ReleaseExecutable.                                                       *)
(*                                                                          *)
(* A top is a pointer with a tag in its upper bits.  Push and Free add 1 to *)
(* the tag, Pop and Alloc keep it.  Each access to a top is a step, and so  *)
(* are the reads of a node that another thread may have by now.  What a     *)
(* thread writes to a node of its own goes with its next step.  The counts  *)
(* objectsInPool and _count are statistics and are left out.                *)
(***************************************************************************)
EXTENDS Integers, FiniteSets, Sequences

CONSTANTS
    Threads,     \* threads that take and return indices
    Main,        \* the one that constructs the server
    Indices,     \* session indices
    MaxNode,     \* bound: nodes ever created
    PoolSize,    \* nodes the pool is made with
    TagCount,    \* values of the tag, 2^17 in the code
    Stall,       \* how many pushes a thread may sleep between reading a top and
                 \* comparing it
    MaxClient    \* bound: GetClientSession calls

ASSUME StackAssumption ==
    /\ Main \in Threads /\ Indices # {} /\ IsFiniteSet(Indices)
    /\ MaxNode \in Nat /\ PoolSize \in 0..MaxNode
    /\ TagCount \in Nat \ {0}
    /\ Stall \in Nat
    /\ MaxClient \in Nat

Nodes == 1..MaxNode
Null == 0
Tags == 0..(TagCount - 1)
Tops == [ptr : Nodes \cup {Null}, tag : Tags]

VARIABLES
    top,         \* _top of the stack ("index") and of the pool ("pool")
    next,        \* Node::next of each node in each of the two
    data,        \* the index in each node
    created,     \* how many nodes there are
    used,        \* how many users each index has; the constructor starts with all
    phase,       \* IOCP's constructor, before Start, and after
    clients,     \* GetClientSession calls so far
    pc,          \* where each thread is
    client,      \* is its Pop from GetClientSession?
    seen,        \* its local top
    after,       \* topNode->next as it read it
    value,       \* the index it pushes or has read
    node,        \* the node it owns
    age          \* history: pushes on the stack it is at since it read the top

sharedVars == <<top, next, data, created>>
userVars == <<used, phase, clients>>
localVars == <<pc, client, seen, after, value, node, age>>
vars == <<sharedVars, userVars, localVars>>

Goto(t, l) == pc' = [pc EXCEPT ![t] = l]

NoTop == [ptr |-> Null, tag |-> 0]
NoIndex == CHOOSE i \in Indices : TRUE

\* What a thread read for a compare and exchange is of no more use.
Forget(t) ==
    /\ seen' = [seen EXCEPT ![t] = NoTop]
    /\ after' = [after EXCEPT ![t] = Null]

\* Between reading a top and comparing it, by stack.
AtIndex == {"popData", "popNext", "popCas", "pushCas"}
AtPool == {"allocNext", "allocCas", "freeCas"}
At(s) == IF s = "index" THEN AtIndex ELSE AtPool

Init ==
    /\ top = [s \in {"index", "pool"} |->
                IF s = "pool" THEN [ptr |-> PoolSize, tag |-> 0] ELSE [ptr |-> Null, tag |-> 0]]
    /\ next = [s \in {"index", "pool"} |->
                [n \in Nodes |-> IF s = "pool" /\ n <= PoolSize THEN n - 1 ELSE Null]]
    /\ data = [n \in Nodes |-> NoIndex]
    /\ created = PoolSize
    /\ used = [i \in Indices |-> 1]
    /\ phase = "constructor"
    /\ clients = 0
    /\ pc = [t \in Threads |-> "idle"]
    /\ client = [t \in Threads |-> FALSE]
    /\ seen = [t \in Threads |-> NoTop]
    /\ after = [t \in Threads |-> Null]
    /\ value = [t \in Threads |-> NoIndex]
    /\ node = [t \in Threads |-> Null]
    /\ age = [t \in Threads |-> 0]

----------------------------------------------------------------------------
\* A thread reads a top.
ReadTop(t, s) ==
    /\ seen' = [seen EXCEPT ![t] = top[s]]
    /\ age' = [age EXCEPT ![t] = 0]

\* The new top of a Push or Free: the node, and the tag one further.  Nobody
\* sleeps through Stall of them.
Swing(s, p) ==
    /\ \A u \in Threads : pc[u] \in At(s) => age[u] < Stall
    /\ top' = [top EXCEPT ![s] = [ptr |-> p, tag |-> (top[s].tag + 1) % TagCount]]

Older(t, s) == age' = [u \in Threads |-> IF u # t /\ pc[u] \in At(s) THEN age[u] + 1
                                        ELSE IF u = t THEN 0 ELSE age[u]]

----------------------------------------------------------------------------
\* The constructor is through; Start.
Advance ==
    /\ pc[Main] = "idle"
    /\ \/ phase = "constructor" /\ phase' = "clients" /\ \A i \in Indices : used[i] = 0
       \/ phase = "clients" /\ phase' = "running" /\ \A t \in Threads : ~client[t]
    /\ UNCHANGED <<sharedVars, used, clients, localVars>>

\* AcceptThread calls it after Start.  GetClientSession is called before, as its
\* comment says it mostly is ("보통 accept 전에 하니까", NormalIOCP.cpp:458).
GetFreeIndex(t) ==
    /\ pc[t] = "idle"
    /\ \/ phase = "running" /\ UNCHANGED <<clients, client>>
       \/ /\ phase = "clients" /\ clients < MaxClient
          /\ clients' = clients + 1
          /\ client' = [client EXCEPT ![t] = TRUE]
    /\ Goto(t, "pop")
    /\ UNCHANGED <<sharedVars, used, phase, seen, after, value, node, age>>

\* Pop: an empty stack ends it.  AcceptThread gives up the connection, and
\* GetClientSession goes on with whatever its index variable holds.
PopTop(t) ==
    /\ pc[t] = "pop"
    /\ IF top["index"].ptr # Null
       THEN ReadTop(t, "index") /\ Goto(t, "popData") /\ UNCHANGED <<used, client>>
       ELSE /\ Goto(t, "idle")
            /\ IF client[t] THEN \E i \in Indices : used' = [used EXCEPT ![i] = @ + 1]
                            ELSE UNCHANGED used
            /\ client' = [client EXCEPT ![t] = FALSE]
            /\ UNCHANGED <<seen, age>>
    /\ UNCHANGED <<sharedVars, phase, clients, after, value, node>>

PopData(t) ==
    /\ pc[t] = "popData"
    /\ value' = [value EXCEPT ![t] = data[seen[t].ptr]]
    /\ Goto(t, "popNext")
    /\ UNCHANGED <<sharedVars, userVars, client, seen, after, node, age>>

PopNext(t) ==
    /\ pc[t] = "popNext"
    /\ after' = [after EXCEPT ![t] = next["index"][seen[t].ptr]]
    /\ Goto(t, "popCas")
    /\ UNCHANGED <<sharedVars, userVars, client, seen, value, node, age>>

\* Mutant: the comparison leaves out the pointer's tag, which never matches once
\* there is one.
PopCasBare(t) ==
    /\ pc[t] = "popCas"
    /\ IF top["index"] = [ptr |-> seen[t].ptr, tag |-> 0]
       THEN /\ top' = [top EXCEPT !["index"] = [ptr |-> after[t], tag |-> seen[t].tag]]
            /\ node' = [node EXCEPT ![t] = seen[t].ptr]
            /\ Goto(t, "free")
            /\ UNCHANGED value
       ELSE /\ Goto(t, "pop")
            /\ value' = [value EXCEPT ![t] = NoIndex]
            /\ UNCHANGED <<top, node>>
    /\ Forget(t)
    /\ age' = [age EXCEPT ![t] = 0]
    /\ UNCHANGED <<next, data, created, userVars, client>>

\* Mutant: the tops are compared by their pointers, without the tag.
PopCasPtr(t) ==
    /\ pc[t] = "popCas"
    /\ IF top["index"].ptr = seen[t].ptr
       THEN /\ top' = [top EXCEPT !["index"].ptr = after[t]]
            /\ node' = [node EXCEPT ![t] = seen[t].ptr]
            /\ Goto(t, "free")
            /\ UNCHANGED value
       ELSE /\ Goto(t, "pop")
            /\ value' = [value EXCEPT ![t] = NoIndex]
            /\ UNCHANGED <<top, node>>
    /\ Forget(t)
    /\ age' = [age EXCEPT ![t] = 0]
    /\ UNCHANGED <<next, data, created, userVars, client>>

\* The compare and exchange; the tag stays.
PopCas(t) ==
    /\ pc[t] = "popCas"
    /\ IF top["index"] = seen[t]
       THEN /\ top' = [top EXCEPT !["index"] = [ptr |-> after[t], tag |-> seen[t].tag]]
            /\ node' = [node EXCEPT ![t] = seen[t].ptr]
            /\ Goto(t, "free")
            /\ UNCHANGED value
       ELSE /\ Goto(t, "pop")
            /\ value' = [value EXCEPT ![t] = NoIndex]
            /\ UNCHANGED <<top, node>>
    /\ Forget(t)
    /\ age' = [age EXCEPT ![t] = 0]
    /\ UNCHANGED <<next, data, created, userVars, client>>

\* _pool.Free(topNode).
FreeTop(t) ==
    /\ pc[t] = "free"
    /\ ReadTop(t, "pool")
    /\ next' = [next EXCEPT !["pool"][node[t]] = top["pool"].ptr]
    /\ Goto(t, "freeCas")
    /\ UNCHANGED <<top, data, created, userVars, client, after, value, node>>

\* Mutant: a retry compares with the new top, and the node keeps the old one's
\* successor.
FreeCasStale(t) ==
    /\ pc[t] = "freeCas"
    /\ IF top["pool"] = seen[t]
       THEN /\ Swing("pool", node[t])
            /\ Older(t, "pool")
            /\ used' = [used EXCEPT ![value[t]] = @ + 1]
            /\ client' = [client EXCEPT ![t] = FALSE]
            /\ node' = [node EXCEPT ![t] = Null]
            /\ value' = [value EXCEPT ![t] = NoIndex]
            /\ Goto(t, "idle")
            /\ Forget(t)
       ELSE /\ ReadTop(t, "pool")
            /\ UNCHANGED <<pc, top, used, client, value, node, after>>
    /\ UNCHANGED <<next, data, created, phase, clients>>

\* The node is back in the pool and Pop returns the index.
FreeCas(t) ==
    /\ pc[t] = "freeCas"
    /\ IF top["pool"] = seen[t]
       THEN /\ Swing("pool", node[t])
            /\ Older(t, "pool")
            /\ used' = [used EXCEPT ![value[t]] = @ + 1]
            /\ client' = [client EXCEPT ![t] = FALSE]
            /\ node' = [node EXCEPT ![t] = Null]
            /\ value' = [value EXCEPT ![t] = NoIndex]
            /\ Goto(t, "idle")
       ELSE /\ Goto(t, "free")
            /\ age' = [age EXCEPT ![t] = 0]
            /\ UNCHANGED <<top, used, client, value, node>>
    /\ Forget(t)
    /\ UNCHANGED <<next, data, created, phase, clients>>

Pop(t) == PopTop(t) \/ PopData(t) \/ PopNext(t) \/ PopCas(t) \/ FreeTop(t) \/ FreeCas(t)

----------------------------------------------------------------------------
\* An index that is in use is given back.
ReleaseFreeIndex(t) ==
    /\ pc[t] = "idle"
    /\ phase = "constructor" => t = Main
    /\ \E i \in Indices :
        /\ used[i] > 0
        /\ used' = [used EXCEPT ![i] = @ - 1]
        /\ value' = [value EXCEPT ![t] = i]
    /\ Goto(t, "alloc")
    /\ UNCHANGED <<sharedVars, phase, clients, client, seen, after, node, age>>

\* _pool.Alloc: from the pool, or a new node if that is empty.
AllocTop(t) ==
    /\ pc[t] = "alloc"
    /\ IF top["pool"].ptr # Null
       THEN ReadTop(t, "pool") /\ Goto(t, "allocNext") /\ UNCHANGED <<created, node>>
       ELSE /\ created < MaxNode
            /\ created' = created + 1
            /\ node' = [node EXCEPT ![t] = created + 1]
            /\ Goto(t, "push")
            /\ UNCHANGED <<seen, age>>
    /\ UNCHANGED <<top, next, data, userVars, client, after, value>>

AllocNext(t) ==
    /\ pc[t] = "allocNext"
    /\ after' = [after EXCEPT ![t] = next["pool"][seen[t].ptr]]
    /\ Goto(t, "allocCas")
    /\ UNCHANGED <<sharedVars, userVars, client, seen, value, node, age>>

AllocCas(t) ==
    /\ pc[t] = "allocCas"
    /\ IF top["pool"] = seen[t]
       THEN /\ top' = [top EXCEPT !["pool"] = [ptr |-> after[t], tag |-> seen[t].tag]]
            /\ node' = [node EXCEPT ![t] = seen[t].ptr]
            /\ Goto(t, "push")
       ELSE Goto(t, "alloc") /\ UNCHANGED <<top, node>>
    /\ Forget(t)
    /\ age' = [age EXCEPT ![t] = 0]
    /\ UNCHANGED <<next, data, created, userVars, client, value>>

\* Push: data and next of the thread's node.
PushTop(t) ==
    /\ pc[t] = "push"
    /\ ReadTop(t, "index")
    /\ data' = [data EXCEPT ![node[t]] = value[t]]
    /\ next' = [next EXCEPT !["index"][node[t]] = top["index"].ptr]
    /\ Goto(t, "pushCas")
    /\ UNCHANGED <<top, created, userVars, client, after, value, node>>

\* Mutant: the same in Push.
PushCasStale(t) ==
    /\ pc[t] = "pushCas"
    /\ IF top["index"] = seen[t]
       THEN /\ Swing("index", node[t])
            /\ Older(t, "index")
            /\ node' = [node EXCEPT ![t] = Null]
            /\ value' = [value EXCEPT ![t] = NoIndex]
            /\ Goto(t, "idle")
            /\ Forget(t)
       ELSE /\ ReadTop(t, "index")
            /\ UNCHANGED <<pc, top, value, node, after>>
    /\ UNCHANGED <<next, data, created, userVars, client>>

PushCas(t) ==
    /\ pc[t] = "pushCas"
    /\ IF top["index"] = seen[t]
       THEN /\ Swing("index", node[t])
            /\ Older(t, "index")
            /\ node' = [node EXCEPT ![t] = Null]
            /\ value' = [value EXCEPT ![t] = NoIndex]
            /\ Goto(t, "idle")
       ELSE /\ Goto(t, "push")
            /\ age' = [age EXCEPT ![t] = 0]
            /\ UNCHANGED <<top, value, node>>
    /\ Forget(t)
    /\ UNCHANGED <<next, data, created, userVars, client>>

Push(t) == AllocTop(t) \/ AllocNext(t) \/ AllocCas(t) \/ PushTop(t) \/ PushCas(t)

----------------------------------------------------------------------------
Step(t) == Pop(t) \/ Push(t)

Next == Advance \/ \E t \in Threads : GetFreeIndex(t) \/ ReleaseFreeIndex(t) \/ Step(t)

Spec == Init /\ [][Next]_vars

\* A thread inside a call goes on.
FairSpec == Spec /\ \A t \in Threads : WF_vars(Step(t))

----------------------------------------------------------------------------
\* The nodes from p on, when nx is where each one points: the node k hops away,
\* Null when there are no more, and the chain they make.
Walk(p, nx) == LET f[k \in 0..MaxNode] ==
                     IF k = 0 THEN p ELSE IF f[k - 1] = Null THEN Null ELSE nx[f[k - 1]]
               IN f
ChainFrom(p, nx) ==
    [k \in 1..Cardinality({j \in 0..MaxNode : Walk(p, nx)[j] # Null}) |-> Walk(p, nx)[k - 1]]

Chain(s) == ChainFrom(top[s].ptr, next[s])

\* The variables' types.
TypeOK ==
    /\ top \in [{"index", "pool"} -> Tops]
    /\ next \in [{"index", "pool"} -> [Nodes -> Nodes \cup {Null}]]
    /\ data \in [Nodes -> Indices]
    /\ created \in 0..MaxNode
    /\ used \in [Indices -> 0..1]
    /\ pc \in [Threads -> {"idle", "pop", "free", "alloc", "push"} \cup AtIndex \cup AtPool]
    /\ seen \in [Threads -> Tops]
    /\ after \in [Threads -> Nodes \cup {Null}]
    /\ node \in [Threads -> Nodes \cup {Null}]

\* A node is in one place: on the stack, in the pool, with one thread, or not
\* created.  No chain loops and no node is lost, although Pop and Alloc follow
\* the next pointer of a node that others may have taken and put back
\* (LockFreeStack.h:69, MultiThreadObjectPool.h:76).
NodeOnce ==
    \A n \in 1..created :
        Cardinality({k \in DOMAIN Chain("index") : Chain("index")[k] = n})
        + Cardinality({k \in DOMAIN Chain("pool") : Chain("pool")[k] = n})
        + Cardinality({t \in Threads : node[t] = n}) = 1

\* "인덱스는 안 겹침" (NormalIOCP.cpp:459): an index is free once, or in use once, or
\* on its way between the two with one thread.
IndexOnce ==
    \A i \in Indices :
        used[i]
        + Cardinality({k \in DOMAIN Chain("index") : data[Chain("index")[k]] = i})
        + Cardinality({t \in Threads : value[t] = i /\
                         pc[t] \in {"free", "freeCas", "alloc", "allocNext", "allocCas",
                                    "push", "pushCas"}}) = 1

Stack == INSTANCE IndexStack
    WITH Values <- Indices,
         content <- [k \in DOMAIN Chain("index") |-> data[Chain("index")[k]]]

\* LockFreeStack implements a stack.
ImplementsStack == Stack!Spec

\* Threads that retry make way for one another: it never happens that all of
\* them are inside calls and none returns any more.
SomeCallReturns == []<>(\E t \in Threads : pc[t] = "idle")
=================================================================================
