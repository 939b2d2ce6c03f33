----------------------------- MODULE StackProofs -----------------------------
(***************************************************************************)
(* Proofs about LockFreeStack, for any number of threads, indices, nodes    *)
(* and tag values: as long as no thread sleeps through a whole round of the *)
(* tag, no node is lost or doubled and Push and Pop implement a stack; and  *)
(* as long as GetClientSession is not called for more sessions than there   *)
(* are, no index is given out twice.                                        *)
(***************************************************************************)
EXTENDS LockFreeStack, FiniteSetTheorems, FunctionTheorems, SequenceTheorems,
        WellFoundedInduction, TLAPS

\* No thread sleeps, between reading a top and comparing it, through as many
\* pushes as the tag has values.
TagOutlasts == Stall < TagCount

\* GetClientSession is not called more often than there are sessions.
EnoughIndices == MaxClient <= Cardinality(Indices)

Stacks == {"index", "pool"}

\* Threads between an Alloc and the end of Push, or between the exchange of Pop
\* and the end of Free, have a node of their own.
Owns(t) == pc[t] \in {"free", "freeCas", "push", "pushCas"}

\* Threads with a node they have not taken but may.
Eyes(s) == IF s = "index" THEN {"popData", "popNext", "popCas"} ELSE {"allocNext", "allocCas"}

\* c is the chain of n different nodes that starts at p.
Linked(c, n, p, nx) ==
    /\ n \in Nat /\ c \in [1..n -> Nodes]
    /\ p = IF n = 0 THEN Null ELSE c[1]
    /\ \A k \in 1..n : nx[c[k]] = IF k = n THEN Null ELSE c[k + 1]
    /\ \A j, k \in 1..n : c[j] = c[k] => j = k

On(s, x) == \E k \in 1..Len(Chain(s)) : Chain(s)[k] = x

\* The parts of the inductive invariant.
StackType ==
    /\ top \in [Stacks -> Tops]
    /\ next \in [Stacks -> [Nodes -> Nodes \cup {Null}]]
    /\ data \in [Nodes -> Indices]
    /\ created \in 0..MaxNode
    /\ used \in [Indices -> Nat]
    /\ phase \in {"constructor", "clients", "running"}
    /\ clients \in 0..MaxClient
    /\ pc \in [Threads -> {"idle", "pop", "free", "alloc", "push"} \cup AtIndex \cup AtPool]
    /\ client \in [Threads -> BOOLEAN]
    /\ seen \in [Threads -> Tops]
    /\ after \in [Threads -> Nodes \cup {Null}]
    /\ value \in [Threads -> Indices]
    /\ node \in [Threads -> Nodes \cup {Null}]
    /\ age \in [Threads -> 0..Stall]

\* Both chains end, and no node is twice on them.
ChainInv == \A s \in Stacks : Linked(Chain(s), Len(Chain(s)), top[s].ptr, next[s])

\* A created node is on one of the chains or with one thread.
PlaceInv ==
    /\ \A s \in Stacks : \A x \in Nodes : On(s, x) => x <= created
    /\ \A x \in Nodes : ~(On("index", x) /\ On("pool", x))
    /\ \A t \in Threads : node[t] # Null <=> Owns(t)
    /\ \A t \in Threads : Owns(t) =>
          node[t] <= created /\ \A s \in Stacks : ~On(s, node[t])
    /\ \A t, u \in Threads : Owns(t) /\ node[t] = node[u] => t = u
    /\ \A x \in 1..created :
          On("index", x) \/ On("pool", x) \/ \E t \in Threads : node[t] = x

\* The tag after g pushes.
Later(tag, g) == IF tag + g < TagCount THEN tag + g ELSE tag + g - TagCount

\* The tag tells how many pushes a thread has slept through.  If there were none,
\* what it saw is still the top or off the chain, and if it is the top then what
\* was read from it still holds.
Fresh(s, t) ==
    /\ top[s].tag = Later(seen[t].tag, age[t])
    /\ age[t] = 0 /\ On(s, seen[t].ptr) => seen[t].ptr = top[s].ptr
    /\ pc[t] \in Eyes(s) => seen[t].ptr # Null
    /\ pc[t] \in {"popCas", "allocCas"} /\ age[t] = 0 /\ seen[t].ptr = top[s].ptr =>
          after[t] = next[s][seen[t].ptr]

TagInv == \A s \in Stacks : \A t \in Threads : pc[t] \in At(s) => Fresh(s, t)

\* The same for the index a Pop has read.
Known(t) ==
    pc[t] \in {"popNext", "popCas"} /\ age[t] = 0 /\ seen[t].ptr = top["index"].ptr =>
        value[t] = data[seen[t].ptr]

\* A node that is about to be pushed points to the top its thread has seen, and
\* holds the index.
Ready(t) ==
    /\ pc[t] = "pushCas" => next["index"][node[t]] = seen[t].ptr /\ data[node[t]] = value[t]
    /\ pc[t] = "freeCas" => next["pool"][node[t]] = seen[t].ptr

ReadInv == \A t \in Threads : Known(t) /\ Ready(t)

NInv == StackType /\ ChainInv /\ PlaceInv /\ TagInv /\ ReadInv

\* Threads that have an index between the stack and its user.
Holds(t) == pc[t] \in {"free", "freeCas", "alloc", "allocNext", "allocCas", "push", "pushCas"}
Content == [k \in DOMAIN Chain("index") |-> data[Chain("index")[k]]]
OnStack(i) == \E k \in 1..Len(Content) : Content[k] = i
OffStack == {i \in Indices : ~OnStack(i)}

\* Pops of GetClientSession that have not taken an index yet.
Popping(t) == pc[t] \in {"pop", "popData", "popNext", "popCas"}
Pending == {t \in Threads : client[t] /\ Popping(t)}

\* An index is in one place.
IndexInv ==
    /\ \A i \in Indices : used[i] \in {0, 1}
    /\ \A j, k \in 1..Len(Content) : Content[j] = Content[k] => j = k
    /\ \A t, u \in Threads : Holds(t) /\ Holds(u) /\ value[t] = value[u] => t = u
    /\ \A t \in Threads : Holds(t) => ~OnStack(value[t]) /\ used[value[t]] = 0
    /\ \A i \in Indices : used[i] = 1 => ~OnStack(i)
    /\ \A i \in Indices :
          used[i] = 1 \/ OnStack(i) \/ \E t \in Threads : Holds(t) /\ value[t] = i

\* The constructor pushes alone; after it, the indices that are off the stack, and
\* those about to be popped, are at most as many as GetClientSession's calls.
PhaseInv ==
    /\ phase = "constructor" =>
          \A t \in Threads : ~client[t] /\ (pc[t] = "idle" \/ (t = Main /\ Holds(t)))
    /\ \A t \in Threads : client[t] => phase = "clients"
    /\ phase = "clients" =>
          /\ \A t \in Threads : Popping(t) => client[t]
          /\ IsFiniteSet(Pending)
          /\ Cardinality(OffStack) + Cardinality(Pending) <= clients

IInv == NInv /\ IndexInv /\ PhaseInv

----------------------------------------------------------------------------
\* Chains.

LEMMA LeastOf ==
    ASSUME NEW T, T \subseteq Nat, T # {}
    PROVE  \E k \in T : \A j \in T : k <= j
<1> DEFINE R == OpToRel(<, Nat)
<1>1. IsWellFoundedOn(R, Nat)
  BY NatLessThanWellFounded
<1>2. \A j, k \in Nat : j < k => <<j, k>> \in R
  BY DEF OpToRel
<1> HIDE DEF R
<1>3. PICK k \in T : \A j \in T : ~(<<j, k>> \in R)
  BY <1>1, WFMin
<1>4. \A j \in T : ~(j < k)
  BY <1>2, <1>3
<1>5. k \in Nat /\ \A j \in T : j \in Nat
  OBVIOUS
<1>6. \A j \in T : k <= j
  BY <1>4, <1>5
<1> QED BY <1>6

\* A chain has at most MaxNode nodes.
LEMMA ChainBound ==
    ASSUME NEW c, NEW n, NEW p, NEW nx, Linked(c, n, p, nx)
    PROVE  n <= MaxNode
<1>1. n \in Nat /\ MaxNode \in Nat /\ c \in [1..n -> Nodes] /\ \A j, k \in 1..n : c[j] = c[k] => j = k
  BY StackAssumption DEF Linked
<1>2. IsFiniteSet(Nodes) /\ Cardinality(Nodes) = MaxNode
  BY <1>1, FS_Interval DEF Nodes
<1>3. IsFiniteSet(1..n) /\ Cardinality(1..n) = n
  BY <1>1, FS_Interval
<1>4. c \in Injection(1..n, Nodes)
  BY <1>1, Fun_IsInj
<1> QED BY <1>2, <1>3, <1>4, FS_Injection

\* Walking from p visits the nodes of the chain, and then there are no more.
LEMMA WalkIs ==
    ASSUME NEW c, NEW n, NEW p, NEW nx, Linked(c, n, p, nx)
    PROVE  Walk(p, nx) = [k \in 0..MaxNode |-> IF k < n THEN c[k + 1] ELSE Null]
<1> DEFINE G(f) == [k \in 0..MaxNode |->
                      IF k = 0 THEN p ELSE IF f[k - 1] = Null THEN Null ELSE nx[f[k - 1]]]
           w == [k \in 0..MaxNode |-> IF k < n THEN c[k + 1] ELSE Null]
           W == Walk(p, nx)
<1>0. n <= MaxNode
  BY ChainBound
<1>1. n \in Nat /\ MaxNode \in Nat /\ n <= MaxNode
  BY <1>0, StackAssumption DEF Linked
<1>2. \A k \in 1..n : c[k] # Null
  BY DEF Linked, Nodes, Null
<1>3. w = G(w)
  <2>1. ASSUME NEW k \in 0..MaxNode
        PROVE  w[k] = IF k = 0 THEN p ELSE IF w[k - 1] = Null THEN Null ELSE nx[w[k - 1]]
    <3>1. CASE k = 0
      BY <1>1, <3>1 DEF Linked
    <3>2. CASE k # 0 /\ k - 1 < n
      <4>1. k \in 1..n /\ k - 1 \in 0..MaxNode /\ w[k - 1] = c[k] /\ c[k] # Null
        BY <1>1, <1>2, <3>2
      <4>2. nx[c[k]] = IF k = n THEN Null ELSE c[k + 1]
        BY <4>1 DEF Linked
      <4>3. w[k] = IF k < n THEN c[k + 1] ELSE Null
        OBVIOUS
      <4> QED BY <1>1, <3>2, <4>1, <4>2, <4>3
    <3>3. CASE k # 0 /\ ~(k - 1 < n)
      <4>1. k - 1 \in 0..MaxNode /\ w[k - 1] = Null /\ w[k] = Null
        BY <1>1, <3>3
      <4> QED BY <3>3, <4>1
    <3> QED BY <3>1, <3>2, <3>3
  <2> QED BY <2>1
<1>4. W = CHOOSE f : f = G(f)
  BY DEF Walk
<1> HIDE DEF w, W
<1>5. W = G(W)
  BY <1>3, <1>4
<1>6. DOMAIN w = 0..MaxNode /\ DOMAIN W = 0..MaxNode
  BY <1>3, <1>5
<1> DEFINE T == {k \in 0..MaxNode : W[k] # w[k]}
<1>7. ASSUME T # {} PROVE FALSE
  <2>0. T \subseteq Nat
    OBVIOUS
  <2>1. PICK k \in T : \A j \in T : k <= j
    <3> HIDE DEF T
    <3> QED BY <1>7, <2>0, LeastOf
  <2>2. k \in 0..MaxNode /\ W[k] # w[k]
    BY <2>1
  <2>3. k # 0
    BY <1>3, <1>5, <2>2
  <2>4. k - 1 \in 0..MaxNode /\ W[k - 1] = w[k - 1]
    BY <1>1, <2>1, <2>2, <2>3
  <2>5. /\ W[k] = IF W[k - 1] = Null THEN Null ELSE nx[W[k - 1]]
        /\ w[k] = IF w[k - 1] = Null THEN Null ELSE nx[w[k - 1]]
    BY <1>3, <1>5, <2>2, <2>3
  <2> QED BY <2>2, <2>4, <2>5
<1>8. \A k \in 0..MaxNode : W[k] = w[k]
  BY <1>7
<1>9. W = w
  BY <1>3, <1>5, <1>6, <1>8
<1> QED BY <1>9 DEF w, W

\* There is one chain from p on.
LEMMA ChainIs ==
    ASSUME NEW c, NEW n, NEW p, NEW nx, Linked(c, n, p, nx)
    PROVE  ChainFrom(p, nx) = c /\ Len(c) = n
<1>0. n <= MaxNode
  BY ChainBound
<1>1. n \in Nat /\ MaxNode \in Nat /\ n <= MaxNode /\ c \in [1..n -> Nodes]
  BY <1>0, StackAssumption DEF Linked
<1>2. \A k \in 1..n : c[k] # Null
  BY DEF Linked, Nodes, Null
<1> DEFINE W == Walk(p, nx)
           D == {j \in 0..MaxNode : W[j] # Null}
<1>3. \A j \in 0..MaxNode : W[j] = IF j < n THEN c[j + 1] ELSE Null
  <2>1. W = [k \in 0..MaxNode |-> IF k < n THEN c[k + 1] ELSE Null]
    BY WalkIs
  <2> HIDE DEF W
  <2> QED BY <2>1
<1>4. D = 0..(n - 1)
  <2>1. ASSUME NEW j \in D PROVE j \in 0..(n - 1)
    BY <1>1, <1>3
  <2>2. ASSUME NEW j \in 0..(n - 1) PROVE j \in D
    <3>1. j \in 0..MaxNode /\ j + 1 \in 1..n /\ j < n
      BY <1>1
    <3> QED BY <1>2, <1>3, <3>1
  <2> QED BY <2>1, <2>2
<1>5. Cardinality(D) = n
  <2>1. 0 \in Int /\ n - 1 \in Int
    BY <1>1
  <2>2. Cardinality(0..(n - 1)) = IF 0 > n - 1 THEN 0 ELSE (n - 1) - 0 + 1
    BY <2>1, FS_Interval
  <2>3. Cardinality(0..(n - 1)) = n
    BY <1>1, <2>2
  <2> QED BY <1>4, <2>3
<1>6. ChainFrom(p, nx) = [k \in 1..Cardinality(D) |-> W[k - 1]]
  BY DEF ChainFrom
<1>7. \A k \in 1..n : W[k - 1] = c[k]
  <2> TAKE k \in 1..n
  <2>1. k - 1 \in 0..MaxNode /\ k - 1 < n /\ (k - 1) + 1 = k
    BY <1>1
  <2> QED BY <1>3, <2>1
<1> HIDE DEF D, W
<1> QED BY <1>1, <1>5, <1>6, <1>7

\* Nodes off the chain may change.
LEMMA ChainKeeps ==
    ASSUME NEW c, NEW n, NEW p, NEW nx, NEW ny, Linked(c, n, p, nx),
           \A k \in 1..n : ny[c[k]] = nx[c[k]]
    PROVE  Linked(c, n, p, ny)
BY DEF Linked

\* A node that points to the top is put before it.
LEMMA ChainPush ==
    ASSUME NEW c, NEW n, NEW p, NEW nx, Linked(c, n, p, nx),
           NEW x \in Nodes, \A k \in 1..n : c[k] # x, nx[x] = p
    PROVE  Linked([k \in 1..(n + 1) |-> IF k = 1 THEN x ELSE c[k - 1]], n + 1, x, nx)
<1> DEFINE d == [k \in 1..(n + 1) |-> IF k = 1 THEN x ELSE c[k - 1]]
<1>1. n \in Nat /\ c \in [1..n -> Nodes]
  BY DEF Linked
<1>2. \A k \in 1..(n + 1) : k # 1 => k - 1 \in 1..n
  BY <1>1
<1>3. d \in [1..(n + 1) -> Nodes] /\ d[1] = x
  BY <1>1, <1>2
<1>4. ASSUME NEW k \in 1..(n + 1)
      PROVE  nx[d[k]] = IF k = n + 1 THEN Null ELSE d[k + 1]
  <2>1. CASE k = 1
    <3>1. n # 0 => k + 1 \in 1..(n + 1) /\ d[k + 1] = c[1]
      BY <1>1, <2>1
    <3>2. nx[d[k]] = IF n = 0 THEN Null ELSE c[1]
      BY <1>3, <2>1 DEF Linked
    <3> QED BY <1>1, <2>1, <3>1, <3>2
  <2>2. CASE k # 1
    <3>1. k - 1 \in 1..n /\ d[k] = c[k - 1]
      BY <1>1, <2>2
    <3>2. nx[c[k - 1]] = IF k - 1 = n THEN Null ELSE c[(k - 1) + 1]
      BY <3>1 DEF Linked
    <3>3. k # n + 1 => k + 1 \in 1..(n + 1) /\ d[k + 1] = c[k]
      BY <1>1, <2>2
    <3> QED BY <1>1, <3>1, <3>2, <3>3
  <2> QED BY <2>1, <2>2
<1>5. ASSUME NEW j \in 1..(n + 1), NEW k \in 1..(n + 1), d[j] = d[k] PROVE j = k
  <2>1. \A i \in 1..(n + 1) : i # 1 => i - 1 \in 1..n /\ d[i] = c[i - 1] /\ c[i - 1] # x
    BY <1>2
  <2>2. j # 1 /\ k # 1 => j - 1 = k - 1
    BY <1>5, <2>1 DEF Linked
  <2> QED BY <1>1, <1>3, <1>5, <2>1, <2>2
<1> HIDE DEF d
<1>6. Linked(d, n + 1, x, nx)
  BY <1>1, <1>3, <1>4, <1>5 DEF Linked
<1> QED BY <1>6 DEF d

\* The first node is taken.
LEMMA ChainPop ==
    ASSUME NEW c, NEW n, NEW p, NEW nx, Linked(c, n, p, nx), p # Null
    PROVE  /\ n \in Nat /\ n >= 1 /\ c[1] = p
           /\ Linked([k \in 1..(n - 1) |-> c[k + 1]], n - 1, nx[p], nx)
<1> DEFINE d == [k \in 1..(n - 1) |-> c[k + 1]]
<1>1. n \in Nat /\ n >= 1 /\ c[1] = p /\ c \in [1..n -> Nodes]
  BY DEF Linked
<1>2. \A k \in 1..(n - 1) : k + 1 \in 1..n /\ d[k] = c[k + 1]
  BY <1>1
<1>3. d \in [1..(n - 1) -> Nodes] /\ n - 1 \in Nat
  BY <1>1, <1>2
<1>4. nx[p] = IF n - 1 = 0 THEN Null ELSE d[1]
  <2>1. 1 \in 1..n /\ nx[c[1]] = IF 1 = n THEN Null ELSE c[1 + 1]
    BY <1>1 DEF Linked
  <2>2. n # 1 => 1 \in 1..(n - 1)
    BY <1>1
  <2> QED BY <1>1, <1>2, <2>1, <2>2
<1>5. ASSUME NEW k \in 1..(n - 1)
      PROVE  nx[d[k]] = IF k = n - 1 THEN Null ELSE d[k + 1]
  <2>1. nx[c[k + 1]] = IF k + 1 = n THEN Null ELSE c[(k + 1) + 1]
    BY <1>2 DEF Linked
  <2>2. k # n - 1 => k + 1 \in 1..(n - 1)
    BY <1>1
  <2> QED BY <1>1, <1>2, <2>1, <2>2
<1>6. ASSUME NEW j \in 1..(n - 1), NEW k \in 1..(n - 1), d[j] = d[k] PROVE j = k
  <2>1. j + 1 = k + 1
    BY <1>2, <1>6 DEF Linked
  <2> QED BY <2>1
<1> HIDE DEF d
<1>7. Linked(d, n - 1, nx[p], nx)
  BY <1>3, <1>4, <1>5, <1>6 DEF Linked
<1> QED BY <1>1, <1>7 DEF d

----------------------------------------------------------------------------
\* What the steps do to the chains.

LEMMA ChainFacts ==
    ASSUME NInv, NEW s \in Stacks
    PROVE  /\ Linked(Chain(s), Len(Chain(s)), top[s].ptr, next[s])
           /\ Len(Chain(s)) \in Nat
           /\ Chain(s) \in [1..Len(Chain(s)) -> Nodes]
           /\ \A x : On(s, x) => x \in Nodes
           /\ On(s, top[s].ptr) <=> top[s].ptr # Null
<1>1. Linked(Chain(s), Len(Chain(s)), top[s].ptr, next[s])
  BY DEF NInv, ChainInv
<1>2. Len(Chain(s)) \in Nat /\ Chain(s) \in [1..Len(Chain(s)) -> Nodes]
  BY <1>1 DEF Linked
<1>3. \A x : On(s, x) => x \in Nodes
  BY <1>2 DEF On
<1>4. Null \notin Nodes
  BY DEF Null, Nodes
<1>5. top[s].ptr = IF Len(Chain(s)) = 0 THEN Null ELSE Chain(s)[1]
  BY <1>1 DEF Linked
<1>6. Len(Chain(s)) # 0 => 1 \in 1..Len(Chain(s))
  BY <1>2
<1>7. On(s, top[s].ptr) <=> top[s].ptr # Null
  BY <1>2, <1>3, <1>4, <1>5, <1>6 DEF On
<1> QED BY <1>1, <1>2, <1>3, <1>7

\* One that leaves a top and the nodes of its chain alone.
LEMMA ChainStays ==
    ASSUME NInv, NEW s \in Stacks, top'[s].ptr = top[s].ptr,
           \A x : On(s, x) => next'[s][x] = next[s][x]
    PROVE  /\ Chain(s)' = Chain(s)
           /\ Linked(Chain(s)', Len(Chain(s)'), top'[s].ptr, next'[s])
           /\ \A x : On(s, x)' <=> On(s, x)
<1> DEFINE c == Chain(s)
           n == Len(Chain(s))
<1>1. Linked(c, n, top[s].ptr, next[s])
  BY ChainFacts
<1>2. \A k \in 1..n : next'[s][c[k]] = next[s][c[k]]
  BY DEF On
<1> HIDE DEF c, n
<1>3. Linked(c, n, top'[s].ptr, next'[s])
  BY <1>1, <1>2, ChainKeeps
<1>4. ChainFrom(top'[s].ptr, next'[s]) = c /\ Len(c) = n
  BY <1>3, ChainIs
<1>5. Chain(s)' = c
  BY <1>4 DEF Chain
<1>6. Chain(s)' = Chain(s)
  BY <1>5 DEF c
<1> QED BY <1>3, <1>4, <1>5, <1>6 DEF On

\* One that takes the top.
LEMMA ChainPopped ==
    ASSUME NInv, NEW s \in Stacks, top[s].ptr # Null,
           top'[s].ptr = next[s][top[s].ptr], next' = next
    PROVE  /\ Chain(s)' = [k \in 1..(Len(Chain(s)) - 1) |-> Chain(s)[k + 1]]
           /\ Len(Chain(s)') = Len(Chain(s)) - 1
           /\ Len(Chain(s)) >= 1 /\ Chain(s)[1] = top[s].ptr
           /\ Linked(Chain(s)', Len(Chain(s)'), top'[s].ptr, next'[s])
           /\ \A x : On(s, x)' <=> On(s, x) /\ x # top[s].ptr
<1> DEFINE c == Chain(s)
           n == Len(Chain(s))
           d == [k \in 1..(n - 1) |-> c[k + 1]]
<1>1. Linked(c, n, top[s].ptr, next[s])
  BY ChainFacts
<1>2. n \in Nat /\ n >= 1 /\ c[1] = top[s].ptr /\ Linked(d, n - 1, next[s][top[s].ptr], next[s])
  <2> HIDE DEF c, n, d
  <2>1. n \in Nat /\ n >= 1 /\ c[1] = top[s].ptr
        /\ Linked([k \in 1..(n - 1) |-> c[k + 1]], n - 1, next[s][top[s].ptr], next[s])
    BY <1>1, ChainPop
  <2> QED BY <2>1 DEF d
<1> HIDE DEF d
<1>3. Linked(d, n - 1, top'[s].ptr, next'[s])
  BY <1>2
<1>4. ChainFrom(top'[s].ptr, next'[s]) = d /\ Len(d) = n - 1
  BY <1>3, ChainIs
<1>5. Chain(s)' = d
  BY <1>4 DEF Chain
<1>6. \A x : On(s, x)' <=> \E k \in 1..(n - 1) : c[k + 1] = x
  <2>1. \A x : On(s, x)' <=> \E k \in 1..(n - 1) : d[k] = x
    BY <1>4, <1>5 DEF On
  <2>2. \A k \in 1..(n - 1) : d[k] = c[k + 1]
    BY DEF d
  <2> QED BY <2>1, <2>2
<1>7. \A x : On(s, x) <=> \E k \in 1..n : c[k] = x
  BY DEF On
<1>8. \A j, k \in 1..n : c[j] = c[k] => j = k
  BY <1>1 DEF Linked
<1> HIDE DEF c, n
<1>9. ASSUME NEW x PROVE (\E k \in 1..(n - 1) : c[k + 1] = x) <=> (\E k \in 1..n : c[k] = x) /\ x # c[1]
  <2>1. ASSUME NEW k \in 1..(n - 1), c[k + 1] = x PROVE k + 1 \in 1..n /\ x # c[1]
    BY <1>2, <1>8, <2>1
  <2>2. ASSUME NEW k \in 1..n, c[k] = x, x # c[1] PROVE k - 1 \in 1..(n - 1) /\ c[(k - 1) + 1] = x
    BY <1>2, <2>2
  <2> QED BY <2>1, <2>2
<1>10. \A x : On(s, x)' <=> On(s, x) /\ x # top[s].ptr
  BY <1>2, <1>6, <1>7, <1>9
<1> QED BY <1>2, <1>3, <1>4, <1>5, <1>10 DEF c, d, n

\* One that puts a node before it.
LEMMA ChainPushed ==
    ASSUME NInv, NEW s \in Stacks, NEW x \in Nodes, ~On(s, x),
           next[s][x] = top[s].ptr, top'[s].ptr = x, next' = next
    PROVE  /\ Chain(s)' = [k \in 1..(Len(Chain(s)) + 1) |-> IF k = 1 THEN x ELSE Chain(s)[k - 1]]
           /\ Len(Chain(s)') = Len(Chain(s)) + 1
           /\ Linked(Chain(s)', Len(Chain(s)'), top'[s].ptr, next'[s])
           /\ \A y : On(s, y)' <=> On(s, y) \/ y = x
<1> DEFINE c == Chain(s)
           n == Len(Chain(s))
           d == [k \in 1..(n + 1) |-> IF k = 1 THEN x ELSE c[k - 1]]
<1>1. Linked(c, n, top[s].ptr, next[s])
  BY ChainFacts
<1>2. \A k \in 1..n : c[k] # x
  BY DEF On
<1>3. n \in Nat
  BY <1>1 DEF Linked
<1>4. Linked(d, n + 1, x, next[s])
  <2> HIDE DEF c, n, d
  <2>1. Linked([k \in 1..(n + 1) |-> IF k = 1 THEN x ELSE c[k - 1]], n + 1, x, next[s])
    BY <1>1, <1>2, ChainPush
  <2> QED BY <2>1 DEF d
<1> HIDE DEF d
<1>5. Linked(d, n + 1, top'[s].ptr, next'[s])
  BY <1>4
<1>6. ChainFrom(top'[s].ptr, next'[s]) = d /\ Len(d) = n + 1
  BY <1>5, ChainIs
<1>7. Chain(s)' = d
  BY <1>6 DEF Chain
<1>8. \A y : On(s, y)' <=> \E k \in 1..(n + 1) : d[k] = y
  BY <1>6, <1>7 DEF On
<1>9. \A y : On(s, y) <=> \E k \in 1..n : c[k] = y
  BY DEF On
<1> HIDE DEF c, n
<1>10. ASSUME NEW y PROVE (\E k \in 1..(n + 1) : d[k] = y) <=> (\E k \in 1..n : c[k] = y) \/ y = x
  <2>1. ASSUME NEW k \in 1..(n + 1), d[k] = y PROVE (\E j \in 1..n : c[j] = y) \/ y = x
    <3>1. CASE k = 1
      BY <2>1, <3>1 DEF d
    <3>2. CASE k # 1
      <4>1. k - 1 \in 1..n /\ c[k - 1] = y
        BY <1>3, <2>1, <3>2 DEF d
      <4> QED BY <4>1
    <3> QED BY <3>1, <3>2
  <2>2. ASSUME NEW k \in 1..n, c[k] = y PROVE k + 1 \in 1..(n + 1) /\ d[k + 1] = y
    BY <1>3, <2>2 DEF d
  <2>3. 1 \in 1..(n + 1) /\ d[1] = x
    BY <1>3 DEF d
  <2> QED BY <2>1, <2>2, <2>3
<1>11. \A y : On(s, y)' <=> On(s, y) \/ y = x
  BY <1>8, <1>9, <1>10
<1> QED BY <1>5, <1>6, <1>7, <1>11 DEF c, d, n

----------------------------------------------------------------------------
\* The steps.

\* A thread's variables stay.
Still(u) ==
    /\ pc'[u] = pc[u] /\ seen'[u] = seen[u] /\ after'[u] = after[u]
    /\ value'[u] = value[u] /\ node'[u] = node[u]

\* A node that a thread means to take is on the chain as long as it is the top.
LEMMA SeenOnTop ==
    ASSUME NInv, NEW s \in Stacks, NEW u \in Threads, pc[u] \in Eyes(s),
           seen[u].ptr = top[s].ptr
    PROVE  On(s, seen[u].ptr)
<1>1. pc[u] \in At(s)
  BY DEF Eyes, At, AtIndex, AtPool, Stacks
<1>2. seen[u].ptr # Null
  BY <1>1 DEF NInv, TagInv, Fresh
<1> QED BY <1>2, ChainFacts

\* A step that changes neither top nor node.
LEMMA QuietStep ==
    ASSUME NInv, NEW t \in Threads, UNCHANGED sharedVars, StackType',
           \A u \in Threads \ {t} : Still(u) /\ age'[u] = age[u],
           node'[t] = node[t], Owns(t)' <=> Owns(t),
           \A s \in Stacks : pc'[t] \in At(s) => Fresh(s, t)',
           Known(t)', Ready(t)'
    PROVE  NInv'
<1>0. top' = top /\ next' = next /\ data' = data /\ created' = created
  BY DEF sharedVars
<1>1. \A s \in Stacks : /\ Linked(Chain(s)', Len(Chain(s)'), top'[s].ptr, next'[s])
                        /\ \A x : On(s, x)' <=> On(s, x)
  BY <1>0, ChainStays
<1>2. ChainInv'
  BY <1>1 DEF ChainInv
<1>3. \A u \in Threads : node'[u] = node[u] /\ (Owns(u)' <=> Owns(u))
  BY DEF Still, Owns
<1>4. PlaceInv'
  <2>1. PlaceInv
    BY DEF NInv
  <2>2. "index" \in Stacks /\ "pool" \in Stacks
    BY DEF Stacks
  <2> QED BY <1>0, <1>1, <1>3, <2>1, <2>2 DEF PlaceInv
<1>5. TagInv'
  <2> SUFFICES ASSUME NEW s \in Stacks, NEW u \in Threads, pc'[u] \in At(s)
               PROVE  Fresh(s, u)'
    BY DEF TagInv, At
  <2>1. CASE u = t
    BY <2>1
  <2>2. CASE u # t
    <3>1. Still(u) /\ age'[u] = age[u]
      BY <2>2
    <3>2. Fresh(s, u)
      BY <3>1 DEF NInv, TagInv, Still
    <3> QED BY <1>0, <1>1, <3>1, <3>2 DEF Fresh, Still, Eyes
  <2> QED BY <2>1, <2>2
<1>6. ReadInv'
  <2> SUFFICES ASSUME NEW u \in Threads PROVE Known(u)' /\ Ready(u)'
    BY DEF ReadInv
  <2>1. CASE u = t
    BY <2>1
  <2>2. CASE u # t
    <3>1. Still(u) /\ age'[u] = age[u]
      BY <2>2
    <3>2. Known(u) /\ Ready(u)
      BY DEF NInv, ReadInv
    <3> QED BY <1>0, <3>1, <3>2 DEF Known, Ready, Still
  <2> QED BY <2>1, <2>2
<1> QED BY <1>2, <1>4, <1>5, <1>6 DEF NInv

\* One that writes to the node of its thread.
LEMMA WriteStep ==
    ASSUME NInv, NEW t \in Threads, Owns(t), Owns(t)', node'[t] = node[t],
           top' = top, created' = created, StackType',
           \A s \in Stacks : \A x \in Nodes : x # node[t] => next'[s][x] = next[s][x],
           \A x \in Nodes : x # node[t] => data'[x] = data[x],
           \A u \in Threads \ {t} : Still(u) /\ age'[u] = age[u],
           \A s \in Stacks : pc'[t] \in At(s) => Fresh(s, t)',
           Known(t)', Ready(t)'
    PROVE  NInv'
<1>0. \A s \in Stacks : ~On(s, node[t])
  BY DEF NInv, PlaceInv
<1>1. \A s \in Stacks : /\ Linked(Chain(s)', Len(Chain(s)'), top'[s].ptr, next'[s])
                        /\ \A x : On(s, x)' <=> On(s, x)
  <2> TAKE s \in Stacks
  <2>1. \A x : On(s, x) => next'[s][x] = next[s][x]
    BY <1>0, ChainFacts
  <2> QED BY <2>1, ChainStays
<1>2. ChainInv'
  BY <1>1 DEF ChainInv
<1>3. \A u \in Threads : node'[u] = node[u] /\ (Owns(u)' <=> Owns(u))
  BY DEF Still, Owns
<1>4. PlaceInv'
  <2>1. PlaceInv
    BY DEF NInv
  <2>2. "index" \in Stacks /\ "pool" \in Stacks
    BY DEF Stacks
  <2> QED BY <1>1, <1>3, <2>1, <2>2 DEF PlaceInv
<1>5. ASSUME NEW u \in Threads, u # t PROVE Still(u) /\ age'[u] = age[u]
  BY <1>5
<1>6. TagInv'
  <2> SUFFICES ASSUME NEW s \in Stacks, NEW u \in Threads, pc'[u] \in At(s)
               PROVE  Fresh(s, u)'
    BY DEF TagInv, At
  <2>1. CASE u = t
    BY <2>1
  <2>2. CASE u # t
    <3>1. Still(u) /\ age'[u] = age[u]
      BY <1>5, <2>2
    <3>2. Fresh(s, u)
      BY <3>1 DEF NInv, TagInv, Still
    <3>3. pc[u] \in {"popCas", "allocCas"} /\ seen[u].ptr = top[s].ptr =>
             next'[s][seen[u].ptr] = next[s][seen[u].ptr]
      <4> SUFFICES ASSUME pc[u] \in {"popCas", "allocCas"}, seen[u].ptr = top[s].ptr
                   PROVE  next'[s][seen[u].ptr] = next[s][seen[u].ptr]
        OBVIOUS
      <4>1. pc[u] \in Eyes(s)
        BY <3>1 DEF Eyes, At, AtIndex, AtPool, Stacks, Still
      <4>2. On(s, seen[u].ptr)
        BY <4>1, SeenOnTop
      <4> QED BY <1>0, <4>2, ChainFacts
    <3> QED BY <1>1, <3>1, <3>2, <3>3 DEF Fresh, Still, Eyes
  <2> QED BY <2>1, <2>2
<1>7. ReadInv'
  <2> SUFFICES ASSUME NEW u \in Threads PROVE Known(u)' /\ Ready(u)'
    BY DEF ReadInv
  <2>1. CASE u = t
    BY <2>1
  <2>2. CASE u # t
    <3>1. Still(u) /\ age'[u] = age[u]
      BY <1>5, <2>2
    <3>2. Known(u) /\ Ready(u)
      BY DEF NInv, ReadInv
    <3>3. ASSUME pc[u] \in {"popNext", "popCas"}, seen[u].ptr = top["index"].ptr
          PROVE  data'[seen[u].ptr] = data[seen[u].ptr]
      <4>1. pc[u] \in Eyes("index") /\ "index" \in Stacks
        BY <3>3 DEF Eyes, Stacks
      <4>2. On("index", seen[u].ptr)
        BY <3>3, <4>1, SeenOnTop
      <4> QED BY <1>0, <4>1, <4>2, ChainFacts
    <3>4. ASSUME Owns(u) PROVE node[u] \in Nodes /\ node[u] # node[t]
      <4>1. node[u] # Null /\ node[u] # node[t]
        BY <2>2, <3>4 DEF NInv, PlaceInv
      <4> QED BY <4>1 DEF NInv, StackType
    <3>5. Known(u)'
      BY <3>1, <3>2, <3>3 DEF Known, Still
    <3>6. Ready(u)'
      BY <3>1, <3>2, <3>4 DEF Ready, Still, Owns, Stacks
    <3> QED BY <3>5, <3>6
  <2> QED BY <2>1, <2>2
<1> QED BY <1>2, <1>4, <1>6, <1>7 DEF NInv

\* A comparison that succeeds has slept through no push: the tag tells.
LEMMA SeenNow ==
    ASSUME NInv, TagOutlasts, NEW s \in Stacks, NEW t \in Threads, pc[t] \in At(s),
           top[s] = seen[t]
    PROVE  /\ age[t] = 0
           /\ pc[t] \in {"popCas", "allocCas"} =>
                 seen[t].ptr # Null /\ after[t] = next[s][top[s].ptr]
<1>1. Fresh(s, t)
  BY DEF NInv, TagInv
<1>2. seen[t] \in Tops /\ age[t] \in 0..Stall
  BY DEF NInv, StackType
<1>3. seen[t].tag \in 0..(TagCount - 1) /\ seen[t].ptr = top[s].ptr
  BY <1>2 DEF Tops, Tags
<1>4. TagCount \in Nat \ {0} /\ Stall \in Nat /\ Stall < TagCount
  BY StackAssumption DEF TagOutlasts
<1>5. age[t] = 0
  BY <1>1, <1>2, <1>3, <1>4 DEF Fresh, Later
<1>6. pc[t] \in {"popCas", "allocCas"} => pc[t] \in Eyes(s)
  BY DEF Eyes, At, AtIndex, AtPool, Stacks
<1> QED BY <1>1, <1>3, <1>5, <1>6 DEF Fresh

\* Pop and Alloc take the top.
LEMMA TakeStep ==
    ASSUME NInv, TagOutlasts, NEW t \in Threads, NEW r \in Stacks,
           pc[t] \in At(r), pc[t] \in {"popCas", "allocCas"}, top[r] = seen[t],
           top' = [top EXCEPT ![r] = [ptr |-> after[t], tag |-> seen[t].tag]],
           next' = next, data' = data, created' = created, StackType',
           pc'[t] \in {"free", "push"}, node'[t] = seen[t].ptr,
           \A u \in Threads \ {t} : Still(u) /\ age'[u] = age[u]
    PROVE  NInv'
<1>0. age[t] = 0 /\ seen[t].ptr # Null /\ after[t] = next[r][top[r].ptr] /\ seen[t].ptr = top[r].ptr
  BY SeenNow
<1>1. top \in [Stacks -> Tops]
  BY DEF NInv, StackType
<1>2. /\ top'[r].ptr = next[r][top[r].ptr] /\ top'[r].tag = top[r].tag
      /\ \A s \in Stacks : s # r => top'[s] = top[s]
  BY <1>0, <1>1
<1>3. /\ Linked(Chain(r)', Len(Chain(r)'), top'[r].ptr, next'[r])
      /\ \A x : On(r, x)' <=> On(r, x) /\ x # top[r].ptr
  BY <1>0, <1>2, ChainPopped
<1>4. \A s \in Stacks : s # r =>
        /\ Linked(Chain(s)', Len(Chain(s)'), top'[s].ptr, next'[s])
        /\ \A x : On(s, x)' <=> On(s, x)
  BY <1>2, ChainStays
<1>5. ChainInv'
  BY <1>3, <1>4 DEF ChainInv
<1>6. On(r, top[r].ptr) /\ top[r].ptr \in Nodes
  BY <1>0, ChainFacts
<1>7. ~Owns(t) /\ Owns(t)' /\ \A u \in Threads \ {t} : node'[u] = node[u] /\ (Owns(u)' <=> Owns(u))
  BY DEF Owns, Still
<1>8. PlaceInv'
  <2>1. PlaceInv
    BY DEF NInv
  <2>2. "index" \in Stacks /\ "pool" \in Stacks /\ r \in {"index", "pool"}
    BY DEF Stacks
  <2>3. \A s \in Stacks : s # r => ~On(s, top[r].ptr)
    BY <1>6, <2>1 DEF PlaceInv, Stacks
  <2>4. \A s \in Stacks : \A x \in Nodes : On(s, x)' => x <= created'
    BY <1>3, <1>4, <2>1 DEF PlaceInv
  <2>5. \A x \in Nodes : ~(On("index", x)' /\ On("pool", x)')
    BY <1>3, <1>4, <2>1, <2>2 DEF PlaceInv
  <2>6. \A u \in Threads : node'[u] # Null <=> Owns(u)'
    BY <1>0, <1>7, <2>1 DEF PlaceInv
  <2>7. \A u \in Threads : Owns(u)' => node'[u] <= created' /\ \A s \in Stacks : ~On(s, node[u])'
    <3> SUFFICES ASSUME NEW u \in Threads, Owns(u)', NEW s \in Stacks
                 PROVE  node'[u] <= created' /\ ~On(s, node[u])'
      BY <2>2
    <3>1. CASE u = t
      BY <1>0, <1>3, <1>4, <1>6, <2>1, <2>3, <3>1 DEF PlaceInv
    <3>2. CASE u # t
      BY <1>3, <1>4, <1>7, <2>1, <3>2 DEF PlaceInv
    <3> QED BY <3>1, <3>2
  <2>8. \A u \in Threads : Owns(u) => node[u] # top[r].ptr
    BY <1>6, <2>1 DEF PlaceInv
  <2>9. \A u, v \in Threads : Owns(u)' /\ node'[u] = node'[v] => u = v
    BY <1>0, <1>7, <2>1, <2>6, <2>8 DEF PlaceInv
  <2>10. \A x \in 1..created' :
           On("index", x)' \/ On("pool", x)' \/ \E u \in Threads : node'[u] = x
    <3> SUFFICES ASSUME NEW x \in 1..created, x # top[r].ptr
                 PROVE  On("index", x)' \/ On("pool", x)' \/ \E u \in Threads : node'[u] = x
      BY <1>0
    <3>1. (On("index", x) => On("index", x)') /\ (On("pool", x) => On("pool", x)')
      BY <1>3, <1>4, <2>2
    <3>2. ASSUME NEW u \in Threads, node[u] = x PROVE node'[u] = x
      <4>1. x # Null
        BY DEF Null
      <4>2. u # t
        BY <1>7, <2>1, <3>2, <4>1 DEF PlaceInv
      <4> QED BY <1>7, <3>2, <4>2
    <3> QED BY <2>1, <3>1, <3>2 DEF PlaceInv
  <2> QED BY <2>4, <2>5, <2>6, <2>7, <2>9, <2>10 DEF PlaceInv
<1>9. TagInv'
  <2> SUFFICES ASSUME NEW s \in Stacks, NEW u \in Threads, pc'[u] \in At(s)
               PROVE  Fresh(s, u)'
    BY DEF TagInv, At
  <2>1. u # t
    BY DEF At, AtIndex, AtPool
  <2>2. Still(u) /\ age'[u] = age[u]
    BY <2>1
  <2>3. pc[u] \in At(s) /\ Fresh(s, u)
    BY <2>2 DEF NInv, TagInv, Still
  <2>4. CASE s # r
    BY <1>2, <1>4, <2>2, <2>3, <2>4 DEF Fresh, Still, Eyes
  <2>5. CASE s = r
    <3>1. ASSUME age[u] = 0, On(r, seen[u].ptr)' PROVE FALSE
      BY <1>3, <2>2, <2>3, <2>5, <3>1 DEF Fresh, Still
    <3>2. ASSUME pc[u] \in {"popCas", "allocCas"}, age[u] = 0, seen[u].ptr = top'[r].ptr PROVE FALSE
      <4>1. seen[u].ptr # Null
        BY <2>3, <2>5, <3>2 DEF Fresh, Eyes, At, AtIndex, AtPool
      <4>2. On(r, top[r].ptr)'
        <5>1. /\ top'[r].ptr = IF Len(Chain(r)') = 0 THEN Null ELSE Chain(r)'[1]
              /\ Len(Chain(r)') \in Nat
          BY <1>3 DEF Linked
        <5>2. 1 \in 1..Len(Chain(r)') /\ Chain(r)'[1] = top'[r].ptr
          BY <3>2, <4>1, <5>1
        <5> QED BY <5>2 DEF On
      <4> QED BY <2>2, <3>1, <3>2, <4>2 DEF Still
    <3> QED BY <1>2, <2>2, <2>3, <2>5, <3>1, <3>2 DEF Fresh, Still, Eyes
  <2> QED BY <2>4, <2>5
<1>10. ReadInv'
  <2> SUFFICES ASSUME NEW u \in Threads PROVE Known(u)' /\ Ready(u)'
    BY DEF ReadInv
  <2>1. CASE u = t
    BY <2>1 DEF Known, Ready
  <2>2. CASE u # t
    <3>1. Still(u) /\ age'[u] = age[u]
      BY <2>2
    <3>2. Known(u) /\ Ready(u)
      BY DEF NInv, ReadInv
    <3>3. ASSUME pc[u] \in {"popNext", "popCas"}, age[u] = 0, seen[u].ptr = top'["index"].ptr
          PROVE  seen[u].ptr = top["index"].ptr
      <4>1. CASE r # "index"
        BY <1>2, <3>3, <4>1 DEF Stacks
      <4>2. CASE r = "index"
        <5>1. pc[u] \in At(r) /\ pc[u] \in Eyes(r)
          BY <3>3, <4>2 DEF At, AtIndex, Eyes
        <5>2. Fresh(r, u)
          BY <5>1 DEF NInv, TagInv
        <5>3. seen[u].ptr # Null
          BY <5>1, <5>2 DEF Fresh
        <5>4. On(r, seen[u].ptr)'
          <6>1. /\ top'[r].ptr = IF Len(Chain(r)') = 0 THEN Null ELSE Chain(r)'[1]
                /\ Len(Chain(r)') \in Nat
            BY <1>3 DEF Linked
          <6>2. 1 \in 1..Len(Chain(r)') /\ Chain(r)'[1] = seen[u].ptr
            BY <3>3, <4>2, <5>3, <6>1
          <6> QED BY <3>1, <6>2 DEF On, Still
        <5> QED BY <1>3, <3>1, <3>3, <4>2, <5>2, <5>4 DEF Fresh, Still
      <4> QED BY <4>1, <4>2
    <3>4. Known(u)'
      BY <3>1, <3>2, <3>3 DEF Known, Still
    <3>5. Ready(u)'
      BY <3>1, <3>2 DEF Ready, Still
    <3> QED BY <3>4, <3>5
  <2> QED BY <2>1, <2>2
<1> QED BY <1>5, <1>8, <1>9, <1>10 DEF NInv

LEMMA NextTag ==
    ASSUME NEW tag \in Tags, NEW a \in Tags, NEW g \in 0..Stall, TagOutlasts, tag = Later(a, g)
    PROVE  /\ (tag + 1) % TagCount \in Tags
           /\ g < Stall => (tag + 1) % TagCount = Later(a, g + 1)
<1>1. TagCount \in Nat \ {0} /\ Stall \in Nat /\ Stall < TagCount /\ tag \in Nat /\ a \in Nat /\ g \in Nat
      /\ tag < TagCount /\ a < TagCount /\ g <= Stall
  BY StackAssumption DEF TagOutlasts, Tags
<1>2. (tag + 1) % TagCount = IF tag + 1 < TagCount THEN tag + 1 ELSE 0
  <2>1. CASE tag + 1 < TagCount
    BY <1>1, <2>1
  <2>2. CASE ~(tag + 1 < TagCount)
    <3>1. tag + 1 = TagCount /\ TagCount % TagCount = 0
      BY <1>1, <2>2
    <3> QED BY <2>2, <3>1
  <2> QED BY <2>1, <2>2
<1> HIDE DEF Later
<1>3. (tag + 1) % TagCount \in Tags
  BY <1>1, <1>2 DEF Tags
<1>4. g < Stall => (tag + 1) % TagCount = Later(a, g + 1)
  <2>1. tag = IF a + g < TagCount THEN a + g ELSE a + g - TagCount
    BY DEF Later
  <2> QED BY <1>1, <1>2, <2>1 DEF Later
<1> QED BY <1>3, <1>4

\* Push and Free put their node on top.
LEMMA PutStep ==
    ASSUME NInv, TagOutlasts, NEW t \in Threads, NEW r \in Stacks,
           pc[t] = (IF r = "index" THEN "pushCas" ELSE "freeCas"), top[r] = seen[t],
           Swing(r, node[t]), Older(t, r),
           next' = next, data' = data, created' = created, StackType',
           pc'[t] = "idle", node'[t] = Null,
           \A u \in Threads \ {t} : Still(u)
    PROVE  NInv'
<1>0. top \in [Stacks -> Tops] /\ node[t] \in Nodes /\ node[t] <= created /\ Owns(t) /\ pc[t] \in At(r)
      /\ \A s \in Stacks : ~On(s, node[t])
  BY DEF NInv, StackType, PlaceInv, Owns, At, AtIndex, AtPool, Stacks
<1>1. next[r][node[t]] = top[r].ptr
  BY DEF NInv, ReadInv, Ready, Stacks
<1>2. /\ top'[r].ptr = node[t] /\ top'[r].tag = (top[r].tag + 1) % TagCount
      /\ \A s \in Stacks : s # r => top'[s] = top[s]
  BY <1>0 DEF Swing
<1>3. /\ Linked(Chain(r)', Len(Chain(r)'), top'[r].ptr, next'[r])
      /\ \A x : On(r, x)' <=> On(r, x) \/ x = node[t]
  BY <1>0, <1>1, <1>2, ChainPushed
<1>4. \A s \in Stacks : s # r =>
        /\ Linked(Chain(s)', Len(Chain(s)'), top'[s].ptr, next'[s])
        /\ \A x : On(s, x)' <=> On(s, x)
  BY <1>2, ChainStays
<1>5. ChainInv'
  BY <1>3, <1>4 DEF ChainInv
<1>6. ~Owns(t)' /\ \A u \in Threads \ {t} : node'[u] = node[u] /\ (Owns(u)' <=> Owns(u))
  BY DEF Owns, Still
<1>7. PlaceInv'
  <2>1. PlaceInv
    BY DEF NInv
  <2>2. "index" \in Stacks /\ "pool" \in Stacks /\ r \in {"index", "pool"}
    BY DEF Stacks
  <2>3. \A s \in Stacks : \A x \in Nodes : On(s, x)' => x <= created'
    BY <1>0, <1>3, <1>4, <2>1 DEF PlaceInv
  <2>4. \A x \in Nodes : ~(On("index", x)' /\ On("pool", x)')
    BY <1>0, <1>3, <1>4, <2>1, <2>2 DEF PlaceInv
  <2>5. \A u \in Threads : node'[u] # Null <=> Owns(u)'
    BY <1>6, <2>1 DEF PlaceInv
  <2>6. \A u \in Threads : Owns(u)' => node'[u] <= created' /\ \A s \in Stacks : ~On(s, node[u])'
    <3> SUFFICES ASSUME NEW u \in Threads, Owns(u)', NEW s \in Stacks
                 PROVE  node'[u] <= created' /\ ~On(s, node[u])'
      BY <2>2
    <3>1. u # t /\ node'[u] = node[u] /\ Owns(u) /\ node[u] # node[t]
      BY <1>6, <2>1 DEF PlaceInv
    <3> QED BY <1>3, <1>4, <2>1, <3>1 DEF PlaceInv
  <2>7. \A u, v \in Threads : Owns(u)' /\ node'[u] = node'[v] => u = v
    BY <1>6, <2>1, <2>5 DEF PlaceInv
  <2>8. \A x \in 1..created' :
           On("index", x)' \/ On("pool", x)' \/ \E u \in Threads : node'[u] = x
    <3> SUFFICES ASSUME NEW x \in 1..created, x # node[t]
                 PROVE  On("index", x)' \/ On("pool", x)' \/ \E u \in Threads : node'[u] = x
      BY <1>3, <2>2
    <3>1. (On("index", x) => On("index", x)') /\ (On("pool", x) => On("pool", x)')
      BY <1>3, <1>4, <2>2
    <3>2. ASSUME NEW u \in Threads, node[u] = x PROVE node'[u] = x
      BY <1>6, <3>2
    <3> QED BY <2>1, <3>1, <3>2 DEF PlaceInv
  <2> QED BY <2>3, <2>4, <2>5, <2>6, <2>7, <2>8 DEF PlaceInv
<1>8. ASSUME NEW u \in Threads, u # t, NEW s \in Stacks, pc[u] \in At(s)
      PROVE  IF s = r THEN age[u] < Stall /\ age'[u] = age[u] + 1 ELSE age'[u] = age[u]
  <2>1. s # r => pc[u] \notin At(r)
    BY <1>8 DEF At, AtIndex, AtPool, Stacks
  <2> QED BY <1>8, <2>1 DEF Swing, Older
<1>9. TagInv'
  <2> SUFFICES ASSUME NEW s \in Stacks, NEW u \in Threads, pc'[u] \in At(s)
               PROVE  Fresh(s, u)'
    BY DEF TagInv, At
  <2>1. u # t
    BY DEF At, AtIndex, AtPool
  <2>2. Still(u)
    BY <2>1
  <2>3. pc[u] \in At(s) /\ Fresh(s, u)
    BY <2>2 DEF NInv, TagInv, Still
  <2>4. CASE s # r
    <3>1. age'[u] = age[u]
      BY <1>8, <2>1, <2>3, <2>4
    <3> QED BY <1>2, <1>4, <2>2, <2>3, <2>4, <3>1 DEF Fresh, Still, Eyes
  <2>5. CASE s = r
    <3>1. age[u] < Stall /\ age'[u] = age[u] + 1 /\ age[u] \in 0..Stall
      BY <1>8, <2>1, <2>3, <2>5 DEF NInv, StackType
    <3>2. age'[u] # 0
      BY <3>1
    <3>3. seen[u].tag \in Tags /\ top[r].tag \in Tags
      BY <1>0 DEF NInv, StackType, Tops
    <3>4. top[r].tag = Later(seen[u].tag, age[u])
      BY <2>3, <2>5 DEF Fresh
    <3>5. (top[r].tag + 1) % TagCount = Later(seen[u].tag, age[u] + 1)
      BY <3>1, <3>3, <3>4, NextTag
    <3>6. Fresh(s, u)' <=> /\ top'[r].tag = Later(seen'[u].tag, age'[u])
                           /\ pc'[u] \in Eyes(r) => seen'[u].ptr # Null
      BY <2>5, <3>2 DEF Fresh, Eyes, Later
    <3>7. pc[u] \in Eyes(r) => seen[u].ptr # Null
      BY <2>3, <2>5 DEF Fresh
    <3> QED BY <1>2, <2>2, <3>1, <3>5, <3>6, <3>7 DEF Still
  <2> QED BY <2>4, <2>5
<1>10. ReadInv'
  <2> SUFFICES ASSUME NEW u \in Threads PROVE Known(u)' /\ Ready(u)'
    BY DEF ReadInv
  <2>1. CASE u = t
    BY <2>1 DEF Known, Ready
  <2>2. CASE u # t
    <3>1. Still(u)
      BY <2>2
    <3>2. Known(u) /\ Ready(u)
      BY DEF NInv, ReadInv
    <3>3. ASSUME pc[u] \in {"popNext", "popCas"}, age'[u] = 0
          PROVE  top'["index"] = top["index"] /\ age[u] = 0
      <4>1. pc[u] \in At("index") /\ "index" \in Stacks /\ age[u] \in Nat
        BY <3>3 DEF At, AtIndex, Stacks, NInv, StackType
      <4>2. r # "index"
        BY <1>8, <2>2, <3>3, <4>1
      <4> QED BY <1>2, <1>8, <2>2, <3>3, <4>1, <4>2
    <3>4. Known(u)'
      BY <3>1, <3>2, <3>3 DEF Known, Still
    <3>5. Ready(u)'
      BY <3>1, <3>2 DEF Ready, Still
    <3> QED BY <3>4, <3>5
  <2> QED BY <2>1, <2>2
<1> QED BY <1>5, <1>7, <1>9, <1>10 DEF NInv

\* A fresh node.
LEMMA FreshNodeStep ==
    ASSUME NInv, NEW t \in Threads, StackType', UNCHANGED <<top, next, data>>,
           created' = created + 1, ~Owns(t), pc'[t] = "push", node'[t] = created + 1,
           \A u \in Threads \ {t} : Still(u) /\ age'[u] = age[u]
    PROVE  NInv'
<1>1. \A s \in Stacks : /\ Linked(Chain(s)', Len(Chain(s)'), top'[s].ptr, next'[s])
                        /\ \A x : On(s, x)' <=> On(s, x)
  BY ChainStays
<1>2. ChainInv'
  BY <1>1 DEF ChainInv
<1>3. created \in Nat /\ created + 1 \in Nodes /\ created + 1 # Null
  BY DEF NInv, StackType, Nodes, Null
<1>4. Owns(t)' /\ \A u \in Threads \ {t} : node'[u] = node[u] /\ (Owns(u)' <=> Owns(u))
  BY DEF Owns, Still
<1>5. PlaceInv'
  <2>1. PlaceInv
    BY DEF NInv
  <2>2. "index" \in Stacks /\ "pool" \in Stacks
    BY DEF Stacks
  <2>3. \A x \in Nodes : x \in Nat
    BY DEF Nodes
  <2>4. \A s \in Stacks : \A x \in Nodes : On(s, x)' => x <= created /\ x <= created'
    BY <1>1, <1>3, <2>1, <2>3 DEF PlaceInv
  <2>5. \A x \in Nodes : ~(On("index", x)' /\ On("pool", x)')
    BY <1>1, <2>1, <2>2 DEF PlaceInv
  <2>6. \A u \in Threads : node'[u] # Null <=> Owns(u)'
    BY <1>3, <1>4, <2>1 DEF PlaceInv
  <2>7. \A u \in Threads : Owns(u) => node[u] <= created /\ node[u] \in Nodes
    BY <2>1 DEF PlaceInv, NInv, StackType
  <2>8. \A u \in Threads : Owns(u)' => node'[u] <= created' /\ \A s \in Stacks : ~On(s, node[u])'
    <3> SUFFICES ASSUME NEW u \in Threads, Owns(u)', NEW s \in Stacks
                 PROVE  node'[u] <= created' /\ ~On(s, node[u])'
      BY <2>2
    <3>1. CASE u = t
      BY <1>3, <2>4, <3>1
    <3>2. CASE u # t
      BY <1>1, <1>3, <1>4, <2>1, <2>3, <2>7, <3>2 DEF PlaceInv
    <3> QED BY <3>1, <3>2
  <2>9. \A u \in Threads : Owns(u) => node[u] # created + 1
    BY <1>3, <2>3, <2>7
  <2>10. \A u, v \in Threads : Owns(u)' /\ node'[u] = node'[v] => u = v
    BY <1>3, <1>4, <2>1, <2>6, <2>9 DEF PlaceInv
  <2>11. \A x \in 1..created' :
           On("index", x)' \/ On("pool", x)' \/ \E u \in Threads : node'[u] = x
    <3> SUFFICES ASSUME NEW x \in 1..created
                 PROVE  On("index", x)' \/ On("pool", x)' \/ \E u \in Threads : node'[u] = x
      BY <1>3
    <3>1. (On("index", x) => On("index", x)') /\ (On("pool", x) => On("pool", x)')
      BY <1>1, <2>2
    <3>2. ASSUME NEW u \in Threads, node[u] = x PROVE node'[u] = x
      <4>1. x # Null
        BY DEF Null
      <4>2. u # t
        BY <2>1, <3>2, <4>1 DEF PlaceInv
      <4> QED BY <1>4, <3>2, <4>2
    <3> QED BY <2>1, <3>1, <3>2 DEF PlaceInv
  <2> QED BY <2>4, <2>5, <2>6, <2>8, <2>10, <2>11 DEF PlaceInv
<1>6. TagInv'
  <2> SUFFICES ASSUME NEW s \in Stacks, NEW u \in Threads, pc'[u] \in At(s)
               PROVE  Fresh(s, u)'
    BY DEF TagInv, At
  <2>1. u # t
    BY DEF At, AtIndex, AtPool
  <2>2. Still(u) /\ age'[u] = age[u]
    BY <2>1
  <2>3. Fresh(s, u)
    BY <2>2 DEF NInv, TagInv, Still
  <2> QED BY <1>1, <2>2, <2>3 DEF Fresh, Still, Eyes
<1>7. ReadInv'
  <2> SUFFICES ASSUME NEW u \in Threads PROVE Known(u)' /\ Ready(u)'
    BY DEF ReadInv
  <2>1. CASE u = t
    BY <2>1 DEF Known, Ready
  <2>2. CASE u # t
    <3>1. Still(u) /\ age'[u] = age[u]
      BY <2>2
    <3>2. Known(u) /\ Ready(u)
      BY DEF NInv, ReadInv
    <3> QED BY <3>1, <3>2 DEF Known, Ready, Still
  <2> QED BY <2>1, <2>2
<1> QED BY <1>2, <1>5, <1>6, <1>7 DEF NInv

----------------------------------------------------------------------------
\* The actions, one by one.

\* A step of no thread.
LEMMA NobodyStep ==
    ASSUME NInv, StackType',
           UNCHANGED <<top, next, data, created, pc, client, seen, after, value, node, age>>
    PROVE  NInv'
<1>1. Main \in Threads
  BY StackAssumption
<1>2. \A u \in Threads \ {Main} : Still(u) /\ age'[u] = age[u]
  BY DEF Still
<1>3. UNCHANGED sharedVars
  BY DEF sharedVars
<1>4. \A s \in Stacks : \A x : On(s, x)' <=> On(s, x)
  BY ChainStays
<1>5. \A s \in Stacks : pc'[Main] \in At(s) => Fresh(s, Main)'
  BY <1>1, <1>4 DEF NInv, TagInv, Fresh, Eyes
<1>6. Known(Main)' /\ Ready(Main)' /\ (Owns(Main)' <=> Owns(Main))
  BY <1>1 DEF NInv, ReadInv, Known, Ready, Owns
<1> QED BY <1>1, <1>2, <1>3, <1>5, <1>6, QuietStep

LEMMA AdvanceN ==
    ASSUME NInv, Advance
    PROVE  NInv'
<1>1. UNCHANGED <<top, next, data, created, pc, client, seen, after, value, node, age>>
  BY DEF Advance, sharedVars, localVars
<1>2. StackType'
  BY <1>1 DEF NInv, StackType, Advance
<1> QED BY <1>1, <1>2, NobodyStep

\* Steps of a call that has read no top.
LEMMA OutsideStep ==
    ASSUME NInv, NEW t \in Threads, UNCHANGED sharedVars, StackType',
           \A u \in Threads \ {t} : Still(u) /\ age'[u] = age[u],
           node'[t] = node[t], Owns(t)' <=> Owns(t),
           pc'[t] \in {"idle", "pop", "alloc", "free", "push"}
    PROVE  NInv'
<1>1. \A s \in Stacks : pc'[t] \notin At(s)
  BY DEF At, AtIndex, AtPool
<1>2. Known(t)' /\ Ready(t)'
  BY DEF Known, Ready
<1> QED BY <1>1, <1>2, QuietStep

LEMMA GetFreeIndexN ==
    ASSUME NInv, NEW t \in Threads, GetFreeIndex(t)
    PROVE  NInv'
<1>1. StackType'
  <2>1. StackType
    BY DEF NInv
  <2>2. client' \in [Threads -> BOOLEAN]
    BY <2>1 DEF StackType, GetFreeIndex
  <2>3. clients' \in 0..MaxClient
    BY <2>1, StackAssumption DEF StackType, GetFreeIndex
  <2>4. pc' \in [Threads -> {"idle", "pop", "free", "alloc", "push"} \cup AtIndex \cup AtPool]
    BY <2>1 DEF StackType, GetFreeIndex, Goto
  <2>5. UNCHANGED <<top, next, data, created, used, phase, seen, after, value, node, age>>
    BY DEF GetFreeIndex, sharedVars
  <2> QED BY <2>1, <2>2, <2>3, <2>4, <2>5 DEF StackType
<1>2. UNCHANGED sharedVars /\ \A u \in Threads \ {t} : Still(u) /\ age'[u] = age[u]
  BY DEF NInv, StackType, GetFreeIndex, Goto, Still
<1>3. pc[t] = "idle" /\ pc'[t] = "pop" /\ node'[t] = node[t]
  BY DEF NInv, StackType, GetFreeIndex, Goto
<1> QED BY <1>1, <1>2, <1>3, OutsideStep DEF Owns

LEMMA ReleaseFreeIndexN ==
    ASSUME NInv, NEW t \in Threads, ReleaseFreeIndex(t)
    PROVE  NInv'
<1>1. StackType'
  BY DEF NInv, StackType, ReleaseFreeIndex, Goto, sharedVars
<1>2. UNCHANGED sharedVars /\ \A u \in Threads \ {t} : Still(u) /\ age'[u] = age[u]
  BY DEF NInv, StackType, ReleaseFreeIndex, Goto, Still
<1>3. pc[t] = "idle" /\ pc'[t] = "alloc" /\ node'[t] = node[t]
  BY DEF NInv, StackType, ReleaseFreeIndex, Goto
<1> QED BY <1>1, <1>2, <1>3, OutsideStep DEF Owns

\* A top that has just been read.
LEMMA JustRead ==
    ASSUME NInv, NEW t \in Threads, NEW s \in Stacks, ReadTop(t, s), top' = top,
           pc'[t] \in At(s), pc'[t] \notin {"popCas", "allocCas"},
           pc'[t] \in Eyes(s) => top[s].ptr # Null
    PROVE  \A r \in Stacks : pc'[t] \in At(r) => Fresh(r, t)'
<1>1. seen'[t] = top[s] /\ age'[t] = 0
  BY DEF ReadTop, NInv, StackType
<1>2. \A r \in Stacks : pc'[t] \in At(r) => r = s
  BY DEF At, AtIndex, AtPool, Stacks
<1>3. top[s].tag \in 0..(TagCount - 1) /\ TagCount \in Nat
  BY StackAssumption DEF NInv, StackType, Tops, Tags
<1>4. top[s].tag = Later(top[s].tag, 0)
  BY <1>3 DEF Later
<1>5. Fresh(s, t)'
  BY <1>1, <1>4 DEF Fresh, Eyes, Later
<1> QED BY <1>2, <1>5

LEMMA PopTopN ==
    ASSUME NInv, NEW t \in Threads, PopTop(t)
    PROVE  NInv'
<1>1. StackType'
  <2>1. StackType
    BY DEF NInv
  <2>2. client' \in [Threads -> BOOLEAN]
    BY <2>1 DEF StackType, PopTop
  <2>3. used' \in [Indices -> Nat]
    BY <2>1 DEF StackType, PopTop
  <2>4. pc' \in [Threads -> {"idle", "pop", "free", "alloc", "push"} \cup AtIndex \cup AtPool]
    BY <2>1 DEF StackType, PopTop, Goto, AtIndex
  <2>5. seen' \in [Threads -> Tops] /\ age' \in [Threads -> 0..Stall]
    BY <2>1, StackAssumption DEF StackType, PopTop, ReadTop, Stacks
  <2>6. UNCHANGED <<top, next, data, created, phase, clients, after, value, node>>
    BY DEF PopTop, sharedVars
  <2> QED BY <2>1, <2>2, <2>3, <2>4, <2>5, <2>6 DEF StackType
<1>2. UNCHANGED sharedVars /\ \A u \in Threads \ {t} : Still(u) /\ age'[u] = age[u]
  BY DEF NInv, StackType, PopTop, ReadTop, Goto, Still
<1>3. pc[t] = "pop" /\ node'[t] = node[t] /\ pc'[t] \in {"idle", "popData"}
  BY DEF NInv, StackType, PopTop, Goto, ReadTop
<1>4. CASE top["index"].ptr = Null
  <2>1. pc'[t] = "idle"
    BY <1>4 DEF NInv, StackType, PopTop, Goto
  <2> QED BY <1>1, <1>2, <1>3, <2>1, OutsideStep DEF Owns
<1>5. CASE top["index"].ptr # Null
  <2>1. pc'[t] = "popData" /\ ReadTop(t, "index") /\ top' = top
    BY <1>5 DEF NInv, StackType, PopTop, Goto, sharedVars
  <2>2. \A r \in Stacks : pc'[t] \in At(r) => Fresh(r, t)'
    BY <1>5, <2>1, JustRead DEF Stacks, At, AtIndex
  <2>3. Known(t)' /\ Ready(t)'
    BY <2>1 DEF Known, Ready
  <2> QED BY <1>1, <1>2, <1>3, <2>1, <2>2, <2>3, QuietStep DEF Owns
<1> QED BY <1>4, <1>5

\* A thread reads on in the node it has seen.
LEMMA ReadsOn ==
    ASSUME NInv, NEW t \in Threads, NEW s \in Stacks, UNCHANGED sharedVars,
           pc[t] \in Eyes(s), pc'[t] \in Eyes(s), seen' = seen, age' = age,
           pc'[t] \in {"popCas", "allocCas"} => after'[t] = next[s][seen[t].ptr]
    PROVE  \A r \in Stacks : pc'[t] \in At(r) => Fresh(r, t)'
<1>0. top' = top /\ next' = next
  BY DEF sharedVars
<1>1. \A x : On(s, x)' <=> On(s, x)
  BY <1>0, ChainStays
<1>2. \A r \in Stacks : pc'[t] \in At(r) => r = s
  BY DEF At, AtIndex, AtPool, Stacks, Eyes
<1>3. Fresh(s, t)
  BY DEF NInv, TagInv, At, AtIndex, AtPool, Stacks, Eyes
<1>4. Fresh(s, t)'
  BY <1>0, <1>1, <1>3 DEF Fresh, Eyes
<1> QED BY <1>2, <1>4

LEMMA PopDataN ==
    ASSUME NInv, NEW t \in Threads, PopData(t)
    PROVE  NInv'
<1>0. StackType /\ pc[t] = "popData" /\ pc'[t] = "popNext" /\ UNCHANGED sharedVars
      /\ UNCHANGED <<used, phase, clients, client, seen, after, node, age>>
  BY DEF PopData, NInv, StackType, Goto, userVars
<1>1. seen[t].ptr \in Nodes
  <2>1. Fresh("index", t) /\ "index" \in Stacks
    BY <1>0 DEF NInv, TagInv, At, AtIndex, Stacks
  <2>2. seen[t].ptr # Null
    BY <1>0, <2>1 DEF Fresh, Eyes
  <2> QED BY <1>0, <2>2 DEF StackType, Tops
<1>2. value'[t] = data[seen[t].ptr] /\ data[seen[t].ptr] \in Indices
  BY <1>0, <1>1 DEF PopData, StackType
<1>3. StackType'
  <2>1. value' \in [Threads -> Indices]
    BY <1>0, <1>2 DEF PopData, StackType
  <2>2. pc' \in [Threads -> {"idle", "pop", "free", "alloc", "push"} \cup AtIndex \cup AtPool]
    BY <1>0 DEF StackType, PopData, Goto, AtIndex
  <2> QED BY <1>0, <2>1, <2>2 DEF StackType, sharedVars
<1>4. \A u \in Threads \ {t} : Still(u) /\ age'[u] = age[u]
  BY <1>0 DEF StackType, PopData, Goto, Still
<1>5. \A r \in Stacks : pc'[t] \in At(r) => Fresh(r, t)'
  BY <1>0, ReadsOn DEF Stacks, Eyes
<1>6. Known(t)' /\ Ready(t)'
  BY <1>0, <1>2 DEF Known, Ready, sharedVars
<1> QED BY <1>0, <1>3, <1>4, <1>5, <1>6, QuietStep DEF Owns

LEMMA PopNextN ==
    ASSUME NInv, NEW t \in Threads, PopNext(t)
    PROVE  NInv'
<1>0. StackType /\ pc[t] = "popNext" /\ pc'[t] = "popCas" /\ UNCHANGED sharedVars
      /\ UNCHANGED <<used, phase, clients, client, seen, value, node, age>>
  BY DEF PopNext, NInv, StackType, Goto, userVars
<1>1. seen[t].ptr \in Nodes
  <2>1. Fresh("index", t) /\ "index" \in Stacks
    BY <1>0 DEF NInv, TagInv, At, AtIndex, Stacks
  <2>2. seen[t].ptr # Null
    BY <1>0, <2>1 DEF Fresh, Eyes
  <2> QED BY <1>0, <2>2 DEF StackType, Tops
<1>2. after'[t] = next["index"][seen[t].ptr] /\ next["index"][seen[t].ptr] \in Nodes \cup {Null}
  BY <1>0, <1>1 DEF PopNext, StackType, Stacks
<1>3. StackType'
  <2>1. after' \in [Threads -> Nodes \cup {Null}]
    BY <1>0, <1>2 DEF PopNext, StackType
  <2>2. pc' \in [Threads -> {"idle", "pop", "free", "alloc", "push"} \cup AtIndex \cup AtPool]
    BY <1>0 DEF StackType, PopNext, Goto, AtIndex
  <2> QED BY <1>0, <2>1, <2>2 DEF StackType, sharedVars
<1>4. \A u \in Threads \ {t} : Still(u) /\ age'[u] = age[u]
  BY <1>0 DEF StackType, PopNext, Goto, Still
<1>5. \A r \in Stacks : pc'[t] \in At(r) => Fresh(r, t)'
  BY <1>0, <1>2, ReadsOn DEF Stacks, Eyes
<1>6. Known(t) => Known(t)'
  BY <1>0 DEF Known, sharedVars
<1>7. Known(t)' /\ Ready(t)'
  BY <1>0, <1>6 DEF NInv, ReadInv, Ready
<1> QED BY <1>0, <1>3, <1>4, <1>5, <1>7, QuietStep DEF Owns

LEMMA AllocNextN ==
    ASSUME NInv, NEW t \in Threads, AllocNext(t)
    PROVE  NInv'
<1>0. StackType /\ pc[t] = "allocNext" /\ pc'[t] = "allocCas" /\ UNCHANGED sharedVars
      /\ UNCHANGED <<used, phase, clients, client, seen, value, node, age>>
  BY DEF AllocNext, NInv, StackType, Goto, userVars
<1>1. seen[t].ptr \in Nodes
  <2>1. Fresh("pool", t) /\ "pool" \in Stacks
    BY <1>0 DEF NInv, TagInv, At, AtPool, Stacks
  <2>2. seen[t].ptr # Null
    BY <1>0, <2>1 DEF Fresh, Eyes
  <2> QED BY <1>0, <2>2 DEF StackType, Tops
<1>2. after'[t] = next["pool"][seen[t].ptr] /\ next["pool"][seen[t].ptr] \in Nodes \cup {Null}
  BY <1>0, <1>1 DEF AllocNext, StackType, Stacks
<1>3. StackType'
  <2>1. after' \in [Threads -> Nodes \cup {Null}]
    BY <1>0, <1>2 DEF AllocNext, StackType
  <2>2. pc' \in [Threads -> {"idle", "pop", "free", "alloc", "push"} \cup AtIndex \cup AtPool]
    BY <1>0 DEF StackType, AllocNext, Goto, AtPool
  <2> QED BY <1>0, <2>1, <2>2 DEF StackType, sharedVars
<1>4. \A u \in Threads \ {t} : Still(u) /\ age'[u] = age[u]
  BY <1>0 DEF StackType, AllocNext, Goto, Still
<1>5. \A r \in Stacks : pc'[t] \in At(r) => Fresh(r, t)'
  BY <1>0, <1>2, ReadsOn DEF Stacks, Eyes
<1>6. Known(t)' /\ Ready(t)'
  BY <1>0 DEF Known, Ready
<1> QED BY <1>0, <1>3, <1>4, <1>5, <1>6, QuietStep DEF Owns

\* Forgetting a top.
LEMMA ForgetType ==
    ASSUME StackType, NEW t \in Threads, Forget(t)
    PROVE  /\ seen' \in [Threads -> Tops] /\ after' \in [Threads -> Nodes \cup {Null}]
           /\ \A u \in Threads \ {t} : seen'[u] = seen[u] /\ after'[u] = after[u]
<1>1. NoTop \in Tops
  BY StackAssumption DEF NoTop, Tops, Tags
<1> QED BY <1>1 DEF StackType, Forget

LEMMA NoIndexType == NoIndex \in Indices
BY StackAssumption DEF NoIndex

LEMMA PopCasN ==
    ASSUME NInv, TagOutlasts, NEW t \in Threads, PopCas(t)
    PROVE  NInv'
<1>0. StackType /\ pc[t] = "popCas" /\ pc[t] \in At("index") /\ "index" \in Stacks /\ Forget(t)
      /\ age' = [age EXCEPT ![t] = 0]
      /\ UNCHANGED <<next, data, created, used, phase, clients, client>>
  BY DEF PopCas, NInv, At, AtIndex, Stacks, userVars
<1>1. /\ seen' \in [Threads -> Tops] /\ after' \in [Threads -> Nodes \cup {Null}]
      /\ \A u \in Threads \ {t} : seen'[u] = seen[u] /\ after'[u] = after[u]
  BY <1>0, ForgetType
<1>2. age' \in [Threads -> 0..Stall] /\ \A u \in Threads \ {t} : age'[u] = age[u]
  BY <1>0, StackAssumption DEF StackType
<1>3. CASE top["index"] = seen[t]
  <2>1. /\ top' = [top EXCEPT !["index"] = [ptr |-> after[t], tag |-> seen[t].tag]]
        /\ node' = [node EXCEPT ![t] = seen[t].ptr] /\ pc' = [pc EXCEPT ![t] = "free"]
        /\ value' = value
    BY <1>3 DEF PopCas, Goto
  <2>2. seen[t] \in Tops /\ seen[t].ptr \in Nodes \cup {Null} /\ after[t] \in Nodes \cup {Null} /\ seen[t].tag \in Tags
    BY <1>0 DEF StackType, Tops
  <2>3. top' \in [Stacks -> Tops]
    BY <1>0, <2>1, <2>2 DEF StackType, Tops
  <2>4. pc' \in [Threads -> {"idle", "pop", "free", "alloc", "push"} \cup AtIndex \cup AtPool]
    BY <1>0, <2>1 DEF StackType
  <2>5. node' \in [Threads -> Nodes \cup {Null}]
    BY <1>0, <2>1, <2>2 DEF StackType
  <2>6. StackType'
    BY <1>0, <1>1, <1>2, <2>1, <2>3, <2>4, <2>5 DEF StackType
  <2>7. \A u \in Threads \ {t} : Still(u) /\ age'[u] = age[u]
    BY <1>0, <1>1, <1>2, <2>1 DEF StackType, Still
  <2>8. pc'[t] = "free" /\ node'[t] = seen[t].ptr
    BY <1>0, <2>1 DEF StackType
  <2> QED BY <1>0, <1>3, <2>1, <2>6, <2>7, <2>8, TakeStep
<1>4. CASE top["index"] # seen[t]
  <2>1. pc' = [pc EXCEPT ![t] = "pop"] /\ value' = [value EXCEPT ![t] = NoIndex] /\ UNCHANGED <<top, node>>
    BY <1>4 DEF PopCas, Goto
  <2>2. pc' \in [Threads -> {"idle", "pop", "free", "alloc", "push"} \cup AtIndex \cup AtPool]
    BY <1>0, <2>1 DEF StackType
  <2>3. value' \in [Threads -> Indices]
    BY <1>0, <2>1, NoIndexType DEF StackType
  <2>4. StackType'
    BY <1>0, <1>1, <1>2, <2>1, <2>2, <2>3 DEF StackType
  <2>5. \A u \in Threads \ {t} : Still(u) /\ age'[u] = age[u]
    BY <1>0, <1>1, <1>2, <2>1 DEF StackType, Still
  <2>6. pc'[t] = "pop" /\ node'[t] = node[t] /\ UNCHANGED sharedVars
    BY <1>0, <2>1 DEF StackType, sharedVars
  <2> QED BY <1>0, <2>4, <2>5, <2>6, OutsideStep DEF Owns
<1> QED BY <1>3, <1>4

LEMMA AllocCasN ==
    ASSUME NInv, TagOutlasts, NEW t \in Threads, AllocCas(t)
    PROVE  NInv'
<1>0. StackType /\ pc[t] = "allocCas" /\ pc[t] \in At("pool") /\ "pool" \in Stacks /\ Forget(t)
      /\ age' = [age EXCEPT ![t] = 0]
      /\ UNCHANGED <<next, data, created, used, phase, clients, client, value>>
  BY DEF AllocCas, NInv, At, AtPool, Stacks, userVars
<1>1. /\ seen' \in [Threads -> Tops] /\ after' \in [Threads -> Nodes \cup {Null}]
      /\ \A u \in Threads \ {t} : seen'[u] = seen[u] /\ after'[u] = after[u]
  BY <1>0, ForgetType
<1>2. age' \in [Threads -> 0..Stall] /\ \A u \in Threads \ {t} : age'[u] = age[u]
  BY <1>0, StackAssumption DEF StackType
<1>3. CASE top["pool"] = seen[t]
  <2>1. /\ top' = [top EXCEPT !["pool"] = [ptr |-> after[t], tag |-> seen[t].tag]]
        /\ node' = [node EXCEPT ![t] = seen[t].ptr] /\ pc' = [pc EXCEPT ![t] = "push"]
    BY <1>3 DEF AllocCas, Goto
  <2>2. seen[t] \in Tops /\ seen[t].ptr \in Nodes \cup {Null} /\ after[t] \in Nodes \cup {Null} /\ seen[t].tag \in Tags
    BY <1>0 DEF StackType, Tops
  <2>3. top' \in [Stacks -> Tops]
    BY <1>0, <2>1, <2>2 DEF StackType, Tops
  <2>4. pc' \in [Threads -> {"idle", "pop", "free", "alloc", "push"} \cup AtIndex \cup AtPool]
    BY <1>0, <2>1 DEF StackType
  <2>5. node' \in [Threads -> Nodes \cup {Null}]
    BY <1>0, <2>1, <2>2 DEF StackType
  <2>6. StackType'
    BY <1>0, <1>1, <1>2, <2>1, <2>3, <2>4, <2>5 DEF StackType
  <2>7. \A u \in Threads \ {t} : Still(u) /\ age'[u] = age[u]
    BY <1>0, <1>1, <1>2, <2>1 DEF StackType, Still
  <2>8. pc'[t] = "push" /\ node'[t] = seen[t].ptr
    BY <1>0, <2>1 DEF StackType
  <2> QED BY <1>0, <1>3, <2>1, <2>6, <2>7, <2>8, TakeStep
<1>4. CASE top["pool"] # seen[t]
  <2>1. pc' = [pc EXCEPT ![t] = "alloc"] /\ UNCHANGED <<top, node>>
    BY <1>4 DEF AllocCas, Goto
  <2>2. pc' \in [Threads -> {"idle", "pop", "free", "alloc", "push"} \cup AtIndex \cup AtPool]
    BY <1>0, <2>1 DEF StackType
  <2>3. StackType'
    BY <1>0, <1>1, <1>2, <2>1, <2>2 DEF StackType
  <2>4. \A u \in Threads \ {t} : Still(u) /\ age'[u] = age[u]
    BY <1>0, <1>1, <1>2, <2>1 DEF StackType, Still
  <2>5. pc'[t] = "alloc" /\ node'[t] = node[t] /\ UNCHANGED sharedVars
    BY <1>0, <2>1 DEF StackType, sharedVars
  <2> QED BY <1>0, <2>3, <2>4, <2>5, OutsideStep DEF Owns
<1> QED BY <1>3, <1>4

LEMMA AllocTopN ==
    ASSUME NInv, NEW t \in Threads, AllocTop(t)
    PROVE  NInv'
<1>0. StackType /\ pc[t] = "alloc" /\ "pool" \in Stacks
      /\ UNCHANGED <<top, next, data, used, phase, clients, client, after, value>>
  BY DEF AllocTop, NInv, Stacks, userVars
<1>1. CASE top["pool"].ptr # Null
  <2>1. ReadTop(t, "pool") /\ pc' = [pc EXCEPT ![t] = "allocNext"] /\ UNCHANGED <<created, node>>
    BY <1>1 DEF AllocTop, Goto
  <2>2. pc' \in [Threads -> {"idle", "pop", "free", "alloc", "push"} \cup AtIndex \cup AtPool]
    BY <1>0, <2>1 DEF StackType, AtPool
  <2>3. seen' \in [Threads -> Tops] /\ age' \in [Threads -> 0..Stall]
    BY <1>0, <2>1, StackAssumption DEF StackType, ReadTop
  <2>4. StackType'
    BY <1>0, <2>1, <2>2, <2>3 DEF StackType
  <2>5. \A u \in Threads \ {t} : Still(u) /\ age'[u] = age[u]
    BY <1>0, <2>1 DEF StackType, Still, ReadTop
  <2>6. pc'[t] = "allocNext" /\ node'[t] = node[t] /\ UNCHANGED sharedVars
    BY <1>0, <2>1 DEF StackType, sharedVars
  <2>7. \A r \in Stacks : pc'[t] \in At(r) => Fresh(r, t)'
    BY <1>0, <1>1, <2>1, <2>6, JustRead DEF At, AtPool
  <2>8. Known(t)' /\ Ready(t)'
    BY <2>6 DEF Known, Ready
  <2> QED BY <1>0, <2>4, <2>5, <2>6, <2>7, <2>8, QuietStep DEF Owns
<1>2. CASE top["pool"].ptr = Null
  <2>1. /\ created < MaxNode /\ created' = created + 1
        /\ node' = [node EXCEPT ![t] = created + 1] /\ pc' = [pc EXCEPT ![t] = "push"]
        /\ UNCHANGED <<seen, age>>
    BY <1>2 DEF AllocTop, Goto
  <2>2. created' \in 0..MaxNode /\ created + 1 \in Nodes
    BY <1>0, <2>1, StackAssumption DEF StackType, Nodes
  <2>3. pc' \in [Threads -> {"idle", "pop", "free", "alloc", "push"} \cup AtIndex \cup AtPool]
    BY <1>0, <2>1 DEF StackType
  <2>4. node' \in [Threads -> Nodes \cup {Null}]
    BY <1>0, <2>1, <2>2 DEF StackType
  <2>5. StackType'
    BY <1>0, <2>1, <2>2, <2>3, <2>4 DEF StackType
  <2>6. \A u \in Threads \ {t} : Still(u) /\ age'[u] = age[u]
    BY <1>0, <2>1 DEF StackType, Still
  <2>7. pc'[t] = "push" /\ node'[t] = created + 1 /\ ~Owns(t)
    BY <1>0, <2>1 DEF StackType, Owns
  <2> QED BY <1>0, <2>1, <2>5, <2>6, <2>7, FreshNodeStep
<1> QED BY <1>1, <1>2

LEMMA FreeTopN ==
    ASSUME NInv, NEW t \in Threads, FreeTop(t)
    PROVE  NInv'
<1>0. /\ StackType /\ pc[t] = "free" /\ "pool" \in Stacks /\ ReadTop(t, "pool")
      /\ next' = [next EXCEPT !["pool"][node[t]] = top["pool"].ptr]
      /\ pc' = [pc EXCEPT ![t] = "freeCas"]
      /\ UNCHANGED <<top, data, created, used, phase, clients, client, after, value, node>>
  BY DEF FreeTop, NInv, Stacks, userVars, Goto
<1>1. Owns(t) /\ node[t] \in Nodes
  BY <1>0 DEF NInv, StackType, PlaceInv, Owns
<1>2. top["pool"].ptr \in Nodes \cup {Null}
  BY <1>0 DEF StackType, Tops
<1>3. /\ next' \in [Stacks -> [Nodes -> Nodes \cup {Null}]]
      /\ next'["pool"][node[t]] = top["pool"].ptr
      /\ \A s \in Stacks : \A x \in Nodes : x # node[t] => next'[s][x] = next[s][x]
  BY <1>0, <1>1, <1>2 DEF StackType
<1>4. pc' \in [Threads -> {"idle", "pop", "free", "alloc", "push"} \cup AtIndex \cup AtPool]
  BY <1>0 DEF StackType, AtPool
<1>5. seen' \in [Threads -> Tops] /\ age' \in [Threads -> 0..Stall]
  BY <1>0, StackAssumption DEF StackType, ReadTop
<1>6. StackType'
  BY <1>0, <1>3, <1>4, <1>5 DEF StackType
<1>7. \A u \in Threads \ {t} : Still(u) /\ age'[u] = age[u]
  BY <1>0 DEF StackType, Still, ReadTop
<1>8. pc'[t] = "freeCas" /\ node'[t] = node[t] /\ seen'[t] = top["pool"]
  BY <1>0 DEF StackType, ReadTop
<1>9. \A r \in Stacks : pc'[t] \in At(r) => Fresh(r, t)'
  BY <1>0, <1>8, JustRead DEF At, AtPool, Eyes
<1>10. Known(t)' /\ Ready(t)'
  BY <1>3, <1>8 DEF Known, Ready
<1>11. Owns(t)'
  BY <1>8 DEF Owns
<1> QED BY <1>0, <1>1, <1>3, <1>6, <1>7, <1>8, <1>9, <1>10, <1>11, WriteStep

LEMMA PushTopN ==
    ASSUME NInv, NEW t \in Threads, PushTop(t)
    PROVE  NInv'
<1>0. /\ StackType /\ pc[t] = "push" /\ "index" \in Stacks /\ ReadTop(t, "index")
      /\ next' = [next EXCEPT !["index"][node[t]] = top["index"].ptr]
      /\ data' = [data EXCEPT ![node[t]] = value[t]]
      /\ pc' = [pc EXCEPT ![t] = "pushCas"]
      /\ UNCHANGED <<top, created, used, phase, clients, client, after, value, node>>
  BY DEF PushTop, NInv, Stacks, userVars, Goto
<1>1. Owns(t) /\ node[t] \in Nodes
  BY <1>0 DEF NInv, StackType, PlaceInv, Owns
<1>2. top["index"].ptr \in Nodes \cup {Null} /\ value[t] \in Indices
  BY <1>0 DEF StackType, Tops
<1>3. /\ next' \in [Stacks -> [Nodes -> Nodes \cup {Null}]]
      /\ next'["index"][node[t]] = top["index"].ptr
      /\ \A s \in Stacks : \A x \in Nodes : x # node[t] => next'[s][x] = next[s][x]
  BY <1>0, <1>1, <1>2 DEF StackType
<1>4. /\ data' \in [Nodes -> Indices] /\ data'[node[t]] = value[t]
      /\ \A x \in Nodes : x # node[t] => data'[x] = data[x]
  BY <1>0, <1>1, <1>2 DEF StackType
<1>5. pc' \in [Threads -> {"idle", "pop", "free", "alloc", "push"} \cup AtIndex \cup AtPool]
  BY <1>0 DEF StackType, AtIndex
<1>6. seen' \in [Threads -> Tops] /\ age' \in [Threads -> 0..Stall]
  BY <1>0, StackAssumption DEF StackType, ReadTop
<1>7. StackType'
  BY <1>0, <1>3, <1>4, <1>5, <1>6 DEF StackType
<1>8. \A u \in Threads \ {t} : Still(u) /\ age'[u] = age[u]
  BY <1>0 DEF StackType, Still, ReadTop
<1>9. pc'[t] = "pushCas" /\ node'[t] = node[t] /\ value'[t] = value[t] /\ seen'[t] = top["index"]
  BY <1>0 DEF StackType, ReadTop
<1>10. \A r \in Stacks : pc'[t] \in At(r) => Fresh(r, t)'
  BY <1>0, <1>9, JustRead DEF At, AtIndex, Eyes
<1>11. Known(t)' /\ Ready(t)'
  BY <1>3, <1>4, <1>9 DEF Known, Ready
<1>12. Owns(t)'
  BY <1>9 DEF Owns
<1> QED BY <1>0, <1>1, <1>3, <1>4, <1>7, <1>8, <1>9, <1>10, <1>11, <1>12, WriteStep

\* The types after a push.
LEMMA SwingType ==
    ASSUME NInv, TagOutlasts, NEW t \in Threads, NEW r \in Stacks, pc[t] \in At(r),
           node[t] \in Nodes, Swing(r, node[t]), Older(t, r)
    PROVE  top' \in [Stacks -> Tops] /\ age' \in [Threads -> 0..Stall]
<1>1. StackType /\ Stall \in Nat
  BY StackAssumption DEF NInv
<1>2. age' \in [Threads -> 0..Stall]
  <2> SUFFICES ASSUME NEW u \in Threads
               PROVE  (IF u # t /\ pc[u] \in At(r) THEN age[u] + 1 ELSE IF u = t THEN 0 ELSE age[u]) \in 0..Stall
    BY DEF Older
  <2>1. age[u] \in 0..Stall /\ (pc[u] \in At(r) => age[u] < Stall)
    BY <1>1 DEF StackType, Swing
  <2> QED BY <1>1, <2>1
<1>3. top[r].tag \in Tags /\ seen[t].tag \in Tags /\ age[t] \in 0..Stall
  BY <1>1 DEF StackType, Tops
<1>4. top[r].tag = Later(seen[t].tag, age[t])
  BY DEF NInv, TagInv, Fresh
<1>5. (top[r].tag + 1) % TagCount \in Tags
  BY <1>3, <1>4, NextTag
<1>6. top' \in [Stacks -> Tops]
  BY <1>1, <1>5 DEF StackType, Swing, Tops
<1> QED BY <1>2, <1>6

LEMMA PushCasN ==
    ASSUME NInv, TagOutlasts, NEW t \in Threads, PushCas(t)
    PROVE  NInv'
<1>0. StackType /\ pc[t] = "pushCas" /\ pc[t] \in At("index") /\ "index" \in Stacks /\ Forget(t)
      /\ UNCHANGED <<next, data, created, used, phase, clients, client>>
  BY DEF PushCas, NInv, At, AtIndex, Stacks, userVars
<1>1. /\ seen' \in [Threads -> Tops] /\ after' \in [Threads -> Nodes \cup {Null}]
      /\ \A u \in Threads \ {t} : seen'[u] = seen[u] /\ after'[u] = after[u]
  BY <1>0, ForgetType
<1>2. CASE top["index"] = seen[t]
  <2>1. /\ Swing("index", node[t]) /\ Older(t, "index")
        /\ node' = [node EXCEPT ![t] = Null] /\ pc' = [pc EXCEPT ![t] = "idle"]
        /\ value' = [value EXCEPT ![t] = NoIndex]
    BY <1>2 DEF PushCas, Goto
  <2>2. node[t] \in Nodes
    BY <1>0 DEF NInv, StackType, PlaceInv, Owns
  <2>3. top' \in [Stacks -> Tops] /\ age' \in [Threads -> 0..Stall]
    BY <1>0, <2>1, <2>2, SwingType
  <2>4. pc' \in [Threads -> {"idle", "pop", "free", "alloc", "push"} \cup AtIndex \cup AtPool]
    BY <1>0, <2>1 DEF StackType
  <2>5. node' \in [Threads -> Nodes \cup {Null}] /\ value' \in [Threads -> Indices]
    BY <1>0, <2>1, NoIndexType DEF StackType
  <2>6. StackType'
    BY <1>0, <1>1, <2>3, <2>4, <2>5 DEF StackType
  <2>7. \A u \in Threads \ {t} : Still(u)
    BY <1>0, <1>1, <2>1 DEF StackType, Still
  <2>8. pc'[t] = "idle" /\ node'[t] = Null
    BY <1>0, <2>1 DEF StackType
  <2> QED BY <1>0, <1>2, <2>1, <2>6, <2>7, <2>8, PutStep
<1>3. CASE top["index"] # seen[t]
  <2>1. pc' = [pc EXCEPT ![t] = "push"] /\ age' = [age EXCEPT ![t] = 0] /\ UNCHANGED <<top, value, node>>
    BY <1>3 DEF PushCas, Goto
  <2>2. pc' \in [Threads -> {"idle", "pop", "free", "alloc", "push"} \cup AtIndex \cup AtPool]
    BY <1>0, <2>1 DEF StackType
  <2>3. age' \in [Threads -> 0..Stall]
    BY <1>0, <2>1, StackAssumption DEF StackType
  <2>4. StackType'
    BY <1>0, <1>1, <2>1, <2>2, <2>3 DEF StackType
  <2>5. \A u \in Threads \ {t} : Still(u) /\ age'[u] = age[u]
    BY <1>0, <1>1, <2>1 DEF StackType, Still
  <2>6. pc'[t] = "push" /\ node'[t] = node[t] /\ UNCHANGED sharedVars
    BY <1>0, <2>1 DEF StackType, sharedVars
  <2> QED BY <1>0, <2>4, <2>5, <2>6, OutsideStep DEF Owns
<1> QED BY <1>2, <1>3

LEMMA FreeCasN ==
    ASSUME NInv, TagOutlasts, NEW t \in Threads, FreeCas(t)
    PROVE  NInv'
<1>0. StackType /\ pc[t] = "freeCas" /\ pc[t] \in At("pool") /\ "pool" \in Stacks /\ Forget(t)
      /\ UNCHANGED <<next, data, created, phase, clients>>
  BY DEF FreeCas, NInv, At, AtPool, Stacks
<1>1. /\ seen' \in [Threads -> Tops] /\ after' \in [Threads -> Nodes \cup {Null}]
      /\ \A u \in Threads \ {t} : seen'[u] = seen[u] /\ after'[u] = after[u]
  BY <1>0, ForgetType
<1>2. CASE top["pool"] = seen[t]
  <2>1. /\ Swing("pool", node[t]) /\ Older(t, "pool")
        /\ node' = [node EXCEPT ![t] = Null] /\ pc' = [pc EXCEPT ![t] = "idle"]
        /\ value' = [value EXCEPT ![t] = NoIndex]
        /\ used' = [used EXCEPT ![value[t]] = @ + 1]
        /\ client' = [client EXCEPT ![t] = FALSE]
    BY <1>2 DEF FreeCas, Goto
  <2>2. node[t] \in Nodes
    BY <1>0 DEF NInv, StackType, PlaceInv, Owns
  <2>3. top' \in [Stacks -> Tops] /\ age' \in [Threads -> 0..Stall]
    BY <1>0, <2>1, <2>2, SwingType
  <2>4. pc' \in [Threads -> {"idle", "pop", "free", "alloc", "push"} \cup AtIndex \cup AtPool]
    BY <1>0, <2>1 DEF StackType
  <2>5. node' \in [Threads -> Nodes \cup {Null}] /\ value' \in [Threads -> Indices]
    BY <1>0, <2>1, NoIndexType DEF StackType
  <2>6. used' \in [Indices -> Nat]
    BY <1>0, <2>1 DEF StackType
  <2>7. client' \in [Threads -> BOOLEAN]
    BY <1>0, <2>1 DEF StackType
  <2>8. StackType'
    BY <1>0, <1>1, <2>3, <2>4, <2>5, <2>6, <2>7 DEF StackType
  <2>9. \A u \in Threads \ {t} : Still(u)
    BY <1>0, <1>1, <2>1 DEF StackType, Still
  <2>10. pc'[t] = "idle" /\ node'[t] = Null
    BY <1>0, <2>1 DEF StackType
  <2> QED BY <1>0, <1>2, <2>1, <2>8, <2>9, <2>10, PutStep
<1>3. CASE top["pool"] # seen[t]
  <2>1. pc' = [pc EXCEPT ![t] = "free"] /\ age' = [age EXCEPT ![t] = 0] /\ UNCHANGED <<top, used, client, value, node>>
    BY <1>3 DEF FreeCas, Goto
  <2>2. pc' \in [Threads -> {"idle", "pop", "free", "alloc", "push"} \cup AtIndex \cup AtPool]
    BY <1>0, <2>1 DEF StackType
  <2>3. age' \in [Threads -> 0..Stall]
    BY <1>0, <2>1, StackAssumption DEF StackType
  <2>4. StackType'
    BY <1>0, <1>1, <2>1, <2>2, <2>3 DEF StackType
  <2>5. \A u \in Threads \ {t} : Still(u) /\ age'[u] = age[u]
    BY <1>0, <1>1, <2>1 DEF StackType, Still
  <2>6. pc'[t] = "free" /\ node'[t] = node[t] /\ UNCHANGED sharedVars
    BY <1>0, <2>1 DEF StackType, sharedVars
  <2> QED BY <1>0, <2>4, <2>5, <2>6, OutsideStep DEF Owns
<1> QED BY <1>2, <1>3

----------------------------------------------------------------------------
LEMMA InitNInv == Init => NInv
<1> SUFFICES ASSUME Init PROVE NInv
  OBVIOUS
<1>0. /\ MaxNode \in Nat /\ PoolSize \in 0..MaxNode /\ Stall \in Nat /\ MaxClient \in Nat
      /\ "index" \in Stacks /\ "pool" \in Stacks /\ TagCount \in Nat \ {0}
  BY StackAssumption DEF Stacks
<1>1. StackType
  <2>1. top \in [Stacks -> Tops]
    BY <1>0 DEF Init, Stacks, Tops, Tags, Nodes, Null
  <2>2. next \in [Stacks -> [Nodes -> Nodes \cup {Null}]]
    <3>1. \A n \in Nodes : n - 1 \in Nodes \cup {Null}
      BY <1>0 DEF Nodes, Null
    <3> QED BY <3>1 DEF Init, Stacks
  <2>3. data \in [Nodes -> Indices] /\ value \in [Threads -> Indices]
    BY NoIndexType DEF Init
  <2>4. created \in 0..MaxNode /\ used \in [Indices -> Nat] /\ phase = "constructor"
        /\ clients \in 0..MaxClient
    BY <1>0 DEF Init
  <2>5. client \in [Threads -> BOOLEAN]
    BY DEF Init
  <2>6. /\ pc \in [Threads -> {"idle", "pop", "free", "alloc", "push"} \cup AtIndex \cup AtPool]
        /\ seen \in [Threads -> Tops] /\ after \in [Threads -> Nodes \cup {Null}]
        /\ node \in [Threads -> Nodes \cup {Null}] /\ age \in [Threads -> 0..Stall]
    BY <1>0 DEF Init, NoTop, Tops, Tags
  <2> QED BY <2>1, <2>2, <2>3, <2>4, <2>5, <2>6 DEF StackType
<1>2. Chain("index") = [k \in 1..0 |-> 1] /\ Len(Chain("index")) = 0
      /\ Linked(Chain("index"), 0, top["index"].ptr, next["index"])
  <2>1. top["index"].ptr = Null
    BY <1>0 DEF Init
  <2>2. Linked([k \in 1..0 |-> 1], 0, top["index"].ptr, next["index"])
    BY <2>1 DEF Linked
  <2>3. ChainFrom(top["index"].ptr, next["index"]) = [k \in 1..0 |-> 1] /\ Len([k \in 1..0 |-> 1]) = 0
    BY <2>2, ChainIs
  <2> QED BY <2>2, <2>3 DEF Chain
<1> DEFINE c == [k \in 1..PoolSize |-> PoolSize + 1 - k]
<1>3. Chain("pool") = c /\ Len(Chain("pool")) = PoolSize
      /\ Linked(Chain("pool"), PoolSize, top["pool"].ptr, next["pool"])
  <2>1. top["pool"].ptr = PoolSize
        /\ next["pool"] = [n \in Nodes |-> IF n <= PoolSize THEN n - 1 ELSE Null]
    BY <1>0 DEF Init, Stacks
  <2>2. \A k \in 1..PoolSize : c[k] = PoolSize + 1 - k /\ c[k] \in Nodes /\ c[k] <= PoolSize
    BY <1>0 DEF Nodes
  <2>3. c \in [1..PoolSize -> Nodes]
    BY <2>2
  <2>4. PoolSize = IF PoolSize = 0 THEN Null ELSE c[1]
    BY <1>0 DEF Null
  <2>5. ASSUME NEW k \in 1..PoolSize
        PROVE  next["pool"][c[k]] = IF k = PoolSize THEN Null ELSE c[k + 1]
    <3>1. next["pool"][c[k]] = PoolSize - k
      BY <1>0, <2>1, <2>2
    <3>2. k # PoolSize => k + 1 \in 1..PoolSize
      BY <1>0
    <3> QED BY <1>0, <2>2, <3>1, <3>2 DEF Null
  <2>6. \A j, k \in 1..PoolSize : c[j] = c[k] => j = k
    BY <1>0, <2>2
  <2> HIDE DEF c
  <2>7. Linked(c, PoolSize, top["pool"].ptr, next["pool"])
    <3>1. PoolSize \in Nat /\ top["pool"].ptr = PoolSize
      BY <1>0, <2>1
    <3> QED BY <2>3, <2>4, <2>5, <2>6, <3>1 DEF Linked
  <2>8. ChainFrom(top["pool"].ptr, next["pool"]) = c /\ Len(c) = PoolSize
    BY <2>7, ChainIs
  <2> QED BY <2>7, <2>8 DEF Chain
<1>4. ChainInv
  BY <1>2, <1>3 DEF ChainInv, Stacks
<1>5. \A x : ~On("index", x)
  BY <1>2 DEF On
<1>6. \A x \in Nodes : On("pool", x) <=> x <= PoolSize
  <2> SUFFICES ASSUME NEW x \in Nodes PROVE On("pool", x) <=> x <= PoolSize
    OBVIOUS
  <2>1. x \in Nat /\ x >= 1
    BY <1>0 DEF Nodes
  <2>2. On("pool", x) <=> \E k \in 1..PoolSize : c[k] = x
    BY <1>3 DEF On
  <2>3. x <= PoolSize => PoolSize + 1 - x \in 1..PoolSize /\ c[PoolSize + 1 - x] = x
    BY <1>0, <2>1
  <2>4. \A k \in 1..PoolSize : c[k] <= PoolSize
    BY <1>0
  <2> QED BY <2>2, <2>3, <2>4
<1>7. PlaceInv
  <2>1. \A t \in Threads : node[t] = Null /\ ~Owns(t)
    BY DEF Init, Owns
  <2>2. created = PoolSize /\ \A x \in 1..created : x \in Nodes
    BY <1>0 DEF Init, Nodes
  <2> QED BY <1>0, <1>5, <1>6, <2>1, <2>2 DEF PlaceInv, Stacks
<1>8. \A t \in Threads : pc[t] = "idle"
  BY DEF Init
<1>9. TagInv
  BY <1>8 DEF TagInv, At, AtIndex, AtPool
<1>10. ReadInv
  BY <1>8 DEF ReadInv, Known, Ready
<1> QED BY <1>1, <1>4, <1>7, <1>9, <1>10 DEF NInv

LEMMA NextNInv ==
    ASSUME NInv, TagOutlasts, [Next]_vars
    PROVE  NInv'
<1>1. CASE Advance
  BY <1>1, AdvanceN
<1>2. ASSUME NEW t \in Threads, GetFreeIndex(t) \/ ReleaseFreeIndex(t) PROVE NInv'
  BY <1>2, GetFreeIndexN, ReleaseFreeIndexN
<1>3. ASSUME NEW t \in Threads, Pop(t) PROVE NInv'
  BY <1>3, PopTopN, PopDataN, PopNextN, PopCasN, FreeTopN, FreeCasN DEF Pop
<1>4. ASSUME NEW t \in Threads, Push(t) PROVE NInv'
  BY <1>4, AllocTopN, AllocNextN, AllocCasN, PushTopN, PushCasN DEF Push
<1>5. CASE UNCHANGED vars
  <2>1. UNCHANGED <<top, next, data, created, pc, client, seen, after, value, node, age, used, phase, clients>>
    BY <1>5 DEF vars, sharedVars, userVars, localVars
  <2>2. StackType'
    BY <2>1 DEF NInv, StackType
  <2> QED BY <2>1, <2>2, NobodyStep
<1> QED BY <1>1, <1>2, <1>3, <1>4, <1>5 DEF Next, Step

\* As long as no thread sleeps through a round of the tag, the two chains end, a
\* node is on one of them or with one thread, and what a thread has read of a
\* node it may still take is what the node holds.
THEOREM StackInvariance == TagOutlasts => (Spec => []NInv)
<1>1. SUFFICES ASSUME TagOutlasts PROVE Spec => []NInv
  OBVIOUS
<1>2. NInv /\ [Next]_vars => NInv'
  BY <1>1, NextNInv
<1> QED BY InitNInv, <1>2, PTL DEF Spec

\* The chain of a top is what NodeOnce counts on.
LEMMA OnceOnChain ==
    ASSUME NInv, NEW s \in Stacks, NEW x
    PROVE  LET K == {k \in DOMAIN Chain(s) : Chain(s)[k] = x}
           IN  /\ On(s, x) => Cardinality(K) = 1
               /\ ~On(s, x) => Cardinality(K) = 0
<1> DEFINE K == {k \in DOMAIN Chain(s) : Chain(s)[k] = x}
<1>1. DOMAIN Chain(s) = 1..Len(Chain(s)) /\ \A j, k \in 1..Len(Chain(s)) : Chain(s)[j] = Chain(s)[k] => j = k
  BY ChainFacts DEF Linked
<1>2. ASSUME On(s, x) PROVE Cardinality(K) = 1
  <2>1. PICK k \in 1..Len(Chain(s)) : Chain(s)[k] = x
    BY <1>2 DEF On
  <2>2. K = {k}
    BY <1>1, <2>1
  <2> QED BY <2>2, FS_Singleton
<1>3. ASSUME ~On(s, x) PROVE Cardinality(K) = 0
  <2>1. K = {}
    BY <1>1, <1>3 DEF On
  <2> QED BY <2>1, FS_EmptySet
<1> QED BY <1>2, <1>3

LEMMA PlacesOnce == NInv => NodeOnce
<1> SUFFICES ASSUME NInv, NEW x \in 1..created
             PROVE  Cardinality({k \in DOMAIN Chain("index") : Chain("index")[k] = x})
                    + Cardinality({k \in DOMAIN Chain("pool") : Chain("pool")[k] = x})
                    + Cardinality({t \in Threads : node[t] = x}) = 1
  BY DEF NodeOnce
<1> DEFINE K(s) == {k \in DOMAIN Chain(s) : Chain(s)[k] = x}
           H == {t \in Threads : node[t] = x}
<1>0. "index" \in Stacks /\ "pool" \in Stacks /\ x \in Nodes /\ x # Null /\ PlaceInv
  BY StackAssumption DEF Stacks, NInv, StackType, Nodes, Null
<1>1. \A s \in Stacks : /\ On(s, x) => Cardinality(K(s)) = 1
                        /\ ~On(s, x) => Cardinality(K(s)) = 0
  BY OnceOnChain
<1>2. ASSUME NEW t \in Threads, node[t] = x
      PROVE  Cardinality(H) = 1 /\ ~On("index", x) /\ ~On("pool", x)
  <2>1. Owns(t)
    BY <1>0, <1>2 DEF PlaceInv
  <2>2. H = {t}
    BY <1>0, <1>2, <2>1 DEF PlaceInv
  <2>3. ~On("index", x) /\ ~On("pool", x)
    BY <1>0, <1>2, <2>1 DEF PlaceInv
  <2> QED BY <2>2, <2>3, FS_Singleton
<1>3. ASSUME \A t \in Threads : node[t] # x PROVE Cardinality(H) = 0
  <2>1. H = {}
    BY <1>3
  <2> QED BY <2>1, FS_EmptySet
<1>4. \/ \E t \in Threads : node[t] = x
      \/ On("index", x) /\ ~On("pool", x) /\ \A t \in Threads : node[t] # x
      \/ ~On("index", x) /\ On("pool", x) /\ \A t \in Threads : node[t] # x
  BY <1>0 DEF PlaceInv
<1> HIDE DEF K, H
<1>5. Cardinality(K("index")) + Cardinality(K("pool")) + Cardinality(H) = 1
  BY <1>0, <1>1, <1>2, <1>3, <1>4
<1> QED BY <1>5 DEF K, H

\* NodeOnce: Push, Pop, Alloc and Free lose no node and give none to two.
THEOREM StackKeepsNodes == TagOutlasts => (Spec => []NodeOnce)
BY StackInvariance, PlacesOnce, PTL

----------------------------------------------------------------------------
\* What the steps do to the indices on the stack.

LEMMA ContentType ==
    ASSUME NInv
    PROVE  /\ Content \in Seq(Indices) /\ Len(Content) = Len(Chain("index"))
           /\ \A k \in 1..Len(Content) : Content[k] = data[Chain("index")[k]]
           /\ Content = [k \in 1..Len(Chain("index")) |-> data[Chain("index")[k]]]
<1>1. /\ Len(Chain("index")) \in Nat
      /\ Chain("index") \in [1..Len(Chain("index")) -> Nodes]
  BY ChainFacts DEF Stacks
<1>2. data \in [Nodes -> Indices]
  BY DEF NInv, StackType
<1> DEFINE c == Chain("index")
           n == Len(Chain("index"))
<1> HIDE DEF c, n
<1>3. n \in Nat /\ c \in [1..n -> Nodes] /\ Content = [k \in DOMAIN c |-> data[c[k]]]
  BY <1>1 DEF c, n, Content
<1>4. Content = [k \in 1..n |-> data[c[k]]] /\ \A k \in 1..n : data[c[k]] \in Indices
  BY <1>2, <1>3
<1>5. Content \in Seq(Indices) /\ Len(Content) = n /\ \A k \in 1..n : Content[k] = data[c[k]]
  BY <1>3, <1>4
<1> QED BY <1>4, <1>5 DEF c, n

\* A step that leaves the top and the nodes of the chain alone.
LEMMA ContentStays ==
    ASSUME NInv, top'["index"].ptr = top["index"].ptr,
           \A x \in Nodes : On("index", x) =>
               next'["index"][x] = next["index"][x] /\ data'[x] = data[x]
    PROVE  Content' = Content
<1>0. "index" \in Stacks
  BY DEF Stacks
<1>1. \A x : On("index", x) => x \in Nodes
  BY <1>0, ChainFacts
<1>2. Chain("index")' = Chain("index")
  BY <1>0, <1>1, ChainStays
<1>3. DOMAIN Chain("index") = 1..Len(Chain("index"))
  BY <1>0, ChainFacts
<1>4. \A k \in DOMAIN Chain("index") : data'[Chain("index")[k]] = data[Chain("index")[k]]
  BY <1>1, <1>3 DEF On
<1> QED BY <1>2, <1>4 DEF Content

\* The exchange of Pop.
LEMMA ContentPopped ==
    ASSUME NInv, TagOutlasts, NEW t \in Threads, PopCas(t), top["index"] = seen[t]
    PROVE  /\ Content # <<>> /\ Content' = Tail(Content)
           /\ value[t] = Content[1]
<1>0. "index" \in Stacks /\ pc[t] = "popCas" /\ pc[t] \in At("index")
  BY DEF Stacks, PopCas, At, AtIndex
<1>1. age[t] = 0 /\ seen[t].ptr # Null /\ after[t] = next["index"][top["index"].ptr]
  BY <1>0, SeenNow
<1>2. top'["index"].ptr = after[t] /\ next' = next /\ data' = data
  BY <1>0 DEF PopCas, NInv, StackType
<1> DEFINE c == Chain("index")
           n == Len(Chain("index"))
<1>3. /\ Chain("index")' = [k \in 1..(n - 1) |-> c[k + 1]]
      /\ n >= 1 /\ c[1] = top["index"].ptr
  BY <1>0, <1>1, <1>2, ChainPopped
<1>4. n \in Nat /\ Len(Content) = n /\ Content \in Seq(Indices)
      /\ \A k \in 1..n : Content[k] = data[c[k]]
  BY <1>0, ChainFacts, ContentType
<1>5. Content' = [k \in DOMAIN Chain("index")' |-> data[Chain("index")'[k]]]
  BY <1>2 DEF Content
<1> HIDE DEF c, n
<1>6. Content' = [k \in 1..(n - 1) |-> Content[k + 1]]
  <2>1. Content' = [k \in 1..(n - 1) |-> data[c[k + 1]]]
    BY <1>3, <1>5
  <2>2. \A k \in 1..(n - 1) : Content[k + 1] = data[c[k + 1]]
    BY <1>4
  <2> QED BY <2>1, <2>2
<1>7. Tail(Content) = [k \in 1..(n - 1) |-> Content[k + 1]]
  <2>1. Content # <<>>
    BY <1>3, <1>4
  <2>2. /\ Tail(Content) \in Seq(Indices) /\ Len(Tail(Content)) = n - 1
        /\ \A k \in 1..(n - 1) : Tail(Content)[k] = Content[k + 1]
    BY <1>3, <1>4, <2>1
  <2>3. Tail(Content) \in [1..(n - 1) -> Indices]
    BY <2>2, LenProperties
  <2> QED BY <2>2, <2>3
<1>8. value[t] = Content[1]
  <2>1. value[t] = data[seen[t].ptr]
    BY <1>0, <1>1 DEF NInv, ReadInv, Known
  <2> QED BY <1>3, <1>4, <2>1
<1>9. Content # <<>>
  BY <1>3, <1>4
<1> QED BY <1>6, <1>7, <1>8, <1>9

\* The exchange of Push.
LEMMA ContentPushed ==
    ASSUME NInv, TagOutlasts, NEW t \in Threads, PushCas(t), top["index"] = seen[t]
    PROVE  Content' = <<value[t]>> \o Content /\ value[t] \in Indices
<1>0. "index" \in Stacks /\ pc[t] = "pushCas" /\ Owns(t)
  BY DEF Stacks, PushCas, Owns
<1>1. /\ node[t] \in Nodes /\ ~On("index", node[t]) /\ value[t] \in Indices
      /\ next["index"][node[t]] = top["index"].ptr /\ data[node[t]] = value[t]
  BY <1>0 DEF NInv, StackType, PlaceInv, ReadInv, Ready
<1>2. top'["index"].ptr = node[t] /\ next' = next /\ data' = data
  BY <1>0 DEF PushCas, Swing, NInv, StackType
<1> DEFINE c == Chain("index")
           n == Len(Chain("index"))
<1>3. Chain("index")' = [k \in 1..(n + 1) |-> IF k = 1 THEN node[t] ELSE c[k - 1]]
  BY <1>0, <1>1, <1>2, ChainPushed
<1>4. n \in Nat /\ Len(Content) = n /\ Content \in Seq(Indices)
      /\ \A k \in 1..n : Content[k] = data[c[k]]
  BY <1>0, ChainFacts, ContentType
<1>5. Content' = [k \in DOMAIN Chain("index")' |-> data[Chain("index")'[k]]]
  BY <1>2 DEF Content
<1> HIDE DEF c, n
<1>6. Content' = [k \in 1..(n + 1) |-> IF k = 1 THEN value[t] ELSE Content[k - 1]]
  <2>1. Content' = [k \in 1..(n + 1) |-> data[IF k = 1 THEN node[t] ELSE c[k - 1]]]
    BY <1>3, <1>5
  <2>2. \A k \in 1..(n + 1) : data[IF k = 1 THEN node[t] ELSE c[k - 1]]
                              = IF k = 1 THEN value[t] ELSE Content[k - 1]
    <3> TAKE k \in 1..(n + 1)
    <3>1. k # 1 => k - 1 \in 1..n
      BY <1>4
    <3> QED BY <1>1, <1>4, <3>1
  <2> QED BY <2>1, <2>2
<1>7. <<value[t]>> \o Content = [k \in 1..(n + 1) |-> IF k = 1 THEN value[t] ELSE Content[k - 1]]
  BY <1>1, <1>4
<1> QED BY <1>1, <1>6, <1>7

\* Every other step leaves them alone.
LEMMA ContentElse ==
    ASSUME NInv, [Next]_vars,
           ~\E t \in Threads : PopCas(t) /\ top["index"] = seen[t],
           ~\E t \in Threads : PushCas(t) /\ top["index"] = seen[t]
    PROVE  Content' = Content
<1>0. "index" \in Stacks /\ top \in [Stacks -> Tops] /\ next \in [Stacks -> [Nodes -> Nodes \cup {Null}]]
      /\ data \in [Nodes -> Indices] /\ "pool" \in Stacks
  BY DEF Stacks, NInv, StackType
<1>1. ASSUME NEW t \in Threads, Owns(t) PROVE ~On("index", node[t]) /\ node[t] \in Nodes
  BY <1>0, <1>1 DEF NInv, PlaceInv, StackType
<1>2. CASE UNCHANGED sharedVars
  BY <1>2, ContentStays DEF sharedVars
<1>3. ASSUME NEW t \in Threads, FreeTop(t) PROVE Content' = Content
  <2>1. top' = top /\ next'["index"] = next["index"] /\ data' = data
    BY <1>0, <1>3 DEF FreeTop
  <2> QED BY <2>1, ContentStays
<1>4. ASSUME NEW t \in Threads, PushTop(t) PROVE Content' = Content
  <2>1. ~On("index", node[t]) /\ node[t] \in Nodes
    BY <1>1, <1>4 DEF PushTop, Owns
  <2>2. top' = top /\ \A x \in Nodes : x # node[t] => next'["index"][x] = next["index"][x] /\ data'[x] = data[x]
    BY <1>0, <1>4, <2>1 DEF PushTop
  <2> QED BY <2>1, <2>2, ContentStays
<1>5. ASSUME NEW t \in Threads, AllocTop(t) PROVE Content' = Content
  BY <1>5, ContentStays DEF AllocTop
<1>6. ASSUME NEW t \in Threads, AllocCas(t) \/ FreeCas(t) PROVE Content' = Content
  <2>1. top'["index"] = top["index"] /\ next' = next /\ data' = data
    BY <1>0, <1>6 DEF AllocCas, FreeCas, Swing
  <2> QED BY <2>1, ContentStays
<1>7. ASSUME NEW t \in Threads, PopCas(t) \/ PushCas(t) PROVE Content' = Content
  <2>1. top["index"] # seen[t]
    BY <1>7
  <2>2. top' = top /\ next' = next /\ data' = data
    BY <1>7, <2>1 DEF PopCas, PushCas
  <2> QED BY <2>2, ContentStays
<1>8. ASSUME NEW t \in Threads, GetFreeIndex(t) \/ ReleaseFreeIndex(t) \/ PopTop(t) \/ PopData(t)
                                \/ PopNext(t) \/ AllocNext(t)
      PROVE  UNCHANGED sharedVars
  BY <1>8 DEF GetFreeIndex, ReleaseFreeIndex, PopTop, PopData, PopNext, AllocNext
<1>9. Advance \/ UNCHANGED vars => UNCHANGED sharedVars
  BY DEF Advance, vars
<1> QED BY <1>2, <1>3, <1>4, <1>5, <1>6, <1>7, <1>8, <1>9 DEF Next, Step, Pop, Push

\* There is no index on the stack at first.
LEMMA InitEmpty == Init => Content = <<>>
<1> SUFFICES ASSUME Init PROVE Content = <<>>
  OBVIOUS
<1>1. NInv
  BY InitNInv
<1>2. top["index"].ptr = Null
  BY DEF Init
<1>3. Len(Chain("index")) = 0
  <2>1. /\ Linked(Chain("index"), Len(Chain("index")), top["index"].ptr, next["index"])
        /\ Len(Chain("index")) \in Nat /\ Chain("index") \in [1..Len(Chain("index")) -> Nodes]
    BY <1>1, ChainFacts DEF Stacks
  <2>2. \A x \in Nodes : x # Null
    BY DEF Nodes, Null
  <2> QED BY <1>2, <2>1, <2>2 DEF Linked
<1> QED BY <1>1, <1>3, ContentType

\* ImplementsStack: Push and Pop take effect at their exchange, and Pop returns the
\* index that was pushed last.
THEOREM StackRefinesStack == TagOutlasts => (Spec => ImplementsStack)
<1>1. SUFFICES ASSUME TagOutlasts PROVE Spec => ImplementsStack
  OBVIOUS
<1>2. Init => Stack!StackInit
  <2> SUFFICES ASSUME Init PROVE Content = <<>>
    BY DEF Stack!StackInit, Content
  <2> QED BY InitEmpty
<1>3. NInv /\ [Next]_vars => [Stack!Push \/ Stack!Pop]_Content
  <2> SUFFICES ASSUME NInv, [Next]_vars PROVE [Stack!Push \/ Stack!Pop]_Content
    OBVIOUS
  <2>1. ASSUME NEW t \in Threads, PopCas(t), top["index"] = seen[t] PROVE Stack!Pop
    BY <1>1, <2>1, ContentPopped DEF Stack!Pop, Content
  <2>2. ASSUME NEW t \in Threads, PushCas(t), top["index"] = seen[t] PROVE Stack!Push
    BY <1>1, <2>2, ContentPushed DEF Stack!Push, Content
  <2> QED BY <2>1, <2>2, ContentElse
<1>4. Spec => []NInv
  BY <1>1, StackInvariance
<1> QED BY <1>2, <1>3, <1>4, PTL DEF Spec, ImplementsStack, Stack!Spec, Content

----------------------------------------------------------------------------
\* Indices.

\* A step that moves no index.
LEMMA IndexStays ==
    ASSUME IndexInv, Content' = Content, used' = used,
           \A u \in Threads : /\ Holds(u)' <=> Holds(u)
                              /\ Holds(u) => value'[u] = value[u]
    PROVE  IndexInv'
<1>1. \A i : OnStack(i)' <=> OnStack(i)
  BY DEF OnStack
<1>2. \A u \in Threads : Holds(u)' => value'[u] = value[u] /\ Holds(u)
  OBVIOUS
<1>3. \A i \in Indices : used'[i] \in {0, 1}
  BY DEF IndexInv
<1>4. \A j, k \in 1..Len(Content') : Content'[j] = Content'[k] => j = k
  BY DEF IndexInv
<1>5. \A t, u \in Threads : Holds(t)' /\ Holds(u)' /\ value'[t] = value'[u] => t = u
  BY <1>2 DEF IndexInv
<1>6. \A t \in Threads : Holds(t)' => ~OnStack(value[t])' /\ used'[value'[t]] = 0
  BY <1>1, <1>2 DEF IndexInv
<1>7. \A i \in Indices : used'[i] = 1 => ~OnStack(i)'
  BY <1>1 DEF IndexInv
<1>8. \A i \in Indices :
        used'[i] = 1 \/ OnStack(i)' \/ \E t \in Threads : Holds(t)' /\ value'[t] = i
  BY <1>1 DEF IndexInv
<1> QED BY <1>3, <1>4, <1>5, <1>6, <1>7, <1>8 DEF IndexInv

\* One that moves nothing PhaseInv counts.
LEMMA PhaseStays ==
    ASSUME PhaseInv, NEW t \in Threads, Content' = Content, UNCHANGED <<phase, clients, client>>,
           Popping(t)' <=> Popping(t),
           \A u \in Threads \ {t} : pc'[u] = pc[u],
           pc'[t] # "idle" /\ ~Popping(t)' => Holds(t)',
           pc[t] = "idle" => pc'[t] = "idle" \/ (phase = "constructor" => t = Main)
    PROVE  PhaseInv'
<1>1. OffStack' = OffStack
  BY DEF OffStack, OnStack
<1>2. \A u \in Threads : Popping(u)' <=> Popping(u)
  BY DEF Popping
<1>3. Pending' = Pending
  BY <1>2 DEF Pending
<1>4. phase = "constructor" =>
        \A u \in Threads : ~client'[u] /\ (pc'[u] = "idle" \/ (u = Main /\ Holds(u)'))
  <2> SUFFICES ASSUME phase = "constructor", NEW u \in Threads
               PROVE  ~client[u] /\ (pc'[u] = "idle" \/ (u = Main /\ Holds(u)'))
    OBVIOUS
  <2>1. ~client[u] /\ (pc[u] = "idle" \/ (u = Main /\ Holds(u)))
    BY DEF PhaseInv
  <2>2. CASE u # t
    BY <2>1, <2>2 DEF Holds
  <2>3. CASE u = t
    <3>1. ~Popping(t)
      BY <2>1, <2>3 DEF Popping, Holds
    <3> QED BY <2>1, <2>3, <3>1
  <2> QED BY <2>2, <2>3
<1>5. \A u \in Threads : client'[u] => phase' = "clients"
  BY DEF PhaseInv
<1>6. phase' = "clients" => \A u \in Threads : Popping(u)' => client'[u]
  BY <1>2 DEF PhaseInv
<1>7. phase' = "clients" => IsFiniteSet(Pending') /\ Cardinality(OffStack') + Cardinality(Pending') <= clients'
  BY <1>1, <1>3 DEF PhaseInv
<1> QED BY <1>4, <1>5, <1>6, <1>7 DEF PhaseInv

\* What the client calls can take is there.
LEMMA CountFacts ==
    ASSUME IInv
    PROVE  /\ IsFiniteSet(Indices) /\ IsFiniteSet(OffStack) /\ OffStack \subseteq Indices
           /\ Cardinality(OffStack) \in Nat /\ Cardinality(Indices) \in Nat
           /\ phase = "clients" => Cardinality(Pending) \in Nat
           /\ clients \in Nat /\ clients <= MaxClient /\ MaxClient \in Nat
<1>1. IsFiniteSet(Indices) /\ MaxClient \in Nat
  BY StackAssumption
<1>2. OffStack \subseteq Indices
  BY DEF OffStack
<1>3. IsFiniteSet(OffStack)
  BY <1>1, <1>2, FS_Subset
<1>4. Cardinality(OffStack) \in Nat /\ Cardinality(Indices) \in Nat
  BY <1>1, <1>3, FS_CardinalityType
<1>5. phase = "clients" => Cardinality(Pending) \in Nat
  BY FS_CardinalityType DEF IInv, PhaseInv
<1>6. clients \in Nat /\ clients <= MaxClient
  BY <1>1 DEF IInv, NInv, StackType
<1> QED BY <1>1, <1>2, <1>3, <1>4, <1>5, <1>6

LEMMA AdvanceI ==
    ASSUME IInv, Content' = Content, Advance
    PROVE  IndexInv' /\ PhaseInv'
<1>0. UNCHANGED <<used, clients, pc, client, value>> /\ pc[Main] = "idle" /\ Main \in Threads
  BY StackAssumption DEF Advance, localVars
<1>1. IndexInv'
  BY <1>0, IndexStays DEF IInv, Holds
<1>2. OffStack' = OffStack /\ Pending' = Pending
  BY <1>0 DEF OffStack, OnStack, Pending, Popping
<1>3. CASE phase = "clients" /\ phase' = "running" /\ \A t \in Threads : ~client[t]
  BY <1>0, <1>1, <1>3 DEF PhaseInv
<1>4. CASE phase = "constructor" /\ phase' = "clients" /\ \A i \in Indices : used[i] = 0
  <2>1. \A t \in Threads : ~client[t] /\ pc[t] = "idle"
    BY <1>0, <1>4 DEF IInv, PhaseInv
  <2>2. \A t \in Threads : ~Holds(t) /\ ~Popping(t)
    BY <2>1 DEF Holds, Popping
  <2>3. OffStack = {}
    BY <1>4, <2>2 DEF IInv, IndexInv, OffStack
  <2>4. Pending = {}
    BY <2>1 DEF Pending
  <2>5. IsFiniteSet(Pending') /\ Cardinality(OffStack') = 0 /\ Cardinality(Pending') = 0
    BY <1>2, <2>3, <2>4, FS_EmptySet
  <2>6. clients' \in Nat
    BY <1>0, CountFacts
  <2>7. \A t \in Threads : ~client'[t] /\ ~Popping(t)'
    BY <1>0, <2>1, <2>2 DEF Popping
  <2> QED BY <1>1, <1>4, <2>5, <2>6, <2>7 DEF PhaseInv
<1> QED BY <1>1, <1>3, <1>4 DEF Advance

LEMMA GetFreeIndexI ==
    ASSUME IInv, Content' = Content, NEW t \in Threads, GetFreeIndex(t)
    PROVE  IndexInv' /\ PhaseInv'
<1>0. /\ pc[t] = "idle" /\ pc' = [pc EXCEPT ![t] = "pop"] /\ UNCHANGED <<used, phase, value>>
      /\ pc \in [Threads -> {"idle", "pop", "free", "alloc", "push"} \cup AtIndex \cup AtPool]
  BY DEF GetFreeIndex, Goto, IInv, NInv, StackType
<1>1. pc'[t] = "pop" /\ \A u \in Threads \ {t} : pc'[u] = pc[u]
  BY <1>0
<1>2. IndexInv'
  BY <1>0, <1>1, IndexStays DEF IInv, Holds
<1>3. CASE phase = "running" /\ UNCHANGED <<clients, client>>
  BY <1>0, <1>2, <1>3 DEF IInv, PhaseInv
<1>4. CASE phase = "clients" /\ clients' = clients + 1 /\ client' = [client EXCEPT ![t] = TRUE]
  <2>1. client \in [Threads -> BOOLEAN]
    BY DEF IInv, NInv, StackType
  <2>2. client'[t] /\ \A u \in Threads \ {t} : client'[u] = client[u]
    BY <1>4, <2>1
  <2>3. Pending' = Pending \cup {t} /\ t \notin Pending
    BY <1>0, <1>1, <2>2 DEF Pending, Popping
  <2>4. OffStack' = OffStack
    BY DEF OffStack, OnStack
  <2>5. IsFiniteSet(Pending) /\ Cardinality(OffStack) + Cardinality(Pending) <= clients
    BY <1>4 DEF IInv, PhaseInv
  <2>6. IsFiniteSet(Pending') /\ Cardinality(Pending') = Cardinality(Pending) + 1
    BY <2>3, <2>5, FS_AddElement
  <2>7. Cardinality(OffStack') + Cardinality(Pending') <= clients'
    BY <1>4, <2>4, <2>5, <2>6, CountFacts
  <2>8. \A u \in Threads : Popping(u)' => client'[u]
    <3> SUFFICES ASSUME NEW u \in Threads, u # t, Popping(u)' PROVE client'[u]
      BY <2>2
    <3>1. Popping(u)
      BY <1>1 DEF Popping
    <3>2. client[u]
      BY <1>4, <3>1 DEF IInv, PhaseInv
    <3> QED BY <2>2, <3>2
  <2> QED BY <1>0, <1>2, <1>4, <2>6, <2>7, <2>8 DEF PhaseInv
<1>5. \/ phase = "running" /\ UNCHANGED <<clients, client>>
      \/ phase = "clients" /\ clients' = clients + 1 /\ client' = [client EXCEPT ![t] = TRUE]
  BY DEF GetFreeIndex
<1> QED BY <1>2, <1>3, <1>4, <1>5

\* AcceptThread's Pop may find the stack empty, GetClientSession's does not.
LEMMA PopTopI ==
    ASSUME IInv, EnoughIndices, Content' = Content, NEW t \in Threads, PopTop(t)
    PROVE  IndexInv' /\ PhaseInv'
<1>0. /\ pc[t] = "pop" /\ UNCHANGED <<phase, clients, value>>
      /\ pc \in [Threads -> {"idle", "pop", "free", "alloc", "push"} \cup AtIndex \cup AtPool]
      /\ client \in [Threads -> BOOLEAN]
  BY DEF PopTop, IInv, NInv, StackType
<1>1. CASE top["index"].ptr # Null
  <2>1. pc' = [pc EXCEPT ![t] = "popData"] /\ UNCHANGED <<used, client>>
    BY <1>1 DEF PopTop, Goto
  <2>2. pc'[t] = "popData" /\ \A u \in Threads \ {t} : pc'[u] = pc[u]
    BY <1>0, <2>1
  <2>3. IndexInv'
    BY <1>0, <2>1, <2>2, IndexStays DEF IInv, Holds
  <2>4. PhaseInv'
    BY <1>0, <2>1, <2>2, PhaseStays DEF IInv, Popping
  <2> QED BY <2>3, <2>4
<1>2. CASE top["index"].ptr = Null
  <2>1. /\ pc' = [pc EXCEPT ![t] = "idle"] /\ client' = [client EXCEPT ![t] = FALSE]
        /\ ~client[t] => used' = used
    BY <1>2 DEF PopTop, Goto
  <2>2. pc'[t] = "idle" /\ \A u \in Threads \ {t} : pc'[u] = pc[u]
    BY <1>0, <2>1
  <2>3. ASSUME phase = "clients" PROVE FALSE
    <3>1. client[t] /\ t \in Pending
      BY <1>0, <2>3 DEF IInv, PhaseInv, Popping, Pending
    <3>2. Len(Content) = 0
      <4>1. Len(Content) = Len(Chain("index"))
        BY ContentType DEF IInv
      <4>2. /\ Linked(Chain("index"), Len(Chain("index")), top["index"].ptr, next["index"])
            /\ Len(Chain("index")) \in Nat /\ Chain("index") \in [1..Len(Chain("index")) -> Nodes]
        BY ChainFacts DEF IInv, Stacks
      <4>3. \A x \in Nodes : x # Null
        BY DEF Nodes, Null
      <4> QED BY <1>2, <4>1, <4>2, <4>3 DEF Linked
    <3>3. OffStack = Indices
      BY <3>2 DEF OffStack, OnStack
    <3>4. IsFiniteSet(Pending) /\ Cardinality(OffStack) + Cardinality(Pending) <= clients
      BY <2>3 DEF IInv, PhaseInv
    <3>5. Cardinality(Pending) # 0
      BY <3>1, <3>4, FS_EmptySet
    <3> QED BY <2>3, <3>3, <3>4, <3>5, CountFacts DEF EnoughIndices
  <2>4. phase = "running"
    BY <1>0, <2>3 DEF IInv, NInv, StackType, PhaseInv, Holds
  <2>5. ~client[t] /\ client' = client
    BY <1>0, <2>1, <2>4 DEF IInv, PhaseInv
  <2>6. IndexInv'
    BY <1>0, <2>1, <2>2, <2>5, IndexStays DEF IInv, Holds
  <2>7. PhaseInv'
    BY <1>0, <2>4, <2>5 DEF IInv, PhaseInv
  <2> QED BY <2>6, <2>7
<1> QED BY <1>1, <1>2

\* A step inside a call.
LEMMA InsideI ==
    ASSUME IInv, Content' = Content, NEW t \in Threads, UNCHANGED <<used, phase, clients, client>>,
           \A u \in Threads \ {t} : pc'[u] = pc[u] /\ value'[u] = value[u],
           \/ Popping(t) /\ Popping(t)'
           \/ Holds(t) /\ Holds(t)' /\ value'[t] = value[t]
    PROVE  IndexInv' /\ PhaseInv'
<1>1. (Popping(t) => ~Holds(t)) /\ (Popping(t)' => ~Holds(t)')
  BY DEF Popping, Holds
<1>2. \A u \in Threads : (Holds(u)' <=> Holds(u)) /\ (Holds(u) => value'[u] = value[u])
  BY <1>1 DEF Holds
<1>3. IndexInv'
  BY <1>2, IndexStays DEF IInv
<1>4. (Popping(t)' <=> Popping(t)) /\ pc[t] # "idle" /\ (~Popping(t)' => Holds(t)')
  BY <1>1 DEF Popping, Holds
<1>5. PhaseInv'
  BY <1>4, PhaseStays DEF IInv
<1> QED BY <1>3, <1>5

LEMMA CallI ==
    ASSUME IInv, Content' = Content, NEW t \in Threads,
           \/ PopData(t) \/ PopNext(t) \/ (PopCas(t) /\ top["index"] # seen[t])
           \/ FreeTop(t) \/ (FreeCas(t) /\ top["pool"] # seen[t])
           \/ AllocTop(t) \/ AllocNext(t) \/ AllocCas(t)
           \/ PushTop(t) \/ (PushCas(t) /\ top["index"] # seen[t])
    PROVE  IndexInv' /\ PhaseInv'
<1>0. /\ pc \in [Threads -> {"idle", "pop", "free", "alloc", "push"} \cup AtIndex \cup AtPool]
      /\ value \in [Threads -> Indices]
  BY DEF IInv, NInv, StackType
<1>1. CASE PopData(t)
  <2>1. /\ pc[t] = "popData" /\ pc'[t] = "popNext" /\ UNCHANGED <<used, phase, clients, client>>
        /\ \A u \in Threads \ {t} : pc'[u] = pc[u] /\ value'[u] = value[u]
    BY <1>0, <1>1 DEF PopData, Goto, userVars
  <2> QED BY <2>1, InsideI DEF Popping
<1>2. CASE PopNext(t)
  <2>1. /\ pc[t] = "popNext" /\ pc'[t] = "popCas" /\ UNCHANGED <<used, phase, clients, client>>
        /\ \A u \in Threads \ {t} : pc'[u] = pc[u] /\ value'[u] = value[u]
    BY <1>0, <1>2 DEF PopNext, Goto, userVars
  <2> QED BY <2>1, InsideI DEF Popping
<1>3. CASE PopCas(t) /\ top["index"] # seen[t]
  <2>1. /\ pc[t] = "popCas" /\ pc'[t] = "pop" /\ UNCHANGED <<used, phase, clients, client>>
        /\ \A u \in Threads \ {t} : pc'[u] = pc[u] /\ value'[u] = value[u]
    BY <1>0, <1>3 DEF PopCas, Goto, userVars
  <2> QED BY <2>1, InsideI DEF Popping
<1>4. CASE FreeTop(t)
  <2>1. /\ pc[t] = "free" /\ pc'[t] = "freeCas" /\ UNCHANGED <<used, phase, clients, client, value>>
        /\ \A u \in Threads \ {t} : pc'[u] = pc[u]
    BY <1>0, <1>4 DEF FreeTop, Goto, userVars
  <2> QED BY <2>1, InsideI DEF Holds
<1>5. CASE FreeCas(t) /\ top["pool"] # seen[t]
  <2>1. /\ pc[t] = "freeCas" /\ pc'[t] = "free" /\ UNCHANGED <<used, phase, clients, client, value>>
        /\ \A u \in Threads \ {t} : pc'[u] = pc[u]
    BY <1>0, <1>5 DEF FreeCas, Goto
  <2> QED BY <2>1, InsideI DEF Holds
<1>6. CASE AllocTop(t)
  <2>1. /\ pc[t] = "alloc" /\ pc'[t] \in {"allocNext", "push"} /\ UNCHANGED <<used, phase, clients, client, value>>
        /\ \A u \in Threads \ {t} : pc'[u] = pc[u]
    BY <1>0, <1>6 DEF AllocTop, Goto, userVars
  <2> QED BY <2>1, InsideI DEF Holds
<1>7. CASE AllocNext(t)
  <2>1. /\ pc[t] = "allocNext" /\ pc'[t] = "allocCas" /\ UNCHANGED <<used, phase, clients, client, value>>
        /\ \A u \in Threads \ {t} : pc'[u] = pc[u]
    BY <1>0, <1>7 DEF AllocNext, Goto, userVars
  <2> QED BY <2>1, InsideI DEF Holds
<1>8. CASE AllocCas(t)
  <2>1. /\ pc[t] = "allocCas" /\ pc'[t] \in {"alloc", "push"} /\ UNCHANGED <<used, phase, clients, client, value>>
        /\ \A u \in Threads \ {t} : pc'[u] = pc[u]
    BY <1>0, <1>8 DEF AllocCas, Goto, userVars
  <2> QED BY <2>1, InsideI DEF Holds
<1>9. CASE PushTop(t)
  <2>1. /\ pc[t] = "push" /\ pc'[t] = "pushCas" /\ UNCHANGED <<used, phase, clients, client, value>>
        /\ \A u \in Threads \ {t} : pc'[u] = pc[u]
    BY <1>0, <1>9 DEF PushTop, Goto, userVars
  <2> QED BY <2>1, InsideI DEF Holds
<1>10. CASE PushCas(t) /\ top["index"] # seen[t]
  <2>1. /\ pc[t] = "pushCas" /\ pc'[t] = "push" /\ UNCHANGED <<used, phase, clients, client, value>>
        /\ \A u \in Threads \ {t} : pc'[u] = pc[u]
    BY <1>0, <1>10 DEF PushCas, Goto, userVars
  <2> QED BY <2>1, InsideI DEF Holds
<1> QED BY <1>1, <1>2, <1>3, <1>4, <1>5, <1>6, <1>7, <1>8, <1>9, <1>10

\* An index that is given back is with its thread.
LEMMA ReleaseFreeIndexI ==
    ASSUME IInv, Content' = Content, NEW t \in Threads, ReleaseFreeIndex(t)
    PROVE  IndexInv' /\ PhaseInv'
<1>0. /\ pc \in [Threads -> {"idle", "pop", "free", "alloc", "push"} \cup AtIndex \cup AtPool]
      /\ value \in [Threads -> Indices] /\ used \in [Indices -> Nat] /\ IndexInv
  BY DEF IInv, NInv, StackType
<1>1. PICK i \in Indices : /\ used[i] > 0 /\ used' = [used EXCEPT ![i] = @ - 1]
                           /\ value' = [value EXCEPT ![t] = i]
  BY DEF ReleaseFreeIndex
<1>2. /\ pc[t] = "idle" /\ pc' = [pc EXCEPT ![t] = "alloc"] /\ UNCHANGED <<phase, clients, client>>
      /\ phase = "constructor" => t = Main
  BY DEF ReleaseFreeIndex, Goto
<1>3. /\ pc'[t] = "alloc" /\ value'[t] = i
      /\ \A u \in Threads \ {t} : pc'[u] = pc[u] /\ value'[u] = value[u]
  BY <1>0, <1>1, <1>2
<1>4. used[i] = 1 /\ used'[i] = 0 /\ \A j \in Indices \ {i} : used'[j] = used[j]
  <2>1. used[i] \in {0, 1}
    BY <1>0 DEF IndexInv
  <2> QED BY <1>0, <1>1, <2>1
<1>5. /\ ~Holds(t) /\ Holds(t)' /\ ~Popping(t) /\ ~Popping(t)'
      /\ \A u \in Threads \ {t} : Holds(u)' <=> Holds(u)
  BY <1>2, <1>3 DEF Holds, Popping
<1>6. \A j : OnStack(j)' <=> OnStack(j)
  BY DEF OnStack
<1>7. ~OnStack(i) /\ \A u \in Threads : Holds(u) => value[u] # i
  BY <1>0, <1>4 DEF IndexInv
<1>8. IndexInv'
  <2>1. \A j \in Indices : used'[j] \in {0, 1}
    BY <1>0, <1>4 DEF IndexInv
  <2>2. \A j, k \in 1..Len(Content') : Content'[j] = Content'[k] => j = k
    BY <1>0 DEF IndexInv
  <2>3. \A u, v \in Threads : Holds(u)' /\ Holds(v)' /\ value'[u] = value'[v] => u = v
    BY <1>0, <1>3, <1>5, <1>7 DEF IndexInv
  <2>4. \A u \in Threads : Holds(u)' => ~OnStack(value[u])' /\ used'[value'[u]] = 0
    <3> SUFFICES ASSUME NEW u \in Threads, Holds(u)' PROVE ~OnStack(value[u])' /\ used'[value'[u]] = 0
      OBVIOUS
    <3>1. CASE u = t
      BY <1>3, <1>4, <1>6, <1>7, <3>1
    <3>2. CASE u # t
      <4>1. Holds(u) /\ value'[u] = value[u] /\ value[u] # i /\ value[u] \in Indices
        BY <1>0, <1>3, <1>5, <1>7, <3>2
      <4> QED BY <1>0, <1>4, <1>6, <4>1 DEF IndexInv
    <3> QED BY <3>1, <3>2
  <2>5. \A j \in Indices : used'[j] = 1 => ~OnStack(j)'
    BY <1>0, <1>4, <1>6 DEF IndexInv
  <2>6. \A j \in Indices :
          used'[j] = 1 \/ OnStack(j)' \/ \E u \in Threads : Holds(u)' /\ value'[u] = j
    <3> SUFFICES ASSUME NEW j \in Indices, j # i
                 PROVE  used'[j] = 1 \/ OnStack(j)' \/ \E u \in Threads : Holds(u)' /\ value'[u] = j
      BY <1>3, <1>5
    <3>1. used[j] = 1 \/ OnStack(j) \/ \E u \in Threads : Holds(u) /\ value[u] = j
      BY <1>0 DEF IndexInv
    <3>2. ASSUME NEW u \in Threads, Holds(u), value[u] = j PROVE Holds(u)' /\ value'[u] = j
      BY <1>3, <1>5, <3>2
    <3> QED BY <1>4, <1>6, <3>1, <3>2
  <2> QED BY <2>1, <2>2, <2>3, <2>4, <2>5, <2>6 DEF IndexInv
<1>9. PhaseInv'
  BY <1>2, <1>3, <1>5, PhaseStays DEF IInv
<1> QED BY <1>8, <1>9

\* A Pop is over and its index in use.
LEMMA FreeCasI ==
    ASSUME IInv, Content' = Content, NEW t \in Threads, FreeCas(t), top["pool"] = seen[t]
    PROVE  IndexInv' /\ PhaseInv'
<1>0. /\ pc \in [Threads -> {"idle", "pop", "free", "alloc", "push"} \cup AtIndex \cup AtPool]
      /\ value \in [Threads -> Indices] /\ used \in [Indices -> Nat] /\ client \in [Threads -> BOOLEAN]
      /\ IndexInv
  BY DEF IInv, NInv, StackType
<1>1. /\ pc[t] = "freeCas" /\ pc' = [pc EXCEPT ![t] = "idle"] /\ UNCHANGED <<phase, clients>>
      /\ client' = [client EXCEPT ![t] = FALSE] /\ used' = [used EXCEPT ![value[t]] = @ + 1]
      /\ value' = [value EXCEPT ![t] = NoIndex]
  BY DEF FreeCas, Goto
<1> DEFINE i == value[t]
<1>2. /\ pc'[t] = "idle" /\ i \in Indices
      /\ \A u \in Threads \ {t} : pc'[u] = pc[u] /\ value'[u] = value[u]
  BY <1>0, <1>1
<1>3. Holds(t) /\ ~Holds(t)' /\ ~Popping(t) /\ ~Popping(t)'
  BY <1>1, <1>2 DEF Holds, Popping
<1>4. \A u \in Threads \ {t} : (Holds(u)' <=> Holds(u)) /\ (Popping(u)' <=> Popping(u))
  BY <1>2 DEF Holds, Popping
<1>5. used[i] = 0 /\ ~OnStack(i) /\ \A u \in Threads \ {t} : Holds(u) => value[u] # i
  BY <1>0, <1>3 DEF IndexInv
<1>6. used'[i] = 1 /\ \A j \in Indices \ {i} : used'[j] = used[j]
  BY <1>0, <1>1, <1>2, <1>5
<1>7. \A j : OnStack(j)' <=> OnStack(j)
  BY DEF OnStack
<1> HIDE DEF i
<1>8. IndexInv'
  <2>1. \A j \in Indices : used'[j] \in {0, 1}
    BY <1>0, <1>6 DEF IndexInv
  <2>2. \A j, k \in 1..Len(Content') : Content'[j] = Content'[k] => j = k
    BY <1>0 DEF IndexInv
  <2>3. \A u, v \in Threads : Holds(u)' /\ Holds(v)' /\ value'[u] = value'[v] => u = v
    BY <1>0, <1>2, <1>3, <1>4 DEF IndexInv
  <2>4. \A u \in Threads : Holds(u)' => ~OnStack(value[u])' /\ used'[value'[u]] = 0
    <3> SUFFICES ASSUME NEW u \in Threads, Holds(u)' PROVE ~OnStack(value[u])' /\ used'[value'[u]] = 0
      OBVIOUS
    <3>1. u # t /\ Holds(u) /\ value'[u] = value[u] /\ value[u] # i /\ value[u] \in Indices
      BY <1>0, <1>2, <1>3, <1>4, <1>5
    <3> QED BY <1>0, <1>6, <1>7, <3>1 DEF IndexInv
  <2>5. \A j \in Indices : used'[j] = 1 => ~OnStack(j)'
    BY <1>0, <1>5, <1>6, <1>7 DEF IndexInv
  <2>6. \A j \in Indices :
          used'[j] = 1 \/ OnStack(j)' \/ \E u \in Threads : Holds(u)' /\ value'[u] = j
    <3> SUFFICES ASSUME NEW j \in Indices, j # i
                 PROVE  used'[j] = 1 \/ OnStack(j)' \/ \E u \in Threads : Holds(u)' /\ value'[u] = j
      BY <1>6
    <3>1. used[j] = 1 \/ OnStack(j) \/ \E u \in Threads : Holds(u) /\ value[u] = j
      BY <1>0 DEF IndexInv
    <3>2. ASSUME NEW u \in Threads, Holds(u), value[u] = j PROVE Holds(u)' /\ value'[u] = j
      BY <1>2, <1>4, <3>2 DEF i
    <3> QED BY <1>6, <1>7, <3>1, <3>2
  <2> QED BY <2>1, <2>2, <2>3, <2>4, <2>5, <2>6 DEF IndexInv
<1>9. PhaseInv'
  <2>0. PhaseInv
    BY DEF IInv
  <2>1. ~client'[t] /\ \A u \in Threads \ {t} : client'[u] = client[u]
    BY <1>0, <1>1
  <2>2. OffStack' = OffStack
    BY DEF OffStack, OnStack
  <2>3. Pending' = Pending
    BY <1>3, <1>4, <2>1 DEF Pending
  <2>4. phase = "constructor" =>
          \A u \in Threads : ~client'[u] /\ (pc'[u] = "idle" \/ (u = Main /\ Holds(u)'))
    <3> SUFFICES ASSUME phase = "constructor", NEW u \in Threads
                 PROVE  ~client'[u] /\ (pc'[u] = "idle" \/ (u = Main /\ Holds(u)'))
      OBVIOUS
    <3>1. ~client[u] /\ (pc[u] = "idle" \/ (u = Main /\ Holds(u)))
      BY <2>0 DEF PhaseInv
    <3> QED BY <1>2, <1>4, <2>1, <3>1
  <2>5. \A u \in Threads : client'[u] => phase' = "clients"
    BY <1>1, <2>0, <2>1 DEF PhaseInv
  <2>6. phase' = "clients" => \A u \in Threads : Popping(u)' => client'[u]
    BY <1>1, <1>3, <1>4, <2>0, <2>1 DEF PhaseInv
  <2>7. phase' = "clients" => IsFiniteSet(Pending') /\ Cardinality(OffStack') + Cardinality(Pending') <= clients'
    BY <1>1, <2>0, <2>2, <2>3 DEF PhaseInv
  <2> QED BY <1>1, <2>4, <2>5, <2>6, <2>7 DEF PhaseInv
<1> QED BY <1>8, <1>9

\* The indices that a Pop's exchange leaves on the stack.
LEMMA PoppedFromStack ==
    ASSUME NInv, Content # <<>>, Content' = Tail(Content),
           \A j, k \in 1..Len(Content) : Content[j] = Content[k] => j = k
    PROVE  /\ \A i : OnStack(i)' <=> OnStack(i) /\ i # Content[1]
           /\ OnStack(Content[1]) /\ Content[1] \in Indices
           /\ \A j, k \in 1..Len(Content') : Content'[j] = Content'[k] => j = k
<1> DEFINE c == Content
           n == Len(Content)
<1>1. c \in Seq(Indices) /\ c # <<>>
  BY ContentType
<1>2. n \in Nat /\ n >= 1 /\ Len(Tail(c)) = n - 1 /\ \A k \in 1..(n - 1) : Tail(c)[k] = c[k + 1]
  BY <1>1
<1>3. \A i : OnStack(i)' <=> \E k \in 1..(n - 1) : c[k + 1] = i
  BY <1>2 DEF OnStack
<1>4. \A i : OnStack(i) <=> \E k \in 1..n : c[k] = i
  BY DEF OnStack
<1>5. \A j, k \in 1..n : c[j] = c[k] => j = k
  OBVIOUS
<1>6. c[1] \in Indices
  BY <1>1, <1>2
<1>7. Len(Content') = n - 1 /\ \A k \in 1..(n - 1) : Content'[k] = c[k + 1]
  BY <1>2
<1> HIDE DEF c, n
<1>8. \A i : (\E k \in 1..(n - 1) : c[k + 1] = i) <=> (\E k \in 1..n : c[k] = i) /\ i # c[1]
  <2> TAKE i
  <2>1. ASSUME NEW k \in 1..(n - 1), c[k + 1] = i PROVE (\E m \in 1..n : c[m] = i) /\ i # c[1]
    <3>1. k + 1 \in 1..n /\ 1 \in 1..n /\ k + 1 # 1
      BY <1>2
    <3> QED BY <1>5, <2>1, <3>1
  <2>2. ASSUME NEW k \in 1..n, c[k] = i, i # c[1] PROVE \E m \in 1..(n - 1) : c[m + 1] = i
    <3>1. k - 1 \in 1..(n - 1) /\ (k - 1) + 1 = k
      BY <1>2, <2>2
    <3> QED BY <2>2, <3>1
  <2> QED BY <2>1, <2>2
<1>9. \A j, k \in 1..(n - 1) : c[j + 1] = c[k + 1] => j = k
  <2> TAKE j, k \in 1..(n - 1)
  <2>1. j + 1 \in 1..n /\ k + 1 \in 1..n
    BY <1>2
  <2> QED BY <1>2, <1>5, <2>1
<1>10. OnStack(c[1])
  BY <1>2, <1>4
<1>11. \A j, k \in 1..Len(Content') : Content'[j] = Content'[k] => j = k
  BY <1>7, <1>9
<1>12. \A i : OnStack(i)' <=> OnStack(i) /\ i # c[1]
  BY <1>3, <1>4, <1>8
<1> QED BY <1>6, <1>10, <1>11, <1>12 DEF c

\* The exchange of Pop: the index is with its thread.
LEMMA PopCasI ==
    ASSUME IInv, TagOutlasts, NEW t \in Threads, PopCas(t), top["index"] = seen[t]
    PROVE  IndexInv' /\ PhaseInv'
<1>0. /\ pc \in [Threads -> {"idle", "pop", "free", "alloc", "push"} \cup AtIndex \cup AtPool]
      /\ value \in [Threads -> Indices] /\ IndexInv /\ PhaseInv /\ NInv
  BY DEF IInv, NInv, StackType
<1>1. pc[t] = "popCas" /\ pc' = [pc EXCEPT ![t] = "free"] /\ UNCHANGED <<phase, clients, client, used, value>>
  BY DEF PopCas, Goto, userVars
<1>2. Content # <<>> /\ Content' = Tail(Content) /\ value[t] = Content[1]
  BY <1>0, ContentPopped
<1> DEFINE i == value[t]
<1>3. /\ \A j : OnStack(j)' <=> OnStack(j) /\ j # i
      /\ OnStack(i) /\ i \in Indices
      /\ \A j, k \in 1..Len(Content') : Content'[j] = Content'[k] => j = k
  <2>1. \A j, k \in 1..Len(Content) : Content[j] = Content[k] => j = k
    BY <1>0 DEF IndexInv
  <2> QED BY <1>0, <1>2, <2>1, PoppedFromStack
<1>4. pc'[t] = "free" /\ \A u \in Threads \ {t} : pc'[u] = pc[u]
  BY <1>0, <1>1
<1>5. /\ Popping(t) /\ ~Popping(t)' /\ ~Holds(t) /\ Holds(t)'
      /\ \A u \in Threads \ {t} : (Holds(u)' <=> Holds(u)) /\ (Popping(u)' <=> Popping(u))
  BY <1>1, <1>4 DEF Holds, Popping
<1>6. used[i] = 0 /\ \A u \in Threads : Holds(u) => value[u] # i
  BY <1>0, <1>3 DEF IndexInv
<1> HIDE DEF i
<1>7. IndexInv'
  <2>1. \A j \in Indices : used'[j] \in {0, 1}
    BY <1>0, <1>1 DEF IndexInv
  <2>3. \A u, v \in Threads : Holds(u)' /\ Holds(v)' /\ value'[u] = value'[v] => u = v
    BY <1>0, <1>1, <1>5, <1>6 DEF IndexInv, i
  <2>4. \A u \in Threads : Holds(u)' => ~OnStack(value[u])' /\ used'[value'[u]] = 0
    <3> SUFFICES ASSUME NEW u \in Threads, Holds(u)' PROVE ~OnStack(value[u])' /\ used[value[u]] = 0
      BY <1>1
    <3>0. OnStack(value[u])' <=> OnStack(value[u]) /\ value[u] # i
      BY <1>1, <1>3
    <3>1. CASE u = t
      BY <1>6, <3>0, <3>1 DEF i
    <3>2. CASE u # t
      BY <1>0, <1>5, <3>0, <3>2 DEF IndexInv
    <3> QED BY <3>1, <3>2
  <2>5. \A j \in Indices : used'[j] = 1 => ~OnStack(j)'
    BY <1>0, <1>1, <1>3 DEF IndexInv
  <2>6. \A j \in Indices :
          used'[j] = 1 \/ OnStack(j)' \/ \E u \in Threads : Holds(u)' /\ value'[u] = j
    <3> SUFFICES ASSUME NEW j \in Indices, j # i
                 PROVE  used[j] = 1 \/ OnStack(j)' \/ \E u \in Threads : Holds(u)' /\ value[u] = j
      BY <1>1, <1>5 DEF i
    <3>1. used[j] = 1 \/ OnStack(j) \/ \E u \in Threads : Holds(u) /\ value[u] = j
      BY <1>0 DEF IndexInv
    <3> QED BY <1>3, <1>5, <3>1
  <2> QED BY <1>3, <2>1, <2>3, <2>4, <2>5, <2>6 DEF IndexInv
<1>8. PhaseInv'
  <2>1. phase # "constructor"
    BY <1>0, <1>1 DEF PhaseInv, Holds
  <2>2. \A u \in Threads : client'[u] => phase' = "clients"
    BY <1>0, <1>1 DEF PhaseInv
  <2>3. ASSUME phase = "clients"
        PROVE  /\ \A u \in Threads : Popping(u)' => client'[u]
               /\ IsFiniteSet(Pending') /\ Cardinality(OffStack') + Cardinality(Pending') <= clients'
    <3>1. client[t] /\ t \in Pending
      BY <1>0, <1>5, <2>3 DEF PhaseInv, Pending
    <3>2. Pending' = Pending \ {t}
      BY <1>1, <1>5 DEF Pending
    <3>3. OffStack' = OffStack \cup {i} /\ i \notin OffStack
      BY <1>3 DEF OffStack
    <3>4. IsFiniteSet(Pending) /\ Cardinality(OffStack) + Cardinality(Pending) <= clients
      BY <1>0, <2>3 DEF PhaseInv
    <3>5. IsFiniteSet(Pending') /\ Cardinality(Pending') = Cardinality(Pending) - 1
      BY <3>1, <3>2, <3>4, FS_RemoveElement
    <3>6. Cardinality(OffStack') = Cardinality(OffStack) + 1
      BY <3>3, CountFacts, FS_AddElement
    <3>7. Cardinality(OffStack') + Cardinality(Pending') <= clients'
      BY <1>1, <2>3, <3>4, <3>5, <3>6, CountFacts
    <3>8. \A u \in Threads : Popping(u)' => client'[u]
      BY <1>0, <1>1, <1>5, <2>3 DEF PhaseInv
    <3> QED BY <3>5, <3>7, <3>8
  <2> QED BY <1>1, <2>1, <2>2, <2>3 DEF PhaseInv
<1> QED BY <1>7, <1>8

\* The indices that a Push's exchange leaves on the stack.
LEMMA PushedOnStack ==
    ASSUME NInv, NEW i \in Indices, ~OnStack(i), Content' = <<i>> \o Content,
           \A j, k \in 1..Len(Content) : Content[j] = Content[k] => j = k
    PROVE  /\ \A x : OnStack(x)' <=> OnStack(x) \/ x = i
           /\ \A j, k \in 1..Len(Content') : Content'[j] = Content'[k] => j = k
<1> DEFINE c == Content
           d == <<i>> \o Content
           n == Len(Content)
<1>1. c \in Seq(Indices)
  BY ContentType
<1>2. /\ n \in Nat /\ Len(d) = n + 1 /\ d[1] = i
      /\ \A k \in 1..n : d[k + 1] = c[k]
  BY <1>1
<1>3. \A x : OnStack(x)' <=> \E k \in 1..(n + 1) : d[k] = x
  BY <1>2 DEF OnStack
<1>4. \A x : OnStack(x) <=> \E k \in 1..n : c[k] = x
  BY DEF OnStack
<1>5. \A j, k \in 1..n : c[j] = c[k] => j = k
  OBVIOUS
<1>6. Content' = d /\ \A k \in 1..n : c[k] # i
  BY <1>4
<1> HIDE DEF c, d, n
<1>7. \A k \in 1..(n + 1) : k # 1 => k - 1 \in 1..n /\ d[k] = c[k - 1]
  <2> SUFFICES ASSUME NEW k \in 1..(n + 1), k # 1 PROVE k - 1 \in 1..n /\ d[k] = c[k - 1]
    OBVIOUS
  <2>1. k - 1 \in 1..n /\ (k - 1) + 1 = k
    BY <1>2
  <2>2. d[(k - 1) + 1] = c[k - 1]
    BY <1>2, <2>1
  <2> QED BY <2>1, <2>2
<1>8. \A x : (\E k \in 1..(n + 1) : d[k] = x) <=> (\E k \in 1..n : c[k] = x) \/ x = i
  <2> TAKE x
  <2>1. ASSUME NEW k \in 1..(n + 1), d[k] = x PROVE (\E m \in 1..n : c[m] = x) \/ x = i
    BY <1>2, <1>7, <2>1
  <2>2. ASSUME NEW k \in 1..n, c[k] = x PROVE \E m \in 1..(n + 1) : d[m] = x
    <3>1. k + 1 \in 1..(n + 1)
      BY <1>2
    <3> QED BY <1>2, <2>2, <3>1
  <2>3. 1 \in 1..(n + 1)
    BY <1>2
  <2> QED BY <1>2, <2>1, <2>2, <2>3
<1>9. \A j, k \in 1..(n + 1) : d[j] = d[k] => j = k
  <2> SUFFICES ASSUME NEW j \in 1..(n + 1), NEW k \in 1..(n + 1), d[j] = d[k] PROVE j = k
    OBVIOUS
  <2>1. CASE j # 1 /\ k # 1
    <3>1. j - 1 = k - 1
      BY <1>5, <1>7, <2>1
    <3> QED BY <1>2, <3>1
  <2>2. CASE j = 1 \/ k = 1
    BY <1>2, <1>6, <1>7, <2>2
  <2> QED BY <2>1, <2>2
<1>10. \A j, k \in 1..Len(Content') : Content'[j] = Content'[k] => j = k
  BY <1>2, <1>6, <1>9
<1> QED BY <1>3, <1>4, <1>8, <1>10

\* The exchange of Push: the index is free.
LEMMA PushCasI ==
    ASSUME IInv, TagOutlasts, NEW t \in Threads, PushCas(t), top["index"] = seen[t]
    PROVE  IndexInv' /\ PhaseInv'
<1>0. /\ pc \in [Threads -> {"idle", "pop", "free", "alloc", "push"} \cup AtIndex \cup AtPool]
      /\ value \in [Threads -> Indices] /\ IndexInv /\ PhaseInv /\ NInv
  BY DEF IInv, NInv, StackType
<1>1. /\ pc[t] = "pushCas" /\ pc' = [pc EXCEPT ![t] = "idle"] /\ UNCHANGED <<phase, clients, client, used>>
      /\ value' = [value EXCEPT ![t] = NoIndex]
  BY DEF PushCas, Goto, userVars
<1> DEFINE i == value[t]
<1>2. Content' = <<i>> \o Content /\ i \in Indices
  BY <1>0, ContentPushed
<1>3. /\ pc'[t] = "idle"
      /\ \A u \in Threads \ {t} : pc'[u] = pc[u] /\ value'[u] = value[u]
  BY <1>0, <1>1
<1>4. /\ ~Popping(t) /\ ~Popping(t)' /\ Holds(t) /\ ~Holds(t)'
      /\ \A u \in Threads \ {t} : (Holds(u)' <=> Holds(u)) /\ (Popping(u)' <=> Popping(u))
  BY <1>1, <1>3 DEF Holds, Popping
<1>5. used[i] = 0 /\ ~OnStack(i) /\ \A u \in Threads \ {t} : Holds(u) => value[u] # i
  BY <1>0, <1>4 DEF IndexInv
<1> HIDE DEF i
<1>6. /\ \A x : OnStack(x)' <=> OnStack(x) \/ x = i
      /\ \A j, k \in 1..Len(Content') : Content'[j] = Content'[k] => j = k
  <2>1. \A j, k \in 1..Len(Content) : Content[j] = Content[k] => j = k
    BY <1>0 DEF IndexInv
  <2> QED BY <1>0, <1>2, <1>5, <2>1, PushedOnStack
<1>7. IndexInv'
  <2>1. \A j \in Indices : used'[j] \in {0, 1}
    BY <1>0, <1>1 DEF IndexInv
  <2>3. \A u, v \in Threads : Holds(u)' /\ Holds(v)' /\ value'[u] = value'[v] => u = v
    BY <1>0, <1>3, <1>4 DEF IndexInv
  <2>4. \A u \in Threads : Holds(u)' => ~OnStack(value[u])' /\ used'[value'[u]] = 0
    <3> SUFFICES ASSUME NEW u \in Threads, Holds(u)' PROVE ~OnStack(value[u])' /\ used'[value'[u]] = 0
      OBVIOUS
    <3>1. u # t /\ Holds(u) /\ value'[u] = value[u] /\ value[u] # i
      BY <1>3, <1>4, <1>5
    <3>2. ~OnStack(value[u]) /\ used[value[u]] = 0
      BY <1>0, <3>1 DEF IndexInv
    <3> QED BY <1>1, <1>6, <3>1, <3>2
  <2>5. \A j \in Indices : used'[j] = 1 => ~OnStack(j)'
    BY <1>0, <1>1, <1>5, <1>6 DEF IndexInv
  <2>6. \A j \in Indices :
          used'[j] = 1 \/ OnStack(j)' \/ \E u \in Threads : Holds(u)' /\ value'[u] = j
    <3> SUFFICES ASSUME NEW j \in Indices, j # i
                 PROVE  used'[j] = 1 \/ OnStack(j)' \/ \E u \in Threads : Holds(u)' /\ value'[u] = j
      BY <1>6
    <3>1. used[j] = 1 \/ OnStack(j) \/ \E u \in Threads : Holds(u) /\ value[u] = j
      BY <1>0 DEF IndexInv
    <3>2. ASSUME NEW u \in Threads, Holds(u), value[u] = j PROVE Holds(u)' /\ value'[u] = j
      BY <1>3, <1>4, <3>2 DEF i
    <3> QED BY <1>1, <1>6, <3>1, <3>2
  <2> QED BY <1>6, <2>1, <2>3, <2>4, <2>5, <2>6 DEF IndexInv
<1>8. PhaseInv'
  <2>1. OffStack' = OffStack \ {i} /\ i \in OffStack
    BY <1>2, <1>5, <1>6 DEF OffStack
  <2>2. Pending' = Pending
    BY <1>1, <1>4 DEF Pending
  <2>3. Cardinality(OffStack') = Cardinality(OffStack) - 1
    BY <2>1, CountFacts, FS_RemoveElement
  <2>4. phase = "constructor" =>
          \A u \in Threads : ~client'[u] /\ (pc'[u] = "idle" \/ (u = Main /\ Holds(u)'))
    <3> SUFFICES ASSUME phase = "constructor", NEW u \in Threads
                 PROVE  ~client[u] /\ (pc'[u] = "idle" \/ (u = Main /\ Holds(u)'))
      BY <1>1
    <3>1. ~client[u] /\ (pc[u] = "idle" \/ (u = Main /\ Holds(u)))
      BY <1>0 DEF PhaseInv
    <3> QED BY <1>3, <1>4, <3>1
  <2>5. \A u \in Threads : client'[u] => phase' = "clients"
    BY <1>0, <1>1 DEF PhaseInv
  <2>6. phase' = "clients" => \A u \in Threads : Popping(u)' => client'[u]
    BY <1>0, <1>1, <1>4 DEF PhaseInv
  <2>7. phase' = "clients" => IsFiniteSet(Pending') /\ Cardinality(OffStack') + Cardinality(Pending') <= clients'
    <3> SUFFICES ASSUME phase = "clients"
                 PROVE  IsFiniteSet(Pending) /\ Cardinality(OffStack') + Cardinality(Pending) <= clients
      BY <1>1, <2>2
    <3>1. IsFiniteSet(Pending) /\ Cardinality(OffStack) + Cardinality(Pending) <= clients
      BY <1>0 DEF PhaseInv
    <3> QED BY <2>3, <3>1, CountFacts
  <2> QED BY <1>1, <2>4, <2>5, <2>6, <2>7 DEF PhaseInv
<1> QED BY <1>7, <1>8

LEMMA InitIInv == Init => IInv
<1> SUFFICES ASSUME Init PROVE IInv
  OBVIOUS
<1>1. NInv
  BY InitNInv
<1>2. Content = <<>>
  BY InitEmpty
<1>3. Len(Content) = 0
  BY <1>2
<1>4. \A i : ~OnStack(i)
  BY <1>3 DEF OnStack
<1>5. \A t \in Threads : pc[t] = "idle" /\ ~client[t] /\ ~Holds(t)
  BY DEF Init, Holds
<1>6. phase = "constructor" /\ \A i \in Indices : used[i] = 1
  BY DEF Init
<1>7. IndexInv
  BY <1>3, <1>4, <1>5, <1>6 DEF IndexInv
<1>8. PhaseInv
  BY <1>5, <1>6 DEF PhaseInv
<1> QED BY <1>1, <1>7, <1>8 DEF IInv

LEMMA NextIInv ==
    ASSUME IInv, TagOutlasts, EnoughIndices, [Next]_vars
    PROVE  IInv'
<1>0. NInv /\ NInv'
  BY NextNInv DEF IInv
<1>1. ASSUME NEW t \in Threads, PopCas(t), top["index"] = seen[t] PROVE IndexInv' /\ PhaseInv'
  BY <1>1, PopCasI
<1>2. ASSUME NEW t \in Threads, PushCas(t), top["index"] = seen[t] PROVE IndexInv' /\ PhaseInv'
  BY <1>2, PushCasI
<1>3. ASSUME ~\E t \in Threads : PopCas(t) /\ top["index"] = seen[t],
             ~\E t \in Threads : PushCas(t) /\ top["index"] = seen[t]
      PROVE  IndexInv' /\ PhaseInv'
  <2>1. Content' = Content
    BY <1>0, <1>3, ContentElse
  <2>2. CASE Advance
    BY <2>1, <2>2, AdvanceI
  <2>3. ASSUME NEW t \in Threads, GetFreeIndex(t) \/ ReleaseFreeIndex(t) PROVE IndexInv' /\ PhaseInv'
    BY <2>1, <2>3, GetFreeIndexI, ReleaseFreeIndexI
  <2>4. ASSUME NEW t \in Threads, Pop(t) PROVE IndexInv' /\ PhaseInv'
    <3>1. \/ PopTop(t)
          \/ \/ PopData(t) \/ PopNext(t) \/ (PopCas(t) /\ top["index"] # seen[t])
             \/ FreeTop(t) \/ (FreeCas(t) /\ top["pool"] # seen[t])
          \/ FreeCas(t) /\ top["pool"] = seen[t]
      <4>1. PopCas(t) => top["index"] # seen[t]
        BY <1>3
      <4>2. PopTop(t) \/ PopData(t) \/ PopNext(t) \/ PopCas(t) \/ FreeTop(t) \/ FreeCas(t)
        BY <2>4 DEF Pop
      <4> QED BY <4>1, <4>2
    <3>2. CASE PopTop(t)
      BY <2>1, <3>2, PopTopI
    <3>3. CASE \/ PopData(t) \/ PopNext(t) \/ (PopCas(t) /\ top["index"] # seen[t])
               \/ FreeTop(t) \/ (FreeCas(t) /\ top["pool"] # seen[t])
      BY <2>1, <3>3, CallI
    <3>4. CASE FreeCas(t) /\ top["pool"] = seen[t]
      BY <2>1, <3>4, FreeCasI
    <3> QED BY <3>1, <3>2, <3>3, <3>4
  <2>5. ASSUME NEW t \in Threads, Push(t) PROVE IndexInv' /\ PhaseInv'
    <3>1. \/ AllocTop(t) \/ AllocNext(t) \/ AllocCas(t)
          \/ PushTop(t) \/ (PushCas(t) /\ top["index"] # seen[t])
      <4>1. PushCas(t) => top["index"] # seen[t]
        BY <1>3
      <4>2. AllocTop(t) \/ AllocNext(t) \/ AllocCas(t) \/ PushTop(t) \/ PushCas(t)
        BY <2>5 DEF Push
      <4> QED BY <4>1, <4>2
    <3> QED BY <2>1, <3>1, CallI
  <2>6. CASE UNCHANGED vars
    <3>1. UNCHANGED <<pc, client, value, used, phase, clients>> /\ IndexInv /\ PhaseInv
      BY <2>6 DEF vars, userVars, localVars, IInv
    <3>2. IndexInv'
      BY <2>1, <3>1, IndexStays DEF Holds
    <3>3. OffStack' = OffStack /\ Pending' = Pending
      BY <2>1, <3>1 DEF OffStack, OnStack, Pending, Popping
    <3>4. PhaseInv'
      BY <3>1, <3>3 DEF PhaseInv, Popping, Holds
    <3> QED BY <3>2, <3>4
  <2> QED BY <2>2, <2>3, <2>4, <2>5, <2>6 DEF Next, Step
<1> QED BY <1>0, <1>1, <1>2, <1>3 DEF IInv

\* As long as, besides, GetClientSession is not called more often than there are
\* sessions, an index is on the stack, in use or with one thread, and a Pop of
\* GetClientSession finds the stack with an index on it.
THEOREM StackIndexInvariance == TagOutlasts /\ EnoughIndices => (Spec => []IInv)
<1>1. SUFFICES ASSUME TagOutlasts, EnoughIndices PROVE Spec => []IInv
  OBVIOUS
<1>2. IInv /\ [Next]_vars => IInv'
  BY <1>1, NextIInv
<1> QED BY InitIInv, <1>2, PTL DEF Spec

LEMMA IndicesOnce == IInv => IndexOnce
<1> DEFINE K(i) == {k \in DOMAIN Chain("index") : data[Chain("index")[k]] = i}
           H(i) == {t \in Threads : value[t] = i /\
                      pc[t] \in {"free", "freeCas", "alloc", "allocNext", "allocCas",
                                 "push", "pushCas"}}
<1> SUFFICES ASSUME IInv, NEW i \in Indices
             PROVE  used[i] + Cardinality(K(i)) + Cardinality(H(i)) = 1
  BY DEF IndexOnce
<1>0. NInv /\ IndexInv
  BY DEF IInv
<1>1. /\ K(i) = {k \in 1..Len(Content) : Content[k] = i}
      /\ H(i) = {t \in Threads : value[t] = i /\ Holds(t)}
  <2>1. /\ DOMAIN Chain("index") = 1..Len(Chain("index")) /\ Len(Content) = Len(Chain("index"))
        /\ \A k \in 1..Len(Content) : Content[k] = data[Chain("index")[k]]
    BY <1>0, ChainFacts, ContentType DEF Stacks
  <2> QED BY <2>1 DEF Holds
<1> HIDE DEF K, H
<1>2. ASSUME OnStack(i) PROVE Cardinality(K(i)) = 1
  <2>1. PICK k \in 1..Len(Content) : Content[k] = i
    BY <1>2 DEF OnStack
  <2>2. K(i) = {k}
    BY <1>0, <1>1, <2>1 DEF IndexInv
  <2> QED BY <2>2, FS_Singleton
<1>3. ASSUME ~OnStack(i) PROVE Cardinality(K(i)) = 0
  <2>1. K(i) = {}
    BY <1>1, <1>3 DEF OnStack
  <2> QED BY <2>1, FS_EmptySet
<1>4. ASSUME NEW t \in Threads, Holds(t), value[t] = i
      PROVE  Cardinality(H(i)) = 1 /\ ~OnStack(i) /\ used[i] = 0
  <2>1. H(i) = {t}
    BY <1>0, <1>1, <1>4 DEF IndexInv
  <2>2. ~OnStack(i) /\ used[i] = 0
    BY <1>0, <1>4 DEF IndexInv
  <2> QED BY <2>1, <2>2, FS_Singleton
<1>5. ASSUME ~\E t \in Threads : Holds(t) /\ value[t] = i PROVE Cardinality(H(i)) = 0
  <2>1. H(i) = {}
    BY <1>1, <1>5
  <2> QED BY <2>1, FS_EmptySet
<1>6. /\ used[i] \in {0, 1} /\ (used[i] = 1 => ~OnStack(i))
      /\ used[i] = 1 \/ OnStack(i) \/ \E t \in Threads : Holds(t) /\ value[t] = i
  BY <1>0 DEF IndexInv
<1> QED BY <1>2, <1>3, <1>4, <1>5, <1>6

\* IndexOnce: two sessions never have the same index, and none is lost.
THEOREM StackGivesIndexOnce == TagOutlasts /\ EnoughIndices => (Spec => []IndexOnce)
BY StackIndexInvariance, IndicesOnce, PTL

\* TypeOK; used is a count, and that it stays below 2 is part of IInv.
THEOREM StackTypeCorrect == TagOutlasts /\ EnoughIndices => (Spec => []TypeOK)
<1>1. IInv => TypeOK
  <2> SUFFICES ASSUME IInv PROVE TypeOK
    OBVIOUS
  <2>1. used \in [Indices -> 0..1]
    BY DEF IInv, NInv, StackType, IndexInv
  <2> QED BY <2>1 DEF IInv, NInv, StackType, Stacks, TypeOK
<1> QED BY <1>1, StackIndexInvariance, PTL
==============================================================================
