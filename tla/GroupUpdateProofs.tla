--------------------------- MODULE GroupUpdateProofs ---------------------------
(***************************************************************************)
(* Proofs about GroupUpdate, for any number of workers, groups and calls    *)
(* and any depth of nested calls: a group is run by one Update at a time,   *)
(* and _isRun says whether there is one.                                    *)
(***************************************************************************)
EXTENDS GroupUpdate, FiniteSetTheorems, SequenceTheorems, TLAPS

\* Position i of the steps q is an Update inside its loop on group g; the steps
\* have one, and at most one.
In(q, i, g) == q[i].group = g /\ q[i].op \in {"loop", "end"}
Inside(q, g) == \E i \in 1..Len(q) : In(q, i, g)
Once(q, g) == \A i, j \in 1..Len(q) : In(q, i, g) /\ In(q, j, g) => i = j

\* The inductive invariant: _isRun is set while some thread is inside the group,
\* there is one such thread, and it is inside once.
RunOf(g) ==
    /\ isRun[g] = 1 <=> \E t \in Workers : Inside(todo[t], g)
    /\ \A t \in Workers : Once(todo[t], g)
    /\ \A t, u \in Workers : Inside(todo[t], g) /\ Inside(todo[u], g) => t = u

RunInv == \A g \in Groups : RunOf(g)

UInv == TypeOK /\ RunInv

----------------------------------------------------------------------------
\* The first d steps are done and none of them was inside the group.
LEMMA Dropped ==
    ASSUME NEW S, NEW q \in Seq(S), NEW r \in Seq(S), NEW d \in 0..Len(q), NEW g,
           Len(r) = Len(q) - d, \A j \in 1..Len(r) : r[j] = q[j + d],
           \A j \in 1..d : ~In(q, j, g)
    PROVE  /\ Inside(r, g) <=> Inside(q, g)
           /\ Once(q, g) => Once(r, g)
<1>0. Len(q) \in Nat /\ Len(r) \in Nat /\ d \in Nat
  BY LenProperties
<1>1. ASSUME NEW j \in 1..Len(r) PROVE j + d \in 1..Len(q) /\ (In(r, j, g) <=> In(q, j + d, g))
  BY <1>0 DEF In
<1>2. ASSUME NEW i \in 1..Len(q), In(q, i, g)
      PROVE  i - d \in 1..Len(r) /\ In(r, i - d, g)
  <2>1. i \notin 1..d
    BY <1>2
  <2>2. i - d \in 1..Len(r) /\ (i - d) + d = i
    BY <1>0, <2>1
  <2> QED BY <1>1, <1>2, <2>2
<1>3. Inside(r, g) <=> Inside(q, g)
  BY <1>1, <1>2 DEF Inside
<1>4. ASSUME Once(q, g), NEW i \in 1..Len(r), NEW j \in 1..Len(r), In(r, i, g), In(r, j, g)
      PROVE  i = j
  <2>1. i + d = j + d
    BY <1>1, <1>4 DEF Once
  <2> QED BY <1>0, <2>1
<1> QED BY <1>3, <1>4 DEF Once

\* The first step is replaced by another that is inside the group just as it was.
LEMMA Replaced ==
    ASSUME NEW S, NEW q \in Seq(S), NEW r \in Seq(S), NEW g, q # << >>,
           Len(r) = Len(q), \A j \in 2..Len(q) : r[j] = q[j],
           In(r, 1, g) <=> In(q, 1, g)
    PROVE  /\ Inside(r, g) <=> Inside(q, g)
           /\ Once(q, g) => Once(r, g)
<1>0. Len(q) \in Nat /\ Len(q) >= 1
  BY EmptySeq, LenProperties
<1>1. ASSUME NEW j \in 1..Len(q) PROVE In(r, j, g) <=> In(q, j, g)
  BY <1>0 DEF In
<1> QED BY <1>1 DEF Inside, Once

\* The first step is replaced by the only one inside the group.
LEMMA Entered ==
    ASSUME NEW S, NEW q \in Seq(S), NEW r \in Seq(S), NEW g, q # << >>,
           Len(r) = Len(q), \A j \in 2..Len(q) : r[j] = q[j],
           In(r, 1, g), ~Inside(q, g)
    PROVE  Inside(r, g) /\ Once(r, g)
<1>0. Len(q) \in Nat /\ Len(q) >= 1
  BY EmptySeq, LenProperties
<1>1. ASSUME NEW j \in 1..Len(q), j # 1 PROVE ~In(r, j, g)
  BY <1>0, <1>1 DEF In, Inside
<1> QED BY <1>0, <1>1 DEF Inside, Once

\* Steps that are not inside the group come first.
LEMMA Pushed ==
    ASSUME NEW S, NEW c \in Seq(S), NEW q \in Seq(S), NEW g,
           \A j \in 1..Len(c) : ~In(c, j, g)
    PROVE  /\ Inside(c \o q, g) <=> Inside(q, g)
           /\ Once(q, g) => Once(c \o q, g)
<1> DEFINE r == c \o q
<1>0. Len(q) \in Nat /\ Len(c) \in Nat
  BY LenProperties
<1>1. /\ Len(r) = Len(c) + Len(q)
      /\ \A i \in 1..(Len(c) + Len(q)) : r[i] = IF i <= Len(c) THEN c[i] ELSE q[i - Len(c)]
  BY ConcatProperties
<1> HIDE DEF r
<1>2. ASSUME NEW i \in 1..Len(r), In(r, i, g)
      PROVE  i - Len(c) \in 1..Len(q) /\ In(q, i - Len(c), g)
  <2>1. ~(i <= Len(c))
    <3> SUFFICES ASSUME i <= Len(c) PROVE FALSE
      OBVIOUS
    <3>1. r[i] = c[i] /\ i \in 1..Len(c)
      BY <1>0, <1>1
    <3> QED BY <1>2, <3>1 DEF In
  <2>2. r[i] = q[i - Len(c)] /\ i - Len(c) \in 1..Len(q)
    BY <1>0, <1>1, <2>1
  <2> QED BY <1>2, <2>2 DEF In
<1>3. ASSUME NEW i \in 1..Len(q), In(q, i, g)
      PROVE  i + Len(c) \in 1..Len(r) /\ In(r, i + Len(c), g)
  <2>1. i + Len(c) \in 1..(Len(c) + Len(q)) /\ ~(i + Len(c) <= Len(c)) /\ (i + Len(c)) - Len(c) = i
    BY <1>0
  <2>2. r[i + Len(c)] = q[i]
    BY <1>1, <2>1
  <2> QED BY <1>1, <1>3, <2>1, <2>2 DEF In
<1>4. Inside(r, g) <=> Inside(q, g)
  BY <1>2, <1>3 DEF Inside
<1>5. ASSUME Once(q, g), NEW i \in 1..Len(r), NEW j \in 1..Len(r), In(r, i, g), In(r, j, g)
      PROVE  i = j
  <2>1. i - Len(c) = j - Len(c)
    BY <1>2, <1>5 DEF Once
  <2> QED BY <1>0, <1>1, <2>1
<1> QED BY <1>4, <1>5 DEF Once, r

----------------------------------------------------------------------------
\* What Become makes of the steps of a thread.
After(q, s) == LET rest == s \o Tail(q)
               IN IF rest # <<>> /\ Head(rest) = Unlock THEN Tail(rest) ELSE rest

\* The first step is over, and the Unlock that may follow it.
LEMMA StepOver ==
    ASSUME NEW q \in Seq(Steps), q # << >>, NEW g
    PROVE  /\ After(q, << >>) \in Seq(Steps)
           /\ ~In(q, 1, g) => /\ Inside(After(q, << >>), g) <=> Inside(q, g)
                              /\ Once(q, g) => Once(After(q, << >>), g)
           /\ In(q, 1, g) /\ Once(q, g) => /\ ~Inside(After(q, << >>), g)
                                           /\ Once(After(q, << >>), g)
<1> DEFINE p == Tail(q)  r == After(q, << >>)
<1>1. /\ p \in Seq(Steps) /\ Len(p) = Len(q) - 1 /\ Len(q) \in Nat /\ Len(q) >= 1
      /\ \A j \in 1..Len(p) : p[j] = q[j + 1]
  BY HeadTailProperties, LenProperties, EmptySeq
<1>2. << >> \o p = p
  BY <1>1, ConcatEmptySeq
<1>3. r = IF p # << >> /\ Head(p) = Unlock THEN Tail(p) ELSE p
  BY <1>2 DEF After
<1> HIDE DEF p, r
<1>4. \E d \in 1..Len(q) :
        /\ r \in Seq(Steps) /\ Len(r) = Len(q) - d /\ \A j \in 1..Len(r) : r[j] = q[j + d]
        /\ \A j \in 1..d : j # 1 => ~In(q, j, g)
  <2>1. CASE ~(p # << >> /\ Head(p) = Unlock)
    <3>1. r = p /\ 1 \in 1..Len(q) /\ \A j \in 1..1 : j = 1
      BY <1>1, <1>3, <2>1
    <3> QED BY <1>1, <3>1
  <2>2. CASE p # << >> /\ Head(p) = Unlock
    <3>1. /\ r \in Seq(Steps) /\ Len(r) = Len(p) - 1 /\ Len(p) \in Nat /\ Len(p) >= 1
          /\ \A j \in 1..Len(r) : r[j] = p[j + 1]
      BY <1>1, <1>3, <2>2, HeadTailProperties, LenProperties, EmptySeq
    <3>2. 2 \in 1..Len(q) /\ Len(r) = Len(q) - 2
      BY <1>1, <3>1
    <3>3. ASSUME NEW j \in 1..Len(r) PROVE r[j] = q[j + 2]
      <4>1. j + 1 \in 1..Len(p) /\ (j + 1) + 1 = j + 2
        BY <1>1, <3>1, <3>2
      <4>2. p[j + 1] = q[(j + 1) + 1]
        BY <1>1, <4>1
      <4> QED BY <3>1, <4>1, <4>2
    <3>4. q[2] = Unlock
      <4>1. 1 \in 1..Len(p) /\ 1 + 1 = 2
        BY <3>1
      <4>2. p[1] = q[2]
        BY <1>1, <4>1
      <4>3. Head(p) = p[1]
        BY <1>1, <2>2
      <4> QED BY <2>2, <4>2, <4>3
    <3>5. \A j \in 1..2 : j # 1 => ~In(q, j, g)
      BY <3>4 DEF In, Unlock, Do
    <3> QED BY <3>1, <3>2, <3>3, <3>5
  <2> QED BY <2>1, <2>2
<1>5. PICK d \in 1..Len(q) :
        /\ r \in Seq(Steps) /\ Len(r) = Len(q) - d /\ \A j \in 1..Len(r) : r[j] = q[j + d]
        /\ \A j \in 1..d : j # 1 => ~In(q, j, g)
  BY <1>4
<1>6. d \in 0..Len(q) /\ d \in Nat /\ d >= 1
  BY <1>1
<1>7. ASSUME ~In(q, 1, g)
      PROVE  (Inside(r, g) <=> Inside(q, g)) /\ (Once(q, g) => Once(r, g))
  <2>1. \A j \in 1..d : ~In(q, j, g)
    BY <1>5, <1>7
  <2> QED BY <1>5, <1>6, <2>1, Dropped
<1>8. ASSUME In(q, 1, g), Once(q, g) PROVE ~Inside(r, g) /\ Once(r, g)
  <2>1. ASSUME NEW j \in 1..Len(r) PROVE ~In(r, j, g)
    <3> SUFFICES ASSUME In(r, j, g) PROVE FALSE
      OBVIOUS
    <3>1. j + d \in 1..Len(q) /\ 1 \in 1..Len(q) /\ j + d # 1
      BY <1>1, <1>5, <1>6
    <3>2. In(q, j + d, g)
      BY <1>5 DEF In
    <3> QED BY <1>8, <3>1, <3>2 DEF Once
  <2> QED BY <2>1 DEF Inside, Once
<1> QED BY <1>5, <1>7, <1>8 DEF r, In, Inside, Once

\* The first step becomes another one.
LEMMA StepBecomes ==
    ASSUME NEW q \in Seq(Steps), q # << >>, NEW x \in Steps, x.op # "unlock", NEW g
    PROVE  /\ After(q, <<x>>) \in Seq(Steps)
           /\ After(q, <<x>>)[1] = x
           /\ (In(<<x>>, 1, g) <=> In(q, 1, g))
                => /\ Inside(After(q, <<x>>), g) <=> Inside(q, g)
                   /\ Once(q, g) => Once(After(q, <<x>>), g)
           /\ In(<<x>>, 1, g) /\ ~Inside(q, g)
                => Inside(After(q, <<x>>), g) /\ Once(After(q, <<x>>), g)
<1> DEFINE p == Tail(q)  r == <<x>> \o p
<1>1. /\ p \in Seq(Steps) /\ Len(p) = Len(q) - 1 /\ Len(q) \in Nat /\ Len(q) >= 1
      /\ \A j \in 1..Len(p) : p[j] = q[j + 1]
  BY HeadTailProperties, LenProperties, EmptySeq
<1>2. <<x>> \in Seq(Steps) /\ Len(<<x>>) = 1 /\ <<x>>[1] = x
  OBVIOUS
<1>3. /\ r \in Seq(Steps) /\ Len(r) = 1 + Len(p)
      /\ \A i \in 1..(1 + Len(p)) : r[i] = IF i <= 1 THEN <<x>>[i] ELSE p[i - 1]
  BY <1>1, <1>2, ConcatProperties
<1>4. r # << >> /\ r[1] = x /\ Head(r) = x
  <2>1. r # << >>
    BY <1>1, <1>3, EmptySeq
  <2>2. r[1] = x
    BY <1>1, <1>2, <1>3
  <2> QED BY <1>3, <2>1, <2>2
<1>5. After(q, <<x>>) = r
  BY <1>4 DEF After, Unlock, Do
<1> HIDE DEF p, r
<1>6. Len(r) = Len(q) /\ \A j \in 2..Len(q) : r[j] = q[j]
  <2>1. Len(r) = Len(q)
    BY <1>1, <1>3
  <2>2. ASSUME NEW j \in 2..Len(q) PROVE r[j] = q[j]
    <3>1. j \in 1..(1 + Len(p)) /\ ~(j <= 1) /\ j - 1 \in 1..Len(p) /\ (j - 1) + 1 = j
      BY <1>1
    <3> QED BY <1>1, <1>3, <3>1
  <2> QED BY <2>1, <2>2
<1>7. In(r, 1, g) <=> In(<<x>>, 1, g)
  BY <1>2, <1>4 DEF In
<1>9. ASSUME In(<<x>>, 1, g) <=> In(q, 1, g)
      PROVE  (Inside(r, g) <=> Inside(q, g)) /\ (Once(q, g) => Once(r, g))
  <2>1. In(r, 1, g) <=> In(q, 1, g)
    BY <1>7, <1>9
  <2> QED BY <1>3, <1>6, <2>1, Replaced
<1>10. ASSUME In(<<x>>, 1, g), ~Inside(q, g) PROVE Inside(r, g) /\ Once(r, g)
  BY <1>3, <1>6, <1>7, <1>10, Entered
<1>11. r \in Seq(Steps) /\ r[1] = x
  BY <1>3, <1>4
<1> QED BY <1>5, <1>9, <1>10, <1>11 DEF In, Inside, Once

----------------------------------------------------------------------------
\* RunOf after a step of thread t, from what the step does to the thread.
LEMMA RunOfNext ==
    ASSUME NEW g,
           isRun'[g] = 1 <=> \E t \in Workers : Inside(todo'[t], g),
           \A t \in Workers : Once(todo'[t], g),
           \A t, u \in Workers : Inside(todo'[t], g) /\ Inside(todo'[u], g) => t = u
    PROVE  RunOf(g)'
BY DEF RunOf, Inside, Once, In

\* A step that leaves the thread as much inside the group as it was.
LEMMA SameRun ==
    ASSUME NEW t \in Workers, NEW g, RunOf(g), isRun'[g] = isRun[g],
           \A u \in Workers : u # t => todo'[u] = todo[u],
           Inside(todo'[t], g) <=> Inside(todo[t], g),
           Once(todo[t], g) => Once(todo'[t], g)
    PROVE  RunOf(g)'
<1>1. \A u \in Workers : Inside(todo'[u], g) <=> Inside(todo[u], g)
  OBVIOUS
<1>2. \A u \in Workers : Once(todo'[u], g)
  BY DEF RunOf
<1>3. isRun'[g] = 1 <=> \E u \in Workers : Inside(todo'[u], g)
  BY <1>1 DEF RunOf
<1>4. \A v, u \in Workers : Inside(todo'[v], g) /\ Inside(todo'[u], g) => v = u
  BY <1>1 DEF RunOf
<1> QED BY <1>2, <1>3, <1>4, RunOfNext

\* Update's exchange finds the group idle: the thread gets inside.
LEMMA Enters ==
    ASSUME NEW t \in Workers, NEW g, RunOf(g), isRun[g] # 1, isRun'[g] = 1,
           \A u \in Workers : u # t => todo'[u] = todo[u],
           Inside(todo'[t], g), Once(todo'[t], g)
    PROVE  RunOf(g)'
<1>1. \A u \in Workers : ~Inside(todo[u], g)
  BY DEF RunOf
<1>2. \A u \in Workers : Inside(todo'[u], g) <=> u = t
  BY <1>1
<1>3. \A u \in Workers : Once(todo'[u], g)
  BY DEF RunOf
<1> QED BY <1>2, <1>3, RunOfNext

\* Update's end: the one thread inside the group leaves it.
LEMMA Leaves ==
    ASSUME NEW t \in Workers, NEW g, RunOf(g), Inside(todo[t], g), isRun'[g] # 1,
           \A u \in Workers : u # t => todo'[u] = todo[u],
           ~Inside(todo'[t], g), Once(todo'[t], g)
    PROVE  RunOf(g)'
<1>1. \A u \in Workers : Inside(todo[u], g) => u = t
  BY DEF RunOf
<1>2. \A u \in Workers : ~Inside(todo'[u], g)
  BY <1>1
<1>3. \A u \in Workers : Once(todo'[u], g)
  BY DEF RunOf
<1> QED BY <1>2, <1>3, RunOfNext

----------------------------------------------------------------------------
\* What a thread is about to do.
LEMMA AtFacts ==
    ASSUME TypeOK, NEW t \in Workers, NEW op, NEW g, At(t, op, g)
    PROVE  /\ todo[t] \in Seq(Steps) /\ todo[t] # << >> /\ todo[t][1] \in Steps
           /\ todo[t][1] = Head(todo[t]) /\ todo[t][1].op = op /\ todo[t][1].group = g
<1>1. todo[t] \in Seq(Steps) /\ todo[t] # << >>
  BY DEF TypeOK, At
<1>2. 1 \in 1..Len(todo[t])
  BY <1>1, EmptySeq, LenProperties
<1>3. todo[t][1] \in Steps
  BY <1>1, <1>2, ElementOfSeq
<1> QED BY <1>1, <1>3 DEF At

\* A step outside any group is over.
LEMMA OverStep ==
    ASSUME UInv, NEW t \in Workers, NEW op, op \notin {"loop", "end"}, NEW g, At(t, op, g),
           Become(t, << >>), isRun' = isRun
    PROVE  RunInv' /\ todo' \in [Workers -> Seq(Steps)]
<1> DEFINE q == todo[t]
<1>1. q \in Seq(Steps) /\ q # << >> /\ q[1].op = op
  BY AtFacts DEF UInv
<1>2. todo' = [todo EXCEPT ![t] = After(q, << >>)] /\ todo \in [Workers -> Seq(Steps)]
  BY DEF Become, After, UInv, TypeOK
<1>3. ASSUME NEW h \in Groups PROVE RunOf(h)'
  <2>1. ~In(q, 1, h)
    BY <1>1 DEF In
  <2>2. (Inside(After(q, << >>), h) <=> Inside(q, h)) /\ (Once(q, h) => Once(After(q, << >>), h))
    BY <1>1, <2>1, StepOver
  <2>3. todo'[t] = After(q, << >>) /\ \A u \in Workers : u # t => todo'[u] = todo[u]
    BY <1>2
  <2> QED BY <2>2, <2>3, SameRun DEF UInv, RunInv
<1>4. After(q, << >>) \in Seq(Steps)
  BY <1>1, StepOver
<1> QED BY <1>2, <1>3, <1>4 DEF RunInv

\* A step becomes another one that is as much inside every group.
LEMMA BecomeStep ==
    ASSUME UInv, NEW t \in Workers, NEW op, NEW g, At(t, op, g), isRun' = isRun,
           NEW x \in Steps, x.op # "unlock", Become(t, <<x>>),
           \A h \in Groups : In(<<x>>, 1, h) <=> In(todo[t], 1, h)
    PROVE  RunInv' /\ todo' \in [Workers -> Seq(Steps)]
<1> DEFINE q == todo[t]
<1>1. q \in Seq(Steps) /\ q # << >>
  BY AtFacts DEF UInv
<1>2. todo' = [todo EXCEPT ![t] = After(q, <<x>>)] /\ todo \in [Workers -> Seq(Steps)]
  BY DEF Become, After, UInv, TypeOK
<1>3. ASSUME NEW h \in Groups PROVE RunOf(h)'
  <2>1. In(<<x>>, 1, h) <=> In(q, 1, h)
    OBVIOUS
  <2>2. (Inside(After(q, <<x>>), h) <=> Inside(q, h)) /\ (Once(q, h) => Once(After(q, <<x>>), h))
    BY <1>1, <2>1, StepBecomes
  <2>3. todo'[t] = After(q, <<x>>) /\ \A u \in Workers : u # t => todo'[u] = todo[u]
    BY <1>2
  <2> QED BY <2>2, <2>3, SameRun DEF UInv, RunInv
<1>4. After(q, <<x>>) \in Seq(Steps)
  BY <1>1, StepBecomes
<1> QED BY <1>2, <1>3, <1>4 DEF RunInv

\* The steps of a call before its Updates.
Quiet == {s \in Steps : s.op \in {"lock", "unlock", "put"}}

LEMMA QuietIsOutside ==
    ASSUME NEW c \in Seq(Quiet)
    PROVE  c \in Seq(Steps) /\ \A g : \A j \in 1..Len(c) : ~In(c, j, g)
<1>1. Quiet \subseteq Steps
  BY DEF Quiet
<1>2. c \in Seq(Steps)
  BY <1>1, SeqMonotonic
<1>3. ASSUME NEW j \in 1..Len(c) PROVE c[j].op \in {"lock", "unlock", "put"}
  BY ElementOfSeq DEF Quiet
<1> QED BY <1>2, <1>3 DEF In

\* The calls are made of such steps.
LEMMA CallsAreQuiet ==
    ASSUME TypeOK
    PROVE  /\ \A g \in Groups : CallbackCalls(g) \subseteq Seq(Quiet)
           /\ WorkerCalls \subseteq Seq(Quiet)
<1>1. Lock \in Quiet /\ Unlock \in Quiet
  BY DEF Quiet, Steps, Lock, Unlock, Do, Base
<1>2. \A g \in Groups \cup {Base}, update \in BOOLEAN : Put(g, update) \in Quiet
  BY DEF Quiet, Steps, Put
<1>3. ASSUME NEW g \in Groups \cup {Base}, NEW update \in BOOLEAN
      PROVE Puts(g, update) \in Seq(Quiet)
  BY <1>2 DEF Puts
<1>4. ASSUME NEW a \in Groups \cup {Base}, NEW b \in Groups \cup {Base}, NEW update \in BOOLEAN
      PROVE  MoveSession(a, b, update) \in Seq(Quiet)
  <2>1. <<Lock>> \in Seq(Quiet) /\ <<Unlock>> \in Seq(Quiet)
    BY <1>1
  <2>2. <<Lock>> \o Puts(a, update) \in Seq(Quiet)
    BY <1>3, <2>1, ConcatProperties
  <2>3. <<Lock>> \o Puts(a, update) \o Puts(b, update) \in Seq(Quiet)
    BY <1>3, <2>2, ConcatProperties
  <2> QED BY <2>1, <2>3, ConcatProperties DEF MoveSession
<1>5. ASSUME NEW g \in Groups PROVE SessionDisconnected(g) \in Seq(Quiet) /\ OnRecv(g) \in Seq(Quiet)
  <2>1. \A a, b, c \in Quiet : <<a, b, c>> \in Seq(Quiet)
    OBVIOUS
  <2>2. Put(g, TRUE) \in Quiet
    BY <1>2
  <2> QED BY <1>1, <2>1, <2>2 DEF SessionDisconnected, OnRecv
<1>6. groups \subseteq Groups
  BY DEF TypeOK
<1>7. ASSUME NEW g \in Groups PROVE CallbackCalls(g) \subseteq Seq(Quiet)
  BY <1>4, <1>5, <1>6 DEF CallbackCalls
<1>8. WorkerCalls \subseteq Seq(Quiet)
  <2> SUFFICES ASSUME NEW c \in WorkerCalls PROVE c \in Seq(Quiet)
    OBVIOUS
  <2>1. \/ \E g \in groups : c = OnRecv(g) \/ c = SessionDisconnected(g)
        \/ \E g, d \in groups \cup {Base} : c = MoveSession(g, d, TRUE)
    BY DEF WorkerCalls
  <2> QED BY <1>4, <1>5, <1>6, <2>1
<1> QED BY <1>7, <1>8

----------------------------------------------------------------------------
\* A worker that has nothing to do starts a call or a group's update.
LEMMA StartStep ==
    ASSUME UInv, NEW t \in Workers, todo[t] = << >>, isRun' = isRun,
           NEW c \in Seq(Steps), todo' = [todo EXCEPT ![t] = c],
           \A g : \A j \in 1..Len(c) : ~In(c, j, g)
    PROVE  RunInv' /\ todo' \in [Workers -> Seq(Steps)]
<1>1. todo \in [Workers -> Seq(Steps)]
  BY DEF UInv, TypeOK
<1>2. todo'[t] = c /\ \A u \in Workers : u # t => todo'[u] = todo[u]
  BY <1>1
<1>3. Len(<< >>) = 0
  BY EmptySeq
<1>4. ASSUME NEW g \in Groups PROVE RunOf(g)'
  <2>1. ~Inside(todo'[t], g) /\ Once(todo'[t], g)
    BY <1>2 DEF Inside, Once
  <2>2. ~Inside(todo[t], g)
    BY <1>3 DEF Inside
  <2> QED BY <1>2, <2>1, <2>2, SameRun DEF UInv, RunInv
<1> QED BY <1>1, <1>4 DEF RunInv

LEMMA CallStep ==
    ASSUME UInv, NEW t \in Workers, Call(t)
    PROVE  UInv'
<1>1. PICK c \in WorkerCalls : todo' = [todo EXCEPT ![t] = c]
  BY DEF Call
<1>2. c \in Seq(Steps) /\ \A g : \A j \in 1..Len(c) : ~In(c, j, g)
  BY <1>1, CallsAreQuiet, QuietIsOutside DEF UInv
<1>3. todo[t] = << >> /\ isRun' = isRun
  BY DEF Call
<1>4. RunInv' /\ todo' \in [Workers -> Seq(Steps)]
  BY <1>1, <1>2, <1>3, StartStep
<1>5. calls' \in 0..MaxCall
  BY UpdateAssumption DEF UInv, TypeOK, Call
<1>6. TypeOK'
  BY <1>4, <1>5 DEF UInv, TypeOK, Call, Steps, Base
<1> QED BY <1>4, <1>6 DEF UInv

LEMMA ExecuteStep ==
    ASSUME UInv, NEW t \in Workers, NEW g \in Groups, Execute(t, g)
    PROVE  UInv'
<1>1. Do("run", g) \in Steps /\ Update(g) = <<Do("run", g)>>
  BY DEF Do, Steps, Update
<1>2. Update(g) \in Seq(Steps) /\ Len(Update(g)) = 1 /\ Update(g)[1] = Do("run", g)
  BY <1>1
<1>3. \A h : \A j \in 1..Len(Update(g)) : ~In(Update(g), j, h)
  BY <1>2 DEF In, Do
<1>4. todo[t] = << >> /\ isRun' = isRun /\ todo' = [todo EXCEPT ![t] = Update(g)]
  BY DEF Execute
<1>5. RunInv' /\ todo' \in [Workers -> Seq(Steps)]
  BY <1>2, <1>3, <1>4, StartStep
<1>6. posted' \in [Groups -> 0..MaxPost]
  BY UpdateAssumption DEF UInv, TypeOK, Execute
<1>7. TypeOK'
  BY <1>5, <1>6 DEF UInv, TypeOK, Execute, Steps, Base
<1> QED BY <1>5, <1>7 DEF UInv

LEMMA AcquireSharedStep ==
    ASSUME UInv, NEW t \in Workers, AcquireShared(t)
    PROVE  UInv'
<1>1. At(t, "lock", Base) /\ Become(t, << >>) /\ isRun' = isRun
  BY DEF AcquireShared
<1>2. RunInv' /\ todo' \in [Workers -> Seq(Steps)]
  BY <1>1, OverStep
<1>3. TypeOK'
  BY <1>2 DEF UInv, TypeOK, AcquireShared, Steps, Base
<1> QED BY <1>2, <1>3 DEF UInv

\* A node's place, counted on, is a node's place.
LEMMA IndexInRange ==
    ASSUME TypeOK, NEW i \in 0..(mode.size - 1)
    PROVE  /\ (i + 1) % mode.size \in 0..(mode.size - 1)
           /\ (i + mode.size - 1) % mode.size \in 0..(mode.size - 1)
<1>1. mode.size \in Nat \ {0}
  BY UpdateAssumption DEF TypeOK
<1>2. \A n \in Nat \ {0}, k \in Int : k % n \in 0..(n - 1)
  OBVIOUS
<1>3. i + 1 \in Int /\ i + mode.size - 1 \in Int
  BY <1>1
<1> QED BY <1>1, <1>2, <1>3

\* Enqueue goes on to look at _isRun, or is over.
LEMMA EnqueueStep ==
    ASSUME UInv, NEW t \in Workers, NEW g \in Groups, Enqueue(t, g)
    PROVE  UInv'
<1>1. At(t, "put", g) /\ isRun' = isRun
  BY DEF Enqueue
<1>2. todo[t][1] = Head(todo[t]) /\ todo[t][1].group = g /\ todo[t][1].op = "put"
  BY <1>1, AtFacts DEF UInv
<1>3. RunInv' /\ todo' \in [Workers -> Seq(Steps)]
  <2>1. CASE todo[t][1].update
    <3>1. Become(t, <<Do("look", g)>>)
      BY <1>2, <2>1 DEF Enqueue, AfterPut
    <3>2. Do("look", g) \in Steps /\ Do("look", g).op # "unlock"
      BY DEF Do, Steps
    <3>3. \A h \in Groups : In(<<Do("look", g)>>, 1, h) <=> In(todo[t], 1, h)
      BY <1>2 DEF In, Do
    <3> QED BY <1>1, <3>1, <3>2, <3>3, BecomeStep
  <2>2. CASE ~todo[t][1].update
    <3>1. Become(t, << >>)
      BY <1>2, <2>2 DEF Enqueue, AfterPut
    <3> QED BY <1>1, <3>1, OverStep
  <2> QED BY <2>1, <2>2
<1>4. /\ jobs' \in [Groups -> SUBSET (0..(mode.size - 1))]
      /\ tail' \in [Groups -> 0..(mode.size - 1)]
  <2>1. jobs \in [Groups -> SUBSET (0..(mode.size - 1))] /\ tail \in [Groups -> 0..(mode.size - 1)]
    BY DEF UInv, TypeOK
  <2>2. tail[g] \in 0..(mode.size - 1) /\ (tail[g] + 1) % mode.size \in 0..(mode.size - 1)
    BY <2>1, IndexInRange DEF UInv
  <2>3. jobs' = [jobs EXCEPT ![g] = jobs[g] \cup {tail[g]}]
        /\ tail' = [tail EXCEPT ![g] = (tail[g] + 1) % mode.size]
    BY DEF Enqueue
  <2> QED BY <2>1, <2>2, <2>3
<1>5. TypeOK'
  BY <1>3, <1>4 DEF UInv, TypeOK, Enqueue, Steps, Base
<1> QED BY <1>3, <1>5 DEF UInv

\* Steps that leave the threads and _isRun alone.
LEMMA ThreadsKept ==
    ASSUME RunInv, UNCHANGED <<todo, isRun>>
    PROVE  RunInv'
BY DEF RunInv, RunOf, Inside, Once, In

LEMMA EnqueueFullStep ==
    ASSUME UInv, NEW t \in Workers, NEW g \in Groups, EnqueueFull(t, g)
    PROVE  UInv'
<1>1. RunInv'
  BY ThreadsKept DEF UInv, EnqueueFull
<1>2. tail' \in [Groups -> 0..(mode.size - 1)]
  <2>1. tail \in [Groups -> 0..(mode.size - 1)]
    BY DEF UInv, TypeOK
  <2>2. (tail[g] + 1) % mode.size \in 0..(mode.size - 1)
    BY <2>1, IndexInRange DEF UInv
  <2> QED BY <2>1, <2>2 DEF EnqueueFull
<1>3. burnt' \in [Groups -> BOOLEAN]
  BY DEF UInv, TypeOK, EnqueueFull
<1>4. TypeOK'
  BY <1>2, <1>3 DEF UInv, TypeOK, EnqueueFull, Steps, Base
<1> QED BY <1>1, <1>4 DEF UInv

LEMMA LookStep ==
    ASSUME UInv, NEW t \in Workers, NEW g \in Groups, Look(t, g)
    PROVE  UInv'
<1>1. At(t, "look", g) /\ isRun' = isRun
  BY DEF Look
<1>2. RunInv' /\ todo' \in [Workers -> Seq(Steps)]
  <2>1. CASE isRun[g] = 0
    <3>1. Become(t, <<Do("run", g)>>)
      BY <2>1 DEF Look, Update
    <3>2. Do("run", g) \in Steps /\ Do("run", g).op # "unlock"
      BY DEF Do, Steps
    <3>3. \A h \in Groups : In(<<Do("run", g)>>, 1, h) <=> In(todo[t], 1, h)
      <4>1. todo[t][1].op = "look"
        BY <1>1, AtFacts DEF UInv
      <4> QED BY <4>1 DEF In, Do
    <3> QED BY <1>1, <3>1, <3>2, <3>3, BecomeStep
  <2>2. CASE isRun[g] # 0
    <3>1. Become(t, << >>)
      BY <2>2 DEF Look
    <3> QED BY <1>1, <3>1, OverStep
  <2> QED BY <2>1, <2>2
<1>3. TypeOK'
  BY <1>2 DEF UInv, TypeOK, Look, Steps, Base
<1> QED BY <1>2, <1>3 DEF UInv

\* The exchange of _isRun: the thread that finds 0 is the one inside.
LEMMA UpdateExchangeStep ==
    ASSUME UInv, NEW t \in Workers, NEW g \in Groups, UpdateExchange(t, g)
    PROVE  UInv'
<1>1. At(t, "run", g) /\ isRun' = [isRun EXCEPT ![g] = 1]
      /\ isRun \in [Groups -> 0..1] /\ todo \in [Workers -> Seq(Steps)]
  BY DEF UpdateExchange, UInv, TypeOK
<1>2. RunInv' /\ todo' \in [Workers -> Seq(Steps)]
  <2>1. CASE isRun[g] = 1
    <3>1. Become(t, << >>) /\ isRun' = isRun
      BY <1>1, <2>1 DEF UpdateExchange
    <3> QED BY <1>1, <3>1, OverStep
  <2>2. CASE isRun[g] # 1
    <3> DEFINE x == Do("loop", g)  q == todo[t]
    <3>1. Become(t, <<x>>)
      BY <2>2 DEF UpdateExchange
    <3>2. x \in Steps /\ x.op # "unlock"
      BY DEF Do, Steps
    <3>3. q \in Seq(Steps) /\ q # << >> /\ q[1].op = "run"
      BY <1>1, AtFacts DEF UInv
    <3>4. todo' = [todo EXCEPT ![t] = After(q, <<x>>)]
      BY <3>1 DEF Become, After
    <3>5. todo'[t] = After(q, <<x>>) /\ \A u \in Workers : u # t => todo'[u] = todo[u]
      BY <1>1, <3>4
    <3>6. ASSUME NEW h \in Groups PROVE RunOf(h)'
      <4>0. RunOf(h) /\ isRun'[h] = IF h = g THEN 1 ELSE isRun[h]
        BY <1>1 DEF UInv, RunInv
      <4>1. CASE h = g
        <5>1. ~Inside(q, g)
          BY <2>2, <4>0, <4>1 DEF RunOf
        <5>2. In(<<x>>, 1, g)
          BY DEF In, Do
        <5>3. Inside(After(q, <<x>>), g) /\ Once(After(q, <<x>>), g)
          BY <3>2, <3>3, <5>1, <5>2, StepBecomes
        <5> QED BY <2>2, <3>5, <4>0, <4>1, <5>3, Enters
      <4>2. CASE h # g
        <5>1. In(<<x>>, 1, h) <=> In(q, 1, h)
          BY <3>3, <4>2 DEF In, Do
        <5>2. (Inside(After(q, <<x>>), h) <=> Inside(q, h)) /\ (Once(q, h) => Once(After(q, <<x>>), h))
          BY <3>2, <3>3, <5>1, StepBecomes
        <5> QED BY <3>5, <4>0, <4>2, <5>2, SameRun
      <4> QED BY <4>1, <4>2
    <3>7. After(q, <<x>>) \in Seq(Steps)
      BY <3>2, <3>3, StepBecomes
    <3> QED BY <1>1, <3>4, <3>6, <3>7 DEF RunInv
  <2> QED BY <2>1, <2>2
<1>3. TypeOK'
  BY <1>1, <1>2 DEF UInv, TypeOK, UpdateExchange, Steps, Base
<1> QED BY <1>2, <1>3 DEF UInv

\* A job's callback may call: the call's steps come before the loop goes on.
LEMMA HandleJobStep ==
    ASSUME UInv, NEW t \in Workers, NEW g \in Groups, HandleJob(t, g)
    PROVE  UInv'
<1>1. /\ isRun' = isRun /\ todo \in [Workers -> Seq(Steps)]
      /\ MaxCall \in Nat /\ calls \in 0..MaxCall
  BY UpdateAssumption DEF HandleJob, UInv, TypeOK
<1>2. RunInv' /\ todo' \in [Workers -> Seq(Steps)] /\ calls' \in 0..MaxCall
  <2>1. CASE UNCHANGED <<todo, calls>>
    BY <1>1, <2>1, ThreadsKept DEF UInv
  <2>2. CASE \E c \in CallbackCalls(g) : /\ todo' = [todo EXCEPT ![t] = c \o @]
                                         /\ calls < MaxCall /\ calls' = calls + 1
    <3>1. PICK c \in CallbackCalls(g) : todo' = [todo EXCEPT ![t] = c \o todo[t]]
      BY <2>2
    <3>2. c \in Seq(Steps) /\ \A h : \A j \in 1..Len(c) : ~In(c, j, h)
      BY <3>1, CallsAreQuiet, QuietIsOutside DEF UInv
    <3>3. todo[t] \in Seq(Steps)
      BY <1>1
    <3>4. todo'[t] = c \o todo[t] /\ \A u \in Workers : u # t => todo'[u] = todo[u]
      BY <1>1, <3>1
    <3>5. ASSUME NEW h \in Groups PROVE RunOf(h)'
      <4>1. /\ Inside(c \o todo[t], h) <=> Inside(todo[t], h)
            /\ Once(todo[t], h) => Once(c \o todo[t], h)
        BY <3>2, <3>3, Pushed
      <4> QED BY <1>1, <3>4, <4>1, SameRun DEF UInv, RunInv
    <3>6. c \o todo[t] \in Seq(Steps)
      BY <3>2, <3>3, ConcatProperties
    <3>7. todo' \in [Workers -> Seq(Steps)]
      BY <1>1, <3>1, <3>6
    <3> QED BY <1>1, <2>2, <3>5, <3>7 DEF RunInv
  <2> QED BY <2>1, <2>2 DEF HandleJob
<1>3. /\ jobs' \in [Groups -> SUBSET (0..(mode.size - 1))]
      /\ tail' \in [Groups -> 0..(mode.size - 1)]
  <2>1. jobs \in [Groups -> SUBSET (0..(mode.size - 1))] /\ tail \in [Groups -> 0..(mode.size - 1)]
        /\ mode.size \in Nat
    BY UpdateAssumption DEF UInv, TypeOK
  <2>2. (tail[g] + mode.size - 1) % mode.size \in 0..(mode.size - 1)
    BY <2>1, IndexInRange DEF UInv
  <2>3. {i - 1 : i \in jobs[g] \ {0}} \in SUBSET (0..(mode.size - 1))
    <3>1. \A i \in jobs[g] \ {0} : i - 1 \in 0..(mode.size - 1)
      BY <2>1
    <3> QED BY <3>1
  <2>4. jobs' = [jobs EXCEPT ![g] = {i - 1 : i \in jobs[g] \ {0}}]
        /\ tail' = [tail EXCEPT ![g] = (tail[g] + mode.size - 1) % mode.size]
    BY DEF HandleJob
  <2> QED BY <2>1, <2>2, <2>3, <2>4
<1>4. TypeOK'
  BY <1>1, <1>2, <1>3 DEF UInv, TypeOK, HandleJob, Steps, Base
<1> QED BY <1>2, <1>4 DEF UInv

LEMMA UpdateLeaveStep ==
    ASSUME UInv, NEW t \in Workers, NEW g \in Groups, UpdateLeave(t, g)
    PROVE  UInv'
<1>1. At(t, "loop", g) /\ isRun' = isRun /\ Become(t, <<Do("end", g)>>)
  BY DEF UpdateLeave
<1>2. Do("end", g) \in Steps /\ Do("end", g).op # "unlock"
  BY DEF Do, Steps
<1>3. \A h \in Groups : In(<<Do("end", g)>>, 1, h) <=> In(todo[t], 1, h)
  <2>1. todo[t][1].op = "loop" /\ todo[t][1].group = g
    BY <1>1, AtFacts DEF UInv
  <2> QED BY <2>1 DEF In, Do
<1>4. RunInv' /\ todo' \in [Workers -> Seq(Steps)]
  BY <1>1, <1>2, <1>3, BecomeStep
<1>5. TypeOK'
  BY <1>4 DEF UInv, TypeOK, UpdateLeave, Steps, Base
<1> QED BY <1>4, <1>5 DEF UInv

\* The store of 0 to _isRun is by the thread inside the group.
LEMMA UpdateEndStep ==
    ASSUME UInv, NEW t \in Workers, NEW g \in Groups, UpdateEnd(t, g)
    PROVE  UInv'
<1> DEFINE q == todo[t]
<1>1. At(t, "end", g) /\ isRun' = [isRun EXCEPT ![g] = 0] /\ Become(t, << >>)
      /\ isRun \in [Groups -> 0..1] /\ todo \in [Workers -> Seq(Steps)]
  BY DEF UpdateEnd, UInv, TypeOK
<1>2. q \in Seq(Steps) /\ q # << >> /\ q[1].op = "end" /\ q[1].group = g /\ 1 \in 1..Len(q)
  BY <1>1, AtFacts, EmptySeq DEF UInv
<1>3. todo' = [todo EXCEPT ![t] = After(q, << >>)]
  BY <1>1 DEF Become, After
<1>4. todo'[t] = After(q, << >>) /\ \A u \in Workers : u # t => todo'[u] = todo[u]
  BY <1>1, <1>3
<1>5. ASSUME NEW h \in Groups PROVE RunOf(h)'
  <2>0. RunOf(h) /\ isRun'[h] = IF h = g THEN 0 ELSE isRun[h]
    BY <1>1 DEF UInv, RunInv
  <2>1. CASE h = g
    <3>1. In(q, 1, g) /\ Inside(q, g) /\ Once(q, g)
      BY <1>2, <2>0, <2>1 DEF In, Inside, RunOf
    <3>2. ~Inside(After(q, << >>), g) /\ Once(After(q, << >>), g)
      BY <1>2, <3>1, StepOver
    <3> QED BY <1>4, <2>0, <2>1, <3>1, <3>2, Leaves
  <2>2. CASE h # g
    <3>1. ~In(q, 1, h)
      BY <1>2, <2>2 DEF In
    <3>2. (Inside(After(q, << >>), h) <=> Inside(q, h)) /\ (Once(q, h) => Once(After(q, << >>), h))
      BY <1>2, <3>1, StepOver
    <3> QED BY <1>4, <2>0, <2>2, <3>2, SameRun
  <2> QED BY <2>1, <2>2
<1>6. After(q, << >>) \in Seq(Steps)
  BY <1>2, StepOver
<1>7. TypeOK'
  BY <1>1, <1>3, <1>6 DEF UInv, TypeOK, UpdateEnd, Steps, Base
<1> QED BY <1>5, <1>7 DEF UInv, RunInv

\* GroupThread and CreateGroup leave the threads and _isRun alone.
LEMMA ManagerStep ==
    ASSUME UInv, CreateWait \/ CreateGroup \/ \E g \in Groups : GroupThread(g)
    PROVE  UInv'
<1>1. RunInv'
  BY ThreadsKept DEF UInv, CreateWait, CreateGroup, GroupThread
<1>2. CASE CreateWait \/ CreateGroup
  <2>1. TypeOK'
    BY <1>2 DEF UInv, TypeOK, CreateWait, CreateGroup, Steps, Base
  <2> QED BY <1>1, <2>1 DEF UInv
<1>3. ASSUME NEW g \in Groups, GroupThread(g) PROVE UInv'
  <2>1. posted' \in [Groups -> 0..MaxPost]
    BY <1>3, UpdateAssumption DEF UInv, TypeOK, GroupThread
  <2>2. TypeOK'
    BY <1>3, <2>1 DEF UInv, TypeOK, GroupThread, Steps, Base
  <2> QED BY <1>1, <2>2 DEF UInv
<1> QED BY <1>2, <1>3

----------------------------------------------------------------------------
\* The invariant holds for any number of workers, groups and nested calls.
THEOREM UpdateInvariance == Spec => []UInv
<1>1. Init => UInv
  <2> SUFFICES ASSUME Init PROVE UInv
    OBVIOUS
  <2>1. \A t \in Workers : todo[t] = << >> /\ << >> \in Seq(Steps) /\ Len(<< >>) = 0
    BY EmptySeq DEF Init
  <2>2. RunInv
    BY <2>1 DEF Init, RunInv, RunOf, Inside, Once
  <2>3. mode \in Modes /\ mode.size \in Nat \ {0} /\ groups \subseteq Groups
    BY UpdateAssumption DEF Init
  <2>4. TypeOK
    <3>1. /\ todo \in [Workers -> Seq(Steps)]
          /\ jobs \in [Groups -> SUBSET (0..(mode.size - 1))]
          /\ tail \in [Groups -> 0..(mode.size - 1)]
      BY <2>1, <2>3 DEF Init
    <3>2. burnt \in [Groups -> BOOLEAN] /\ waiting \in BOOLEAN
      BY DEF Init
    <3>3. isRun \in [Groups -> 0..1] /\ posted \in [Groups -> 0..MaxPost] /\ calls \in 0..MaxCall
      BY UpdateAssumption DEF Init
    <3> QED BY <2>3, <3>1, <3>2, <3>3 DEF TypeOK
  <2> QED BY <2>2, <2>4 DEF UInv
<1>2. UInv /\ [Next]_vars => UInv'
  <2> SUFFICES ASSUME UInv, [Next]_vars PROVE UInv'
    OBVIOUS
  <2>1. ASSUME NEW t \in Workers, Call(t) \/ Step(t) \/ \E g \in Groups : Execute(t, g) PROVE UInv'
    <3>1. ASSUME NEW g \in Groups, GroupStep(t, g) PROVE UInv'
      BY <3>1, EnqueueStep, EnqueueFullStep, LookStep, UpdateExchangeStep, HandleJobStep,
         UpdateLeaveStep, UpdateEndStep DEF GroupStep
    <3> QED BY <2>1, <3>1, CallStep, AcquireSharedStep, ExecuteStep DEF Step
  <2>2. CASE UNCHANGED vars
    <3>1. RunInv'
      BY <2>2, ThreadsKept DEF UInv, vars
    <3>2. TypeOK'
      BY <2>2 DEF UInv, TypeOK, vars, Steps, Base
    <3> QED BY <3>1, <3>2 DEF UInv
  <2> QED BY <2>1, <2>2, ManagerStep DEF Next
<1> QED BY <1>1, <1>2, PTL DEF Spec

\* One Update at a time is inside a group, although callbacks enqueue to their own
\* group and run others that enqueue back; _isRun is their number.
THEOREM GroupHasOneRunner == Spec => []OneRunner
<1>1. UInv => OneRunner
  <2> SUFFICES ASSUME UInv, NEW g \in Groups PROVE Cardinality(Running(g)) = isRun[g]
    BY DEF OneRunner
  <2>0. RunOf(g) /\ isRun[g] \in 0..1 /\ \A t \in Workers : todo[t] \in Seq(Steps)
    BY DEF UInv, RunInv, TypeOK
  <2>1. \A t \in Workers : DOMAIN todo[t] = 1..Len(todo[t])
    BY <2>0, LenProperties
  <2>2. \A p : p \in Running(g) <=>
           \E t \in Workers : \E i \in 1..Len(todo[t]) : p = <<t, i>> /\ In(todo[t], i, g)
    BY <2>1 DEF Running, In
  <2>3. CASE isRun[g] = 1
    <3>0. PICK t \in Workers : Inside(todo[t], g)
      BY <2>0, <2>3 DEF RunOf
    <3>1. PICK i \in 1..Len(todo[t]) : In(todo[t], i, g)
      BY <3>0 DEF Inside
    <3>2. \A u \in Workers : \A j \in 1..Len(todo[u]) : In(todo[u], j, g) => u = t /\ j = i
      BY <2>0, <3>1 DEF RunOf, Inside, Once
    <3>3. Running(g) = {<<t, i>>}
      BY <2>2, <3>1, <3>2
    <3> QED BY <2>3, <3>3, FS_Singleton
  <2>4. CASE isRun[g] # 1
    <3>1. Running(g) = {}
      BY <2>0, <2>2, <2>4 DEF RunOf, Inside
    <3> QED BY <2>0, <2>4, <3>1, FS_EmptySet
  <2> QED BY <2>3, <2>4
<1> QED BY <1>1, UpdateInvariance, PTL
================================================================================
