---------------------------- MODULE BufferProofs ----------------------------
(***************************************************************************)
(* Proofs about PacketCodec and SendBuffer, for any number of threads,      *)
(* sessions and buffers and chars of any width: Decode undoes Encode, a     *)
(* reference count is exact, the pools neither lose nor double a buffer,    *)
(* and with one key for all sessions every send is readable.                *)
(***************************************************************************)
EXTENDS SendBuffer, FiniteSetTheorems, FunctionTheorems, SequenceTheorems,
        WellFoundedInduction, TLAPS

----------------------------------------------------------------------------
\* The codec.

\* A set of naturals that is not empty has a least element.
LEMMA LeastOf ==
    ASSUME NEW T, T \subseteq Nat, T # {}
    PROVE  \E k \in T : \A j \in T : k <= j
<1> DEFINE R == OpToRel(<, Nat)
<1>1. IsWellFoundedOn(R, Nat)
  BY NatLessThanWellFounded
<1>2. \A j, k \in Nat : j < k => <<j, k>> \in R
  BY DEF OpToRel
<1> HIDE DEF R
<1>3. PICK k \in T : \A j \in T : ~(<<j, k>> \in R)
  BY <1>1, WFMin
<1>4. \A j \in T : ~(j < k)
  BY <1>2, <1>3
<1>5. k \in Nat /\ \A j \in T : j \in Nat
  OBVIOUS
<1>6. \A j \in T : k <= j
  BY <1>4, <1>5
<1> QED BY <1>6

\* What holds for 0 and goes on from each number to the next holds up to n; the
\* property is the set of the numbers that have it.
LEMMA UpTo ==
    ASSUME NEW n \in Nat, NEW P, 0 \in P, \A k \in 1..n : k - 1 \in P => k \in P
    PROVE  0..n \subseteq P
<1> DEFINE T == (0..n) \ P
<1>1. ASSUME T # {} PROVE FALSE
  <2>0. T \subseteq Nat
    OBVIOUS
  <2>1. PICK k \in T : \A j \in T : k <= j
    <3> HIDE DEF T
    <3> QED BY <1>1, <2>0, LeastOf
  <2>2. k \in 0..n /\ k \notin P /\ k # 0
    BY <2>1
  <2>3. k \in 1..n /\ k - 1 \in 0..n /\ ~(k <= k - 1)
    BY <2>2
  <2>4. k - 1 \notin T
    BY <2>1, <2>3
  <2> QED BY <2>2, <2>3, <2>4
<1> QED BY <1>1

\* f is the function that starts with z and goes on by G.
Unfolds(f, n, z, G) == f[0] = z /\ \A i \in 1..n : f[i] = G[i][f[i - 1]]

\* There is one.
LEMMA Recursion ==
    ASSUME NEW n \in Nat, NEW S, NEW z \in S, NEW G \in [1..n -> [S -> S]]
    PROVE  \E f \in [0..n -> S] : Unfolds(f, n, z, G)
<1> DEFINE Good(k, f) == f[0] = z /\ \A i \in 1..k : f[i] = G[i][f[i - 1]]
           P == {k \in 0..n : \E f \in [0..k -> S] : Good(k, f)}
<1>1. 0 \in P
  <2>1. [i \in 0..0 |-> z] \in [0..0 -> S] /\ Good(0, [i \in 0..0 |-> z])
    OBVIOUS
  <2> HIDE DEF Good
  <2>2. \E f \in [0..0 -> S] : Good(0, f)
    BY <2>1
  <2>3. 0 \in 0..n
    OBVIOUS
  <2> QED BY <2>2, <2>3
<1>2. ASSUME NEW k \in 1..n, k - 1 \in P PROVE k \in P
  <2>1. PICK f \in [0..(k - 1) -> S] : Good(k - 1, f)
    BY <1>2
  <2>2. k - 1 \in 0..(k - 1) /\ f[k - 1] \in S /\ G[k][f[k - 1]] \in S
    OBVIOUS
  <2> DEFINE g == [i \in 0..k |-> IF i = k THEN G[k][f[k - 1]] ELSE f[i]]
  <2>3. g \in [0..k -> S]
    BY <2>2
  <2>4. g[0] = z
    BY <2>1
  <2>5. ASSUME NEW i \in 1..k PROVE g[i] = G[i][g[i - 1]]
    <3>1. i - 1 \in 0..k /\ i - 1 # k /\ g[i - 1] = f[i - 1]
      OBVIOUS
    <3>2. CASE i = k
      BY <3>1, <3>2
    <3>3. CASE i # k
      <4>1. i \in 1..(k - 1) /\ g[i] = f[i]
        BY <3>3
      <4> QED BY <2>1, <3>1, <4>1
    <3> QED BY <3>2, <3>3
  <2>6. Good(k, g)
    BY <2>4, <2>5
  <2>7. k \in 0..n
    OBVIOUS
  <2> QED BY <2>3, <2>6, <2>7
<1>3. n \in P
  <2> HIDE DEF P
  <2>1. 0..n \subseteq P
    BY <1>1, <1>2, UpTo
  <2> QED BY <2>1
<1> QED BY <1>3 DEF Unfolds

----
\* Power is defined for every width, and doubles.
LEMMA PowerIs ==
    /\ Power \in [0..Width -> Nat \ {0}] /\ Power[0] = 1
    /\ \A w \in 1..Width : Power[w] = 2 * Power[w - 1]
<1> DEFINE B(f) == [w \in 0..Width |-> IF w = 0 THEN 1 ELSE 2 * f[w - 1]]
           S == Nat \ {0}
           z == 1
           G == [w \in 1..Width |-> [v \in S |-> 2 * v]]
<1>0. Width \in Nat
  BY CodecAssumption
<1>1. G \in [1..Width -> [S -> S]] /\ z \in S
  OBVIOUS
<1>2. PICK f \in [0..Width -> S] : Unfolds(f, Width, z, G)
  <2> HIDE DEF G, S, z
  <2> QED BY <1>0, <1>1, Recursion
<1>3. f = B(f)
  <2>1. ASSUME NEW w \in 1..Width PROVE f[w] = 2 * f[w - 1]
    <3>1. w - 1 \in 0..Width /\ f[w - 1] \in S
      BY <1>0
    <3>2. f[w] = G[w][f[w - 1]]
      BY <1>2 DEF Unfolds
    <3> HIDE DEF S
    <3> QED BY <3>1, <3>2
  <2>2. \A w \in 0..Width : f[w] = IF w = 0 THEN 1 ELSE 2 * f[w - 1]
    BY <1>0, <1>2, <2>1 DEF Unfolds
  <2> QED BY <2>2
<1>4. Power = CHOOSE p : p = B(p)
  BY DEF Power
<1>5. Power = B(Power)
  BY <1>3, <1>4
<1>6. Power[0] = 1 /\ \A w \in 1..Width : Power[w] = 2 * Power[w - 1]
  <2>1. 0 \in 0..Width /\ \A w \in 1..Width : w \in 0..Width /\ w # 0
    BY <1>0
  <2>2. \A w \in 0..Width : Power[w] = IF w = 0 THEN 1 ELSE 2 * Power[w - 1]
    BY <1>5
  <2> QED BY <2>1, <2>2
<1> DEFINE P == {w \in 0..Width : Power[w] \in S}
<1>7. 0..Width \subseteq P
  <2>1. 0 \in P
    BY <1>0, <1>6
  <2>2. ASSUME NEW w \in 1..Width, w - 1 \in P PROVE w \in P
    BY <1>0, <1>6, <2>2
  <2> HIDE DEF P
  <2> QED BY <1>0, <2>1, <2>2, UpTo
<1>8. Power \in [0..Width -> S]
  BY <1>5, <1>7
<1> QED BY <1>6, <1>8

\* A wider char has no fewer values.
LEMMA PowerGrows ==
    ASSUME NEW w \in 0..Width
    PROVE  Power[w] \in Nat \ {0} /\ Power[w] <= Power[Width]
<1>0. Width \in Nat
  BY CodecAssumption
<1> DEFINE P == {k \in 0..Width : Power[Width - k] <= Power[Width]}
<1>1. 0 \in P
  BY <1>0, PowerIs
<1>2. ASSUME NEW k \in 1..Width, k - 1 \in P PROVE k \in P
  <2>1. /\ Width - k \in 0..Width /\ Width - (k - 1) \in 1..Width /\ Width - (k - 1) - 1 = Width - k
        /\ Width \in 0..Width /\ k \in 0..Width /\ Width - (k - 1) \in 0..Width
    BY <1>0
  <2>2. Power[Width - (k - 1)] = 2 * Power[Width - k]
    BY <2>1, PowerIs
  <2>3. Power[Width - (k - 1)] <= Power[Width]
    BY <1>2
  <2>4. Power[Width - k] \in Nat /\ Power[Width] \in Nat
    BY <2>1, PowerIs
  <2>5. Power[Width - k] <= Power[Width]
    BY <2>2, <2>3, <2>4
  <2> QED BY <2>1, <2>5
<1>3. 0..Width \subseteq P
  <2> HIDE DEF P
  <2> QED BY <1>0, <1>1, <1>2, UpTo
<1>4. Width - w \in 0..Width /\ Width - (Width - w) = w
  BY <1>0
<1>5. Power[Width - (Width - w)] <= Power[Width]
  BY <1>3, <1>4
<1> QED BY <1>4, <1>5, PowerIs

\* A char is its half and its last bit, and its half is a char.
LEMMA Halves ==
    /\ Power[Width] \in Nat \ {0}
    /\ \A a \in Chars : /\ a \in Nat /\ a < Power[Width] /\ a \div 2 \in Chars /\ a % 2 \in 0..1
                        /\ a = 2 * (a \div 2) + (a % 2)
    /\ \A a \in Nat : a < Power[Width] => a \in Chars
<1>1. Power[Width] \in Nat \ {0}
  BY PowerIs, CodecAssumption
<1>2. ASSUME NEW a \in Nat PROVE a \div 2 \in Nat /\ a % 2 \in 0..1 /\ a = 2 * (a \div 2) + (a % 2)
  <2>1. a \div 2 \in Nat
    OBVIOUS
  <2>2. a % 2 \in 0..1
    OBVIOUS
  <2>3. a = 2 * (a \div 2) + (a % 2)
    OBVIOUS
  <2> QED BY <2>1, <2>2, <2>3
<1>3. ASSUME NEW a \in Chars PROVE a \in Nat /\ a < Power[Width] /\ a \div 2 \in Chars
  <2>1. a \in Nat /\ a < Power[Width]
    BY <1>1 DEF Chars
  <2>2. a \div 2 \in Nat /\ a \div 2 <= a
    BY <1>2, <2>1
  <2> QED BY <1>1, <2>1, <2>2 DEF Chars
<1> QED BY <1>1, <1>2, <1>3 DEF Chars

\* Bits is defined for every width and has one equation per bit.
LEMMA BitsIs ==
    ASSUME NEW a \in Chars, NEW b \in Chars
    PROVE  /\ \A w \in 0..Width : Bits[w][a][b] \in Nat
           /\ Bits[0][a][b] = 0
           /\ \A w \in 1..Width : Bits[w][a][b] = 2 * Bits[w - 1][a \div 2][b \div 2] + ((a + b) % 2)
<1> DEFINE B(f) == [w \in 0..Width |-> [c \in Chars |-> [d \in Chars |->
                      IF w = 0 THEN 0 ELSE 2 * f[w - 1][c \div 2][d \div 2] + ((c + d) % 2)]]]
           S == [Chars -> [Chars -> Nat]]
           z == [c \in Chars |-> [d \in Chars |-> 0]]
           G == [w \in 1..Width |-> [g \in S |-> [c \in Chars |-> [d \in Chars |->
                   2 * g[c \div 2][d \div 2] + ((c + d) % 2)]]]]
<1>0. Width \in Nat
  BY CodecAssumption
<1>1. G \in [1..Width -> [S -> S]] /\ z \in S
  <2>1. ASSUME NEW g \in S, NEW c \in Chars, NEW d \in Chars
        PROVE  2 * g[c \div 2][d \div 2] + ((c + d) % 2) \in Nat
    <3>0. c \in Nat /\ d \in Nat /\ c \div 2 \in Chars /\ d \div 2 \in Chars
      BY Halves
    <3>1. c \div 2 \in Chars /\ d \div 2 \in Chars /\ c + d \in Nat
      BY <3>0
    <3>2. g[c \div 2][d \div 2] \in Nat
      BY <3>1
    <3>3. (c + d) % 2 \in Nat
      BY <3>1
    <3> QED BY <3>2, <3>3
  <2>2. ASSUME NEW g \in S
        PROVE  [c \in Chars |-> [d \in Chars |-> 2 * g[c \div 2][d \div 2] + ((c + d) % 2)]] \in S
    BY <2>1
  <2> QED BY <2>2
<1>2. PICK f \in [0..Width -> S] : Unfolds(f, Width, z, G)
  <2> HIDE DEF G, S, z
  <2> QED BY <1>0, <1>1, Recursion
<1>3. f = B(f)
  <2>1. ASSUME NEW w \in 0..Width PROVE f[w] = B(f)[w]
    <3>1. CASE w = 0
      BY <1>2, <3>1 DEF Unfolds
    <3>2. CASE w # 0
      <4>0. w \in 1..Width /\ w - 1 \in 0..Width
        BY <1>0, <3>2
      <4>1. w \in 1..Width /\ w - 1 \in 0..Width /\ f[w - 1] \in S
        <5> HIDE DEF S
        <5> QED BY <4>0
      <4>2. f[w] = G[w][f[w - 1]]
        BY <1>2, <4>1 DEF Unfolds
      <4>3. G[w][f[w - 1]] = [c \in Chars |-> [d \in Chars |->
                                2 * f[w - 1][c \div 2][d \div 2] + ((c + d) % 2)]]
        <5> HIDE DEF S
        <5> QED BY <4>1
      <4> QED BY <3>2, <4>2, <4>3
    <3> QED BY <3>1, <3>2
  <2> HIDE DEF S, G, z
  <2> QED BY <2>1
<1>4. Bits = CHOOSE x : x = B(x)
  BY DEF Bits
<1>5. Bits = B(Bits)
  BY <1>3, <1>4
<1>6. \A w \in 0..Width : \A c, d \in Chars :
        Bits[w][c][d] = IF w = 0 THEN 0 ELSE 2 * Bits[w - 1][c \div 2][d \div 2] + ((c + d) % 2)
  <2> TAKE w \in 0..Width
  <2>1. Bits[w] = B(Bits)[w]
    <3> HIDE DEF B
    <3> QED BY <1>5
  <2>2. B(Bits)[w] = [c \in Chars |-> [d \in Chars |->
          IF w = 0 THEN 0 ELSE 2 * Bits[w - 1][c \div 2][d \div 2] + ((c + d) % 2)]]
    OBVIOUS
  <2> TAKE c, d \in Chars
  <2> QED BY <2>1, <2>2
<1> HIDE DEF B
<1> DEFINE P == {w \in 0..Width : \A c, d \in Chars : Bits[w][c][d] \in Nat}
<1>7. 0..Width \subseteq P
  <2>1. 0 \in P
    <3>1. 0 \in 0..Width
      BY <1>0
    <3>2. \A c, d \in Chars : Bits[0][c][d] = 0
      BY <1>6, <3>1
    <3> QED BY <3>1, <3>2
  <2>2. ASSUME NEW w \in 1..Width, w - 1 \in P PROVE w \in P
    <3>1. w \in 0..Width /\ w # 0
      BY <1>0
    <3>2. ASSUME NEW c \in Chars, NEW d \in Chars PROVE Bits[w][c][d] \in Nat
      <4>0. c \in Nat /\ d \in Nat /\ c \div 2 \in Chars /\ d \div 2 \in Chars
        BY Halves
      <4>1. c \div 2 \in Chars /\ d \div 2 \in Chars /\ c + d \in Nat
        BY <4>0
      <4>2. Bits[w - 1][c \div 2][d \div 2] \in Nat
        BY <2>2, <4>1
      <4>3. (c + d) % 2 \in Nat
        BY <4>1
      <4>4. Bits[w][c][d] = 2 * Bits[w - 1][c \div 2][d \div 2] + ((c + d) % 2)
        BY <1>6, <3>1
      <4> QED BY <4>2, <4>3, <4>4
    <3> QED BY <3>1, <3>2
  <2> HIDE DEF P
  <2> QED BY <1>0, <2>1, <2>2, UpTo
<1>8. \A w \in 0..Width : Bits[w][a][b] \in Nat
  BY <1>7
<1>9. 0 \in 0..Width /\ \A w \in 1..Width : w \in 0..Width /\ w # 0
  BY <1>0
<1> QED BY <1>6, <1>8, <1>9

\* Exclusive or twice with the same char.
LEMMA XorTwice ==
    ASSUME NEW a \in Chars, NEW b \in Chars
    PROVE  (a ^^ b) \in Chars /\ (a ^^ b) ^^ b = a
<1>0. Width \in Nat
  BY CodecAssumption
<1> DEFINE P == {w \in 0..Width : \A c, d \in Chars : c < Power[w] =>
                   Bits[w][c][d] < Power[w] /\ Bits[w][Bits[w][c][d]][d] = c}
<1>1. 0 \in P
  <2>1. 0 \in 0..Width /\ Power[0] = 1
    BY <1>0, PowerIs
  <2>2. ASSUME NEW c \in Chars, NEW d \in Chars, c < Power[0]
        PROVE  Bits[0][c][d] < Power[0] /\ Bits[0][Bits[0][c][d]][d] = c
    <3>0. c \in Nat
      BY Halves
    <3>1. c = 0 /\ Bits[0][c][d] = 0
      BY <2>1, <2>2, <3>0, BitsIs
    <3> QED BY <2>1, <3>1
  <2> QED BY <2>1, <2>2
<1>2. ASSUME NEW w \in 1..Width, w - 1 \in P PROVE w \in P
  <2>0. w \in 0..Width /\ w - 1 \in 0..Width
    BY <1>0
  <2>1. /\ Power[w] = 2 * Power[w - 1] /\ Power[w - 1] \in Nat /\ Power[w] \in Nat
        /\ Power[w] <= Power[Width] /\ Power[Width] \in Nat
    BY <2>0, <1>0, PowerIs, PowerGrows, Halves
  <2>2. ASSUME NEW c \in Chars, NEW d \in Chars, c < Power[w]
        PROVE  Bits[w][c][d] < Power[w] /\ Bits[w][Bits[w][c][d]][d] = c
    <3> DEFINE h == c \div 2
               l == d \div 2
               m == Bits[w - 1][h][l]
               r == (c + d) % 2
               v == Bits[w][c][d]
    <3>1. h \in Chars /\ l \in Chars /\ h \in Nat /\ c = 2 * h + (c % 2) /\ c % 2 \in 0..1
      BY Halves
    <3>2. c \in Nat /\ d \in Nat
      BY Halves
    <3>3. r \in 0..1
      BY <3>2
    <3>4. v = 2 * m + r
      BY BitsIs
    <3>5. h < Power[w - 1]
      BY <2>1, <2>2, <3>1
    <3>6. m \in Nat /\ m < Power[w - 1] /\ Bits[w - 1][m][l] = h
      BY <1>2, <2>0, <3>1, <3>5, BitsIs
    <3>7. (r + d) % 2 = c % 2
      BY <3>2
    <3> HIDE DEF h, l, m, r, v
    <3>8. v \in Nat /\ v < Power[w]
      BY <2>1, <3>3, <3>4, <3>6
    <3>9. v \in Chars
      BY <2>1, <3>8, Halves
    <3>10. v \div 2 = m /\ (v + d) % 2 = (r + d) % 2
      <4>1. (2 * m + r) \div 2 = m
        BY <3>3, <3>6
      <4>2. (2 * m + r + d) % 2 = (r + d) % 2
        BY <3>2, <3>3, <3>6
      <4> QED BY <3>4, <4>1, <4>2
    <3>11. Bits[w][v][d] = 2 * Bits[w - 1][v \div 2][l] + ((v + d) % 2)
      BY <3>9, BitsIs DEF l
    <3>12. Bits[w][v][d] = c
      BY <3>1, <3>6, <3>7, <3>10, <3>11
    <3> QED BY <3>8, <3>12 DEF v
  <2> QED BY <2>0, <2>2
<1>3. Width \in P
  <2> HIDE DEF P
  <2>1. 0..Width \subseteq P
    BY <1>0, <1>1, <1>2, UpTo
  <2> QED BY <1>0, <2>1
<1>4. a < Power[Width]
  BY Halves
<1>5. Bits[Width][a][b] < Power[Width] /\ Bits[Width][Bits[Width][a][b]][b] = a
  BY <1>3, <1>4
<1>6. Bits[Width][a][b] \in Nat
  BY <1>0, BitsIs
<1> QED BY <1>5, <1>6, Halves DEF ^^

\* The remainder that a char keeps is a char.
LEMMA CharType ==
    ASSUME NEW a \in Nat
    PROVE  Char(a) \in Chars
<1>1. Power[Width] \in Nat \ {0}
  BY Halves
<1>2. a % Power[Width] \in 0..(Power[Width] - 1)
  BY <1>1
<1> QED BY <1>2 DEF Char, Chars

\* The checksum of chars is a char.
LEMMA ChecksumType ==
    ASSUME NEW m \in Seq(Chars)
    PROVE  Checksum(m) \in Chars
<1> DEFINE n == Len(m)
           B(f) == [i \in 0..n |-> IF i = 0 THEN 0 ELSE Char(f[i - 1] + m[i])]
           z == 0
           G == [i \in 1..n |-> [v \in Chars |-> Char(v + m[i])]]
           sum == CHOOSE f : f = B(f)
<1>0. n \in Nat /\ z \in Chars /\ \A i \in 1..n : m[i] \in Nat
  <2>1. n \in Nat /\ \A i \in 1..n : m[i] \in Chars
    OBVIOUS
  <2>2. z \in Chars
    BY Halves
  <2>3. \A a \in Chars : a \in Nat
    BY Halves
  <2> HIDE DEF n, z
  <2> QED BY <2>1, <2>2, <2>3
<1>1. ASSUME NEW i \in 1..n, NEW v \in Chars PROVE Char(v + m[i]) \in Chars
  <2>1. v \in Nat
    BY Halves
  <2>2. v + m[i] \in Nat
    BY <1>0, <2>1
  <2> QED BY <2>2, CharType
<1> HIDE DEF n
<1>2. G \in [1..n -> [Chars -> Chars]]
  BY <1>1
<1>3. PICK f \in [0..n -> Chars] : Unfolds(f, n, z, G)
  <2> HIDE DEF G, z
  <2> QED BY <1>0, <1>2, Recursion
<1>4. f = B(f)
  <2>1. ASSUME NEW i \in 0..n PROVE f[i] = B(f)[i]
    <3>1. CASE i = 0
      BY <1>3, <3>1 DEF Unfolds
    <3>2. CASE i # 0
      <4>1. i \in 1..n /\ i - 1 \in 0..n /\ f[i - 1] \in Chars
        BY <1>0, <3>2
      <4>2. f[i] = G[i][f[i - 1]]
        BY <1>3, <4>1 DEF Unfolds
      <4> QED BY <3>2, <4>1, <4>2
    <3> QED BY <3>1, <3>2
  <2> QED BY <2>1
<1>5. sum = B(sum)
  <2> HIDE DEF B
  <2> QED BY <1>4
<1>6. Checksum(m) = sum[n]
  BY DEF Checksum, n
<1> HIDE DEF sum
<1>7. \A i \in 0..n : sum[i] = IF i = 0 THEN 0 ELSE Char(sum[i - 1] + m[i])
  BY <1>5
<1> DEFINE P == {i \in 0..n : sum[i] \in Chars}
<1>8. 0 \in P
  BY <1>0, <1>7
<1>9. ASSUME NEW i \in 1..n, i - 1 \in P PROVE i \in P
  <2>1. i \in 0..n /\ i # 0
    BY <1>0
  <2>2. sum[i] = Char(sum[i - 1] + m[i])
    BY <1>7, <2>1
  <2> QED BY <1>1, <1>9, <2>1, <2>2
<1>10. n \in P
  <2> HIDE DEF P
  <2>1. 0..n \subseteq P
    BY <1>0, <1>8, <1>9, UpTo
  <2> QED BY <1>0, <2>1
<1> QED BY <1>6, <1>10

\* One round of Encode: each char with the coded one before it and a key.
Round(r, n, x, k) ==
    r = CHOOSE f : f = [i \in 0..n |-> IF i = 0 THEN 0 ELSE x[i] ^^ Char(f[i - 1] + k + i)]

\* One round of Encode turns chars into chars.
LEMMA Chained ==
    ASSUME NEW n \in Nat, NEW x, \A i \in 1..n : x[i] \in Chars, NEW k \in Nat,
           NEW r, Round(r, n, x, k)
    PROVE  /\ r[0] = 0 /\ \A i \in 0..n : r[i] \in Chars
           /\ \A i \in 1..n : r[i] ^^ Char(r[i - 1] + k + i) = x[i]
<1> DEFINE B(f) == [i \in 0..n |-> IF i = 0 THEN 0 ELSE x[i] ^^ Char(f[i - 1] + k + i)]
           z == 0
           G == [i \in 1..n |-> [v \in Chars |-> x[i] ^^ Char(v + k + i)]]
<1>0. z \in Chars
  BY Halves
<1>1. ASSUME NEW i \in 1..n, NEW v \in Chars
      PROVE  (x[i] ^^ Char(v + k + i)) \in Chars /\ (x[i] ^^ Char(v + k + i)) ^^ Char(v + k + i) = x[i]
  <2>1. v \in Nat
    BY Halves
  <2>2. v + k + i \in Nat
    BY <2>1
  <2>3. Char(v + k + i) \in Chars /\ x[i] \in Chars
    BY <2>2, CharType
  <2> QED BY <2>3, XorTwice
<1>2. G \in [1..n -> [Chars -> Chars]]
  BY <1>1
<1>3. PICK f \in [0..n -> Chars] : Unfolds(f, n, z, G)
  <2> HIDE DEF G, z
  <2> QED BY <1>0, <1>2, Recursion
<1>4. f = B(f)
  <2>1. ASSUME NEW i \in 0..n PROVE f[i] = B(f)[i]
    <3>1. CASE i = 0
      BY <1>3, <3>1 DEF Unfolds
    <3>2. CASE i # 0
      <4>1. i \in 1..n /\ i - 1 \in 0..n /\ f[i - 1] \in Chars
        BY <3>2
      <4>2. f[i] = G[i][f[i - 1]]
        BY <1>3, <4>1 DEF Unfolds
      <4> QED BY <3>2, <4>1, <4>2
    <3> QED BY <3>1, <3>2
  <2> QED BY <2>1
<1>5. r = CHOOSE g : g = B(g)
  BY DEF Round
<1>6. r = B(r)
  <2> HIDE DEF B
  <2> QED BY <1>4, <1>5
<1>7. \A i \in 0..n : r[i] = IF i = 0 THEN 0 ELSE x[i] ^^ Char(r[i - 1] + k + i)
  BY <1>6
<1> HIDE DEF B
<1> DEFINE P == {i \in 0..n : r[i] \in Chars}
<1>8. 0 \in P
  BY <1>0, <1>7
<1>9. ASSUME NEW i \in 1..n, i - 1 \in P PROVE i \in P
  <2>1. i \in 0..n /\ i # 0
    OBVIOUS
  <2>2. r[i] = x[i] ^^ Char(r[i - 1] + k + i)
    BY <1>7, <2>1
  <2> QED BY <1>1, <1>9, <2>1, <2>2
<1>10. 0..n \subseteq P
  <2> HIDE DEF P
  <2> QED BY <1>8, <1>9, UpTo
<1>11. ASSUME NEW i \in 1..n PROVE r[i] ^^ Char(r[i - 1] + k + i) = x[i]
  <2>1. i \in 0..n /\ i # 0 /\ i - 1 \in 0..n
    OBVIOUS
  <2>2. r[i] = x[i] ^^ Char(r[i - 1] + k + i) /\ r[i - 1] \in Chars
    BY <1>7, <1>10, <2>1
  <2> QED BY <1>1, <2>2
<1>12. r[0] = 0
  BY <1>7
<1> QED BY <1>10, <1>11, <1>12

\* CRingBuffer::Decode undoes CSendBuffer::Encode, for chars of any width, any
\* random key, any key and any packet.
THEOREM DecodeUndoesEncode ==
    ASSUME NEW x \in Seq(Chars), NEW k \in Nat
    PROVE  Decode(Encode(x, k), k) = x
<1> DEFINE n == Len(x)
           p == CHOOSE f : f = [i \in 0..n |-> IF i = 0 THEN 0 ELSE x[i] ^^ Char(f[i - 1] + RandomKey + i)]
           e == CHOOSE f : f = [i \in 0..n |-> IF i = 0 THEN 0 ELSE p[i] ^^ Char(f[i - 1] + k + i)]
           y == Encode(x, k)
<1>0. n \in Nat /\ RandomKey \in Nat /\ (\A i \in 1..n : x[i] \in Chars) /\ x = [i \in 1..n |-> x[i]]
  BY CodecAssumption
<1>1. y = [i \in 1..n |-> e[i]]
  BY DEF Encode
<1>10. Round(p, n, x, RandomKey) /\ Round(e, n, p, k)
  BY DEF Round
<1> HIDE DEF n, y, p, e
<1>2. /\ p[0] = 0 /\ \A i \in 0..n : p[i] \in Chars
      /\ \A i \in 1..n : p[i] ^^ Char(p[i - 1] + RandomKey + i) = x[i]
  BY <1>0, <1>10, Chained
<1>3. /\ e[0] = 0 /\ \A i \in 0..n : e[i] \in Chars
      /\ \A i \in 1..n : e[i] ^^ Char(e[i - 1] + k + i) = p[i]
  <2>1. \A i \in 1..n : p[i] \in Chars
    BY <1>2
  <2> QED BY <1>0, <1>10, <2>1, Chained
<1>4. Len(y) = n /\ \A i \in 1..n : y[i] = e[i]
  BY <1>0, <1>1
<1> DEFINE q == [i \in 0..Len(y) |-> IF i = 0 THEN 0
                   ELSE y[i] ^^ Char((IF i = 1 THEN 0 ELSE y[i - 1]) + k + i)]
<1>5. Decode(y, k) = [i \in 1..Len(y) |-> q[i] ^^ Char(q[i - 1] + RandomKey + i)]
  BY DEF Decode
<1>6. ASSUME NEW i \in 0..n PROVE q[i] = p[i]
  <2>1. CASE i = 0
    BY <1>2, <1>4, <2>1
  <2>2. CASE i # 0
    <3>1. i \in 1..n
      BY <1>0, <2>2
    <3>2. (IF i = 1 THEN 0 ELSE y[i - 1]) = e[i - 1]
      <4>1. CASE i = 1
        BY <1>3, <4>1
      <4>2. CASE i # 1
        <5>1. i - 1 \in 1..n
          BY <1>0, <3>1, <4>2
        <5> QED BY <1>4, <4>2, <5>1
      <4> QED BY <4>1, <4>2
    <3>3. q[i] = y[i] ^^ Char((IF i = 1 THEN 0 ELSE y[i - 1]) + k + i)
      BY <1>4, <2>2
    <3> QED BY <1>3, <1>4, <3>1, <3>2, <3>3
  <2> QED BY <2>1, <2>2
<1> HIDE DEF q
<1>7. ASSUME NEW i \in 1..n PROVE q[i] ^^ Char(q[i - 1] + RandomKey + i) = x[i]
  <2>1. i \in 0..n /\ i - 1 \in 0..n
    BY <1>0
  <2>2. q[i] = p[i] /\ q[i - 1] = p[i - 1]
    BY <1>6, <2>1
  <2> QED BY <1>2, <2>2
<1>8. Decode(y, k) = [i \in 1..n |-> x[i]]
  BY <1>4, <1>5, <1>7
<1> QED BY <1>0, <1>8 DEF y

\* What WriteNetHeader puts before a payload is what ChecksumValid looks for.
LEMMA HeaderValid ==
    ASSUME NEW m \in Seq(Chars)
    PROVE  /\ WriteNetHeader(m) \in Seq(Chars) /\ Tail(WriteNetHeader(m)) = m
           /\ ChecksumValid(WriteNetHeader(m))
<1>1. Checksum(m) \in Chars
  BY ChecksumType
<1>2. WriteNetHeader(m) \in Seq(Chars) /\ Head(WriteNetHeader(m)) = Checksum(m)
  BY <1>1 DEF WriteNetHeader
<1>3. Tail(WriteNetHeader(m)) = m
  BY <1>1 DEF WriteNetHeader
<1> QED BY <1>2, <1>3 DEF ChecksumValid

----------------------------------------------------------------------------
\* Counting the places of a buffer in sequences.

\* The places of b in a sequence, and those in a family of sequences.
Spots(b, q) == {j \in DOMAIN q : q[j] = b}
Number(b, q) == Cardinality(Spots(b, q))
Tally(b, F, S) == UNION {In(b, F[s], s) : s \in S}

\* Sets with a bijection between them have one cardinality.
LEMMA SameCount ==
    ASSUME NEW S, NEW T, IsFiniteSet(S), NEW f \in [S -> T],
           \A x, y \in S : f[x] = f[y] => x = y, \A y \in T : \E x \in S : f[x] = y
    PROVE  IsFiniteSet(T) /\ Cardinality(T) = Cardinality(S)
<1>1. f \in Bijection(S, T)
  BY Fun_IsBij
<1>2. ExistsBijection(S, T)
  BY <1>1, Fun_ExistsBij
<1> QED BY <1>2, FS_Bijection

\* A sequence has finitely many places.
LEMMA SpotsFinite ==
    ASSUME NEW A, NEW q \in Seq(A), NEW b
    PROVE  IsFiniteSet(Spots(b, q)) /\ Number(b, q) \in Nat
<1>1. DOMAIN q = 1..Len(q) /\ Len(q) \in Nat
  OBVIOUS
<1>2. IsFiniteSet(1..Len(q))
  BY <1>1, FS_Interval
<1>3. Spots(b, q) \subseteq 1..Len(q)
  BY <1>1 DEF Spots
<1>4. IsFiniteSet(Spots(b, q))
  BY <1>2, <1>3, FS_Subset
<1> QED BY <1>4, FS_CardinalityType DEF Number

\* The places of b in one sequence of a family, counted.
LEMMA InCount ==
    ASSUME NEW A, NEW q \in Seq(A), NEW b, NEW x
    PROVE  IsFiniteSet(In(b, q, x)) /\ Cardinality(In(b, q, x)) = Number(b, q)
<1> DEFINE f == [j \in Spots(b, q) |-> <<x, j>>]
<1>1. In(b, q, x) = {<<x, j>> : j \in Spots(b, q)}
  BY DEF In, Spots
<1>2. f \in [Spots(b, q) -> In(b, q, x)]
  BY <1>1
<1>3. \A j, k \in Spots(b, q) : f[j] = f[k] => j = k
  OBVIOUS
<1>4. \A y \in In(b, q, x) : \E j \in Spots(b, q) : f[j] = y
  BY <1>1
<1> HIDE DEF f
<1> QED BY <1>2, <1>3, <1>4, SpotsFinite, SameCount DEF Number

\* Counting distributes over concatenation.
LEMMA NumberConcat ==
    ASSUME NEW A, NEW p \in Seq(A), NEW q \in Seq(A), NEW b
    PROVE  Number(b, p \o q) = Number(b, p) + Number(b, q)
<1> DEFINE n == Len(p)
           m == Len(q)
           X == Spots(b, p)
           Y == Spots(b, q)
           Z == {n + j : j \in Y}
           f == [j \in Y |-> n + j]
<1>0. /\ n \in Nat /\ m \in Nat /\ DOMAIN p = 1..n /\ DOMAIN q = 1..m
      /\ (p \o q) \in Seq(A) /\ Len(p \o q) = n + m /\ DOMAIN (p \o q) = 1..(n + m)
  OBVIOUS
<1>1. \A j \in 1..(n + m) : (p \o q)[j] = IF j <= n THEN p[j] ELSE q[j - n]
  OBVIOUS
<1>2. X \subseteq 1..n /\ Y \subseteq 1..m
  BY <1>0 DEF Spots
<1>3. IsFiniteSet(X) /\ IsFiniteSet(Y) /\ Number(b, p) = Cardinality(X) /\ Number(b, q) = Cardinality(Y)
  BY SpotsFinite DEF Number
<1>4. X = {j \in 1..n : p[j] = b} /\ Y = {j \in 1..m : q[j] = b}
  BY <1>0 DEF Spots
<1>5. Spots(b, p \o q) = {j \in 1..(n + m) : (p \o q)[j] = b}
  BY <1>0 DEF Spots
<1> HIDE DEF n, m, X, Y
<1>6. IsFiniteSet(Z) /\ Cardinality(Z) = Cardinality(Y)
  <2>1. f \in [Y -> Z]
    OBVIOUS
  <2>2. \A i, j \in Y : f[i] = f[j] => i = j
    BY <1>0, <1>2
  <2>3. \A y \in Z : \E j \in Y : f[j] = y
    OBVIOUS
  <2> HIDE DEF f, Z
  <2> QED BY <1>3, <2>1, <2>2, <2>3, SameCount
<1>7. Spots(b, p \o q) = X \cup Z
  <2>1. ASSUME NEW j \in Spots(b, p \o q) PROVE j \in X \cup Z
    <3>1. j \in 1..(n + m) /\ (p \o q)[j] = b
      BY <1>5, <2>1
    <3>2. CASE j <= n
      BY <1>0, <1>1, <1>4, <3>1, <3>2
    <3>3. CASE ~(j <= n)
      <4>1. j - n \in 1..m /\ q[j - n] = b /\ j = n + (j - n)
        BY <1>0, <1>1, <3>1, <3>3
      <4> QED BY <1>4, <4>1
    <3> QED BY <3>2, <3>3
  <2>2. ASSUME NEW j \in X PROVE j \in Spots(b, p \o q)
    BY <1>0, <1>1, <1>4, <1>5
  <2>3. ASSUME NEW j \in Y PROVE n + j \in Spots(b, p \o q)
    <3>1. j \in 1..m /\ q[j] = b
      BY <1>4
    <3>2. n + j \in 1..(n + m) /\ ~(n + j <= n) /\ (n + j) - n = j
      BY <1>0, <3>1
    <3> QED BY <1>1, <1>5, <3>1, <3>2
  <2> QED BY <2>1, <2>2, <2>3
<1>8. X \cap Z = {}
  BY <1>0, <1>2
<1>9. Cardinality(X \cup Z) = Cardinality(X) + Cardinality(Z)
  <2> HIDE DEF Z
  <2>1. Cardinality(X \cap Z) = 0 /\ Cardinality(X) \in Nat /\ Cardinality(Z) \in Nat
    BY <1>3, <1>6, <1>8, FS_EmptySet, FS_CardinalityType
  <2>2. Cardinality(X \cup Z) = Cardinality(X) + Cardinality(Z) - Cardinality(X \cap Z)
    BY <1>3, <1>6, FS_Union
  <2> QED BY <2>1, <2>2
<1> QED BY <1>3, <1>6, <1>7, <1>9 DEF Number

\* How often b is in a sequence of one.
LEMMA NumberOne ==
    ASSUME NEW b, NEW x
    PROVE  Number(b, <<>>) = 0 /\ Number(b, <<x>>) = IF x = b THEN 1 ELSE 0
<1>1. Spots(b, <<>>) = {}
  BY DEF Spots
<1>2. Spots(b, <<x>>) = IF x = b THEN {1} ELSE {}
  BY DEF Spots
<1> QED BY <1>1, <1>2, FS_EmptySet, FS_Singleton DEF Number

\* Counting over Append, Head and Tail.
LEMMA NumberEnds ==
    ASSUME NEW A, NEW q \in Seq(A), NEW b
    PROVE  /\ \A x \in A : Number(b, Append(q, x)) = Number(b, q) + (IF x = b THEN 1 ELSE 0)
           /\ \A x \in A : Number(b, <<x>> \o q) = Number(b, q) + (IF x = b THEN 1 ELSE 0)
           /\ q # <<>> => Number(b, q) = Number(b, Tail(q)) + (IF Head(q) = b THEN 1 ELSE 0)
<1>0. Number(b, q) \in Nat
  BY SpotsFinite
<1>1. ASSUME NEW x \in A
      PROVE  /\ Number(b, Append(q, x)) = Number(b, q) + (IF x = b THEN 1 ELSE 0)
             /\ Number(b, <<x>> \o q) = Number(b, q) + (IF x = b THEN 1 ELSE 0)
  <2>1. <<x>> \in Seq(A) /\ Append(q, x) = q \o <<x>>
    BY AppendIsConcat
  <2>2. Number(b, q \o <<x>>) = Number(b, q) + Number(b, <<x>>)
    BY <2>1, NumberConcat
  <2>3. Number(b, <<x>> \o q) = Number(b, <<x>>) + Number(b, q)
    BY <2>1, NumberConcat
  <2>4. Number(b, <<x>>) = IF x = b THEN 1 ELSE 0
    BY NumberOne
  <2> QED BY <1>0, <2>1, <2>2, <2>3, <2>4
<1>2. ASSUME q # <<>> PROVE Number(b, q) = Number(b, Tail(q)) + (IF Head(q) = b THEN 1 ELSE 0)
  <2> DEFINE h == Head(q)
             r == Tail(q)
  <2>1. h \in A /\ r \in Seq(A) /\ q = <<h>> \o r /\ <<h>> \in Seq(A)
    BY <1>2
  <2> HIDE DEF h, r
  <2>2. Number(b, <<h>> \o r) = Number(b, <<h>>) + Number(b, r)
    BY <2>1, NumberConcat
  <2>3. Number(b, <<h>>) = IF h = b THEN 1 ELSE 0
    BY NumberOne
  <2>4. Number(b, r) \in Nat
    BY <2>1, SpotsFinite
  <2>5. Number(b, q) = Number(b, <<h>> \o r)
    BY <2>1
  <2>6. Number(b, q) = Number(b, r) + (IF h = b THEN 1 ELSE 0)
    BY <2>2, <2>3, <2>4, <2>5
  <2> QED BY <2>6 DEF h, r
<1> QED BY <1>1, <1>2

\* Counting over two parts of a sequence.
LEMMA NumberSplit ==
    ASSUME NEW A, NEW q \in Seq(A), NEW b, NEW k \in 0..Len(q)
    PROVE  Number(b, q) = Number(b, SubSeq(q, 1, k)) + Number(b, SubSeq(q, k + 1, Len(q)))
<1>1. SubSeq(q, 1, k) \in Seq(A) /\ SubSeq(q, k + 1, Len(q)) \in Seq(A)
  OBVIOUS
<1>2. SubSeq(q, 1, k) \o SubSeq(q, k + 1, Len(q)) = q
  <2>1. 1 \in 1..(Len(q) + 1) /\ k \in (1 - 1)..Len(q) /\ Len(q) \in k..Len(q)
    OBVIOUS
  <2>2. SubSeq(q, 1, k) \o SubSeq(q, k + 1, Len(q)) = SubSeq(q, 1, Len(q))
    BY <2>1, ConcatAdjacentSubSeq
  <2> QED BY <2>2, SubSeqFull
<1> QED BY <1>1, <1>2, NumberConcat

\* What is in a sequence is counted.
LEMMA NumberSome ==
    ASSUME NEW A, NEW q \in Seq(A), NEW b
    PROVE  (\E i \in DOMAIN q : q[i] = b) <=> Number(b, q) > 0
<1>1. IsFiniteSet(Spots(b, q)) /\ Number(b, q) \in Nat
  BY SpotsFinite
<1>2. Number(b, q) = 0 <=> Spots(b, q) = {}
  BY <1>1, FS_EmptySet DEF Number
<1> QED BY <1>1, <1>2 DEF Spots

\* A finite family of sequences.
Family(F, S, A) == IsFiniteSet(S) /\ \A s \in S : F[s] \in Seq(A)

\* A finite family of sequences has finitely many places.
LEMMA TallyFinite ==
    ASSUME NEW F, NEW S, NEW A, Family(F, S, A), NEW b
    PROVE  IsFiniteSet(Tally(b, F, S)) /\ Cardinality(Tally(b, F, S)) \in Nat
<1>0. IsFiniteSet(S) /\ \A s \in S : F[s] \in Seq(A)
  BY DEF Family
<1> DEFINE D == {In(b, F[s], s) : s \in S}
           f == [s \in S |-> In(b, F[s], s)]
<1>1. f \in Surjection(S, D)
  <2>1. f \in [S -> D] /\ \A d \in D : \E s \in S : f[s] = d
    OBVIOUS
  <2> HIDE DEF f, D
  <2> QED BY <2>1, Fun_IsSurj
<1>2. \A d \in D : IsFiniteSet(d)
  BY <1>0, InCount
<1>3. IsFiniteSet(D)
  <2> HIDE DEF f, D
  <2> QED BY <1>0, <1>1, FS_Surjection
<1>4. IsFiniteSet(UNION D)
  <2> HIDE DEF D
  <2> QED BY <1>2, <1>3, FS_UNION
<1>5. IsFiniteSet(Tally(b, F, S))
  BY <1>4 DEF Tally
<1> QED BY <1>5, FS_CardinalityType

\* One of the sequences apart from the others.
LEMMA TallySplit ==
    ASSUME NEW F, NEW S, NEW A, Family(F, S, A), NEW b, NEW s \in S
    PROVE  /\ Cardinality(Tally(b, F, S)) = Cardinality(Tally(b, F, S \ {s})) + Number(b, F[s])
           /\ Cardinality(Tally(b, F, S \ {s})) \in Nat /\ Number(b, F[s]) \in Nat
           /\ Cardinality(Tally(b, F, S)) \in Nat
<1>0. IsFiniteSet(S) /\ \A u \in S : F[u] \in Seq(A)
  BY DEF Family
<1> DEFINE R == Tally(b, F, S \ {s})
           I == In(b, F[s], s)
<1>1. Tally(b, F, S) = R \cup I
  BY DEF Tally
<1>2. R \cap I = {}
  <2>1. \A y \in I : y[1] = s
    BY DEF In
  <2>2. \A y \in R : y[1] # s
    BY DEF Tally, In
  <2> QED BY <2>1, <2>2
<1>3. Family(F, S \ {s}, A)
  BY <1>0, FS_RemoveElement DEF Family
<1>4. IsFiniteSet(R) /\ Cardinality(R) \in Nat
  BY <1>3, TallyFinite
<1>5. IsFiniteSet(I) /\ Cardinality(I) = Number(b, F[s]) /\ Number(b, F[s]) \in Nat
  <2>1. F[s] \in Seq(A)
    BY <1>0
  <2> QED BY <2>1, InCount, SpotsFinite
<1> HIDE DEF R, I
<1>6. Cardinality(R \cup I) = Cardinality(R) + Cardinality(I) - Cardinality(R \cap I)
  BY <1>4, <1>5, FS_Union
<1>7. Cardinality(R \cap I) = 0
  BY <1>2, FS_EmptySet
<1>8. Cardinality(Tally(b, F, S)) = Cardinality(R) + Number(b, F[s])
  BY <1>1, <1>4, <1>5, <1>6, <1>7
<1> QED BY <1>4, <1>5, <1>8 DEF R

\* Two families of sequences that differ in one, and what that changes.
Differ(F, G, S, A, s) ==
    Family(F, S, A) /\ Family(G, S, A) /\ s \in S /\ \A u \in S \ {s} : G[u] = F[u]

\* What such a change does to the number of places.
LEMMA TallyChange ==
    ASSUME NEW F, NEW G, NEW S, NEW A, NEW s, Differ(F, G, S, A, s), NEW b
    PROVE  /\ Cardinality(Tally(b, G, S)) \in Nat /\ Cardinality(Tally(b, F, S)) \in Nat
           /\ Cardinality(Tally(b, G, S)) + Number(b, F[s])
                = Cardinality(Tally(b, F, S)) + Number(b, G[s])
<1>1. Family(F, S, A) /\ Family(G, S, A) /\ s \in S
  BY DEF Differ
<1>2. Tally(b, G, S \ {s}) = Tally(b, F, S \ {s})
  BY DEF Tally, Differ
<1>3. /\ Cardinality(Tally(b, F, S)) = Cardinality(Tally(b, F, S \ {s})) + Number(b, F[s])
      /\ Cardinality(Tally(b, F, S \ {s})) \in Nat /\ Number(b, F[s]) \in Nat
      /\ Cardinality(Tally(b, F, S)) \in Nat
  BY <1>1, TallySplit
<1>4. /\ Cardinality(Tally(b, G, S)) = Cardinality(Tally(b, G, S \ {s})) + Number(b, G[s])
      /\ Number(b, G[s]) \in Nat /\ Cardinality(Tally(b, G, S)) \in Nat
  BY <1>1, TallySplit
<1> QED BY <1>2, <1>3, <1>4

\* Families with the same sequences have the same places.
LEMMA TallySame ==
    ASSUME NEW S, NEW F, NEW G, NEW b, \A u \in S : G[u] = F[u]
    PROVE  Tally(b, G, S) = Tally(b, F, S)
BY DEF Tally

\* What is in one of the sequences is counted.
LEMMA TallySome ==
    ASSUME NEW F, NEW S, NEW A, Family(F, S, A), NEW b, NEW s \in S
    PROVE  /\ Number(b, F[s]) <= Cardinality(Tally(b, F, S)) /\ Number(b, F[s]) \in Nat
           /\ \A i \in DOMAIN F[s] : F[s][i] = b => Cardinality(Tally(b, F, S)) > 0
<1>1. /\ Cardinality(Tally(b, F, S)) = Cardinality(Tally(b, F, S \ {s})) + Number(b, F[s])
      /\ Cardinality(Tally(b, F, S \ {s})) \in Nat /\ Number(b, F[s]) \in Nat
  BY TallySplit
<1>2. F[s] \in Seq(A)
  BY DEF Family
<1>3. ASSUME NEW i \in DOMAIN F[s], F[s][i] = b PROVE Number(b, F[s]) > 0
  BY <1>2, <1>3, NumberSome
<1>4. /\ Number(b, F[s]) <= Cardinality(Tally(b, F, S))
      /\ Number(b, F[s]) > 0 => Cardinality(Tally(b, F, S)) > 0
  BY <1>1
<1> QED BY <1>1, <1>3, <1>4

\* Buckets: one more in front.
LEMMA TallyPrepend ==
    ASSUME NEW A, NEW B \in Seq(Seq(A)), NEW c \in Seq(A), NEW b
    PROVE  LET C == <<c>> \o B IN
           /\ Cardinality(Tally(b, B, DOMAIN B)) \in Nat
           /\ Cardinality(Tally(b, C, DOMAIN C)) = Cardinality(Tally(b, B, DOMAIN B)) + Number(b, c)
<1> DEFINE C == <<c>> \o B
           n == Len(B)
           R == Tally(b, C, (DOMAIN C) \ {1})
           T == Tally(b, B, DOMAIN B)
           f == [y \in T |-> <<y[1] + 1, y[2]>>]
<1>1. /\ n \in Nat /\ DOMAIN B = 1..n /\ DOMAIN C = 1..(n + 1) /\ C[1] = c
      /\ (\A i \in 1..n : C[i + 1] = B[i] /\ B[i] \in Seq(A)) /\ C \in Seq(Seq(A))
  OBVIOUS
<1>2. \A i \in 1..(n + 1) : C[i] \in Seq(A)
  BY <1>1
<1> HIDE DEF C, n
<1>3. IsFiniteSet(1..n) /\ IsFiniteSet(1..(n + 1)) /\ 1 \in 1..(n + 1)
  <2>1. 1 \in Int /\ n \in Int /\ n + 1 \in Int /\ 1 \in 1..(n + 1)
    BY <1>1
  <2> QED BY <2>1, FS_Interval
<1>4. IsFiniteSet(T) /\ Cardinality(T) \in Nat
  <2>1. \A i \in DOMAIN B : B[i] \in Seq(A)
    BY <1>1
  <2>2. Family(B, DOMAIN B, A)
    BY <1>1, <1>3, <2>1 DEF Family
  <2> QED BY <2>2, TallyFinite
<1>5. Cardinality(Tally(b, C, DOMAIN C)) = Cardinality(R) + Number(b, c)
  <2>1. \A i \in DOMAIN C : C[i] \in Seq(A)
    BY <1>1, <1>2
  <2>2. 1 \in DOMAIN C /\ IsFiniteSet(DOMAIN C)
    BY <1>1, <1>3
  <2>3. Cardinality(Tally(b, C, DOMAIN C)) = Cardinality(R) + Number(b, C[1])
    <3> DEFINE S == DOMAIN C
    <3> HIDE DEF S
    <3>1. 1 \in S /\ IsFiniteSet(S) /\ \A i \in S : C[i] \in Seq(A)
      BY <2>1, <2>2 DEF S
    <3>3. Family(C, S, A)
      BY <3>1 DEF Family
    <3>2. Cardinality(Tally(b, C, S)) = Cardinality(Tally(b, C, S \ {1})) + Number(b, C[1])
      BY <3>1, <3>3, TallySplit
    <3> QED BY <3>2 DEF S
  <2> QED BY <1>1, <2>3
<1>6. ASSUME NEW y \in T
      PROVE  \E i \in 1..n : \E j \in Spots(b, B[i]) : y = <<i, j>>
  BY <1>1 DEF Tally, In, Spots
<1>7. ASSUME NEW i \in 1..n, NEW j \in Spots(b, B[i])
      PROVE  <<i, j>> \in T /\ <<i + 1, j>> \in R
  <2>1. <<i, j>> \in T
    BY <1>1 DEF Tally, In, Spots
  <2>2. i + 1 \in (1..(n + 1)) \ {1} /\ C[i + 1] = B[i]
    BY <1>1
  <2>3. <<i + 1, j>> \in R
    BY <1>1, <2>2 DEF Tally, In, Spots
  <2> QED BY <2>1, <2>3
<1>8. ASSUME NEW y \in R
      PROVE  \E i \in 1..n : \E j \in Spots(b, B[i]) : y = <<i + 1, j>>
  <2>1. PICK k \in (1..(n + 1)) \ {1} : \E j \in Spots(b, C[k]) : y = <<k, j>>
    BY <1>1 DEF Tally, In, Spots
  <2>2. k - 1 \in 1..n /\ (k - 1) + 1 = k
    BY <1>1
  <2>3. C[k] = B[k - 1]
    BY <1>1, <2>2
  <2> QED BY <2>1, <2>2, <2>3
<1> HIDE DEF R, T
<1>9. f \in [T -> R]
  <2>1. ASSUME NEW y \in T PROVE <<y[1] + 1, y[2]>> \in R
    BY <1>6, <1>7
  <2> QED BY <2>1
<1>10. ASSUME NEW x \in T, NEW y \in T, f[x] = f[y] PROVE x = y
  <2>1. PICK i \in 1..n, j \in Nat : x = <<i, j>>
    BY <1>1, <1>6 DEF Spots
  <2>2. PICK k \in 1..n, l \in Nat : y = <<k, l>>
    BY <1>1, <1>6 DEF Spots
  <2>3. f[x] = <<i + 1, j>> /\ f[y] = <<k + 1, l>>
    BY <2>1, <2>2
  <2>4. i + 1 = k + 1 /\ j = l
    BY <1>10, <2>3
  <2> QED BY <1>1, <2>1, <2>2, <2>4
<1>11. ASSUME NEW y \in R PROVE \E x \in T : f[x] = y
  <2>1. PICK i \in 1..n : \E j \in Spots(b, B[i]) : y = <<i + 1, j>>
    BY <1>8
  <2>2. PICK j \in Spots(b, B[i]) : y = <<i + 1, j>>
    BY <2>1
  <2>3. <<i, j>> \in T /\ f[<<i, j>>] = y
    BY <1>7, <2>2
  <2> QED BY <2>3
<1>12. Cardinality(R) = Cardinality(T)
  <2> HIDE DEF f
  <2> QED BY <1>4, <1>9, <1>10, <1>11, SameCount
<1> QED BY <1>4, <1>5, <1>12 DEF C, T

----------------------------------------------------------------------------
\* The invariant.

\* All sessions have one key.
OneKey == \A k \in KeyMaps : \A s, u \in Sessions : k[s] = k[u]

Coding == {"check", "lock", "encode", "mark"}
Sending == Coding \cup {"fill", "postSend"}
Pcs == {"idle", "make", "process"} \cup Sending \cup Releasing

BufferType ==
    /\ allocs \in 0..MaxAlloc /\ ref \in [Buffers -> Int]
    /\ form \in [Buffers -> {"none", "lan", "net"}]
    /\ isEncrypt \in [Buffers -> {0, 1}]
    /\ lock \in [Buffers -> Threads \cup {NoOne}]
    /\ key \in KeyMaps /\ message \in Messages
    /\ sendQ \in [Sessions -> Seq(Buffers)] /\ batch \in [Sessions -> Seq(Buffers)]
    /\ busy \in [Sessions -> BOOLEAN] /\ flight \in [Sessions -> BOOLEAN]
    /\ state \in [Sessions -> {"open", "closing", "released"}]
    /\ pc \in [Threads -> Pcs]
    /\ at \in [Threads -> Sessions \cup {NoOne}]
    /\ got \in [Threads -> Buffers \cup {None}]
    /\ todo \in [Threads -> Seq(Buffers)]

\* What a thread has where it is.
CallInv ==
    \A t \in Threads :
        /\ pc[t] \in {"idle", "make"} => got[t] = None
        /\ pc[t] \notin Releasing => todo[t] = <<>>
        /\ pc[t] \in Coding \cup {"process"} => got[t] \in Buffers
        /\ pc[t] \in Sending \cup {"process"} => at[t] \in Sessions
        /\ pc[t] \in Coding => \E i \in DOMAIN batch[at[t]] : batch[at[t]][i] = got[t]

\* A session has one sender: a thread or the kernel.
SenderInv ==
    /\ \A t, u \in Threads : pc[t] \in Sending /\ pc[u] \in Sending /\ at[t] = at[u] => t = u
    /\ \A t \in Threads : pc[t] \in Sending => busy[at[t]] /\ ~flight[at[t]]
    /\ \A s \in Sessions : flight[s] => busy[s]

\* The one that encodes a buffer has its lock, and the buffer is not encoded yet.
LockInv ==
    \A t \in Threads : pc[t] \in {"encode", "mark"} => lock[got[t]] = t /\ isEncrypt[got[t]] = 0

CallsInv == BufferType /\ CallInv /\ SenderInv /\ LockInv

\* Where the references to a buffer are.
Queued(b) == Cardinality(UNION {In(b, sendQ[s], s) : s \in Sessions})
Sent(b) == Cardinality(UNION {In(b, Unreleased(s), s) : s \in Sessions})
Due(b) == Cardinality(UNION {In(b, todo[t], t) : t \in Threads})
Called(b) == Cardinality({t \in Threads : pc[t] = "process" /\ got[t] = b})

RefInv ==
    /\ held \in [Contents -> [Buffers -> 0..MaxHandle]]
    /\ \A b \in Buffers : ref[b] = HandleCount(b) + Queued(b) + Sent(b) + Due(b) + Called(b)

\* Where it is without one.
InBuckets(b) == Cardinality(UNION {In(b, buckets[i], i) : i \in DOMAIN buckets})
InLocal(b) == Cardinality(UNION {In(b, local[t], t) : t \in Threads})
Freed(b) == Cardinality({t \in Threads : pc[t] \in Releasing /\ got[t] = b})
Used(b) == IF ref[b] > 0 THEN 1 ELSE 0

PoolInv ==
    /\ buckets \in Seq(Seq(Buffers)) /\ local \in [Threads -> Seq(Buffers)]
    /\ count \in [Threads -> 0..(2 * LocalSize)]
    /\ created \in 0..MaxBuffer
    /\ \A i \in DOMAIN buckets : Len(buckets[i]) = LocalSize
    /\ \A t \in Threads : count[t] = Len(local[t]) /\ (pc[t] = "make" => count[t] = 0)
    /\ \A b \in Buffers :
          InBuckets(b) + InLocal(b) + Freed(b) + Used(b) = IF b <= created THEN 1 ELSE 0

\* A buffer in use has its checksum and its message.
BytesInv ==
    /\ bytes \in [Buffers -> Seq(Chars)]
    /\ \A b \in Buffers : ref[b] > 0 => bytes[b] # <<>>

BInv == CallsInv /\ RefInv /\ PoolInv /\ BytesInv

\* What is in a buffer that is in use, and in those a session is about to send.
Coded(b) == isEncrypt[b] = 1 \/ \E t \in Threads : pc[t] = "mark" /\ got[t] = b
BodyInv ==
    \A b \in Buffers : ref[b] > 0 =>
        IF Coded(b) THEN form[b] = "net" /\ \A s \in Sessions :
                            key[s] # 0 /\ bytes[b] = Encode(WriteNetHeader(message), key[s])
        ELSE bytes[b] = <<0>> \o message
BatchInv ==
    \A s \in Sessions : \A i \in DOMAIN Unreleased(s) :
        LET b == Unreleased(s)[i] IN
        IF key[s] = 0 THEN form[b] = "lan"
        ELSE isEncrypt[b] = 1 \/ \E t \in Threads : pc[t] \in Coding /\ at[t] = s /\ got[t] = b

KeyInv == \A t \in Threads : pc[t] \in Coding => key[at[t]] # 0

CodeInv == BodyInv /\ BatchInv /\ KeyInv

----------------------------------------------------------------------------
\* Counting handles and threads.

\* The handles on a buffer, and the sequences that Unreleased picks.
Handles(b, H) == {h \in Contents \X (1..MaxHandle) : h[2] <= H[h[1]][b]}
HandleType == [Contents -> [Buffers -> 0..MaxHandle]]
Out == [s \in Sessions |-> Unreleased(s)]

\* The sets of threads and sessions are finite.
LEMMA ThreadSets ==
    /\ IsFiniteSet(Threads) /\ IsFiniteSet(Contents) /\ IsFiniteSet(Sessions)
    /\ Contents \subseteq Threads
BY BufferAssumption, FS_Subset

\* The counts of RefInv and of PoolInv as cardinalities of families.
LEMMA CountsAre ==
    ASSUME NEW b
    PROVE  /\ HandleCount(b) = Cardinality(Handles(b, held))
           /\ HandleCount(b)' = Cardinality(Handles(b, held'))
           /\ Queued(b) = Cardinality(Tally(b, sendQ, Sessions))
           /\ Queued(b)' = Cardinality(Tally(b, sendQ', Sessions))
           /\ Sent(b) = Cardinality(Tally(b, Out, Sessions))
           /\ Sent(b)' = Cardinality(Tally(b, Out', Sessions))
           /\ Due(b) = Cardinality(Tally(b, todo, Threads))
           /\ Due(b)' = Cardinality(Tally(b, todo', Threads))
           /\ InLocal(b) = Cardinality(Tally(b, local, Threads))
           /\ InLocal(b)' = Cardinality(Tally(b, local', Threads))
           /\ InBuckets(b) = Cardinality(Tally(b, buckets, DOMAIN buckets))
           /\ InBuckets(b)' = Cardinality(Tally(b, buckets', DOMAIN buckets'))
<1>1. HandleCount(b) = Cardinality(Handles(b, held)) /\ HandleCount(b)' = Cardinality(Handles(b, held'))
  BY DEF HandleCount, Handles
<1>2. Queued(b) = Cardinality(Tally(b, sendQ, Sessions)) /\ Queued(b)' = Cardinality(Tally(b, sendQ', Sessions))
  BY DEF Queued, Tally
<1>3. UNION {In(b, Unreleased(s), s) : s \in Sessions} = Tally(b, Out, Sessions)
  BY DEF Tally, Out
<1>4. UNION {In(b, Unreleased(s)', s) : s \in Sessions} = Tally(b, Out', Sessions)
  BY DEF Tally, Out
<1>5. Sent(b) = Cardinality(Tally(b, Out, Sessions)) /\ Sent(b)' = Cardinality(Tally(b, Out', Sessions))
  BY <1>3, <1>4 DEF Sent
<1>6. Due(b) = Cardinality(Tally(b, todo, Threads)) /\ Due(b)' = Cardinality(Tally(b, todo', Threads))
  BY DEF Due, Tally
<1>7. InLocal(b) = Cardinality(Tally(b, local, Threads)) /\ InLocal(b)' = Cardinality(Tally(b, local', Threads))
  BY DEF InLocal, Tally
<1>8. /\ InBuckets(b) = Cardinality(Tally(b, buckets, DOMAIN buckets))
      /\ InBuckets(b)' = Cardinality(Tally(b, buckets', DOMAIN buckets'))
  BY DEF InBuckets, Tally
<1> QED BY <1>1, <1>2, <1>5, <1>6, <1>7, <1>8

\* A buffer has finitely many handles.
LEMMA HandlesFinite ==
    ASSUME NEW b, NEW H
    PROVE  IsFiniteSet(Handles(b, H)) /\ Cardinality(Handles(b, H)) \in Nat
<1>1. IsFiniteSet(1..MaxHandle)
  <2>1. 1 \in Int /\ MaxHandle \in Int
    BY BufferAssumption
  <2> QED BY <2>1, FS_Interval
<1>2. IsFiniteSet(Contents \X (1..MaxHandle))
  BY <1>1, ThreadSets, FS_Product
<1>3. Handles(b, H) \subseteq Contents \X (1..MaxHandle)
  BY DEF Handles
<1>4. IsFiniteSet(Handles(b, H))
  BY <1>2, <1>3, FS_Subset
<1> QED BY <1>4, FS_CardinalityType

\* One more handle.
LEMMA HandleUp ==
    ASSUME NEW H \in HandleType, NEW G \in HandleType, NEW u \in Contents, NEW b \in Buffers,
           G[u][b] = H[u][b] + 1,
           \A v \in Contents, c \in Buffers : v # u \/ c # b => G[v][c] = H[v][c]
    PROVE  /\ Cardinality(Handles(b, G)) = Cardinality(Handles(b, H)) + 1
           /\ \A c \in Buffers : c # b => Cardinality(Handles(c, G)) = Cardinality(Handles(c, H))
<1> DEFINE n == <<u, G[u][b]>>
<1>1. MaxHandle \in Nat /\ \A v \in Contents, c \in Buffers : H[v][c] \in 0..MaxHandle /\ G[v][c] \in 0..MaxHandle
  BY BufferAssumption DEF HandleType
<1>2. G[u][b] \in 1..MaxHandle
  BY <1>1
<1>3. n \notin Handles(b, H)
  BY <1>1 DEF Handles
<1>4. Handles(b, G) = Handles(b, H) \cup {n}
  <2>1. ASSUME NEW h \in Handles(b, G) PROVE h \in Handles(b, H) \cup {n}
    <3>1. PICK v \in Contents, k \in 1..MaxHandle : h = <<v, k>> /\ k <= G[v][b]
      BY <2>1 DEF Handles
    <3>2. CASE v = u /\ k = G[u][b]
      BY <3>1, <3>2
    <3>3. CASE ~(v = u /\ k = G[u][b])
      <4>1. k <= H[v][b]
        BY <1>1, <3>1, <3>3
      <4> QED BY <3>1, <4>1 DEF Handles
    <3> QED BY <3>2, <3>3
  <2>2. ASSUME NEW h \in Handles(b, H) PROVE h \in Handles(b, G)
    <3>1. PICK v \in Contents, k \in 1..MaxHandle : h = <<v, k>> /\ k <= H[v][b]
      BY <2>2 DEF Handles
    <3>2. k <= G[v][b]
      BY <1>1, <3>1
    <3> QED BY <3>1, <3>2 DEF Handles
  <2>3. n \in Handles(b, G)
    BY <1>1, <1>2 DEF Handles
  <2> QED BY <2>1, <2>2, <2>3
<1>5. ASSUME NEW c \in Buffers, c # b PROVE Cardinality(Handles(c, G)) = Cardinality(Handles(c, H))
  <2>1. \A v \in Contents : G[v][c] = H[v][c]
    BY <1>5
  <2>2. Handles(c, G) = Handles(c, H)
    BY <2>1 DEF Handles
  <2> QED BY <2>2
<1> HIDE DEF n
<1>6. Cardinality(Handles(b, H) \cup {n}) = Cardinality(Handles(b, H)) + 1
  BY <1>3, HandlesFinite, FS_AddElement
<1> QED BY <1>4, <1>5, <1>6

\* A thread's handles are among them.
LEMMA HandleSome ==
    ASSUME NEW H \in HandleType, NEW u \in Contents, NEW b \in Buffers
    PROVE  H[u][b] \in 0..MaxHandle /\ H[u][b] <= Cardinality(Handles(b, H))
<1> DEFINE k == H[u][b]
           R == {h \in Handles(b, H) : h[1] = u}
           f == [i \in 1..k |-> <<u, i>>]
<1>1. k \in 0..MaxHandle /\ MaxHandle \in Nat
  BY BufferAssumption DEF HandleType
<1>2. f \in [1..k -> R]
  <2>1. ASSUME NEW i \in 1..k PROVE <<u, i>> \in R
    BY <1>1 DEF Handles
  <2> QED BY <2>1
<1>3. \A i, j \in 1..k : f[i] = f[j] => i = j
  OBVIOUS
<1>4. \A h \in R : \E i \in 1..k : f[i] = h
  <2>1. ASSUME NEW h \in R PROVE \E i \in 1..k : f[i] = h
    <3>1. PICK v \in Contents, i \in 1..MaxHandle : h = <<v, i>> /\ i <= H[v][b]
      BY <2>1 DEF Handles
    <3>2. v = u
      BY <3>1
    <3>3. i \in 1..k
      BY <1>1, <3>1, <3>2
    <3> QED BY <3>1, <3>2, <3>3
  <2> QED BY <2>1
<1> HIDE DEF f
<1>5. IsFiniteSet(1..k) /\ Cardinality(1..k) = k
  <2>1. 1 \in Int /\ k \in Int /\ k \in Nat
    BY <1>1
  <2>2. IsFiniteSet(1..k) /\ Cardinality(1..k) = IF 1 > k THEN 0 ELSE k - 1 + 1
    <3> HIDE DEF k
    <3> QED BY <2>1, FS_Interval
  <2> HIDE DEF k
  <2> QED BY <2>1, <2>2
<1>6. Cardinality(R) = k
  <2> HIDE DEF R, k
  <2>1. Cardinality(R) = Cardinality(1..k)
    BY <1>2, <1>3, <1>4, <1>5, SameCount
  <2> QED BY <1>5, <2>1
<1>7. Cardinality(R) <= Cardinality(Handles(b, H))
  <2>1. R \subseteq Handles(b, H)
    OBVIOUS
  <2> QED BY <2>1, HandlesFinite, FS_Subset
<1> QED BY <1>1, <1>6, <1>7

\* What a step of t leaves to the others.
Others(t) ==
    \A u \in Threads \ {t} : pc'[u] = pc[u] /\ at'[u] = at[u] /\ got'[u] = got[u] /\ todo'[u] = todo[u]

\* What sessions have sent and not released is unchanged when no batch and no PostSend changes.
LEMMA OutSame ==
    ASSUME NEW t, Others(t), batch' = batch,
           \/ pc[t] # "postSend" /\ pc'[t] # "postSend"
           \/ pc'[t] = pc[t] /\ at'[t] = at[t]
    PROVE  Out' = Out
<1>1. \A s \in Sessions : Unreleased(s)' = Unreleased(s)
  BY DEF Unreleased, Others
<1> QED BY <1>1 DEF Out

\* How many threads are somewhere is a number.
LEMMA ThreadCounts ==
    ASSUME NEW b
    PROVE  Called(b) \in Nat /\ Freed(b) \in Nat /\ Called(b)' \in Nat /\ Freed(b)' \in Nat
<1>1. \A T \in SUBSET Threads : IsFiniteSet(T) /\ Cardinality(T) \in Nat
  BY ThreadSets, FS_Subset, FS_CardinalityType
<1>2. Called(b) \in Nat
  BY <1>1 DEF Called
<1>3. Called(b)' \in Nat
  BY <1>1 DEF Called
<1>4. Freed(b) \in Nat
  BY <1>1 DEF Freed
<1>5. Freed(b)' \in Nat
  BY <1>1 DEF Freed
<1> QED BY <1>2, <1>3, <1>4, <1>5

\* How one thread changes the counts of calls.
LEMMA CalledChange ==
    ASSUME NEW t \in Threads, Others(t), NEW b
    PROVE  Called(b)' + (IF pc[t] = "process" /\ got[t] = b THEN 1 ELSE 0)
             = Called(b) + (IF pc'[t] = "process" /\ got'[t] = b THEN 1 ELSE 0)
<1> DEFINE S == {u \in Threads : pc[u] = "process" /\ got[u] = b}
           T == {u \in Threads : pc'[u] = "process" /\ got'[u] = b}
           R == S \ {t}
<1>1. R = T \ {t}
  BY DEF Others
<1>2. IsFiniteSet(R)
  BY ThreadSets, FS_Subset
<1>3. S = (IF pc[t] = "process" /\ got[t] = b THEN R \cup {t} ELSE R)
  OBVIOUS
<1>4. T = (IF pc'[t] = "process" /\ got'[t] = b THEN R \cup {t} ELSE R)
  BY <1>1
<1>5. t \notin R
  OBVIOUS
<1>6. Called(b) = Cardinality(S) /\ Called(b)' = Cardinality(T)
  BY DEF Called
<1> HIDE DEF S, T, R
<1>7. Cardinality(R) \in Nat /\ Cardinality(R \cup {t}) = Cardinality(R) + 1
  BY <1>2, <1>5, FS_CardinalityType, FS_AddElement
<1> QED BY <1>3, <1>4, <1>6, <1>7

\* A step of one thread, and the threads that free the buffer.
LEMMA FreedChange ==
    ASSUME NEW t \in Threads, Others(t), NEW b
    PROVE  Freed(b)' + (IF pc[t] \in Releasing /\ got[t] = b THEN 1 ELSE 0)
             = Freed(b) + (IF pc'[t] \in Releasing /\ got'[t] = b THEN 1 ELSE 0)
<1> DEFINE S == {u \in Threads : pc[u] \in Releasing /\ got[u] = b}
           T == {u \in Threads : pc'[u] \in Releasing /\ got'[u] = b}
           R == S \ {t}
<1>1. R = T \ {t}
  BY DEF Others
<1>2. IsFiniteSet(R)
  BY ThreadSets, FS_Subset
<1>3. S = (IF pc[t] \in Releasing /\ got[t] = b THEN R \cup {t} ELSE R)
  OBVIOUS
<1>4. T = (IF pc'[t] \in Releasing /\ got'[t] = b THEN R \cup {t} ELSE R)
  BY <1>1
<1>5. t \notin R
  OBVIOUS
<1>6. Freed(b) = Cardinality(S) /\ Freed(b)' = Cardinality(T)
  BY DEF Freed
<1> HIDE DEF S, T, R
<1>7. Cardinality(R) \in Nat /\ Cardinality(R \cup {t}) = Cardinality(R) + 1
  BY <1>2, <1>5, FS_CardinalityType, FS_AddElement
<1> QED BY <1>3, <1>4, <1>6, <1>7

----------------------------------------------------------------------------
\* CallsInv: one lemma for each action.

\* A thread that starts no send, and ends none but its own, keeps one sender for a session.
LEMMA SenderFrame ==
    ASSUME CallsInv, NEW t \in Threads, Others(t), busy' = busy, flight' = flight,
           pc'[t] \in Sending => pc[t] \in Sending /\ at'[t] = at[t]
    PROVE  SenderInv'
<1>1. \A u \in Threads : pc'[u] \in Sending => pc[u] \in Sending /\ at'[u] = at[u]
  BY DEF Others
<1>2. SenderInv
  BY DEF CallsInv
<1> QED BY <1>1, <1>2 DEF SenderInv

LEMMA CallsAlloc ==
    ASSUME CallsInv, NEW t \in Threads, Alloc(t)
    PROVE  CallsInv'
<1>1. BufferType'
  <2>1. pc' \in [Threads -> Pcs] /\ at' \in [Threads -> Sessions \cup {NoOne}]
    BY DEF CallsInv, BufferType, CallInv, Pcs, Sending, Coding, Releasing, Alloc, Goto, Take, Clear, vars, poolVars, bufferVars, sessionVars, fixed, localVars
  <2>2. got' \in [Threads -> Buffers \cup {None}] /\ todo' \in [Threads -> Seq(Buffers)]
    BY DEF CallsInv, BufferType, CallInv, Releasing, Coding, Alloc, Goto, Take, Clear, vars, poolVars, bufferVars, sessionVars, fixed, localVars
  <2>3. sendQ' \in [Sessions -> Seq(Buffers)] /\ batch' \in [Sessions -> Seq(Buffers)]
    BY DEF CallsInv, BufferType, CallInv, Sending, Alloc, Goto, Take, Clear, vars, poolVars, bufferVars, sessionVars, fixed, localVars
  <2>4. busy' \in [Sessions -> BOOLEAN]
    BY DEF CallsInv, BufferType, Alloc, Goto, Take, Clear, vars, poolVars, bufferVars, sessionVars, fixed, localVars
  <2>5. flight' \in [Sessions -> BOOLEAN]
    BY DEF CallsInv, BufferType, Alloc, Goto, Take, Clear, vars, poolVars, bufferVars, sessionVars, fixed, localVars
  <2>6. state' \in [Sessions -> {"open", "closing", "released"}]
    BY DEF CallsInv, BufferType, Alloc, Goto, Take, Clear, vars, poolVars, bufferVars, sessionVars, fixed, localVars
  <2>7. /\ allocs' \in 0..MaxAlloc /\ ref' \in [Buffers -> Int]
        /\ form' \in [Buffers -> {"none", "lan", "net"}]
        /\ isEncrypt' \in [Buffers -> {0, 1}]
        /\ lock' \in [Buffers -> Threads \cup {NoOne}]
        /\ key' \in KeyMaps /\ message' \in Messages
    <3>1. ASSUME NEW c, ref' = [ref EXCEPT ![c] = @ + 1] PROVE ref' \in [Buffers -> Int]
      <4>1. ref \in [Buffers -> Int]
        BY DEF CallsInv, BufferType
      <4>2. CASE c \in Buffers
        BY <3>1, <4>1, <4>2
      <4>3. CASE c \notin Buffers
        <5>1. ref' = ref
          BY <3>1, <4>1, <4>3
        <5> QED BY <4>1, <5>1
      <4> QED BY <4>2, <4>3
    <3>2. ASSUME NEW c, form' = [form EXCEPT ![c] = "none"], isEncrypt' = [isEncrypt EXCEPT ![c] = 0]
          PROVE  form' \in [Buffers -> {"none", "lan", "net"}] /\ isEncrypt' \in [Buffers -> {0, 1}]
      BY <3>2 DEF CallsInv, BufferType
    <3>5. ASSUME NEW c, NEW n, Take(t, c, n)
          PROVE  /\ ref' \in [Buffers -> Int] /\ form' \in [Buffers -> {"none", "lan", "net"}]
                 /\ isEncrypt' \in [Buffers -> {0, 1}]
      BY <3>1, <3>2, <3>5 DEF Take, Clear
    <3>3. /\ ref' \in [Buffers -> Int] /\ form' \in [Buffers -> {"none", "lan", "net"}]
          /\ isEncrypt' \in [Buffers -> {0, 1}]
      BY <3>5 DEF CallsInv, BufferType, Alloc
    <3>4. allocs' \in 0..MaxAlloc
      BY BufferAssumption DEF CallsInv, BufferType, Alloc
    <3> QED BY <3>3, <3>4 DEF CallsInv, BufferType, Alloc, fixed
  <2> QED BY <2>1, <2>2, <2>3, <2>4, <2>5, <2>6, <2>7 DEF BufferType
<1>2. CallInv'
  BY DEF CallsInv, BufferType, CallInv, SenderInv, Pcs, Sending, Coding, Releasing, Alloc, Goto, Take, Clear, vars, poolVars, bufferVars, sessionVars, fixed, localVars
<1>3. SenderInv'
  <2>1. Others(t)
    BY DEF CallsInv, BufferType, Others, Alloc, Goto, localVars
  <2>2. pc'[t] \in Sending => pc[t] \in Sending /\ at'[t] = at[t]
    BY DEF CallsInv, BufferType, Sending, Coding, Releasing, Alloc, Goto, localVars
  <2>3. busy' = busy /\ flight' = flight
    BY DEF Alloc, sessionVars
  <2> QED BY <2>1, <2>2, <2>3, SenderFrame
<1>4. LockInv'
  BY DEF CallsInv, BufferType, CallInv, LockInv, Coding, Releasing, Alloc, Goto, Take, Clear, vars, poolVars, bufferVars, sessionVars, fixed, localVars
<1> QED BY <1>1, <1>2, <1>3, <1>4 DEF CallsInv

LEMMA CallsAcquireMake ==
    ASSUME CallsInv, NEW t \in Threads, AcquireMake(t)
    PROVE  CallsInv'
<1>1. BufferType'
  <2>1. pc' \in [Threads -> Pcs] /\ at' \in [Threads -> Sessions \cup {NoOne}]
    BY DEF CallsInv, BufferType, CallInv, Pcs, Sending, Coding, Releasing, AcquireMake, Goto, Take, Clear, vars, poolVars, bufferVars, sessionVars, fixed, localVars
  <2>2. got' \in [Threads -> Buffers \cup {None}] /\ todo' \in [Threads -> Seq(Buffers)]
    BY DEF CallsInv, BufferType, CallInv, Releasing, Coding, AcquireMake, Goto, Take, Clear, vars, poolVars, bufferVars, sessionVars, fixed, localVars
  <2>3. sendQ' \in [Sessions -> Seq(Buffers)] /\ batch' \in [Sessions -> Seq(Buffers)]
    BY DEF CallsInv, BufferType, CallInv, Sending, AcquireMake, Goto, Take, Clear, vars, poolVars, bufferVars, sessionVars, fixed, localVars
  <2>4. busy' \in [Sessions -> BOOLEAN]
    BY DEF CallsInv, BufferType, AcquireMake, Goto, Take, Clear, vars, poolVars, bufferVars, sessionVars, fixed, localVars
  <2>5. flight' \in [Sessions -> BOOLEAN]
    BY DEF CallsInv, BufferType, AcquireMake, Goto, Take, Clear, vars, poolVars, bufferVars, sessionVars, fixed, localVars
  <2>6. state' \in [Sessions -> {"open", "closing", "released"}]
    BY DEF CallsInv, BufferType, AcquireMake, Goto, Take, Clear, vars, poolVars, bufferVars, sessionVars, fixed, localVars
  <2>7. /\ allocs' \in 0..MaxAlloc /\ ref' \in [Buffers -> Int]
        /\ form' \in [Buffers -> {"none", "lan", "net"}]
        /\ isEncrypt' \in [Buffers -> {0, 1}]
        /\ lock' \in [Buffers -> Threads \cup {NoOne}]
        /\ key' \in KeyMaps /\ message' \in Messages
    <3>1. ASSUME NEW c, ref' = [ref EXCEPT ![c] = @ + 1] PROVE ref' \in [Buffers -> Int]
      <4>1. ref \in [Buffers -> Int]
        BY DEF CallsInv, BufferType
      <4>2. CASE c \in Buffers
        BY <3>1, <4>1, <4>2
      <4>3. CASE c \notin Buffers
        <5>1. ref' = ref
          BY <3>1, <4>1, <4>3
        <5> QED BY <4>1, <5>1
      <4> QED BY <4>2, <4>3
    <3>2. ASSUME NEW c, form' = [form EXCEPT ![c] = "none"], isEncrypt' = [isEncrypt EXCEPT ![c] = 0]
          PROVE  form' \in [Buffers -> {"none", "lan", "net"}] /\ isEncrypt' \in [Buffers -> {0, 1}]
      BY <3>2 DEF CallsInv, BufferType
    <3>5. ASSUME NEW c, NEW n, Take(t, c, n)
          PROVE  /\ ref' \in [Buffers -> Int] /\ form' \in [Buffers -> {"none", "lan", "net"}]
                 /\ isEncrypt' \in [Buffers -> {0, 1}]
      BY <3>1, <3>2, <3>5 DEF Take, Clear
    <3>3. /\ ref' \in [Buffers -> Int] /\ form' \in [Buffers -> {"none", "lan", "net"}]
          /\ isEncrypt' \in [Buffers -> {0, 1}]
      BY <3>5 DEF CallsInv, BufferType, AcquireMake
    <3>4. allocs' \in 0..MaxAlloc
      BY BufferAssumption DEF CallsInv, BufferType, AcquireMake
    <3> QED BY <3>3, <3>4 DEF CallsInv, BufferType, AcquireMake, fixed
  <2> QED BY <2>1, <2>2, <2>3, <2>4, <2>5, <2>6, <2>7 DEF BufferType
<1>2. CallInv'
  BY DEF CallsInv, BufferType, CallInv, SenderInv, Pcs, Sending, Coding, Releasing, AcquireMake, Goto, Take, Clear, vars, poolVars, bufferVars, sessionVars, fixed, localVars
<1>3. SenderInv'
  BY DEF CallsInv, BufferType, CallInv, SenderInv, Pcs, Sending, Coding, Releasing, AcquireMake, Goto, Take, Clear, vars, poolVars, bufferVars, sessionVars, fixed, localVars
<1>4. LockInv'
  BY DEF CallsInv, BufferType, CallInv, LockInv, Coding, Releasing, AcquireMake, Goto, Take, Clear, vars, poolVars, bufferVars, sessionVars, fixed, localVars
<1> QED BY <1>1, <1>2, <1>3, <1>4 DEF CallsInv

LEMMA CallsCopy ==
    ASSUME CallsInv, NEW t \in Threads, NEW u \in Contents, NEW b \in Buffers, Copy(t, u, b)
    PROVE  CallsInv'
<1>1. BufferType'
  <2>1. pc' \in [Threads -> Pcs] /\ at' \in [Threads -> Sessions \cup {NoOne}]
    BY DEF CallsInv, BufferType, CallInv, Pcs, Sending, Coding, Releasing, Copy, Goto, vars, poolVars, bufferVars, sessionVars, fixed, localVars
  <2>2. got' \in [Threads -> Buffers \cup {None}] /\ todo' \in [Threads -> Seq(Buffers)]
    BY DEF CallsInv, BufferType, CallInv, Releasing, Coding, Copy, Goto, vars, poolVars, bufferVars, sessionVars, fixed, localVars
  <2>3. sendQ' \in [Sessions -> Seq(Buffers)] /\ batch' \in [Sessions -> Seq(Buffers)]
    BY DEF CallsInv, BufferType, CallInv, Sending, Copy, Goto, vars, poolVars, bufferVars, sessionVars, fixed, localVars
  <2>4. busy' \in [Sessions -> BOOLEAN]
    BY DEF CallsInv, BufferType, Copy, Goto, vars, poolVars, bufferVars, sessionVars, fixed, localVars
  <2>5. flight' \in [Sessions -> BOOLEAN]
    BY DEF CallsInv, BufferType, Copy, Goto, vars, poolVars, bufferVars, sessionVars, fixed, localVars
  <2>6. state' \in [Sessions -> {"open", "closing", "released"}]
    BY DEF CallsInv, BufferType, Copy, Goto, vars, poolVars, bufferVars, sessionVars, fixed, localVars
  <2>7. /\ allocs' \in 0..MaxAlloc /\ ref' \in [Buffers -> Int]
        /\ form' \in [Buffers -> {"none", "lan", "net"}]
        /\ isEncrypt' \in [Buffers -> {0, 1}]
        /\ lock' \in [Buffers -> Threads \cup {NoOne}]
        /\ key' \in KeyMaps /\ message' \in Messages
    BY BufferAssumption DEF CallsInv, BufferType, CallInv, LockInv, Coding, Copy, Goto, vars, poolVars, bufferVars, sessionVars, fixed, localVars
  <2> QED BY <2>1, <2>2, <2>3, <2>4, <2>5, <2>6, <2>7 DEF BufferType
<1>2. CallInv'
  BY DEF CallsInv, BufferType, CallInv, SenderInv, Pcs, Sending, Coding, Releasing, Copy, Goto, vars, poolVars, bufferVars, sessionVars, fixed, localVars
<1>3. SenderInv'
  BY DEF CallsInv, BufferType, CallInv, SenderInv, Pcs, Sending, Coding, Releasing, Copy, Goto, vars, poolVars, bufferVars, sessionVars, fixed, localVars
<1>4. LockInv'
  BY DEF CallsInv, BufferType, CallInv, LockInv, Coding, Releasing, Copy, Goto, vars, poolVars, bufferVars, sessionVars, fixed, localVars
<1> QED BY <1>1, <1>2, <1>3, <1>4 DEF CallsInv

LEMMA CallsDrop ==
    ASSUME CallsInv, NEW t \in Threads, NEW b \in Buffers, Drop(t, b)
    PROVE  CallsInv'
<1>1. BufferType'
  <2>1. pc' \in [Threads -> Pcs] /\ at' \in [Threads -> Sessions \cup {NoOne}]
    BY DEF CallsInv, BufferType, CallInv, Pcs, Sending, Coding, Releasing, Drop, Goto, vars, poolVars, bufferVars, sessionVars, fixed, localVars
  <2>2. got' \in [Threads -> Buffers \cup {None}] /\ todo' \in [Threads -> Seq(Buffers)]
    BY DEF CallsInv, BufferType, CallInv, Releasing, Coding, Drop, Goto, vars, poolVars, bufferVars, sessionVars, fixed, localVars
  <2>3. sendQ' \in [Sessions -> Seq(Buffers)] /\ batch' \in [Sessions -> Seq(Buffers)]
    BY DEF CallsInv, BufferType, CallInv, Sending, Drop, Goto, vars, poolVars, bufferVars, sessionVars, fixed, localVars
  <2>4. busy' \in [Sessions -> BOOLEAN]
    BY DEF CallsInv, BufferType, Drop, Goto, vars, poolVars, bufferVars, sessionVars, fixed, localVars
  <2>5. flight' \in [Sessions -> BOOLEAN]
    BY DEF CallsInv, BufferType, Drop, Goto, vars, poolVars, bufferVars, sessionVars, fixed, localVars
  <2>6. state' \in [Sessions -> {"open", "closing", "released"}]
    BY DEF CallsInv, BufferType, Drop, Goto, vars, poolVars, bufferVars, sessionVars, fixed, localVars
  <2>7. /\ allocs' \in 0..MaxAlloc /\ ref' \in [Buffers -> Int]
        /\ form' \in [Buffers -> {"none", "lan", "net"}]
        /\ isEncrypt' \in [Buffers -> {0, 1}]
        /\ lock' \in [Buffers -> Threads \cup {NoOne}]
        /\ key' \in KeyMaps /\ message' \in Messages
    BY BufferAssumption DEF CallsInv, BufferType, CallInv, LockInv, Coding, Drop, Goto, vars, poolVars, bufferVars, sessionVars, fixed, localVars
  <2> QED BY <2>1, <2>2, <2>3, <2>4, <2>5, <2>6, <2>7 DEF BufferType
<1>2. CallInv'
  BY DEF CallsInv, BufferType, CallInv, SenderInv, Pcs, Sending, Coding, Releasing, Drop, Goto, vars, poolVars, bufferVars, sessionVars, fixed, localVars
<1>3. SenderInv'
  BY DEF CallsInv, BufferType, CallInv, SenderInv, Pcs, Sending, Coding, Releasing, Drop, Goto, vars, poolVars, bufferVars, sessionVars, fixed, localVars
<1>4. LockInv'
  BY DEF CallsInv, BufferType, CallInv, LockInv, Coding, Releasing, Drop, Goto, vars, poolVars, bufferVars, sessionVars, fixed, localVars
<1> QED BY <1>1, <1>2, <1>3, <1>4 DEF CallsInv

LEMMA CallsSendPacket ==
    ASSUME CallsInv, NEW t \in Threads, NEW s \in Sessions, NEW b \in Buffers, SendPacket(t, s, b)
    PROVE  CallsInv'
<1>1. BufferType'
  <2>1. pc' \in [Threads -> Pcs] /\ at' \in [Threads -> Sessions \cup {NoOne}]
    BY DEF CallsInv, BufferType, CallInv, Pcs, Sending, Coding, Releasing, SendPacket, Goto, vars, poolVars, bufferVars, sessionVars, fixed, localVars
  <2>2. got' \in [Threads -> Buffers \cup {None}] /\ todo' \in [Threads -> Seq(Buffers)]
    BY DEF CallsInv, BufferType, CallInv, Releasing, Coding, SendPacket, Goto, vars, poolVars, bufferVars, sessionVars, fixed, localVars
  <2>3. sendQ' \in [Sessions -> Seq(Buffers)] /\ batch' \in [Sessions -> Seq(Buffers)]
    BY DEF CallsInv, BufferType, CallInv, Sending, SendPacket, Goto, vars, poolVars, bufferVars, sessionVars, fixed, localVars
  <2>4. busy' \in [Sessions -> BOOLEAN]
    BY DEF CallsInv, BufferType, SendPacket, Goto, vars, poolVars, bufferVars, sessionVars, fixed, localVars
  <2>5. flight' \in [Sessions -> BOOLEAN]
    BY DEF CallsInv, BufferType, SendPacket, Goto, vars, poolVars, bufferVars, sessionVars, fixed, localVars
  <2>6. state' \in [Sessions -> {"open", "closing", "released"}]
    BY DEF CallsInv, BufferType, SendPacket, Goto, vars, poolVars, bufferVars, sessionVars, fixed, localVars
  <2>7. /\ allocs' \in 0..MaxAlloc /\ ref' \in [Buffers -> Int]
        /\ form' \in [Buffers -> {"none", "lan", "net"}]
        /\ isEncrypt' \in [Buffers -> {0, 1}]
        /\ lock' \in [Buffers -> Threads \cup {NoOne}]
        /\ key' \in KeyMaps /\ message' \in Messages
    BY BufferAssumption DEF CallsInv, BufferType, CallInv, LockInv, Coding, SendPacket, Goto, vars, poolVars, bufferVars, sessionVars, fixed, localVars
  <2> QED BY <2>1, <2>2, <2>3, <2>4, <2>5, <2>6, <2>7 DEF BufferType
<1>2. CallInv'
  BY DEF CallsInv, BufferType, CallInv, SenderInv, Pcs, Sending, Coding, Releasing, SendPacket, Goto, vars, poolVars, bufferVars, sessionVars, fixed, localVars
<1>3. SenderInv'
  BY DEF CallsInv, BufferType, CallInv, SenderInv, Pcs, Sending, Coding, Releasing, SendPacket, Goto, vars, poolVars, bufferVars, sessionVars, fixed, localVars
<1>4. LockInv'
  BY DEF CallsInv, BufferType, CallInv, LockInv, Coding, Releasing, SendPacket, Goto, vars, poolVars, bufferVars, sessionVars, fixed, localVars
<1> QED BY <1>1, <1>2, <1>3, <1>4 DEF CallsInv

LEMMA CallsProcessBuffer ==
    ASSUME CallsInv, NEW t \in Threads, ProcessBuffer(t)
    PROVE  CallsInv'
<1>1. BufferType'
  <2>1. pc' \in [Threads -> Pcs] /\ at' \in [Threads -> Sessions \cup {NoOne}]
    BY DEF CallsInv, BufferType, CallInv, Pcs, Sending, Coding, Releasing, ProcessBuffer, Goto, vars, poolVars, bufferVars, sessionVars, fixed, localVars
  <2>2. got' \in [Threads -> Buffers \cup {None}] /\ todo' \in [Threads -> Seq(Buffers)]
    <3>1. got' \in [Threads -> Buffers \cup {None}]
      BY DEF CallsInv, BufferType, ProcessBuffer
    <3>2. got[t] \in Buffers
      BY DEF CallsInv, CallInv, ProcessBuffer
    <3>3. todo' = todo \/ todo' = [todo EXCEPT ![t] = <<got[t]>>]
      BY DEF ProcessBuffer
    <3>4. <<got[t]>> \in Seq(Buffers) /\ todo \in [Threads -> Seq(Buffers)]
      BY <3>2 DEF CallsInv, BufferType
    <3> QED BY <3>1, <3>3, <3>4
  <2>3. sendQ' \in [Sessions -> Seq(Buffers)] /\ batch' \in [Sessions -> Seq(Buffers)]
    <3>1. got[t] \in Buffers /\ at[t] \in Sessions
      BY DEF CallsInv, CallInv, ProcessBuffer
    <3>2. sendQ' = sendQ \/ sendQ' = [sendQ EXCEPT ![at[t]] = Append(@, got[t])]
      BY DEF ProcessBuffer
    <3>3. sendQ \in [Sessions -> Seq(Buffers)] /\ batch \in [Sessions -> Seq(Buffers)] /\ batch' = batch
      BY DEF CallsInv, BufferType, ProcessBuffer
    <3>4. Append(sendQ[at[t]], got[t]) \in Seq(Buffers)
      BY <3>1, <3>3
    <3> QED BY <3>1, <3>2, <3>3, <3>4
  <2>4. busy' \in [Sessions -> BOOLEAN]
    BY DEF CallsInv, BufferType, ProcessBuffer, Goto, vars, poolVars, bufferVars, sessionVars, fixed, localVars
  <2>5. flight' \in [Sessions -> BOOLEAN]
    BY DEF CallsInv, BufferType, ProcessBuffer, Goto, vars, poolVars, bufferVars, sessionVars, fixed, localVars
  <2>6. state' \in [Sessions -> {"open", "closing", "released"}]
    BY DEF CallsInv, BufferType, ProcessBuffer, Goto, vars, poolVars, bufferVars, sessionVars, fixed, localVars
  <2>7. /\ allocs' \in 0..MaxAlloc /\ ref' \in [Buffers -> Int]
        /\ form' \in [Buffers -> {"none", "lan", "net"}]
        /\ isEncrypt' \in [Buffers -> {0, 1}]
        /\ lock' \in [Buffers -> Threads \cup {NoOne}]
        /\ key' \in KeyMaps /\ message' \in Messages
    BY BufferAssumption DEF CallsInv, BufferType, CallInv, LockInv, Coding, ProcessBuffer, Goto, vars, poolVars, bufferVars, sessionVars, fixed, localVars
  <2> QED BY <2>1, <2>2, <2>3, <2>4, <2>5, <2>6, <2>7 DEF BufferType
<1>2. CallInv'
  BY DEF CallsInv, BufferType, CallInv, SenderInv, Pcs, Sending, Coding, Releasing, ProcessBuffer, Goto, vars, poolVars, bufferVars, sessionVars, fixed, localVars
<1>3. SenderInv'
  <2>1. Others(t)
    BY DEF CallsInv, BufferType, Others, ProcessBuffer, Goto, localVars
  <2>2. pc'[t] \in Sending => pc[t] \in Sending /\ at'[t] = at[t]
    BY DEF CallsInv, BufferType, Sending, Coding, Releasing, ProcessBuffer, Goto, localVars
  <2>3. busy' = busy /\ flight' = flight
    BY DEF ProcessBuffer, sessionVars
  <2> QED BY <2>1, <2>2, <2>3, SenderFrame
<1>4. LockInv'
  BY DEF CallsInv, BufferType, CallInv, LockInv, Coding, Releasing, ProcessBuffer, Goto, vars, poolVars, bufferVars, sessionVars, fixed, localVars
<1> QED BY <1>1, <1>2, <1>3, <1>4 DEF CallsInv

LEMMA CallsRealSend ==
    ASSUME CallsInv, NEW t \in Threads, NEW s \in Sessions, RealSend(t, s)
    PROVE  CallsInv'
<1>1. BufferType'
  <2>1. pc' \in [Threads -> Pcs] /\ at' \in [Threads -> Sessions \cup {NoOne}]
    BY DEF CallsInv, BufferType, CallInv, Pcs, Sending, Coding, Releasing, RealSend, Goto, vars, poolVars, bufferVars, sessionVars, fixed, localVars
  <2>2. got' \in [Threads -> Buffers \cup {None}] /\ todo' \in [Threads -> Seq(Buffers)]
    BY DEF CallsInv, BufferType, CallInv, Releasing, Coding, RealSend, Goto, vars, poolVars, bufferVars, sessionVars, fixed, localVars
  <2>3. sendQ' \in [Sessions -> Seq(Buffers)] /\ batch' \in [Sessions -> Seq(Buffers)]
    BY DEF CallsInv, BufferType, CallInv, Sending, RealSend, Goto, vars, poolVars, bufferVars, sessionVars, fixed, localVars
  <2>4. busy' \in [Sessions -> BOOLEAN]
    BY DEF CallsInv, BufferType, RealSend, Goto, vars, poolVars, bufferVars, sessionVars, fixed, localVars
  <2>5. flight' \in [Sessions -> BOOLEAN]
    BY DEF CallsInv, BufferType, RealSend, Goto, vars, poolVars, bufferVars, sessionVars, fixed, localVars
  <2>6. state' \in [Sessions -> {"open", "closing", "released"}]
    BY DEF CallsInv, BufferType, RealSend, Goto, vars, poolVars, bufferVars, sessionVars, fixed, localVars
  <2>7. /\ allocs' \in 0..MaxAlloc /\ ref' \in [Buffers -> Int]
        /\ form' \in [Buffers -> {"none", "lan", "net"}]
        /\ isEncrypt' \in [Buffers -> {0, 1}]
        /\ lock' \in [Buffers -> Threads \cup {NoOne}]
        /\ key' \in KeyMaps /\ message' \in Messages
    BY BufferAssumption DEF CallsInv, BufferType, CallInv, LockInv, Coding, RealSend, Goto, vars, poolVars, bufferVars, sessionVars, fixed, localVars
  <2> QED BY <2>1, <2>2, <2>3, <2>4, <2>5, <2>6, <2>7 DEF BufferType
<1>2. CallInv'
  BY DEF CallsInv, BufferType, CallInv, SenderInv, Pcs, Sending, Coding, Releasing, RealSend, Goto, vars, poolVars, bufferVars, sessionVars, fixed, localVars
<1>3. SenderInv'
  BY DEF CallsInv, BufferType, CallInv, SenderInv, Pcs, Sending, Coding, Releasing, RealSend, Goto, vars, poolVars, bufferVars, sessionVars, fixed, localVars
<1>4. LockInv'
  BY DEF CallsInv, BufferType, CallInv, LockInv, Coding, Releasing, RealSend, Goto, vars, poolVars, bufferVars, sessionVars, fixed, localVars
<1> QED BY <1>1, <1>2, <1>3, <1>4 DEF CallsInv

LEMMA CallsSendDone ==
    ASSUME CallsInv, NEW t \in Threads, NEW s \in Sessions, SendDone(t, s)
    PROVE  CallsInv'
<1>1. BufferType'
  <2>1. pc' \in [Threads -> Pcs] /\ at' \in [Threads -> Sessions \cup {NoOne}]
    <3>1. pc' = pc \/ pc' = [pc EXCEPT ![t] = "postSend"]
      BY DEF SendDone, Goto
    <3>2. at' = at \/ at' = [at EXCEPT ![t] = s]
      BY DEF SendDone
    <3>3. pc \in [Threads -> Pcs] /\ at \in [Threads -> Sessions \cup {NoOne}] /\ "postSend" \in Pcs
      BY DEF CallsInv, BufferType, Pcs, Sending
    <3> QED BY <3>1, <3>2, <3>3
  <2>2. got' \in [Threads -> Buffers \cup {None}] /\ todo' \in [Threads -> Seq(Buffers)]
    <3>1. got' = got /\ (todo' = todo \/ todo' = [todo EXCEPT ![t] = batch[s]])
      BY DEF SendDone
    <3>2. /\ got \in [Threads -> Buffers \cup {None}] /\ todo \in [Threads -> Seq(Buffers)]
          /\ batch[s] \in Seq(Buffers)
      BY DEF CallsInv, BufferType
    <3> QED BY <3>1, <3>2
  <2>3. sendQ' \in [Sessions -> Seq(Buffers)] /\ batch' \in [Sessions -> Seq(Buffers)]
    BY DEF CallsInv, BufferType, CallInv, Sending, SendDone, Goto, vars, poolVars, bufferVars, sessionVars, fixed, localVars
  <2>4. busy' \in [Sessions -> BOOLEAN]
    BY DEF CallsInv, BufferType, SendDone, Goto, vars, poolVars, bufferVars, sessionVars, fixed, localVars
  <2>5. flight' \in [Sessions -> BOOLEAN]
    BY DEF CallsInv, BufferType, SendDone, Goto, vars, poolVars, bufferVars, sessionVars, fixed, localVars
  <2>6. state' \in [Sessions -> {"open", "closing", "released"}]
    BY DEF CallsInv, BufferType, SendDone, Goto, vars, poolVars, bufferVars, sessionVars, fixed, localVars
  <2>7. /\ allocs' \in 0..MaxAlloc /\ ref' \in [Buffers -> Int]
        /\ form' \in [Buffers -> {"none", "lan", "net"}]
        /\ isEncrypt' \in [Buffers -> {0, 1}]
        /\ lock' \in [Buffers -> Threads \cup {NoOne}]
        /\ key' \in KeyMaps /\ message' \in Messages
    BY BufferAssumption DEF CallsInv, BufferType, CallInv, LockInv, Coding, SendDone, Goto, vars, poolVars, bufferVars, sessionVars, fixed, localVars
  <2> QED BY <2>1, <2>2, <2>3, <2>4, <2>5, <2>6, <2>7 DEF BufferType
<1>2. CallInv'
  BY DEF CallsInv, BufferType, CallInv, SenderInv, Pcs, Sending, Coding, Releasing, SendDone, Goto, vars, poolVars, bufferVars, sessionVars, fixed, localVars
<1>3. SenderInv'
  <2>1. Others(t)
    BY DEF CallsInv, BufferType, Others, SendDone, Goto
  <2>2. /\ pc'[t] \in Sending => at'[t] = s
        /\ busy' = busy /\ flight[s] /\ flight' = [flight EXCEPT ![s] = FALSE]
    BY DEF CallsInv, BufferType, Sending, Coding, SendDone, Goto
  <2>3. SenderInv /\ \A u \in Threads : pc[u] \in Sending => at[u] \in Sessions
    BY DEF CallsInv, CallInv
  <2>4. flight \in [Sessions -> BOOLEAN]
    BY DEF CallsInv, BufferType
  <2>5. busy[s] /\ \A u \in Threads : pc[u] \in Sending => at[u] # s
    BY <2>2, <2>3 DEF SenderInv
  <2>6. ~flight'[s] /\ \A r \in Sessions : flight'[r] => flight[r]
    BY <2>2, <2>4
  <2>7. \A u \in Threads : pc'[u] \in Sending =>
            (u = t /\ at'[u] = s) \/ (u # t /\ pc[u] \in Sending /\ at'[u] = at[u] /\ at[u] # s)
    BY <2>1, <2>2, <2>5 DEF Others
  <2>8. \A u, v \in Threads : pc'[u] \in Sending /\ pc'[v] \in Sending /\ at'[u] = at'[v] => u = v
    BY <2>3, <2>7 DEF SenderInv
  <2>9. \A u \in Threads : pc'[u] \in Sending => busy'[at'[u]] /\ ~flight'[at'[u]]
    BY <2>2, <2>3, <2>5, <2>6, <2>7 DEF SenderInv
  <2>10. \A r \in Sessions : flight'[r] => busy'[r]
    BY <2>2, <2>3, <2>6 DEF SenderInv
  <2> QED BY <2>8, <2>9, <2>10 DEF SenderInv
<1>4. LockInv'
  BY DEF CallsInv, BufferType, CallInv, LockInv, Coding, Releasing, SendDone, Goto, vars, poolVars, bufferVars, sessionVars, fixed, localVars
<1> QED BY <1>1, <1>2, <1>3, <1>4 DEF CallsInv

LEMMA CallsReset ==
    ASSUME CallsInv, NEW t \in Threads, NEW s \in Sessions, Reset(t, s)
    PROVE  CallsInv'
<1>1. BufferType'
  <2>1. pc' \in [Threads -> Pcs] /\ at' \in [Threads -> Sessions \cup {NoOne}]
    BY DEF CallsInv, BufferType, CallInv, Pcs, Sending, Coding, Releasing, Reset, Goto, vars, poolVars, bufferVars, sessionVars, fixed, localVars
  <2>2. got' \in [Threads -> Buffers \cup {None}] /\ todo' \in [Threads -> Seq(Buffers)]
    BY DEF CallsInv, BufferType, CallInv, Releasing, Coding, Reset, Goto, vars, poolVars, bufferVars, sessionVars, fixed, localVars
  <2>3. sendQ' \in [Sessions -> Seq(Buffers)] /\ batch' \in [Sessions -> Seq(Buffers)]
    BY DEF CallsInv, BufferType, CallInv, Sending, Reset, Goto, vars, poolVars, bufferVars, sessionVars, fixed, localVars
  <2>4. busy' \in [Sessions -> BOOLEAN]
    BY DEF CallsInv, BufferType, Reset, Goto, vars, poolVars, bufferVars, sessionVars, fixed, localVars
  <2>5. flight' \in [Sessions -> BOOLEAN]
    BY DEF CallsInv, BufferType, Reset, Goto, vars, poolVars, bufferVars, sessionVars, fixed, localVars
  <2>6. state' \in [Sessions -> {"open", "closing", "released"}]
    BY DEF CallsInv, BufferType, Reset, Goto, vars, poolVars, bufferVars, sessionVars, fixed, localVars
  <2>7. /\ allocs' \in 0..MaxAlloc /\ ref' \in [Buffers -> Int]
        /\ form' \in [Buffers -> {"none", "lan", "net"}]
        /\ isEncrypt' \in [Buffers -> {0, 1}]
        /\ lock' \in [Buffers -> Threads \cup {NoOne}]
        /\ key' \in KeyMaps /\ message' \in Messages
    BY BufferAssumption DEF CallsInv, BufferType, CallInv, LockInv, Coding, Reset, Goto, vars, poolVars, bufferVars, sessionVars, fixed, localVars
  <2> QED BY <2>1, <2>2, <2>3, <2>4, <2>5, <2>6, <2>7 DEF BufferType
<1>2. CallInv'
  BY DEF CallsInv, BufferType, CallInv, SenderInv, Pcs, Sending, Coding, Releasing, Reset, Goto, vars, poolVars, bufferVars, sessionVars, fixed, localVars
<1>3. SenderInv'
  BY DEF CallsInv, BufferType, CallInv, SenderInv, Pcs, Sending, Coding, Releasing, Reset, Goto, vars, poolVars, bufferVars, sessionVars, fixed, localVars
<1>4. LockInv'
  BY DEF CallsInv, BufferType, CallInv, LockInv, Coding, Releasing, Reset, Goto, vars, poolVars, bufferVars, sessionVars, fixed, localVars
<1> QED BY <1>1, <1>2, <1>3, <1>4 DEF CallsInv

LEMMA CallsFill ==
    ASSUME CallsInv, NEW t \in Threads, Fill(t)
    PROVE  CallsInv'
<1>1. BufferType'
  <2>1. pc' \in [Threads -> Pcs] /\ at' \in [Threads -> Sessions \cup {NoOne}]
    BY DEF CallsInv, BufferType, CallInv, Pcs, Sending, Coding, Releasing, Fill, Goto, vars, poolVars, bufferVars, sessionVars, fixed, localVars
  <2>2. got' \in [Threads -> Buffers \cup {None}] /\ todo' \in [Threads -> Seq(Buffers)]
    <3>1. todo' = todo /\ (got' = got \/ got' = [got EXCEPT ![t] = Head(sendQ[at[t]])])
      BY DEF Fill
    <3>2. /\ at[t] \in Sessions /\ sendQ[at[t]] # <<>> /\ sendQ \in [Sessions -> Seq(Buffers)]
          /\ got \in [Threads -> Buffers \cup {None}] /\ todo \in [Threads -> Seq(Buffers)]
      BY DEF CallsInv, BufferType, CallInv, Sending, Fill
    <3>3. Head(sendQ[at[t]]) \in Buffers
      BY <3>2
    <3> QED BY <3>1, <3>2, <3>3
  <2>3. sendQ' \in [Sessions -> Seq(Buffers)] /\ batch' \in [Sessions -> Seq(Buffers)]
    BY DEF CallsInv, BufferType, CallInv, Sending, Fill, Goto, vars, poolVars, bufferVars, sessionVars, fixed, localVars
  <2>4. busy' \in [Sessions -> BOOLEAN]
    BY DEF CallsInv, BufferType, Fill, Goto, vars, poolVars, bufferVars, sessionVars, fixed, localVars
  <2>5. flight' \in [Sessions -> BOOLEAN]
    BY DEF CallsInv, BufferType, Fill, Goto, vars, poolVars, bufferVars, sessionVars, fixed, localVars
  <2>6. state' \in [Sessions -> {"open", "closing", "released"}]
    BY DEF CallsInv, BufferType, Fill, Goto, vars, poolVars, bufferVars, sessionVars, fixed, localVars
  <2>7. /\ allocs' \in 0..MaxAlloc /\ ref' \in [Buffers -> Int]
        /\ form' \in [Buffers -> {"none", "lan", "net"}]
        /\ isEncrypt' \in [Buffers -> {0, 1}]
        /\ lock' \in [Buffers -> Threads \cup {NoOne}]
        /\ key' \in KeyMaps /\ message' \in Messages
    BY BufferAssumption DEF CallsInv, BufferType, CallInv, LockInv, Coding, Fill, Goto, vars, poolVars, bufferVars, sessionVars, fixed, localVars
  <2> QED BY <2>1, <2>2, <2>3, <2>4, <2>5, <2>6, <2>7 DEF BufferType
<1>2. CallInv'
  <2> DEFINE s == at[t]
             b == Head(sendQ[s])
             q == Append(batch[s], b)
  <2>1. /\ s \in Sessions /\ sendQ[s] # <<>> /\ sendQ \in [Sessions -> Seq(Buffers)]
        /\ batch \in [Sessions -> Seq(Buffers)]
    BY DEF CallsInv, BufferType, CallInv, Sending, Fill
  <2>2. b \in Buffers /\ batch[s] \in Seq(Buffers)
    BY <2>1
  <2>3. /\ q[Len(q)] = b /\ Len(q) \in DOMAIN q
        /\ \A i \in DOMAIN batch[s] : i \in DOMAIN q /\ q[i] = batch[s][i]
    BY <2>2
  <2>4. batch' = [batch EXCEPT ![s] = q]
    BY DEF Fill
  <2>5. Others(t) /\ at' = at /\ todo' = todo /\ pc[t] = "fill"
    BY DEF CallsInv, BufferType, Others, Fill, Goto
  <2>6. (pc'[t] = "fill" /\ got' = got) \/ (pc'[t] = "check" /\ got'[t] = b)
    BY DEF CallsInv, BufferType, Fill, Goto
  <2> HIDE DEF s, b, q
  <2>7. ASSUME NEW u \in Threads, u # t
        PROVE  /\ pc'[u] \in {"idle", "make"} => got'[u] = None
               /\ pc'[u] \notin Releasing => todo'[u] = <<>>
               /\ pc'[u] \in Coding \cup {"process"} => got'[u] \in Buffers
               /\ pc'[u] \in Sending \cup {"process"} => at'[u] \in Sessions
               /\ pc'[u] \in Coding => \E i \in DOMAIN batch'[at'[u]] : batch'[at'[u]][i] = got'[u]
    <3>1. pc'[u] = pc[u] /\ got'[u] = got[u] /\ todo'[u] = todo[u] /\ at'[u] = at[u]
      BY <2>5, <2>7 DEF Others
    <3>2. /\ pc[u] \in {"idle", "make"} => got[u] = None
          /\ pc[u] \notin Releasing => todo[u] = <<>>
          /\ pc[u] \in Coding \cup {"process"} => got[u] \in Buffers
          /\ pc[u] \in Sending \cup {"process"} => at[u] \in Sessions
          /\ pc[u] \in Coding => \E i \in DOMAIN batch[at[u]] : batch[at[u]][i] = got[u]
      BY DEF CallsInv, CallInv
    <3>3. pc[u] \in Coding => \E i \in DOMAIN batch'[at[u]] : batch'[at[u]][i] = got[u]
      <4>1. CASE at[u] = s
        <5>1. batch'[at[u]] = q
          BY <2>1, <2>4, <4>1
        <5> QED BY <2>3, <3>2, <4>1, <5>1
      <4>2. CASE at[u] # s
        <5>1. batch'[at[u]] = batch[at[u]]
          BY <2>1, <2>4, <3>2, <4>2
        <5> QED BY <3>2, <5>1
      <4> QED BY <4>1, <4>2
    <3> QED BY <3>1, <3>2, <3>3
  <2>8. todo[t] = <<>> /\ at[t] = s
    BY <2>5 DEF CallsInv, CallInv, Releasing, s
  <2>9. batch'[at'[t]] = q
    BY <2>1, <2>4, <2>5, <2>8
  <2>10. /\ pc'[t] \notin {"idle", "make", "process"} /\ todo'[t] = <<>> /\ at'[t] \in Sessions
         /\ pc'[t] \in Coding => got'[t] \in Buffers /\ \E i \in DOMAIN batch'[at'[t]] : batch'[at'[t]][i] = got'[t]
    BY <2>1, <2>2, <2>3, <2>5, <2>6, <2>8, <2>9 DEF Coding
  <2> QED BY <2>7, <2>10 DEF CallInv
<1>3. SenderInv'
  <2>1. Others(t)
    BY DEF CallsInv, BufferType, Others, Fill, Goto, localVars
  <2>2. pc'[t] \in Sending => pc[t] \in Sending /\ at'[t] = at[t]
    BY DEF CallsInv, BufferType, Sending, Coding, Releasing, Fill, Goto, localVars
  <2>3. busy' = busy /\ flight' = flight
    BY DEF Fill, sessionVars
  <2> QED BY <2>1, <2>2, <2>3, SenderFrame
<1>4. LockInv'
  BY DEF CallsInv, BufferType, CallInv, LockInv, Coding, Releasing, Fill, Goto, vars, poolVars, bufferVars, sessionVars, fixed, localVars
<1> QED BY <1>1, <1>2, <1>3, <1>4 DEF CallsInv

LEMMA CallsEncodeCheck ==
    ASSUME CallsInv, NEW t \in Threads, EncodeCheck(t)
    PROVE  CallsInv'
<1>1. BufferType'
  <2>1. pc' \in [Threads -> Pcs] /\ at' \in [Threads -> Sessions \cup {NoOne}]
    BY DEF CallsInv, BufferType, CallInv, Pcs, Sending, Coding, Releasing, EncodeCheck, Goto, vars, poolVars, bufferVars, sessionVars, fixed, localVars
  <2>2. got' \in [Threads -> Buffers \cup {None}] /\ todo' \in [Threads -> Seq(Buffers)]
    BY DEF CallsInv, BufferType, CallInv, Releasing, Coding, EncodeCheck, Goto, vars, poolVars, bufferVars, sessionVars, fixed, localVars
  <2>3. sendQ' \in [Sessions -> Seq(Buffers)] /\ batch' \in [Sessions -> Seq(Buffers)]
    BY DEF CallsInv, BufferType, CallInv, Sending, EncodeCheck, Goto, vars, poolVars, bufferVars, sessionVars, fixed, localVars
  <2>4. busy' \in [Sessions -> BOOLEAN]
    BY DEF CallsInv, BufferType, EncodeCheck, Goto, vars, poolVars, bufferVars, sessionVars, fixed, localVars
  <2>5. flight' \in [Sessions -> BOOLEAN]
    BY DEF CallsInv, BufferType, EncodeCheck, Goto, vars, poolVars, bufferVars, sessionVars, fixed, localVars
  <2>6. state' \in [Sessions -> {"open", "closing", "released"}]
    BY DEF CallsInv, BufferType, EncodeCheck, Goto, vars, poolVars, bufferVars, sessionVars, fixed, localVars
  <2>7. /\ allocs' \in 0..MaxAlloc /\ ref' \in [Buffers -> Int]
        /\ form' \in [Buffers -> {"none", "lan", "net"}]
        /\ isEncrypt' \in [Buffers -> {0, 1}]
        /\ lock' \in [Buffers -> Threads \cup {NoOne}]
        /\ key' \in KeyMaps /\ message' \in Messages
    BY BufferAssumption DEF CallsInv, BufferType, CallInv, LockInv, Coding, EncodeCheck, Goto, vars, poolVars, bufferVars, sessionVars, fixed, localVars
  <2> QED BY <2>1, <2>2, <2>3, <2>4, <2>5, <2>6, <2>7 DEF BufferType
<1>2. CallInv'
  BY DEF CallsInv, BufferType, CallInv, SenderInv, Pcs, Sending, Coding, Releasing, EncodeCheck, Goto, vars, poolVars, bufferVars, sessionVars, fixed, localVars
<1>3. SenderInv'
  BY DEF CallsInv, BufferType, CallInv, SenderInv, Pcs, Sending, Coding, Releasing, EncodeCheck, Goto, vars, poolVars, bufferVars, sessionVars, fixed, localVars
<1>4. LockInv'
  BY DEF CallsInv, BufferType, CallInv, LockInv, Coding, Releasing, EncodeCheck, Goto, vars, poolVars, bufferVars, sessionVars, fixed, localVars
<1> QED BY <1>1, <1>2, <1>3, <1>4 DEF CallsInv

LEMMA CallsEncodeLock ==
    ASSUME CallsInv, NEW t \in Threads, EncodeLock(t)
    PROVE  CallsInv'
<1>1. BufferType'
  <2>1. pc' \in [Threads -> Pcs] /\ at' \in [Threads -> Sessions \cup {NoOne}]
    BY DEF CallsInv, BufferType, CallInv, Pcs, Sending, Coding, Releasing, EncodeLock, Goto, vars, poolVars, bufferVars, sessionVars, fixed, localVars
  <2>2. got' \in [Threads -> Buffers \cup {None}] /\ todo' \in [Threads -> Seq(Buffers)]
    BY DEF CallsInv, BufferType, CallInv, Releasing, Coding, EncodeLock, Goto, vars, poolVars, bufferVars, sessionVars, fixed, localVars
  <2>3. sendQ' \in [Sessions -> Seq(Buffers)] /\ batch' \in [Sessions -> Seq(Buffers)]
    BY DEF CallsInv, BufferType, CallInv, Sending, EncodeLock, Goto, vars, poolVars, bufferVars, sessionVars, fixed, localVars
  <2>4. busy' \in [Sessions -> BOOLEAN]
    BY DEF CallsInv, BufferType, EncodeLock, Goto, vars, poolVars, bufferVars, sessionVars, fixed, localVars
  <2>5. flight' \in [Sessions -> BOOLEAN]
    BY DEF CallsInv, BufferType, EncodeLock, Goto, vars, poolVars, bufferVars, sessionVars, fixed, localVars
  <2>6. state' \in [Sessions -> {"open", "closing", "released"}]
    BY DEF CallsInv, BufferType, EncodeLock, Goto, vars, poolVars, bufferVars, sessionVars, fixed, localVars
  <2>7. /\ allocs' \in 0..MaxAlloc /\ ref' \in [Buffers -> Int]
        /\ form' \in [Buffers -> {"none", "lan", "net"}]
        /\ isEncrypt' \in [Buffers -> {0, 1}]
        /\ lock' \in [Buffers -> Threads \cup {NoOne}]
        /\ key' \in KeyMaps /\ message' \in Messages
    BY BufferAssumption DEF CallsInv, BufferType, CallInv, LockInv, Coding, EncodeLock, Goto, vars, poolVars, bufferVars, sessionVars, fixed, localVars
  <2> QED BY <2>1, <2>2, <2>3, <2>4, <2>5, <2>6, <2>7 DEF BufferType
<1>2. CallInv'
  BY DEF CallsInv, BufferType, CallInv, SenderInv, Pcs, Sending, Coding, Releasing, EncodeLock, Goto, vars, poolVars, bufferVars, sessionVars, fixed, localVars
<1>3. SenderInv'
  <2>1. Others(t)
    BY DEF CallsInv, BufferType, Others, EncodeLock, Goto, localVars
  <2>2. pc'[t] \in Sending => pc[t] \in Sending /\ at'[t] = at[t]
    BY DEF CallsInv, BufferType, Sending, Coding, Releasing, EncodeLock, Goto, localVars
  <2>3. busy' = busy /\ flight' = flight
    BY DEF EncodeLock, sessionVars
  <2> QED BY <2>1, <2>2, <2>3, SenderFrame
<1>4. LockInv'
  <2>1. /\ Others(t) /\ isEncrypt' = isEncrypt /\ got' = got /\ got[t] \in Buffers
        /\ lock[got[t]] = NoOne /\ lock \in [Buffers -> Threads \cup {NoOne}]
    BY DEF CallsInv, BufferType, CallInv, Coding, Others, EncodeLock, Goto
  <2>2. NoOne \notin Threads
    BY BufferAssumption DEF NoOne
  <2>3. \/ pc'[t] = "encode" /\ lock' = [lock EXCEPT ![got[t]] = t] /\ isEncrypt[got[t]] = 0
        \/ pc'[t] = "fill" /\ lock' = lock
    BY DEF CallsInv, BufferType, EncodeLock, Goto
  <2>4. ASSUME NEW u \in Threads, pc'[u] \in {"encode", "mark"}
        PROVE  lock'[got'[u]] = u /\ isEncrypt'[got'[u]] = 0
    <3>1. CASE u = t
      BY <2>1, <2>3, <2>4, <3>1
    <3>2. CASE u # t
      <4>1. lock[got[u]] = u /\ isEncrypt[got[u]] = 0
        BY <2>1, <2>4, <3>2 DEF Others, CallsInv, LockInv
      <4>2. got[u] # got[t] /\ got[u] \in Buffers
        <5>1. pc[u] \in {"encode", "mark"}
          BY <2>1, <2>4, <3>2 DEF Others
        <5>2. got[u] \in Buffers
          BY <5>1 DEF CallsInv, CallInv, Coding
        <5> QED BY <2>1, <2>2, <4>1, <5>2
      <4>3. lock'[got[u]] = lock[got[u]]
        BY <2>1, <2>3, <4>2
      <4> QED BY <2>1, <4>1, <4>3
    <3> QED BY <3>1, <3>2
  <2> QED BY <2>4 DEF LockInv
<1> QED BY <1>1, <1>2, <1>3, <1>4 DEF CallsInv

LEMMA CallsEncodeWrite ==
    ASSUME CallsInv, NEW t \in Threads, EncodeWrite(t)
    PROVE  CallsInv'
<1>1. BufferType'
  <2>1. pc' \in [Threads -> Pcs] /\ at' \in [Threads -> Sessions \cup {NoOne}]
    BY DEF CallsInv, BufferType, CallInv, Pcs, Sending, Coding, Releasing, EncodeWrite, Goto, vars, poolVars, bufferVars, sessionVars, fixed, localVars
  <2>2. got' \in [Threads -> Buffers \cup {None}] /\ todo' \in [Threads -> Seq(Buffers)]
    BY DEF CallsInv, BufferType, CallInv, Releasing, Coding, EncodeWrite, Goto, vars, poolVars, bufferVars, sessionVars, fixed, localVars
  <2>3. sendQ' \in [Sessions -> Seq(Buffers)] /\ batch' \in [Sessions -> Seq(Buffers)]
    BY DEF CallsInv, BufferType, CallInv, Sending, EncodeWrite, Goto, vars, poolVars, bufferVars, sessionVars, fixed, localVars
  <2>4. busy' \in [Sessions -> BOOLEAN]
    BY DEF CallsInv, BufferType, EncodeWrite, Goto, vars, poolVars, bufferVars, sessionVars, fixed, localVars
  <2>5. flight' \in [Sessions -> BOOLEAN]
    BY DEF CallsInv, BufferType, EncodeWrite, Goto, vars, poolVars, bufferVars, sessionVars, fixed, localVars
  <2>6. state' \in [Sessions -> {"open", "closing", "released"}]
    BY DEF CallsInv, BufferType, EncodeWrite, Goto, vars, poolVars, bufferVars, sessionVars, fixed, localVars
  <2>7. /\ allocs' \in 0..MaxAlloc /\ ref' \in [Buffers -> Int]
        /\ form' \in [Buffers -> {"none", "lan", "net"}]
        /\ isEncrypt' \in [Buffers -> {0, 1}]
        /\ lock' \in [Buffers -> Threads \cup {NoOne}]
        /\ key' \in KeyMaps /\ message' \in Messages
    BY BufferAssumption DEF CallsInv, BufferType, CallInv, LockInv, Coding, EncodeWrite, Goto, vars, poolVars, bufferVars, sessionVars, fixed, localVars
  <2> QED BY <2>1, <2>2, <2>3, <2>4, <2>5, <2>6, <2>7 DEF BufferType
<1>2. CallInv'
  BY DEF CallsInv, BufferType, CallInv, SenderInv, Pcs, Sending, Coding, Releasing, EncodeWrite, Goto, vars, poolVars, bufferVars, sessionVars, fixed, localVars
<1>3. SenderInv'
  BY DEF CallsInv, BufferType, CallInv, SenderInv, Pcs, Sending, Coding, Releasing, EncodeWrite, Goto, vars, poolVars, bufferVars, sessionVars, fixed, localVars
<1>4. LockInv'
  BY DEF CallsInv, BufferType, CallInv, LockInv, Coding, Releasing, EncodeWrite, Goto, vars, poolVars, bufferVars, sessionVars, fixed, localVars
<1> QED BY <1>1, <1>2, <1>3, <1>4 DEF CallsInv

LEMMA CallsEncodeMark ==
    ASSUME CallsInv, NEW t \in Threads, EncodeMark(t)
    PROVE  CallsInv'
<1>1. BufferType'
  <2>1. pc' \in [Threads -> Pcs] /\ at' \in [Threads -> Sessions \cup {NoOne}]
    BY DEF CallsInv, BufferType, CallInv, Pcs, Sending, Coding, Releasing, EncodeMark, Goto, vars, poolVars, bufferVars, sessionVars, fixed, localVars
  <2>2. got' \in [Threads -> Buffers \cup {None}] /\ todo' \in [Threads -> Seq(Buffers)]
    BY DEF CallsInv, BufferType, CallInv, Releasing, Coding, EncodeMark, Goto, vars, poolVars, bufferVars, sessionVars, fixed, localVars
  <2>3. sendQ' \in [Sessions -> Seq(Buffers)] /\ batch' \in [Sessions -> Seq(Buffers)]
    BY DEF CallsInv, BufferType, CallInv, Sending, EncodeMark, Goto, vars, poolVars, bufferVars, sessionVars, fixed, localVars
  <2>4. busy' \in [Sessions -> BOOLEAN]
    BY DEF CallsInv, BufferType, EncodeMark, Goto, vars, poolVars, bufferVars, sessionVars, fixed, localVars
  <2>5. flight' \in [Sessions -> BOOLEAN]
    BY DEF CallsInv, BufferType, EncodeMark, Goto, vars, poolVars, bufferVars, sessionVars, fixed, localVars
  <2>6. state' \in [Sessions -> {"open", "closing", "released"}]
    BY DEF CallsInv, BufferType, EncodeMark, Goto, vars, poolVars, bufferVars, sessionVars, fixed, localVars
  <2>7. /\ allocs' \in 0..MaxAlloc /\ ref' \in [Buffers -> Int]
        /\ form' \in [Buffers -> {"none", "lan", "net"}]
        /\ isEncrypt' \in [Buffers -> {0, 1}]
        /\ lock' \in [Buffers -> Threads \cup {NoOne}]
        /\ key' \in KeyMaps /\ message' \in Messages
    BY BufferAssumption DEF CallsInv, BufferType, CallInv, LockInv, Coding, EncodeMark, Goto, vars, poolVars, bufferVars, sessionVars, fixed, localVars
  <2> QED BY <2>1, <2>2, <2>3, <2>4, <2>5, <2>6, <2>7 DEF BufferType
<1>2. CallInv'
  BY DEF CallsInv, BufferType, CallInv, SenderInv, Pcs, Sending, Coding, Releasing, EncodeMark, Goto, vars, poolVars, bufferVars, sessionVars, fixed, localVars
<1>3. SenderInv'
  BY DEF CallsInv, BufferType, CallInv, SenderInv, Pcs, Sending, Coding, Releasing, EncodeMark, Goto, vars, poolVars, bufferVars, sessionVars, fixed, localVars
<1>4. LockInv'
  BY DEF CallsInv, BufferType, CallInv, LockInv, Coding, Releasing, EncodeMark, Goto, vars, poolVars, bufferVars, sessionVars, fixed, localVars
<1> QED BY <1>1, <1>2, <1>3, <1>4 DEF CallsInv

LEMMA CallsSendPost ==
    ASSUME CallsInv, NEW t \in Threads, SendPost(t)
    PROVE  CallsInv'
<1>1. BufferType'
  <2>1. pc' \in [Threads -> Pcs] /\ at' \in [Threads -> Sessions \cup {NoOne}]
    BY DEF CallsInv, BufferType, CallInv, Pcs, Sending, Coding, Releasing, SendPost, Goto, vars, poolVars, bufferVars, sessionVars, fixed, localVars
  <2>2. got' \in [Threads -> Buffers \cup {None}] /\ todo' \in [Threads -> Seq(Buffers)]
    BY DEF CallsInv, BufferType, CallInv, Releasing, Coding, SendPost, Goto, vars, poolVars, bufferVars, sessionVars, fixed, localVars
  <2>3. sendQ' \in [Sessions -> Seq(Buffers)] /\ batch' \in [Sessions -> Seq(Buffers)]
    BY DEF CallsInv, BufferType, CallInv, Sending, SendPost, Goto, vars, poolVars, bufferVars, sessionVars, fixed, localVars
  <2>4. busy' \in [Sessions -> BOOLEAN]
    BY DEF CallsInv, BufferType, SendPost, Goto, vars, poolVars, bufferVars, sessionVars, fixed, localVars
  <2>5. flight' \in [Sessions -> BOOLEAN]
    BY DEF CallsInv, BufferType, SendPost, Goto, vars, poolVars, bufferVars, sessionVars, fixed, localVars
  <2>6. state' \in [Sessions -> {"open", "closing", "released"}]
    BY DEF CallsInv, BufferType, SendPost, Goto, vars, poolVars, bufferVars, sessionVars, fixed, localVars
  <2>7. /\ allocs' \in 0..MaxAlloc /\ ref' \in [Buffers -> Int]
        /\ form' \in [Buffers -> {"none", "lan", "net"}]
        /\ isEncrypt' \in [Buffers -> {0, 1}]
        /\ lock' \in [Buffers -> Threads \cup {NoOne}]
        /\ key' \in KeyMaps /\ message' \in Messages
    BY BufferAssumption DEF CallsInv, BufferType, CallInv, LockInv, Coding, SendPost, Goto, vars, poolVars, bufferVars, sessionVars, fixed, localVars
  <2> QED BY <2>1, <2>2, <2>3, <2>4, <2>5, <2>6, <2>7 DEF BufferType
<1>2. CallInv'
  BY DEF CallsInv, BufferType, CallInv, SenderInv, Pcs, Sending, Coding, Releasing, SendPost, Goto, vars, poolVars, bufferVars, sessionVars, fixed, localVars
<1>3. SenderInv'
  <2> DEFINE s == at[t]
  <2>1. Others(t)
    BY DEF CallsInv, BufferType, Others, SendPost, Goto
  <2>2. /\ pc'[t] \notin Sending /\ busy' = busy /\ pc[t] \in Sending
        /\ flight' = flight \/ flight' = [flight EXCEPT ![s] = TRUE]
    BY DEF CallsInv, BufferType, Sending, Coding, SendPost, Goto
  <2>3. SenderInv /\ \A u \in Threads : pc[u] \in Sending => at[u] \in Sessions
    BY DEF CallsInv, CallInv
  <2>4. flight \in [Sessions -> BOOLEAN]
    BY DEF CallsInv, BufferType
  <2>5. \A r \in Sessions : flight'[r] => flight[r] \/ r = s
    BY <2>2, <2>4
  <2>6. \A u \in Threads : pc'[u] \in Sending => u # t /\ pc[u] \in Sending /\ at'[u] = at[u]
    BY <2>1, <2>2 DEF Others
  <2>7. \A u \in Threads : pc'[u] \in Sending => at[u] # s
    BY <2>2, <2>3, <2>6 DEF SenderInv
  <2>8. busy[s]
    BY <2>2, <2>3 DEF SenderInv
  <2> HIDE DEF s
  <2>9. \A u \in Threads : pc'[u] \in Sending => busy'[at'[u]] /\ ~flight'[at'[u]]
    BY <2>2, <2>3, <2>5, <2>6, <2>7 DEF SenderInv
  <2>10. \A r \in Sessions : flight'[r] => busy'[r]
    BY <2>2, <2>3, <2>5, <2>8 DEF SenderInv
  <2>11. \A u, v \in Threads : pc'[u] \in Sending /\ pc'[v] \in Sending /\ at'[u] = at'[v] => u = v
    BY <2>3, <2>6 DEF SenderInv
  <2> QED BY <2>9, <2>10, <2>11 DEF SenderInv
<1>4. LockInv'
  BY DEF CallsInv, BufferType, CallInv, LockInv, Coding, Releasing, SendPost, Goto, vars, poolVars, bufferVars, sessionVars, fixed, localVars
<1> QED BY <1>1, <1>2, <1>3, <1>4 DEF CallsInv

LEMMA CallsPostSendEnd ==
    ASSUME CallsInv, NEW t \in Threads, PostSendEnd(t)
    PROVE  CallsInv'
<1>1. BufferType'
  <2>1. pc' \in [Threads -> Pcs] /\ at' \in [Threads -> Sessions \cup {NoOne}]
    BY DEF CallsInv, BufferType, CallInv, Pcs, Sending, Coding, Releasing, PostSendEnd, Goto, AllReleased, vars, poolVars, bufferVars, sessionVars, fixed, localVars
  <2>2. got' \in [Threads -> Buffers \cup {None}] /\ todo' \in [Threads -> Seq(Buffers)]
    BY DEF CallsInv, BufferType, CallInv, Releasing, Coding, PostSendEnd, Goto, AllReleased, vars, poolVars, bufferVars, sessionVars, fixed, localVars
  <2>3. sendQ' \in [Sessions -> Seq(Buffers)] /\ batch' \in [Sessions -> Seq(Buffers)]
    BY DEF CallsInv, BufferType, CallInv, Sending, PostSendEnd, Goto, AllReleased, vars, poolVars, bufferVars, sessionVars, fixed, localVars
  <2>4. busy' \in [Sessions -> BOOLEAN]
    BY DEF CallsInv, BufferType, PostSendEnd, Goto, AllReleased, vars, poolVars, bufferVars, sessionVars, fixed, localVars
  <2>5. flight' \in [Sessions -> BOOLEAN]
    BY DEF CallsInv, BufferType, PostSendEnd, Goto, AllReleased, vars, poolVars, bufferVars, sessionVars, fixed, localVars
  <2>6. state' \in [Sessions -> {"open", "closing", "released"}]
    BY DEF CallsInv, BufferType, PostSendEnd, Goto, AllReleased, vars, poolVars, bufferVars, sessionVars, fixed, localVars
  <2>7. /\ allocs' \in 0..MaxAlloc /\ ref' \in [Buffers -> Int]
        /\ form' \in [Buffers -> {"none", "lan", "net"}]
        /\ isEncrypt' \in [Buffers -> {0, 1}]
        /\ lock' \in [Buffers -> Threads \cup {NoOne}]
        /\ key' \in KeyMaps /\ message' \in Messages
    BY BufferAssumption DEF CallsInv, BufferType, CallInv, LockInv, Coding, PostSendEnd, Goto, AllReleased, vars, poolVars, bufferVars, sessionVars, fixed, localVars
  <2> QED BY <2>1, <2>2, <2>3, <2>4, <2>5, <2>6, <2>7 DEF BufferType
<1>2. CallInv'
  BY DEF CallsInv, BufferType, CallInv, SenderInv, Pcs, Sending, Coding, Releasing, PostSendEnd, Goto, AllReleased, vars, poolVars, bufferVars, sessionVars, fixed, localVars
<1>3. SenderInv'
  BY DEF CallsInv, BufferType, CallInv, SenderInv, Pcs, Sending, Coding, Releasing, PostSendEnd, Goto, AllReleased, vars, poolVars, bufferVars, sessionVars, fixed, localVars
<1>4. LockInv'
  BY DEF CallsInv, BufferType, CallInv, LockInv, Coding, Releasing, PostSendEnd, Goto, AllReleased, vars, poolVars, bufferVars, sessionVars, fixed, localVars
<1> QED BY <1>1, <1>2, <1>3, <1>4 DEF CallsInv

LEMMA CallsResetEnd ==
    ASSUME CallsInv, NEW t \in Threads, ResetEnd(t)
    PROVE  CallsInv'
<1>1. BufferType'
  <2>1. pc' \in [Threads -> Pcs] /\ at' \in [Threads -> Sessions \cup {NoOne}]
    BY DEF CallsInv, BufferType, CallInv, Pcs, Sending, Coding, Releasing, ResetEnd, Goto, AllReleased, vars, poolVars, bufferVars, sessionVars, fixed, localVars
  <2>2. got' \in [Threads -> Buffers \cup {None}] /\ todo' \in [Threads -> Seq(Buffers)]
    BY DEF CallsInv, BufferType, CallInv, Releasing, Coding, ResetEnd, Goto, AllReleased, vars, poolVars, bufferVars, sessionVars, fixed, localVars
  <2>3. sendQ' \in [Sessions -> Seq(Buffers)] /\ batch' \in [Sessions -> Seq(Buffers)]
    BY DEF CallsInv, BufferType, CallInv, Sending, ResetEnd, Goto, AllReleased, vars, poolVars, bufferVars, sessionVars, fixed, localVars
  <2>4. busy' \in [Sessions -> BOOLEAN]
    BY DEF CallsInv, BufferType, ResetEnd, Goto, AllReleased, vars, poolVars, bufferVars, sessionVars, fixed, localVars
  <2>5. flight' \in [Sessions -> BOOLEAN]
    BY DEF CallsInv, BufferType, ResetEnd, Goto, AllReleased, vars, poolVars, bufferVars, sessionVars, fixed, localVars
  <2>6. state' \in [Sessions -> {"open", "closing", "released"}]
    BY DEF CallsInv, BufferType, ResetEnd, Goto, AllReleased, vars, poolVars, bufferVars, sessionVars, fixed, localVars
  <2>7. /\ allocs' \in 0..MaxAlloc /\ ref' \in [Buffers -> Int]
        /\ form' \in [Buffers -> {"none", "lan", "net"}]
        /\ isEncrypt' \in [Buffers -> {0, 1}]
        /\ lock' \in [Buffers -> Threads \cup {NoOne}]
        /\ key' \in KeyMaps /\ message' \in Messages
    BY BufferAssumption DEF CallsInv, BufferType, CallInv, LockInv, Coding, ResetEnd, Goto, AllReleased, vars, poolVars, bufferVars, sessionVars, fixed, localVars
  <2> QED BY <2>1, <2>2, <2>3, <2>4, <2>5, <2>6, <2>7 DEF BufferType
<1>2. CallInv'
  BY DEF CallsInv, BufferType, CallInv, SenderInv, Pcs, Sending, Coding, Releasing, ResetEnd, Goto, AllReleased, vars, poolVars, bufferVars, sessionVars, fixed, localVars
<1>3. SenderInv'
  BY DEF CallsInv, BufferType, CallInv, SenderInv, Pcs, Sending, Coding, Releasing, ResetEnd, Goto, AllReleased, vars, poolVars, bufferVars, sessionVars, fixed, localVars
<1>4. LockInv'
  BY DEF CallsInv, BufferType, CallInv, LockInv, Coding, Releasing, ResetEnd, Goto, AllReleased, vars, poolVars, bufferVars, sessionVars, fixed, localVars
<1> QED BY <1>1, <1>2, <1>3, <1>4 DEF CallsInv

LEMMA CallsRelease ==
    ASSUME CallsInv, NEW t \in Threads, Release(t)
    PROVE  CallsInv'
<1>1. BufferType'
  <2>1. pc' \in [Threads -> Pcs] /\ at' \in [Threads -> Sessions \cup {NoOne}]
    BY DEF CallsInv, BufferType, CallInv, Pcs, Sending, Coding, Releasing, Release, Goto, vars, poolVars, bufferVars, sessionVars, fixed, localVars
  <2>2. got' \in [Threads -> Buffers \cup {None}] /\ todo' \in [Threads -> Seq(Buffers)]
    BY DEF CallsInv, BufferType, CallInv, Releasing, Coding, Release, Goto, vars, poolVars, bufferVars, sessionVars, fixed, localVars
  <2>3. sendQ' \in [Sessions -> Seq(Buffers)] /\ batch' \in [Sessions -> Seq(Buffers)]
    BY DEF CallsInv, BufferType, CallInv, Sending, Release, Goto, vars, poolVars, bufferVars, sessionVars, fixed, localVars
  <2>4. busy' \in [Sessions -> BOOLEAN]
    BY DEF CallsInv, BufferType, Release, Goto, vars, poolVars, bufferVars, sessionVars, fixed, localVars
  <2>5. flight' \in [Sessions -> BOOLEAN]
    BY DEF CallsInv, BufferType, Release, Goto, vars, poolVars, bufferVars, sessionVars, fixed, localVars
  <2>6. state' \in [Sessions -> {"open", "closing", "released"}]
    BY DEF CallsInv, BufferType, Release, Goto, vars, poolVars, bufferVars, sessionVars, fixed, localVars
  <2>7. /\ allocs' \in 0..MaxAlloc /\ ref' \in [Buffers -> Int]
        /\ form' \in [Buffers -> {"none", "lan", "net"}]
        /\ isEncrypt' \in [Buffers -> {0, 1}]
        /\ lock' \in [Buffers -> Threads \cup {NoOne}]
        /\ key' \in KeyMaps /\ message' \in Messages
    BY BufferAssumption DEF CallsInv, BufferType, CallInv, LockInv, Coding, Release, Goto, vars, poolVars, bufferVars, sessionVars, fixed, localVars
  <2> QED BY <2>1, <2>2, <2>3, <2>4, <2>5, <2>6, <2>7 DEF BufferType
<1>2. CallInv'
  BY DEF CallsInv, BufferType, CallInv, SenderInv, Pcs, Sending, Coding, Releasing, Release, Goto, vars, poolVars, bufferVars, sessionVars, fixed, localVars
<1>3. SenderInv'
  BY DEF CallsInv, BufferType, CallInv, SenderInv, Pcs, Sending, Coding, Releasing, Release, Goto, vars, poolVars, bufferVars, sessionVars, fixed, localVars
<1>4. LockInv'
  BY DEF CallsInv, BufferType, CallInv, LockInv, Coding, Releasing, Release, Goto, vars, poolVars, bufferVars, sessionVars, fixed, localVars
<1> QED BY <1>1, <1>2, <1>3, <1>4 DEF CallsInv

LEMMA CallsFree ==
    ASSUME CallsInv, NEW t \in Threads, Free(t)
    PROVE  CallsInv'
<1>1. BufferType'
  <2>1. pc' \in [Threads -> Pcs] /\ at' \in [Threads -> Sessions \cup {NoOne}]
    BY DEF CallsInv, BufferType, CallInv, Pcs, Sending, Coding, Releasing, Free, Goto, vars, poolVars, bufferVars, sessionVars, fixed, localVars
  <2>2. got' \in [Threads -> Buffers \cup {None}] /\ todo' \in [Threads -> Seq(Buffers)]
    BY DEF CallsInv, BufferType, CallInv, Releasing, Coding, Free, Goto, vars, poolVars, bufferVars, sessionVars, fixed, localVars
  <2>3. sendQ' \in [Sessions -> Seq(Buffers)] /\ batch' \in [Sessions -> Seq(Buffers)]
    BY DEF CallsInv, BufferType, CallInv, Sending, Free, Goto, vars, poolVars, bufferVars, sessionVars, fixed, localVars
  <2>4. busy' \in [Sessions -> BOOLEAN]
    BY DEF CallsInv, BufferType, Free, Goto, vars, poolVars, bufferVars, sessionVars, fixed, localVars
  <2>5. flight' \in [Sessions -> BOOLEAN]
    BY DEF CallsInv, BufferType, Free, Goto, vars, poolVars, bufferVars, sessionVars, fixed, localVars
  <2>6. state' \in [Sessions -> {"open", "closing", "released"}]
    BY DEF CallsInv, BufferType, Free, Goto, vars, poolVars, bufferVars, sessionVars, fixed, localVars
  <2>7. /\ allocs' \in 0..MaxAlloc /\ ref' \in [Buffers -> Int]
        /\ form' \in [Buffers -> {"none", "lan", "net"}]
        /\ isEncrypt' \in [Buffers -> {0, 1}]
        /\ lock' \in [Buffers -> Threads \cup {NoOne}]
        /\ key' \in KeyMaps /\ message' \in Messages
    BY BufferAssumption DEF CallsInv, BufferType, CallInv, LockInv, Coding, Free, Goto, vars, poolVars, bufferVars, sessionVars, fixed, localVars
  <2> QED BY <2>1, <2>2, <2>3, <2>4, <2>5, <2>6, <2>7 DEF BufferType
<1>2. CallInv'
  BY DEF CallsInv, BufferType, CallInv, SenderInv, Pcs, Sending, Coding, Releasing, Free, Goto, vars, poolVars, bufferVars, sessionVars, fixed, localVars
<1>3. SenderInv'
  BY DEF CallsInv, BufferType, CallInv, SenderInv, Pcs, Sending, Coding, Releasing, Free, Goto, vars, poolVars, bufferVars, sessionVars, fixed, localVars
<1>4. LockInv'
  BY DEF CallsInv, BufferType, CallInv, LockInv, Coding, Releasing, Free, Goto, vars, poolVars, bufferVars, sessionVars, fixed, localVars
<1> QED BY <1>1, <1>2, <1>3, <1>4 DEF CallsInv

LEMMA CallsReleaseEnd ==
    ASSUME CallsInv, NEW t \in Threads, ReleaseEnd(t)
    PROVE  CallsInv'
<1>1. BufferType'
  <2>1. pc' \in [Threads -> Pcs] /\ at' \in [Threads -> Sessions \cup {NoOne}]
    BY DEF CallsInv, BufferType, CallInv, Pcs, Sending, Coding, Releasing, ReleaseEnd, Goto, AllReleased, vars, poolVars, bufferVars, sessionVars, fixed, localVars
  <2>2. got' \in [Threads -> Buffers \cup {None}] /\ todo' \in [Threads -> Seq(Buffers)]
    BY DEF CallsInv, BufferType, CallInv, Releasing, Coding, ReleaseEnd, Goto, AllReleased, vars, poolVars, bufferVars, sessionVars, fixed, localVars
  <2>3. sendQ' \in [Sessions -> Seq(Buffers)] /\ batch' \in [Sessions -> Seq(Buffers)]
    BY DEF CallsInv, BufferType, CallInv, Sending, ReleaseEnd, Goto, AllReleased, vars, poolVars, bufferVars, sessionVars, fixed, localVars
  <2>4. busy' \in [Sessions -> BOOLEAN]
    BY DEF CallsInv, BufferType, ReleaseEnd, Goto, AllReleased, vars, poolVars, bufferVars, sessionVars, fixed, localVars
  <2>5. flight' \in [Sessions -> BOOLEAN]
    BY DEF CallsInv, BufferType, ReleaseEnd, Goto, AllReleased, vars, poolVars, bufferVars, sessionVars, fixed, localVars
  <2>6. state' \in [Sessions -> {"open", "closing", "released"}]
    BY DEF CallsInv, BufferType, ReleaseEnd, Goto, AllReleased, vars, poolVars, bufferVars, sessionVars, fixed, localVars
  <2>7. /\ allocs' \in 0..MaxAlloc /\ ref' \in [Buffers -> Int]
        /\ form' \in [Buffers -> {"none", "lan", "net"}]
        /\ isEncrypt' \in [Buffers -> {0, 1}]
        /\ lock' \in [Buffers -> Threads \cup {NoOne}]
        /\ key' \in KeyMaps /\ message' \in Messages
    BY BufferAssumption DEF CallsInv, BufferType, CallInv, LockInv, Coding, ReleaseEnd, Goto, AllReleased, vars, poolVars, bufferVars, sessionVars, fixed, localVars
  <2> QED BY <2>1, <2>2, <2>3, <2>4, <2>5, <2>6, <2>7 DEF BufferType
<1>2. CallInv'
  BY DEF CallsInv, BufferType, CallInv, SenderInv, Pcs, Sending, Coding, Releasing, ReleaseEnd, Goto, AllReleased, vars, poolVars, bufferVars, sessionVars, fixed, localVars
<1>3. SenderInv'
  BY DEF CallsInv, BufferType, CallInv, SenderInv, Pcs, Sending, Coding, Releasing, ReleaseEnd, Goto, AllReleased, vars, poolVars, bufferVars, sessionVars, fixed, localVars
<1>4. LockInv'
  BY DEF CallsInv, BufferType, CallInv, LockInv, Coding, Releasing, ReleaseEnd, Goto, AllReleased, vars, poolVars, bufferVars, sessionVars, fixed, localVars
<1> QED BY <1>1, <1>2, <1>3, <1>4 DEF CallsInv

LEMMA CallsClose ==
    ASSUME CallsInv, NEW s \in Sessions, Close(s)
    PROVE  CallsInv'
<1>1. BufferType'
  <2>1. pc' \in [Threads -> Pcs] /\ at' \in [Threads -> Sessions \cup {NoOne}]
    BY DEF CallsInv, BufferType, CallInv, Pcs, Sending, Coding, Releasing, Close, Goto, vars, poolVars, bufferVars, sessionVars, fixed, localVars
  <2>2. got' \in [Threads -> Buffers \cup {None}] /\ todo' \in [Threads -> Seq(Buffers)]
    BY DEF CallsInv, BufferType, CallInv, Releasing, Coding, Close, Goto, vars, poolVars, bufferVars, sessionVars, fixed, localVars
  <2>3. sendQ' \in [Sessions -> Seq(Buffers)] /\ batch' \in [Sessions -> Seq(Buffers)]
    BY DEF CallsInv, BufferType, CallInv, Sending, Close, Goto, vars, poolVars, bufferVars, sessionVars, fixed, localVars
  <2>4. busy' \in [Sessions -> BOOLEAN]
    BY DEF CallsInv, BufferType, Close, Goto, vars, poolVars, bufferVars, sessionVars, fixed, localVars
  <2>5. flight' \in [Sessions -> BOOLEAN]
    BY DEF CallsInv, BufferType, Close, Goto, vars, poolVars, bufferVars, sessionVars, fixed, localVars
  <2>6. state' \in [Sessions -> {"open", "closing", "released"}]
    BY DEF CallsInv, BufferType, Close, Goto, vars, poolVars, bufferVars, sessionVars, fixed, localVars
  <2>7. /\ allocs' \in 0..MaxAlloc /\ ref' \in [Buffers -> Int]
        /\ form' \in [Buffers -> {"none", "lan", "net"}]
        /\ isEncrypt' \in [Buffers -> {0, 1}]
        /\ lock' \in [Buffers -> Threads \cup {NoOne}]
        /\ key' \in KeyMaps /\ message' \in Messages
    BY BufferAssumption DEF CallsInv, BufferType, CallInv, LockInv, Coding, Close, Goto, vars, poolVars, bufferVars, sessionVars, fixed, localVars
  <2> QED BY <2>1, <2>2, <2>3, <2>4, <2>5, <2>6, <2>7 DEF BufferType
<1>2. CallInv'
  BY DEF CallsInv, BufferType, CallInv, SenderInv, Pcs, Sending, Coding, Releasing, Close, Goto, vars, poolVars, bufferVars, sessionVars, fixed, localVars
<1>3. SenderInv'
  BY DEF CallsInv, BufferType, CallInv, SenderInv, Pcs, Sending, Coding, Releasing, Close, Goto, vars, poolVars, bufferVars, sessionVars, fixed, localVars
<1>4. LockInv'
  BY DEF CallsInv, BufferType, CallInv, LockInv, Coding, Releasing, Close, Goto, vars, poolVars, bufferVars, sessionVars, fixed, localVars
<1> QED BY <1>1, <1>2, <1>3, <1>4 DEF CallsInv

----------------------------------------------------------------------------
\* The counts of RefInv.

\* One session's queue changes, and the references in queues.
LEMMA QueuedChange ==
    ASSUME CallsInv, CallsInv', NEW s \in Sessions, NEW b,
           \A r \in Sessions \ {s} : sendQ'[r] = sendQ[r]
    PROVE  /\ Queued(b) \in Nat /\ Queued(b)' \in Nat
           /\ Queued(b)' + Number(b, sendQ[s]) = Queued(b) + Number(b, sendQ'[s])
<1>1. \A r \in Sessions : sendQ[r] \in Seq(Buffers) /\ sendQ'[r] \in Seq(Buffers)
  BY DEF CallsInv, BufferType
<1> DEFINE F == sendQ
           G == sendQ'
<1> HIDE DEF F, G
<1>2. /\ Cardinality(Tally(b, G, Sessions)) \in Nat /\ Cardinality(Tally(b, F, Sessions)) \in Nat
      /\ Cardinality(Tally(b, G, Sessions)) + Number(b, F[s])
           = Cardinality(Tally(b, F, Sessions)) + Number(b, G[s])
  <2>1. Differ(F, G, Sessions, Buffers, s)
    BY <1>1, ThreadSets DEF F, G, Differ, Family
  <2> QED BY <2>1, TallyChange
<1> QED BY <1>2, CountsAre DEF F, G

\* One thread's list of buffers to release changes.
LEMMA DueChange ==
    ASSUME CallsInv, CallsInv', NEW t \in Threads, NEW b, Others(t)
    PROVE  /\ Due(b) \in Nat /\ Due(b)' \in Nat
           /\ Due(b)' + Number(b, todo[t]) = Due(b) + Number(b, todo'[t])
<1>1. \A r \in Threads : todo[r] \in Seq(Buffers) /\ todo'[r] \in Seq(Buffers)
  BY DEF CallsInv, BufferType
<1>2. \A r \in Threads \ {t} : todo'[r] = todo[r]
  BY DEF Others
<1> DEFINE F == todo
           G == todo'
           S == Threads
           A == Buffers
<1>3. /\ \A r \in S : F[r] \in Seq(A) /\ G[r] \in Seq(A)
      /\ \A r \in S \ {t} : G[r] = F[r]
      /\ IsFiniteSet(S) /\ t \in S
  BY <1>1, <1>2, ThreadSets
<1> HIDE DEF F, G, S, A
<1>4. /\ Cardinality(Tally(b, G, S)) \in Nat /\ Cardinality(Tally(b, F, S)) \in Nat
      /\ Cardinality(Tally(b, G, S)) + Number(b, F[t]) = Cardinality(Tally(b, F, S)) + Number(b, G[t])
  <2>1. Differ(F, G, S, A, t)
    BY <1>3 DEF Differ, Family
  <2> QED BY <2>1, TallyChange
<1>5. Due(b) = Cardinality(Tally(b, F, S)) /\ Due(b)' = Cardinality(Tally(b, G, S))
  BY CountsAre DEF F, G, S
<1>6. F[t] = todo[t] /\ G[t] = todo'[t]
  BY DEF F, G
<1> QED BY <1>4, <1>5, <1>6

\* What a session has sent and not released is a sequence of buffers.
LEMMA OutType ==
    /\ CallsInv => \A s \in Sessions : Out[s] = Unreleased(s) /\ Out[s] \in Seq(Buffers)
    /\ CallsInv' => \A s \in Sessions : Out'[s] = Unreleased(s)' /\ Out'[s] \in Seq(Buffers)
<1>1. CallsInv => \A s \in Sessions : Out[s] = Unreleased(s) /\ Out[s] \in Seq(Buffers)
  BY DEF CallsInv, BufferType, Out, Unreleased
<1>2. CallsInv' => \A s \in Sessions : Out'[s] = Unreleased(s)' /\ Out'[s] \in Seq(Buffers)
  BY DEF CallsInv, BufferType, Out, Unreleased
<1> QED BY <1>1, <1>2

\* One session's batch changes, and the references in batches.
LEMMA SentChange ==
    ASSUME CallsInv, CallsInv', NEW s \in Sessions, NEW b,
           \A r \in Sessions \ {s} : Unreleased(r)' = Unreleased(r)
    PROVE  /\ Sent(b) \in Nat /\ Sent(b)' \in Nat
           /\ Sent(b)' + Number(b, Unreleased(s)) = Sent(b) + Number(b, Unreleased(s)')
<1>1. \A r \in Sessions : Out[r] \in Seq(Buffers) /\ Out'[r] \in Seq(Buffers)
  BY OutType
<1>2. \A r \in Sessions \ {s} : Out'[r] = Out[r]
  BY OutType
<1> DEFINE F == Out
           G == Out'
<1> HIDE DEF F, G
<1>3. /\ Cardinality(Tally(b, G, Sessions)) \in Nat /\ Cardinality(Tally(b, F, Sessions)) \in Nat
      /\ Cardinality(Tally(b, G, Sessions)) + Number(b, F[s])
           = Cardinality(Tally(b, F, Sessions)) + Number(b, G[s])
  <2>1. Differ(F, G, Sessions, Buffers, s)
    BY <1>1, <1>2, ThreadSets DEF F, G, Differ, Family
  <2> QED BY <2>1, TallyChange
<1>4. F[s] = Unreleased(s) /\ G[s] = Unreleased(s)'
  BY OutType DEF F, G
<1>5. Sent(b) = Cardinality(Tally(b, F, Sessions)) /\ Sent(b)' = Cardinality(Tally(b, G, Sessions))
  BY CountsAre DEF F, G
<1> QED BY <1>3, <1>4, <1>5

\* The counts are natural numbers, and what is somewhere has a reference.
LEMMA CountTypes ==
    ASSUME CallsInv, NEW b
    PROVE  /\ HandleCount(b) \in Nat /\ Queued(b) \in Nat /\ Sent(b) \in Nat /\ Due(b) \in Nat
           /\ Called(b) \in Nat
<1>1. Family(sendQ, Sessions, Buffers) /\ Family(todo, Threads, Buffers)
  BY ThreadSets DEF CallsInv, BufferType, Family
<1>2. Family(Out, Sessions, Buffers)
  BY OutType, ThreadSets DEF Family
<1>3. Cardinality(Tally(b, sendQ, Sessions)) \in Nat
  BY <1>1, TallyFinite
<1>4. Cardinality(Tally(b, todo, Threads)) \in Nat
  BY <1>1, TallyFinite
<1>5. Cardinality(Tally(b, Out, Sessions)) \in Nat
  BY <1>2, TallyFinite
<1> QED BY <1>3, <1>4, <1>5, CountsAre, HandlesFinite, ThreadCounts

\* A buffer with a handle, in a queue, a batch or a list has a reference.
LEMMA InUse ==
    ASSUME CallsInv, RefInv, NEW b \in Buffers
    PROVE  /\ ref[b] \in Nat
           /\ \A u \in Contents : held[u][b] \in 0..MaxHandle /\ held[u][b] <= HandleCount(b)
           /\ \A u \in Contents : held[u][b] <= ref[b]
           /\ \A s \in Sessions : \A i \in DOMAIN sendQ[s] : sendQ[s][i] = b => ref[b] > 0
           /\ \A s \in Sessions : \A i \in DOMAIN Unreleased(s) : Unreleased(s)[i] = b => ref[b] > 0
           /\ \A t \in Threads : \A i \in DOMAIN todo[t] : todo[t][i] = b => ref[b] > 0
<1>1. /\ HandleCount(b) \in Nat /\ Queued(b) \in Nat /\ Sent(b) \in Nat /\ Due(b) \in Nat
      /\ Called(b) \in Nat
  BY CountTypes
<1>2. ref[b] = HandleCount(b) + Queued(b) + Sent(b) + Due(b) + Called(b) /\ held \in HandleType
  BY DEF RefInv, HandleType
<1>3. ASSUME NEW u \in Contents PROVE held[u][b] \in 0..MaxHandle /\ held[u][b] <= HandleCount(b)
  BY <1>2, CountsAre, HandleSome
<1>4. ASSUME NEW s \in Sessions, NEW i \in DOMAIN sendQ[s], sendQ[s][i] = b PROVE Queued(b) > 0
  <2>1. Family(sendQ, Sessions, Buffers)
    BY ThreadSets DEF CallsInv, BufferType, Family
  <2>2. Cardinality(Tally(b, sendQ, Sessions)) > 0
    BY <1>4, <2>1, TallySome
  <2> QED BY <2>2, CountsAre
<1>5. ASSUME NEW s \in Sessions, NEW i \in DOMAIN Unreleased(s), Unreleased(s)[i] = b PROVE Sent(b) > 0
  <2>1. Family(Out, Sessions, Buffers) /\ Out[s] = Unreleased(s)
    BY OutType, ThreadSets DEF Family
  <2>2. i \in DOMAIN Out[s] /\ Out[s][i] = b
    BY <1>5, <2>1
  <2>3. Cardinality(Tally(b, Out, Sessions)) > 0
    BY <2>1, <2>2, TallySome
  <2> QED BY <2>3, CountsAre
<1>6. ASSUME NEW t \in Threads, NEW i \in DOMAIN todo[t], todo[t][i] = b PROVE Due(b) > 0
  <2>1. Family(todo, Threads, Buffers)
    BY ThreadSets DEF CallsInv, BufferType, Family
  <2>2. Cardinality(Tally(b, todo, Threads)) > 0
    BY <1>6, <2>1, TallySome
  <2> QED BY <2>2, CountsAre
<1>7. /\ ref[b] \in Nat /\ HandleCount(b) <= ref[b] /\ Queued(b) <= ref[b] /\ Sent(b) <= ref[b]
      /\ Due(b) <= ref[b]
  BY <1>1, <1>2
<1>8. ASSUME NEW u \in Contents PROVE held[u][b] <= ref[b]
  <2>1. held[u][b] \in Nat /\ held[u][b] <= HandleCount(b)
    <3>1. held[u][b] \in 0..MaxHandle /\ MaxHandle \in Nat
      BY <1>3, BufferAssumption
    <3> QED BY <1>3, <3>1
  <2> QED BY <1>1, <1>7, <2>1
<1>9. /\ \A s \in Sessions : \A i \in DOMAIN sendQ[s] : sendQ[s][i] = b => ref[b] > 0
      /\ \A s \in Sessions : \A i \in DOMAIN Unreleased(s) : Unreleased(s)[i] = b => ref[b] > 0
      /\ \A t \in Threads : \A i \in DOMAIN todo[t] : todo[t][i] = b => ref[b] > 0
  BY <1>1, <1>4, <1>5, <1>6, <1>7
<1> QED BY <1>3, <1>7, <1>8, <1>9

\* Nobody frees what a session has yet to send.
LEMMA CodingInUse ==
    ASSUME CallsInv, RefInv, NEW t \in Threads, pc[t] \in Coding
    PROVE  /\ got[t] \in Buffers /\ ref[got[t]] > 0 /\ at[t] \in Sessions
           /\ Unreleased(at[t]) = batch[at[t]]
<1>1. /\ got[t] \in Buffers /\ at[t] \in Sessions
      /\ \E i \in DOMAIN batch[at[t]] : batch[at[t]][i] = got[t]
  BY DEF CallsInv, CallInv, Coding, Sending
<1>2. ASSUME NEW u \in Threads, pc[u] = "postSend" PROVE at[u] # at[t]
  <2>1. pc[t] \in Sending /\ pc[u] \in Sending /\ pc[u] # pc[t]
    BY <1>2 DEF Sending, Coding
  <2> QED BY <2>1 DEF CallsInv, SenderInv
<1>3. Unreleased(at[t]) = batch[at[t]]
  BY <1>2 DEF Unreleased
<1> QED BY <1>1, <1>3, InUse

----------------------------------------------------------------------------
\* RefInv: one lemma for each action.

\* A step that leaves every count and every reference count alone.
LEMMA RefQuiet ==
    ASSUME CallsInv, RefInv, NEW t \in Threads, Others(t), Out' = Out,
           pc[t] = "process" \/ pc'[t] = "process" => pc'[t] = pc[t] /\ got'[t] = got[t],
           ref' = ref, held' = held, sendQ' = sendQ, todo' = todo
    PROVE  RefInv'
<1>1. ASSUME NEW b \in Buffers
      PROVE  ref'[b] = HandleCount(b)' + Queued(b)' + Sent(b)' + Due(b)' + Called(b)'
  <2>1. Called(b)' + (IF pc[t] = "process" /\ got[t] = b THEN 1 ELSE 0)
             = Called(b) + (IF pc'[t] = "process" /\ got'[t] = b THEN 1 ELSE 0)
    BY CalledChange
  <2>2. Called(b)' = Called(b)
    BY <2>1, ThreadCounts
  <2>3. HandleCount(b)' = HandleCount(b) /\ Queued(b)' = Queued(b) /\ Due(b)' = Due(b)
    BY DEF HandleCount, Queued, Due
  <2>4. Sent(b)' = Sent(b)
    BY CountsAre
  <2> QED BY <2>2, <2>3, <2>4 DEF RefInv
<1> QED BY <1>1 DEF RefInv

LEMMA RefRealSend ==
    ASSUME CallsInv, RefInv, NEW t \in Threads, NEW s \in Sessions, RealSend(t, s)
    PROVE  RefInv'
<1>1. Others(t)
  BY DEF CallsInv, BufferType, Others, RealSend, Goto
<1>2. /\ pc[t] = "idle" /\ pc'[t] = "fill" /\ batch' = batch
      /\ ref' = ref /\ held' = held /\ sendQ' = sendQ /\ todo' = todo
  BY DEF CallsInv, BufferType, RealSend, Goto
<1> QED BY <1>1, <1>2, OutSame, RefQuiet

LEMMA RefTryEncode ==
    ASSUME CallsInv, RefInv, NEW t \in Threads, TryEncode(t)
    PROVE  RefInv'
<1>1. Others(t)
  BY DEF CallsInv, BufferType, Others, TryEncode, EncodeCheck, EncodeLock, EncodeWrite, EncodeMark, Goto
<1>2. /\ pc[t] \in Coding /\ pc'[t] \in Coding \cup {"fill"} /\ batch' = batch
      /\ ref' = ref /\ held' = held /\ sendQ' = sendQ /\ todo' = todo
  BY DEF CallsInv, BufferType, Coding, TryEncode, EncodeCheck, EncodeLock, EncodeWrite, EncodeMark,
         Goto, sessionVars
<1>3. pc[t] \notin {"process", "postSend"} /\ pc'[t] \notin {"process", "postSend"}
  BY <1>2 DEF Coding
<1> QED BY <1>1, <1>2, <1>3, OutSame, RefQuiet

LEMMA RefSendPost ==
    ASSUME CallsInv, RefInv, NEW t \in Threads, SendPost(t)
    PROVE  RefInv'
<1>1. Others(t)
  BY DEF CallsInv, BufferType, Others, SendPost, Goto
<1>2. /\ pc[t] = "fill" /\ pc'[t] = "idle" /\ batch' = batch
      /\ ref' = ref /\ held' = held /\ sendQ' = sendQ /\ todo' = todo
  BY DEF CallsInv, BufferType, SendPost, Goto
<1> QED BY <1>1, <1>2, OutSame, RefQuiet

LEMMA RefReleaseEnd ==
    ASSUME CallsInv, RefInv, NEW t \in Threads, ReleaseEnd(t) \/ ResetEnd(t)
    PROVE  RefInv'
<1>1. Others(t)
  BY DEF CallsInv, BufferType, Others, ReleaseEnd, ResetEnd, Goto
<1>2. /\ pc[t] \in {"release", "reset"} /\ pc'[t] = "idle" /\ batch' = batch
      /\ ref' = ref /\ held' = held /\ sendQ' = sendQ /\ todo' = todo
  BY DEF CallsInv, BufferType, ReleaseEnd, ResetEnd, Goto, sessionVars
<1> QED BY <1>1, <1>2, OutSame, RefQuiet

LEMMA RefFree ==
    ASSUME CallsInv, RefInv, NEW t \in Threads, Free(t)
    PROVE  RefInv'
<1>1. Others(t)
  BY DEF CallsInv, BufferType, Others, Free
<1>2. /\ pc[t] \in Releasing /\ pc' = pc /\ at' = at /\ batch' = batch
      /\ ref' = ref /\ held' = held /\ sendQ' = sendQ /\ todo' = todo
  BY DEF Free, sessionVars
<1>3. pc[t] # "process"
  BY <1>2 DEF Releasing
<1> QED BY <1>1, <1>2, <1>3, OutSame, RefQuiet

LEMMA RefClose ==
    ASSUME RefInv, NEW s \in Sessions, Close(s)
    PROVE  RefInv'
<1>1. /\ ref' = ref /\ held' = held /\ sendQ' = sendQ /\ todo' = todo /\ batch' = batch /\ pc' = pc
      /\ got' = got /\ at' = at
  BY DEF Close, localVars
<1> QED BY <1>1 DEF RefInv, HandleCount, Queued, Sent, Due, Called, Unreleased

\* The batch is empty before and after.
LEMMA RefPostSendEnd ==
    ASSUME CallsInv, RefInv, NEW t \in Threads, PostSendEnd(t)
    PROVE  RefInv'
<1>1. Others(t) /\ at[t] \in Sessions
  BY DEF CallsInv, BufferType, CallInv, Sending, Others, PostSendEnd, Goto
<1>2. /\ pc[t] = "postSend" /\ pc'[t] = "idle" /\ batch' = [batch EXCEPT ![at[t]] = <<>>]
      /\ ref' = ref /\ held' = held /\ sendQ' = sendQ /\ todo' = todo /\ batch \in [Sessions -> Seq(Buffers)]
  BY DEF CallsInv, BufferType, PostSendEnd, Goto
<1>3. \A r \in Sessions : Unreleased(r)' = Unreleased(r)
  <2>1. ASSUME NEW r \in Sessions PROVE Unreleased(r)' = Unreleased(r)
    <3>1. CASE r = at[t]
      BY <1>1, <1>2, <3>1 DEF Unreleased
    <3>2. CASE r # at[t]
      <4>1. batch'[r] = batch[r]
        BY <1>2, <3>2
      <4>2. (\E u \in Threads : pc'[u] = "postSend" /\ at'[u] = r)
               <=> (\E u \in Threads : pc[u] = "postSend" /\ at[u] = r)
        BY <1>1, <1>2, <3>2 DEF Others
      <4> QED BY <4>1, <4>2 DEF Unreleased
    <3> QED BY <3>1, <3>2
  <2> QED BY <2>1
<1>4. Out' = Out
  BY <1>3 DEF Out
<1> QED BY <1>1, <1>2, <1>4, RefQuiet

\* A handle is made.
LEMMA RefHandle ==
    ASSUME CallsInv, RefInv, NEW t \in Threads, NEW u \in Contents, NEW b \in Buffers,
           Others(t), Out' = Out, pc[t] # "process", pc'[t] # "process", sendQ' = sendQ, todo' = todo,
           held[u][b] < MaxHandle,
           ref' = [ref EXCEPT ![b] = @ + 1], held' = [held EXCEPT ![u][b] = @ + 1]
    PROVE  RefInv'
<1>1. held \in HandleType /\ ref \in [Buffers -> Int] /\ MaxHandle \in Nat
  BY BufferAssumption DEF RefInv, HandleType, CallsInv, BufferType
<1>2. held[u][b] \in 0..MaxHandle /\ held[u][b] + 1 \in 0..MaxHandle
  BY <1>1 DEF HandleType
<1>3. /\ held' \in HandleType /\ held'[u][b] = held[u][b] + 1
      /\ \A v \in Contents, c \in Buffers : v # u \/ c # b => held'[v][c] = held[v][c]
  BY <1>1, <1>2 DEF HandleType
<1>4. /\ HandleCount(b)' = HandleCount(b) + 1
      /\ \A c \in Buffers : c # b => HandleCount(c)' = HandleCount(c)
  <2> DEFINE H == held
             G == held'
  <2> HIDE DEF H, G
  <2>1. /\ H \in HandleType /\ G \in HandleType /\ G[u][b] = H[u][b] + 1
        /\ \A v \in Contents, c \in Buffers : v # u \/ c # b => G[v][c] = H[v][c]
    BY <1>1, <1>3 DEF H, G
  <2>2. /\ Cardinality(Handles(b, G)) = Cardinality(Handles(b, H)) + 1
        /\ \A c \in Buffers : c # b => Cardinality(Handles(c, G)) = Cardinality(Handles(c, H))
    BY <2>1, HandleUp
  <2> QED BY <2>2, CountsAre DEF H, G
<1>5. ASSUME NEW c \in Buffers
      PROVE  ref'[c] = HandleCount(c)' + Queued(c)' + Sent(c)' + Due(c)' + Called(c)'
  <2>1. Called(c)' + 0 = Called(c) + 0
    BY CalledChange
  <2>2. Called(c)' = Called(c)
    BY <2>1, ThreadCounts
  <2>3. Queued(c)' = Queued(c) /\ Due(c)' = Due(c)
    BY DEF Queued, Due
  <2>4. Sent(c)' = Sent(c)
    BY CountsAre
  <2>5. ref'[c] = ref[c] + (IF c = b THEN 1 ELSE 0) /\ HandleCount(c)' = HandleCount(c) + (IF c = b THEN 1 ELSE 0)
    BY <1>1, <1>4, CountTypes
  <2>6. ref[c] = HandleCount(c) + Queued(c) + Sent(c) + Due(c) + Called(c)
    BY DEF RefInv
  <2> QED BY <2>2, <2>3, <2>4, <2>5, <2>6, CountTypes
<1> QED BY <1>3, <1>5 DEF RefInv, HandleType

LEMMA RefCopy ==
    ASSUME CallsInv, RefInv, NEW t \in Threads, NEW u \in Contents, NEW b \in Buffers,
           HandleCount(b) < MaxHandle, Copy(t, u, b)
    PROVE  RefInv'
<1>1. /\ pc[t] = "idle" /\ pc' = pc /\ at' = at /\ got' = got /\ todo' = todo /\ batch' = batch /\ sendQ' = sendQ
      /\ ref' = [ref EXCEPT ![b] = @ + 1] /\ held' = [held EXCEPT ![u][b] = @ + 1]
  BY DEF Copy, localVars, sessionVars
<1>2. Others(t)
  BY <1>1 DEF Others
<1>3. held[u][b] < MaxHandle
  <2>1. held[u][b] \in 0..MaxHandle /\ held[u][b] <= HandleCount(b) /\ HandleCount(b) \in Nat /\ MaxHandle \in Nat
    BY InUse, CountTypes, BufferAssumption
  <2> QED BY <2>1
<1> QED BY <1>1, <1>2, <1>3, OutSame, RefHandle

\* A buffer nobody has is taken from the pool.
LEMMA RefTake ==
    ASSUME CallsInv, RefInv, NEW t \in Contents, NEW c, NEW n, Head(c) \in Buffers, ref[Head(c)] = 0,
           Take(t, c, n), Others(t), at'[t] = at[t], todo' = todo, batch' = batch, sendQ' = sendQ,
           pc[t] \notin {"process", "postSend"}, pc'[t] \notin {"process", "postSend"}
    PROVE  RefInv'
<1> DEFINE b == Head(c)
<1>1. ref' = [ref EXCEPT ![b] = @ + 1] /\ held' = [held EXCEPT ![t][b] = @ + 1]
  BY DEF Take
<1>2. b \in Buffers /\ ref[b] = 0
  OBVIOUS
<1> HIDE DEF b
<1>3. held[t][b] \in 0..MaxHandle /\ held[t][b] <= ref[b] /\ MaxHandle \in Nat \ {0}
  BY <1>2, InUse, BufferAssumption
<1>4. held[t][b] < MaxHandle
  BY <1>2, <1>3
<1>5. t \in Threads /\ pc[t] # "process" /\ pc'[t] # "process"
  BY ThreadSets
<1>6. Out' = Out
  BY OutSame
<1> QED BY <1>1, <1>2, <1>4, <1>5, <1>6, RefHandle

\* The reference of a handle becomes one to release.
LEMMA RefDrop ==
    ASSUME CallsInv, CallsInv', RefInv, NEW t \in Contents, NEW b \in Buffers, Drop(t, b)
    PROVE  RefInv'
<1>1. /\ pc[t] = "idle" /\ pc'[t] = "release" /\ at' = at /\ got' = got /\ batch' = batch /\ sendQ' = sendQ
      /\ held[t][b] > 0 /\ ref' = ref /\ held' = [held EXCEPT ![t][b] = @ - 1]
      /\ todo[t] = <<>> /\ todo'[t] = <<b>> /\ t \in Threads
  BY ThreadSets DEF Drop, Goto, CallsInv, BufferType, CallInv, Releasing, sessionVars
<1>2. Others(t)
  BY DEF CallsInv, BufferType, Others, Drop, Goto
<1>3. held \in HandleType /\ MaxHandle \in Nat
  BY BufferAssumption DEF RefInv, HandleType
<1>4. held[t][b] \in 0..MaxHandle /\ held[t][b] - 1 \in 0..MaxHandle
  BY <1>1, <1>3 DEF HandleType
<1>5. /\ held' \in HandleType /\ held[t][b] = held'[t][b] + 1
      /\ \A v \in Contents, c \in Buffers : v # t \/ c # b => held[v][c] = held'[v][c]
  BY <1>1, <1>3, <1>4 DEF HandleType
<1>6. /\ HandleCount(b) = HandleCount(b)' + 1
      /\ \A c \in Buffers : c # b => HandleCount(c) = HandleCount(c)'
  <2> DEFINE G == held
             H == held'
  <2> HIDE DEF H, G
  <2>1. /\ H \in HandleType /\ G \in HandleType /\ G[t][b] = H[t][b] + 1
        /\ \A v \in Contents, c \in Buffers : v # t \/ c # b => G[v][c] = H[v][c]
    BY <1>3, <1>5 DEF H, G
  <2>2. /\ Cardinality(Handles(b, G)) = Cardinality(Handles(b, H)) + 1
        /\ \A c \in Buffers : c # b => Cardinality(Handles(c, G)) = Cardinality(Handles(c, H))
    BY <2>1, HandleUp
  <2> QED BY <2>2, CountsAre DEF H, G
<1>7. ASSUME NEW c \in Buffers
      PROVE  ref'[c] = HandleCount(c)' + Queued(c)' + Sent(c)' + Due(c)' + Called(c)'
  <2>1. Called(c)' + 0 = Called(c) + 0
    BY <1>1, <1>2, CalledChange
  <2>2. Called(c)' = Called(c)
    BY <2>1, ThreadCounts
  <2>3. Queued(c)' = Queued(c)
    BY <1>1 DEF Queued
  <2>4. Sent(c)' = Sent(c)
    <3>1. Out' = Out
      BY <1>1, <1>2, OutSame
    <3> QED BY <3>1, CountsAre
  <2>5. HandleCount(c)' \in Nat
    BY CountsAre, HandlesFinite
  <2>6. HandleCount(c) = HandleCount(c)' + (IF c = b THEN 1 ELSE 0)
    BY <1>6, <2>5
  <2>7. Due(c)' = Due(c) + (IF c = b THEN 1 ELSE 0)
    <3>1. Due(c) \in Nat /\ Due(c)' \in Nat /\ Due(c)' + Number(c, todo[t]) = Due(c) + Number(c, todo'[t])
      BY <1>1, <1>2, DueChange
    <3>2. Number(c, <<>>) = 0 /\ Number(c, <<b>>) = IF b = c THEN 1 ELSE 0
      BY NumberOne
    <3> QED BY <1>1, <3>1, <3>2
  <2>8. ref[c] = HandleCount(c) + Queued(c) + Sent(c) + Due(c) + Called(c)
    BY DEF RefInv
  <2> QED BY <1>1, <2>2, <2>3, <2>4, <2>5, <2>6, <2>7, <2>8, CountTypes
<1> QED BY <1>5, <1>7 DEF RefInv, HandleType

LEMMA RefSendPacket ==
    ASSUME CallsInv, RefInv, NEW t \in Threads, NEW s \in Sessions, NEW b \in Buffers, SendPacket(t, s, b)
    PROVE  RefInv'
<1>1. /\ pc[t] = "idle" /\ pc'[t] = "process" /\ got'[t] = b /\ batch' = batch /\ sendQ' = sendQ
      /\ ref' = [ref EXCEPT ![b] = @ + 1] /\ held' = held /\ todo' = todo /\ ref \in [Buffers -> Int]
  BY DEF SendPacket, Goto, CallsInv, BufferType, sessionVars
<1>2. Others(t)
  BY DEF CallsInv, BufferType, Others, SendPacket, Goto
<1>3. ASSUME NEW c \in Buffers
      PROVE  ref'[c] = HandleCount(c)' + Queued(c)' + Sent(c)' + Due(c)' + Called(c)'
  <2>1. Called(c)' + 0 = Called(c) + (IF b = c THEN 1 ELSE 0)
    BY <1>1, <1>2, CalledChange
  <2>2. Called(c)' \in Nat
    BY ThreadCounts
  <2>3. Queued(c)' = Queued(c) /\ HandleCount(c)' = HandleCount(c) /\ Due(c)' = Due(c)
    BY <1>1 DEF Queued, HandleCount, Due
  <2>4. Sent(c)' = Sent(c)
    <3>1. Out' = Out
      BY <1>1, <1>2, OutSame
    <3> QED BY <3>1, CountsAre
  <2>5. ref[c] = HandleCount(c) + Queued(c) + Sent(c) + Due(c) + Called(c)
    BY DEF RefInv
  <2>6. ref'[c] = ref[c] + (IF b = c THEN 1 ELSE 0)
    BY <1>1
  <2> QED BY <2>1, <2>2, <2>3, <2>4, <2>5, <2>6, CountTypes
<1> QED BY <1>1, <1>3 DEF RefInv

LEMMA RefProcessBuffer ==
    ASSUME CallsInv, CallsInv', RefInv, NEW t \in Threads, ProcessBuffer(t)
    PROVE  RefInv'
<1> DEFINE s == at[t]
           b == got[t]
<1>1. /\ pc[t] = "process" /\ pc'[t] # "process" /\ pc'[t] # "postSend" /\ batch' = batch
      /\ ref' = ref /\ held' = held /\ s \in Sessions /\ b \in Buffers /\ todo[t] = <<>>
      /\ sendQ[s] \in Seq(Buffers)
  BY DEF ProcessBuffer, Goto, CallsInv, BufferType, CallInv, Releasing
<1>2. Others(t)
  BY DEF CallsInv, BufferType, Others, ProcessBuffer, Goto
<1>3. /\ \A r \in Sessions \ {s} : sendQ'[r] = sendQ[r]
      /\ \/ sendQ'[s] = Append(sendQ[s], b) /\ todo'[t] = <<>>
         \/ sendQ'[s] = sendQ[s] /\ todo'[t] = <<b>>
  BY <1>1 DEF ProcessBuffer, CallsInv, BufferType
<1> HIDE DEF s
<1>4. ASSUME NEW c \in Buffers
      PROVE  ref'[c] = HandleCount(c)' + Queued(c)' + Sent(c)' + Due(c)' + Called(c)'
  <2> DEFINE x == IF b = c THEN 1 ELSE 0
  <2>1. Called(c)' + x = Called(c) + 0
    BY <1>1, <1>2, CalledChange
  <2>2. Called(c)' \in Nat
    BY ThreadCounts
  <2>3. HandleCount(c)' = HandleCount(c)
    BY <1>1 DEF HandleCount
  <2>4. Sent(c)' = Sent(c)
    <3>1. Out' = Out
      BY <1>1, <1>2, OutSame
    <3> QED BY <3>1, CountsAre
  <2>5. Queued(c)' \in Nat /\ Queued(c)' + Number(c, sendQ[s]) = Queued(c) + Number(c, sendQ'[s])
    BY <1>1, <1>3, QueuedChange
  <2>6. Due(c)' \in Nat /\ Due(c)' + Number(c, todo[t]) = Due(c) + Number(c, todo'[t])
    BY <1>2, DueChange
  <2>7. Number(c, <<>>) = 0 /\ Number(c, <<b>>) = x
    BY NumberOne
  <2>8. Number(c, Append(sendQ[s], b)) = Number(c, sendQ[s]) + x /\ Number(c, sendQ[s]) \in Nat
    BY <1>1, NumberEnds, SpotsFinite
  <2>9. ref[c] = HandleCount(c) + Queued(c) + Sent(c) + Due(c) + Called(c)
    BY DEF RefInv
  <2>10. x \in Nat
    OBVIOUS
  <2> HIDE DEF x, b
  <2>11. (Queued(c)' = Queued(c) + x /\ Due(c)' = Due(c)) \/ (Queued(c)' = Queued(c) /\ Due(c)' = Due(c) + x)
    <3>1. Queued(c) \in Nat /\ Due(c) \in Nat
      BY CountTypes
    <3>2. CASE sendQ'[s] = Append(sendQ[s], b) /\ todo'[t] = <<>>
      <4>1. Queued(c)' + Number(c, sendQ[s]) = Queued(c) + Number(c, sendQ[s]) + x
        BY <2>5, <2>8, <2>10, <3>1, <3>2
      <4>2. Due(c)' + 0 = Due(c) + 0
        BY <1>1, <2>6, <2>7, <3>2
      <4> QED BY <2>5, <2>6, <2>8, <2>10, <3>1, <4>1, <4>2
    <3>3. CASE sendQ'[s] = sendQ[s] /\ todo'[t] = <<b>>
      <4>1. Queued(c)' + Number(c, sendQ[s]) = Queued(c) + Number(c, sendQ[s])
        BY <2>5, <3>3
      <4>2. Due(c)' + 0 = Due(c) + x
        BY <1>1, <2>6, <2>7, <3>3
      <4> QED BY <2>5, <2>6, <2>8, <2>10, <3>1, <4>1, <4>2
    <3> QED BY <1>3, <3>2, <3>3
  <2> QED BY <1>1, <2>1, <2>2, <2>3, <2>4, <2>9, <2>10, <2>11, CountTypes
<1> QED BY <1>1, <1>4 DEF RefInv

\* A packet goes from the queue to the batch; nobody posts the session's sends meanwhile.
LEMMA RefFill ==
    ASSUME CallsInv, CallsInv', RefInv, NEW t \in Threads, Fill(t)
    PROVE  RefInv'
<1>0. PICK s \in Sessions : s = at[t]
  BY DEF Fill, CallsInv, CallInv, Sending
<1> DEFINE b == Head(sendQ[s])
           q == sendQ[s]
           a == batch[s]
<1>1. /\ pc[t] = "fill" /\ pc'[t] \in {"fill", "check"} /\ at' = at /\ todo' = todo
      /\ ref' = ref /\ held' = held /\ s \in Sessions /\ q # <<>> /\ q \in Seq(Buffers) /\ a \in Seq(Buffers)
      /\ batch \in [Sessions -> Seq(Buffers)] /\ sendQ \in [Sessions -> Seq(Buffers)]
  BY <1>0 DEF Fill, Goto, CallsInv, BufferType, CallInv, Sending
<1>2. Others(t)
  BY DEF CallsInv, BufferType, Others, Fill, Goto
<1>3. sendQ' = [sendQ EXCEPT ![s] = Tail(q)] /\ batch' = [batch EXCEPT ![s] = Append(a, b)]
  BY <1>0 DEF Fill
<1>4. b \in Buffers
  BY <1>1
<1>5. ASSUME NEW u \in Threads, pc[u] = "postSend" \/ pc'[u] = "postSend" PROVE at[u] # s /\ pc'[u] = pc[u]
  <2>1. u # t /\ pc[u] = "postSend" /\ pc'[u] = pc[u]
    BY <1>1, <1>2, <1>5 DEF Others
  <2>2. pc[t] \in Sending /\ pc[u] \in Sending
    BY <1>1, <2>1 DEF Sending
  <2> QED BY <1>0, <2>1, <2>2 DEF CallsInv, SenderInv
<1>6. Unreleased(s) = a /\ Unreleased(s)' = Append(a, b)
  <2>1. Unreleased(s) = a
    BY <1>5 DEF Unreleased
  <2>2. Unreleased(s)' = batch'[s]
    BY <1>1, <1>5 DEF Unreleased
  <2> QED BY <1>1, <1>3, <2>1, <2>2
<1>7. \A r \in Sessions \ {s} : Unreleased(r)' = Unreleased(r)
  <2>1. ASSUME NEW r \in Sessions \ {s} PROVE Unreleased(r)' = Unreleased(r)
    <3>1. batch'[r] = batch[r]
      BY <1>1, <1>3
    <3>2. \A u \in Threads : pc'[u] = "postSend" <=> pc[u] = "postSend"
      BY <1>5
    <3> QED BY <1>1, <3>1, <3>2 DEF Unreleased
  <2> QED BY <2>1
<1>8. sendQ'[s] = Tail(q) /\ \A r \in Sessions \ {s} : sendQ'[r] = sendQ[r]
  BY <1>1, <1>3
<1>9. ASSUME NEW c \in Buffers
      PROVE  ref'[c] = HandleCount(c)' + Queued(c)' + Sent(c)' + Due(c)' + Called(c)'
  <2> DEFINE x == IF b = c THEN 1 ELSE 0
  <2>1. Called(c)' + 0 = Called(c) + 0
    BY <1>1, <1>2, CalledChange
  <2>2. Called(c)' = Called(c)
    BY <2>1, ThreadCounts
  <2>3. HandleCount(c)' = HandleCount(c) /\ Due(c)' = Due(c)
    BY <1>1 DEF HandleCount, Due
  <2>4. Sent(c)' \in Nat /\ Sent(c)' + Number(c, a) = Sent(c) + Number(c, Append(a, b))
    <3>1. Sent(c)' \in Nat /\ Sent(c)' + Number(c, Unreleased(s)) = Sent(c) + Number(c, Unreleased(s)')
      BY <1>7, SentChange
    <3> QED BY <1>6, <3>1
  <2>5. Queued(c)' \in Nat /\ Queued(c)' + Number(c, q) = Queued(c) + Number(c, Tail(q))
    <3>1. Queued(c)' \in Nat /\ Queued(c)' + Number(c, sendQ[s]) = Queued(c) + Number(c, sendQ'[s])
      BY <1>8, QueuedChange
    <3> QED BY <1>8, <3>1
  <2>6. Number(c, Append(a, b)) = Number(c, a) + x
    BY <1>1, <1>4, NumberEnds
  <2>7. Number(c, q) = Number(c, Tail(q)) + x
    BY <1>1, NumberEnds
  <2>8. Number(c, a) \in Nat /\ Number(c, Tail(q)) \in Nat
    <3>1. a \in Seq(Buffers) /\ Tail(q) \in Seq(Buffers)
      BY <1>1
    <3> QED BY <3>1, SpotsFinite
  <2>9. ref[c] = HandleCount(c) + Queued(c) + Sent(c) + Due(c) + Called(c)
    BY DEF RefInv
  <2>10. x \in Nat
    OBVIOUS
  <2> HIDE DEF x, b, a, q
  <2>11. Queued(c)' + x = Queued(c) /\ Sent(c)' = Sent(c) + x
    <3>1. Queued(c) \in Nat /\ Sent(c) \in Nat
      BY CountTypes
    <3>2. Queued(c)' + Number(c, Tail(q)) + x = Queued(c) + Number(c, Tail(q))
      BY <2>5, <2>7, <2>8, <2>10, <3>1
    <3>3. Sent(c)' + Number(c, a) = Sent(c) + Number(c, a) + x
      BY <2>4, <2>6, <2>8, <2>10, <3>1
    <3> QED BY <2>4, <2>5, <2>8, <2>10, <3>1, <3>2, <3>3
  <2> QED BY <1>1, <2>2, <2>3, <2>4, <2>5, <2>9, <2>10, <2>11, CountTypes
<1> QED BY <1>1, <1>9 DEF RefInv

\* The sent buffers are due, or wait for Reset.
LEMMA RefSendDone ==
    ASSUME CallsInv, CallsInv', RefInv, NEW t \in Threads, NEW s \in Sessions, SendDone(t, s)
    PROVE  RefInv'
<1> DEFINE a == batch[s]
<1>1. /\ pc[t] = "idle" /\ flight[s] /\ ref' = ref /\ held' = held /\ sendQ' = sendQ /\ batch' = batch
      /\ a \in Seq(Buffers) /\ got' = got /\ todo[t] = <<>>
  BY DEF SendDone, CallsInv, BufferType, CallInv, Releasing
<1>5. \/ pc'[t] = "postSend" /\ at'[t] = s /\ todo'[t] = a
      \/ pc' = pc /\ at' = at /\ todo' = todo
  <2>1. pc \in [Threads -> Pcs] /\ at \in [Threads -> Sessions \cup {NoOne}] /\ todo \in [Threads -> Seq(Buffers)]
    BY DEF CallsInv, BufferType
  <2>2. \/ /\ pc' = [pc EXCEPT ![t] = "postSend"] /\ at' = [at EXCEPT ![t] = s]
           /\ todo' = [todo EXCEPT ![t] = a]
        \/ pc' = pc /\ at' = at /\ todo' = todo
    BY DEF SendDone, Goto
  <2> QED BY <2>1, <2>2
<1>2. Others(t)
  BY DEF CallsInv, BufferType, Others, SendDone, Goto
<1>3. CASE pc' = pc /\ at' = at /\ todo' = todo
  BY <1>1, <1>2, <1>3, OutSame, RefQuiet
<1>4. CASE pc'[t] = "postSend" /\ at'[t] = s /\ todo'[t] = a
  <2>1. \A u \in Threads : pc[u] = "postSend" => at[u] # s
    BY <1>1 DEF CallsInv, SenderInv, Sending
  <2>2. Unreleased(s) = a /\ Unreleased(s)' = <<>>
    BY <1>4, <2>1 DEF Unreleased
  <2>3. \A r \in Sessions \ {s} : Unreleased(r)' = Unreleased(r)
    <3>1. ASSUME NEW r \in Sessions \ {s} PROVE Unreleased(r)' = Unreleased(r)
      <4>1. (\E u \in Threads : pc'[u] = "postSend" /\ at'[u] = r)
               <=> (\E u \in Threads : pc[u] = "postSend" /\ at[u] = r)
        BY <1>1, <1>2, <1>4 DEF Others
      <4> QED BY <1>1, <4>1 DEF Unreleased
    <3> QED BY <3>1
  <2>4. ASSUME NEW c \in Buffers
        PROVE  ref'[c] = HandleCount(c)' + Queued(c)' + Sent(c)' + Due(c)' + Called(c)'
    <3>1. Called(c)' + 0 = Called(c) + 0
      BY <1>1, <1>2, <1>4, CalledChange
    <3>2. Called(c)' = Called(c)
      BY <3>1, ThreadCounts
    <3>3. HandleCount(c)' = HandleCount(c) /\ Queued(c)' = Queued(c)
      BY <1>1 DEF HandleCount, Queued
    <3>4. Sent(c)' \in Nat /\ Sent(c)' + Number(c, Unreleased(s)) = Sent(c) + Number(c, Unreleased(s)')
      BY <2>3, SentChange
    <3>5. Due(c)' \in Nat /\ Due(c)' + Number(c, todo[t]) = Due(c) + Number(c, todo'[t])
      BY <1>2, DueChange
    <3>6. Number(c, <<>>) = 0
      BY NumberOne
    <3>7. Number(c, a) \in Nat
      BY <1>1, SpotsFinite
    <3>8. ref[c] = HandleCount(c) + Queued(c) + Sent(c) + Due(c) + Called(c)
      BY DEF RefInv
    <3> HIDE DEF a
    <3>9. Sent(c)' + Number(c, a) = Sent(c) /\ Due(c)' = Due(c) + Number(c, a)
      BY <1>1, <1>4, <2>2, <3>4, <3>5, <3>6, <3>7, CountTypes
    <3> QED BY <1>1, <3>2, <3>3, <3>4, <3>5, <3>7, <3>8, <3>9, CountTypes
  <2> QED BY <1>1, <2>4 DEF RefInv
<1> QED BY <1>3, <1>4, <1>5

\* What a session still has is due.
LEMMA RefReset ==
    ASSUME CallsInv, CallsInv', RefInv, NEW t \in Threads, NEW s \in Sessions, Reset(t, s)
    PROVE  RefInv'
<1> DEFINE a == batch[s]
           q == sendQ[s]
<1>1. /\ pc[t] = "idle" /\ pc'[t] = "reset" /\ at'[t] = s /\ ref' = ref /\ held' = held /\ got' = got
      /\ sendQ' = [sendQ EXCEPT ![s] = <<>>] /\ batch' = [batch EXCEPT ![s] = <<>>]
      /\ batch \in [Sessions -> Seq(Buffers)] /\ sendQ \in [Sessions -> Seq(Buffers)]
      /\ a \in Seq(Buffers) /\ q \in Seq(Buffers) /\ todo[t] = <<>> /\ todo'[t] = q \o a
      /\ \A u \in Threads : at[u] # s
  <2>1. /\ pc \in [Threads -> Pcs] /\ at \in [Threads -> Sessions \cup {NoOne}]
        /\ todo \in [Threads -> Seq(Buffers)]
        /\ batch \in [Sessions -> Seq(Buffers)] /\ sendQ \in [Sessions -> Seq(Buffers)]
    BY DEF CallsInv, BufferType
  <2>2. /\ pc[t] = "idle" /\ ref' = ref /\ held' = held /\ got' = got
        /\ sendQ' = [sendQ EXCEPT ![s] = <<>>] /\ batch' = [batch EXCEPT ![s] = <<>>]
        /\ \A u \in Threads : at[u] # s
    BY DEF Reset
  <2>3. /\ pc' = [pc EXCEPT ![t] = "reset"] /\ at' = [at EXCEPT ![t] = s]
        /\ todo' = [todo EXCEPT ![t] = q \o a]
    BY DEF Reset, Goto
  <2>4. pc'[t] = "reset" /\ at'[t] = s /\ todo'[t] = q \o a
    BY <2>1, <2>3
  <2>5. todo[t] = <<>>
    BY <2>2 DEF CallsInv, CallInv, Releasing
  <2> QED BY <2>1, <2>2, <2>4, <2>5
<1>2. Others(t)
  BY DEF CallsInv, BufferType, Others, Reset, Goto
<1>3. Unreleased(s) = a /\ Unreleased(s)' = <<>>
  <2>1. Unreleased(s) = a
    BY <1>1 DEF Unreleased
  <2>2. batch'[s] = <<>>
    BY <1>1
  <2> QED BY <2>1, <2>2 DEF Unreleased
<1>4. \A r \in Sessions \ {s} : Unreleased(r)' = Unreleased(r)
  <2>1. ASSUME NEW r \in Sessions \ {s} PROVE Unreleased(r)' = Unreleased(r)
    <3>1. (\E u \in Threads : pc'[u] = "postSend" /\ at'[u] = r)
             <=> (\E u \in Threads : pc[u] = "postSend" /\ at[u] = r)
      BY <1>1, <1>2 DEF Others
    <3>2. batch'[r] = batch[r]
      BY <1>1
    <3> QED BY <3>1, <3>2 DEF Unreleased
  <2> QED BY <2>1
<1>5. sendQ'[s] = <<>> /\ \A r \in Sessions \ {s} : sendQ'[r] = sendQ[r]
  BY <1>1
<1>6. ASSUME NEW c \in Buffers
      PROVE  ref'[c] = HandleCount(c)' + Queued(c)' + Sent(c)' + Due(c)' + Called(c)'
  <2>1. Called(c)' + 0 = Called(c) + 0
    BY <1>1, <1>2, CalledChange
  <2>2. Called(c)' = Called(c)
    BY <2>1, ThreadCounts
  <2>3. HandleCount(c)' = HandleCount(c)
    BY <1>1 DEF HandleCount
  <2>4. Sent(c)' \in Nat /\ Sent(c)' + Number(c, Unreleased(s)) = Sent(c) + Number(c, Unreleased(s)')
    BY <1>4, SentChange
  <2>5. Due(c)' \in Nat /\ Due(c)' + Number(c, todo[t]) = Due(c) + Number(c, todo'[t])
    BY <1>2, DueChange
  <2>6. Queued(c)' \in Nat /\ Queued(c)' + Number(c, sendQ[s]) = Queued(c) + Number(c, sendQ'[s])
    BY <1>5, QueuedChange
  <2>7. Number(c, <<>>) = 0
    BY NumberOne
  <2>8. Number(c, a) \in Nat /\ Number(c, q) \in Nat /\ Number(c, q \o a) = Number(c, q) + Number(c, a)
    BY <1>1, SpotsFinite, NumberConcat
  <2>9. ref[c] = HandleCount(c) + Queued(c) + Sent(c) + Due(c) + Called(c)
    BY DEF RefInv
  <2>10. sendQ[s] = q
    OBVIOUS
  <2> HIDE DEF a, q
  <2>11. /\ Sent(c)' + Number(c, a) = Sent(c) /\ Queued(c)' + Number(c, q) = Queued(c)
         /\ Due(c)' = Due(c) + Number(c, q) + Number(c, a)
    <3>1. Sent(c) \in Nat /\ Queued(c) \in Nat /\ Due(c) \in Nat
      BY CountTypes
    <3>2. Sent(c)' + Number(c, a) = Sent(c) + 0
      BY <1>3, <2>4, <2>7
    <3>3. Queued(c)' + Number(c, q) = Queued(c) + 0
      BY <1>5, <2>6, <2>7, <2>10
    <3>4. Due(c)' + 0 = Due(c) + (Number(c, q) + Number(c, a))
      BY <1>1, <2>5, <2>7, <2>8
    <3> QED BY <2>4, <2>5, <2>6, <2>8, <3>1, <3>2, <3>3, <3>4
  <2>12. /\ HandleCount(c) \in Nat /\ Queued(c) \in Nat /\ Sent(c) \in Nat /\ Due(c) \in Nat
         /\ Called(c) \in Nat /\ ref'[c] = ref[c]
    BY <1>1, CountTypes
  <2> QED BY <2>2, <2>3, <2>4, <2>5, <2>6, <2>8, <2>9, <2>11, <2>12
<1> QED BY <1>1, <1>6 DEF RefInv

LEMMA RefRelease ==
    ASSUME CallsInv, CallsInv', RefInv, NEW t \in Threads, Release(t)
    PROVE  RefInv' /\ Head(todo[t]) \in Buffers /\ ref[Head(todo[t])] > 0
<1> DEFINE q == todo[t]
           b == Head(q)
<1>1. /\ pc' = pc /\ pc[t] \in Releasing /\ at' = at /\ batch' = batch /\ sendQ' = sendQ /\ held' = held
      /\ ref' = [ref EXCEPT ![b] = @ - 1] /\ todo' = [todo EXCEPT ![t] = Tail(q)]
      /\ q # <<>> /\ q \in Seq(Buffers) /\ ref \in [Buffers -> Int] /\ todo \in [Threads -> Seq(Buffers)]
  BY DEF Release, sessionVars, CallsInv, BufferType
<1>2. Others(t)
  BY DEF CallsInv, BufferType, Others, Release
<1>3. b \in Buffers /\ 1 \in DOMAIN q /\ q[1] = b
  BY <1>1
<1>4. ref[b] > 0
  BY <1>3, InUse
<1>5. ASSUME NEW c \in Buffers
      PROVE  ref'[c] = HandleCount(c)' + Queued(c)' + Sent(c)' + Due(c)' + Called(c)'
  <2> DEFINE x == IF b = c THEN 1 ELSE 0
  <2>1. Called(c)' + 0 = Called(c) + 0
    <3>1. pc[t] # "process" /\ pc'[t] # "process"
      BY <1>1 DEF Releasing
    <3> QED BY <1>2, <3>1, CalledChange
  <2>2. Called(c)' = Called(c)
    BY <2>1, ThreadCounts
  <2>3. HandleCount(c)' = HandleCount(c) /\ Queued(c)' = Queued(c)
    BY <1>1 DEF HandleCount, Queued
  <2>4. Sent(c)' = Sent(c)
    <3>1. Out' = Out
      BY <1>1, <1>2, OutSame
    <3> QED BY <3>1, CountsAre
  <2>5. Due(c)' \in Nat /\ Due(c)' + Number(c, todo[t]) = Due(c) + Number(c, todo'[t])
    BY <1>2, DueChange
  <2>6. Number(c, q) = Number(c, Tail(q)) + x
    BY <1>1, NumberEnds
  <2>7. Number(c, Tail(q)) \in Nat
    <3>1. Tail(q) \in Seq(Buffers)
      BY <1>1
    <3> QED BY <3>1, SpotsFinite
  <2>8. ref[c] = HandleCount(c) + Queued(c) + Sent(c) + Due(c) + Called(c)
    BY DEF RefInv
  <2>9. x \in Nat /\ ref'[c] = ref[c] - x /\ todo'[t] = Tail(q) /\ todo[t] = q
    BY <1>1
  <2> HIDE DEF x, b, q
  <2>10. Due(c)' + x = Due(c)
    BY <2>5, <2>6, <2>7, <2>9, CountTypes
  <2> QED BY <2>2, <2>3, <2>4, <2>5, <2>8, <2>9, <2>10, CountTypes
<1> QED BY <1>1, <1>3, <1>4, <1>5 DEF RefInv

----------------------------------------------------------------------------
\* PoolInv: one lemma for each action.

\* One thread's local pool changes.
LEMMA LocalChange ==
    ASSUME NEW t \in Threads, NEW b, local \in [Threads -> Seq(Buffers)],
           local' \in [Threads -> Seq(Buffers)], \A u \in Threads \ {t} : local'[u] = local[u]
    PROVE  /\ InLocal(b) \in Nat /\ InLocal(b)' \in Nat
           /\ InLocal(b)' + Number(b, local[t]) = InLocal(b) + Number(b, local'[t])
<1> DEFINE F == local
           G == local'
<1>1. Differ(F, G, Threads, Buffers, t)
  BY ThreadSets DEF Differ, Family
<1> HIDE DEF F, G
<1>2. /\ Cardinality(Tally(b, G, Threads)) \in Nat /\ Cardinality(Tally(b, F, Threads)) \in Nat
      /\ Cardinality(Tally(b, G, Threads)) + Number(b, F[t])
           = Cardinality(Tally(b, F, Threads)) + Number(b, G[t])
  BY <1>1, TallyChange
<1>3. InLocal(b) = Cardinality(Tally(b, F, Threads)) /\ InLocal(b)' = Cardinality(Tally(b, G, Threads))
  BY CountsAre DEF F, G
<1>4. F[t] = local[t] /\ G[t] = local'[t]
  BY DEF F, G
<1> QED BY <1>2, <1>3, <1>4

\* Where a buffer without a reference is.
LEMMA Pooled ==
    ASSUME PoolInv, NEW b \in Buffers
    PROVE  /\ InBuckets(b) \in Nat /\ InLocal(b) \in Nat /\ Freed(b) \in Nat
           /\ Used(b) \in {0, 1}
           /\ InBuckets(b) + InLocal(b) + Freed(b) + Used(b) = IF b <= created THEN 1 ELSE 0
           /\ \A t \in Threads : Number(b, local[t]) \in Nat /\ Number(b, local[t]) <= InLocal(b)
<1>1. Family(local, Threads, Buffers)
  BY ThreadSets DEF PoolInv, Family
<1>2. InLocal(b) = Cardinality(Tally(b, local, Threads)) /\ InBuckets(b) = Cardinality(Tally(b, buckets, DOMAIN buckets))
  BY CountsAre
<1>3. InLocal(b) \in Nat
  BY <1>1, <1>2, TallyFinite
<1>4. \A t \in Threads : Number(b, local[t]) \in Nat /\ Number(b, local[t]) <= InLocal(b)
  BY <1>1, <1>2, TallySome
<1>5. InBuckets(b) \in Nat
  <2>1. buckets \in Seq(Seq(Buffers))
    BY DEF PoolInv
  <2>2. DOMAIN buckets = 1..Len(buckets) /\ Len(buckets) \in Nat /\ \A i \in DOMAIN buckets : buckets[i] \in Seq(Buffers)
    BY <2>1
  <2>3. 1 \in Int /\ Len(buckets) \in Int
    BY <2>2
  <2>4. IsFiniteSet(1..Len(buckets))
    BY <2>3, FS_Interval
  <2>5. Family(buckets, DOMAIN buckets, Buffers)
    BY <2>2, <2>4 DEF Family
  <2> QED BY <1>2, <2>5, TallyFinite
<1>6. Freed(b) \in Nat
  BY ThreadCounts
<1>7. Used(b) \in {0, 1} /\ InBuckets(b) + InLocal(b) + Freed(b) + Used(b) = IF b <= created THEN 1 ELSE 0
  BY DEF PoolInv, Used
<1> QED BY <1>3, <1>4, <1>5, <1>6, <1>7

LEMMA PoolQuiet ==
    ASSUME PoolInv, NEW t \in Threads, Others(t), UNCHANGED poolVars, pc'[t] = "make" => count[t] = 0,
           \A b \in Buffers : (pc'[t] \in Releasing /\ got'[t] = b) <=> (pc[t] \in Releasing /\ got[t] = b),
           \A b \in Buffers : Used(b)' = Used(b)
    PROVE  PoolInv'
<1>1. UNCHANGED <<buckets, local, count, created>>
  BY DEF poolVars
<1>2. ASSUME NEW b \in Buffers
      PROVE  InBuckets(b)' + InLocal(b)' + Freed(b)' + Used(b)' = IF b <= created' THEN 1 ELSE 0
  <2>1. Freed(b)' + (IF pc[t] \in Releasing /\ got[t] = b THEN 1 ELSE 0)
             = Freed(b) + (IF pc'[t] \in Releasing /\ got'[t] = b THEN 1 ELSE 0)
    BY FreedChange
  <2>2. Freed(b)' = Freed(b)
    BY <2>1, ThreadCounts
  <2>3. InBuckets(b)' = InBuckets(b) /\ InLocal(b)' = InLocal(b)
    BY <1>1 DEF InBuckets, InLocal
  <2> QED BY <1>1, <2>2, <2>3 DEF PoolInv
<1>3. \A u \in Threads : pc'[u] = "make" => count[u] = 0
  BY DEF Others, PoolInv
<1> QED BY <1>1, <1>2, <1>3 DEF PoolInv

\* Steps that neither take nor free a buffer and change no count.
LEMMA PoolQuietSteps ==
    ASSUME CallsInv, PoolInv, NEW t \in Threads,
           \/ \E b \in Buffers : Drop(t, b)
           \/ \E s \in Sessions : RealSend(t, s) \/ SendDone(t, s) \/ Reset(t, s)
           \/ ProcessBuffer(t) \/ Fill(t) \/ TryEncode(t) \/ SendPost(t)
           \/ PostSendEnd(t) \/ ResetEnd(t) \/ ReleaseEnd(t)
    PROVE  PoolInv'
<1>1. /\ pc \in [Threads -> Pcs] /\ at \in [Threads -> Sessions \cup {NoOne}]
      /\ got \in [Threads -> Buffers \cup {None}] /\ todo \in [Threads -> Seq(Buffers)]
  BY DEF CallsInv, BufferType
<1>2. Others(t)
  BY <1>1 DEF Others, Goto, Drop, RealSend, SendDone, Reset, ProcessBuffer, Fill, TryEncode, EncodeCheck,
              EncodeLock, EncodeWrite, EncodeMark, SendPost, PostSendEnd, ResetEnd, ReleaseEnd
<1>3. UNCHANGED poolVars /\ ref' = ref
  BY DEF Drop, RealSend, SendDone, Reset, ProcessBuffer, Fill, TryEncode, EncodeCheck,
         EncodeLock, EncodeWrite, EncodeMark, SendPost, PostSendEnd, ResetEnd, ReleaseEnd
<1>4. pc'[t] # "make"
  <2>1. pc[t] # "make"
    BY DEF Drop, RealSend, SendDone, Reset, ProcessBuffer, Fill, TryEncode, EncodeCheck,
           EncodeLock, EncodeWrite, EncodeMark, SendPost, PostSendEnd, ResetEnd, ReleaseEnd
  <2>2. \A l : Goto(t, l) => pc'[t] = l
    BY <1>1 DEF Goto
  <2> QED BY <2>1, <2>2 DEF Drop, RealSend, SendDone, Reset, ProcessBuffer, Fill, TryEncode, EncodeCheck,
                            EncodeLock, EncodeWrite, EncodeMark, SendPost, PostSendEnd, ResetEnd, ReleaseEnd
<1>5. pc[t] \in Releasing => got[t] = None
  BY DEF Releasing, AllReleased, Drop, RealSend, SendDone, Reset, ProcessBuffer, Fill, TryEncode, EncodeCheck,
         EncodeLock, EncodeWrite, EncodeMark, SendPost, PostSendEnd, ResetEnd, ReleaseEnd
<1>6. pc'[t] \in Releasing => got'[t] = None
  <2>1. pc[t] = "idle" => got[t] = None
    BY DEF CallsInv, CallInv
  <2>2. \A l : Goto(t, l) => pc'[t] = l
    BY <1>1 DEF Goto
  <2>3. CASE \E b \in Buffers : Drop(t, b)
    BY <2>1, <2>3 DEF Drop
  <2>4. CASE \E s \in Sessions : RealSend(t, s)
    BY <2>1, <2>4 DEF RealSend
  <2>5. CASE \E s \in Sessions : SendDone(t, s) \/ Reset(t, s)
    BY <2>1, <2>5 DEF SendDone, Reset
  <2>6. CASE ProcessBuffer(t)
    BY <1>1, <2>6 DEF ProcessBuffer
  <2>7. CASE Fill(t)
    BY <2>2, <2>7 DEF Fill, Releasing
  <2>8. CASE TryEncode(t)
    BY <2>2, <2>8 DEF TryEncode, EncodeCheck, EncodeLock, EncodeWrite, EncodeMark, Releasing
  <2>9. CASE SendPost(t)
    BY <2>2, <2>9 DEF SendPost, Releasing
  <2>10. CASE PostSendEnd(t) \/ ResetEnd(t) \/ ReleaseEnd(t)
    BY <2>2, <2>10 DEF PostSendEnd, ResetEnd, ReleaseEnd, Releasing
  <2> QED BY <2>3, <2>4, <2>5, <2>6, <2>7, <2>8, <2>9, <2>10
<1>7. \A b \in Buffers : (pc'[t] \in Releasing /\ got'[t] = b) <=> (pc[t] \in Releasing /\ got[t] = b)
  BY <1>5, <1>6 DEF None, Buffers
<1>8. \A b \in Buffers : Used(b)' = Used(b)
  BY <1>3 DEF Used
<1> QED BY <1>2, <1>3, <1>4, <1>7, <1>8, PoolQuiet

LEMMA PoolClose ==
    ASSUME PoolInv, NEW s \in Sessions, Close(s)
    PROVE  PoolInv'
<1>1. UNCHANGED <<buckets, local, count, created, pc, got, ref>>
  BY DEF Close, poolVars, localVars
<1> QED BY <1>1 DEF PoolInv, InBuckets, InLocal, Freed, Used

\* A reference to a buffer that has one.
LEMMA PoolAgain ==
    ASSUME CallsInv, RefInv, PoolInv, NEW t \in Contents, NEW b \in Buffers,
           \/ \E u \in Contents : Copy(t, u, b)
           \/ \E s \in Sessions : SendPacket(t, s, b)
    PROVE  PoolInv'
<1>1. /\ pc[t] = "idle" /\ held[t][b] > 0 /\ ref' = [ref EXCEPT ![b] = @ + 1] /\ UNCHANGED poolVars
      /\ ref \in [Buffers -> Int] /\ t \in Threads
  BY ThreadSets DEF Copy, SendPacket, CallsInv, BufferType
<1>2. Others(t)
  BY DEF CallsInv, BufferType, Others, Copy, SendPacket, Goto, localVars
<1>3. pc'[t] \in {"idle", "process"}
  BY <1>1 DEF CallsInv, BufferType, Copy, SendPacket, Goto, localVars
<1>4. ref[b] > 0
  <2>1. held[t][b] <= ref[b] /\ held[t][b] \in 0..MaxHandle /\ ref[b] \in Nat /\ MaxHandle \in Nat
    BY InUse, BufferAssumption
  <2> QED BY <1>1, <2>1
<1>5. \A c \in Buffers : Used(c)' = Used(c)
  BY <1>1, <1>4 DEF Used
<1>6. pc'[t] \notin Releasing /\ pc[t] \notin Releasing /\ pc'[t] # "make"
  BY <1>1, <1>3 DEF Releasing
<1> QED BY <1>1, <1>2, <1>5, <1>6, PoolQuiet

\* The last reference: the buffer is on its way to the pool.
LEMMA PoolRelease ==
    ASSUME CallsInv, CallsInv', RefInv, PoolInv, NEW t \in Threads, Release(t)
    PROVE  PoolInv'
<1> DEFINE b == Head(todo[t])
<1>1. b \in Buffers /\ ref[b] > 0
  BY RefRelease
<1>2. /\ ref' = [ref EXCEPT ![b] = @ - 1] /\ got'[t] = (IF ref[b] = 1 THEN b ELSE None) /\ pc' = pc
      /\ pc[t] \in Releasing /\ got[t] = None /\ ref \in [Buffers -> Int]
  BY DEF Release, CallsInv, BufferType
<1>3. UNCHANGED <<buckets, local, count, created>>
  BY DEF Release, poolVars
<1>4. Others(t)
  BY DEF CallsInv, BufferType, Others, Release
<1> HIDE DEF b
<1>5. ASSUME NEW c \in Buffers
      PROVE  InBuckets(c)' + InLocal(c)' + Freed(c)' + Used(c)' = IF c <= created' THEN 1 ELSE 0
  <2>1. Freed(c)' + (IF pc[t] \in Releasing /\ got[t] = c THEN 1 ELSE 0)
             = Freed(c) + (IF pc'[t] \in Releasing /\ got'[t] = c THEN 1 ELSE 0)
    BY <1>4, FreedChange
  <2>2. Freed(c) \in Nat /\ Freed(c)' \in Nat
    BY ThreadCounts
  <2>3. c # None
    BY DEF None, Buffers
  <2>4. Freed(c)' + Used(c)' = Freed(c) + Used(c)
    <3>1. CASE c = b /\ ref[b] = 1
      BY <1>1, <1>2, <2>1, <2>2, <2>3, <3>1 DEF Used
    <3>2. CASE ~(c = b /\ ref[b] = 1)
      BY <1>1, <1>2, <2>1, <2>2, <2>3, <3>2 DEF Used
    <3> QED BY <3>1, <3>2
  <2>5. InBuckets(c)' = InBuckets(c) /\ InLocal(c)' = InLocal(c)
    BY <1>3 DEF InBuckets, InLocal
  <2>6. /\ InBuckets(c) \in Nat /\ InLocal(c) \in Nat /\ Used(c) \in {0, 1} /\ Used(c)' \in {0, 1}
        /\ InBuckets(c) + InLocal(c) + Freed(c) + Used(c) = IF c <= created THEN 1 ELSE 0
    BY Pooled DEF Used
  <2> QED BY <1>3, <2>2, <2>4, <2>5, <2>6
<1> QED BY <1>2, <1>3, <1>5 DEF PoolInv

\* A bucket in front of the others.
LEMMA BucketsPush ==
    ASSUME NEW B \in Seq(Seq(Buffers)), NEW c \in Seq(Buffers), Len(c) = LocalSize,
           \A i \in DOMAIN B : Len(B[i]) = LocalSize
    PROVE  LET C == <<c>> \o B IN
           /\ C \in Seq(Seq(Buffers)) /\ \A i \in DOMAIN C : Len(C[i]) = LocalSize
           /\ \A b : Cardinality(Tally(b, C, DOMAIN C)) = Cardinality(Tally(b, B, DOMAIN B)) + Number(b, c)
<1> DEFINE C == <<c>> \o B
<1>1. /\ C \in Seq(Seq(Buffers)) /\ Len(B) \in Nat /\ DOMAIN C = 1..(Len(B) + 1) /\ DOMAIN B = 1..Len(B)
      /\ C[1] = c /\ \A i \in 1..Len(B) : C[i + 1] = B[i]
  OBVIOUS
<1>2. ASSUME NEW i \in DOMAIN C PROVE Len(C[i]) = LocalSize
  <2>1. CASE i = 1
    BY <1>1, <2>1
  <2>2. CASE i # 1
    <3>1. i - 1 \in 1..Len(B) /\ (i - 1) + 1 = i
      BY <1>1, <1>2, <2>2
    <3>2. C[i] = B[i - 1]
      BY <1>1, <3>1
    <3> QED BY <1>1, <3>1, <3>2
  <2> QED BY <2>1, <2>2
<1>3. \A b : Cardinality(Tally(b, C, DOMAIN C)) = Cardinality(Tally(b, B, DOMAIN B)) + Number(b, c)
  BY TallyPrepend
<1> QED BY <1>1, <1>2, <1>3

\* The first bucket is taken.
LEMMA BucketsPop ==
    ASSUME NEW B \in Seq(Seq(Buffers)), B # <<>>, \A i \in DOMAIN B : Len(B[i]) = LocalSize
    PROVE  /\ Head(B) \in Seq(Buffers) /\ Len(Head(B)) = LocalSize /\ Tail(B) \in Seq(Seq(Buffers))
           /\ \A i \in DOMAIN Tail(B) : Len(Tail(B)[i]) = LocalSize
           /\ \A b : /\ Cardinality(Tally(b, Tail(B), DOMAIN Tail(B))) \in Nat
                     /\ Cardinality(Tally(b, B, DOMAIN B))
                          = Cardinality(Tally(b, Tail(B), DOMAIN Tail(B))) + Number(b, Head(B))
<1> DEFINE c == Head(B)
           R == Tail(B)
<1>1. c \in Seq(Buffers) /\ R \in Seq(Seq(Buffers)) /\ B = <<c>> \o R
  OBVIOUS
<1>2. Len(c) = LocalSize
  <2>1. 1 \in DOMAIN B /\ B[1] = c
    OBVIOUS
  <2> QED BY <2>1
<1>3. \A i \in DOMAIN R : Len(R[i]) = LocalSize
  <2>1. \A i \in DOMAIN R : i + 1 \in DOMAIN B /\ R[i] = B[i + 1]
    OBVIOUS
  <2> QED BY <2>1
<1> HIDE DEF c, R
<1>4. ASSUME NEW b
      PROVE  /\ Cardinality(Tally(b, R, DOMAIN R)) \in Nat
             /\ Cardinality(Tally(b, B, DOMAIN B)) = Cardinality(Tally(b, R, DOMAIN R)) + Number(b, c)
  <2> DEFINE C == <<c>> \o R
  <2>1. /\ Cardinality(Tally(b, R, DOMAIN R)) \in Nat
        /\ Cardinality(Tally(b, C, DOMAIN C)) = Cardinality(Tally(b, R, DOMAIN R)) + Number(b, c)
    BY <1>1, TallyPrepend
  <2>2. B = C
    BY <1>1
  <2> HIDE DEF C
  <2> QED BY <2>1, <2>2
<1> QED BY <1>1, <1>2, <1>3, <1>4 DEF c, R

\* A freed buffer is in its thread's pool, or in the bucket that goes back.
LEMMA PoolFree ==
    ASSUME CallsInv, CallsInv', PoolInv, NEW t \in Threads, Free(t)
    PROVE  PoolInv'
<1> DEFINE g == got[t]
           q == local[t]
           chain == <<g>> \o q
           n == count[t] + 1
           L == LocalSize
<1>1. /\ g \in Buffers /\ pc[t] \in Releasing /\ pc' = pc /\ got'[t] = None /\ ref' = ref /\ created' = created
      /\ UNCHANGED pc
  BY DEF Free, CallsInv, BufferType, None
<1>2. Others(t)
  BY DEF Free, Others, CallsInv, BufferType
<1>3. /\ local \in [Threads -> Seq(Buffers)] /\ count \in [Threads -> 0..(2 * L)] /\ q \in Seq(Buffers)
      /\ count[t] = Len(q) /\ L \in Nat \ {0} /\ buckets \in Seq(Seq(Buffers))
      /\ (\A i \in DOMAIN buckets : Len(buckets[i]) = L) /\ created \in 0..MaxBuffer
  BY BufferAssumption DEF PoolInv
<1>4. chain \in Seq(Buffers) /\ Len(chain) = n /\ n \in 1..(2 * L + 1)
  <2>1. chain \in Seq(Buffers) /\ Len(chain) = 1 + Len(q)
    BY <1>1, <1>3
  <2>2. count[t] \in 0..(2 * L)
    BY <1>3
  <2> QED BY <1>3, <2>1, <2>2
<1>5. \A c : Number(c, chain) = Number(c, q) + (IF g = c THEN 1 ELSE 0)
  BY <1>1, <1>3, NumberEnds
<1>6. \/ /\ n > 2 * L /\ buckets' = <<SubSeq(chain, 1, L)>> \o buckets
         /\ local' = [local EXCEPT ![t] = SubSeq(chain, L + 1, n)]
         /\ count' = [count EXCEPT ![t] = n - L]
      \/ /\ ~(n > 2 * L) /\ buckets' = buckets /\ local' = [local EXCEPT ![t] = chain]
         /\ count' = [count EXCEPT ![t] = n]
  BY DEF Free
<1> HIDE DEF g, q, chain, n
<1>7. /\ buckets' \in Seq(Seq(Buffers)) /\ local' \in [Threads -> Seq(Buffers)]
      /\ count' \in [Threads -> 0..(2 * L)] /\ (\A i \in DOMAIN buckets' : Len(buckets'[i]) = L)
      /\ (\A u \in Threads : count'[u] = Len(local'[u])) /\ (\A u \in Threads \ {t} : local'[u] = local[u])
      /\ \A c : InBuckets(c)' + Number(c, local'[t]) = InBuckets(c) + Number(c, chain)
  <2>0. \A u \in Threads : count[u] = Len(local[u])
    BY DEF PoolInv
  <2>1. CASE n > 2 * L
    <3> DEFINE x == SubSeq(chain, 1, L)
               y == SubSeq(chain, L + 1, n)
    <3>1. x \in Seq(Buffers) /\ Len(x) = L /\ y \in Seq(Buffers) /\ Len(y) = n - L /\ n - L \in 0..(2 * L)
      BY <1>3, <1>4, <2>1
    <3>2. buckets' = <<x>> \o buckets /\ local' = [local EXCEPT ![t] = y] /\ count' = [count EXCEPT ![t] = n - L]
      BY <1>6, <2>1
    <3>3. \A c : Number(c, chain) = Number(c, x) + Number(c, y)
      <4>1. L \in 0..Len(chain)
        BY <1>3, <1>4, <2>1
      <4> QED BY <1>4, <4>1, NumberSplit
    <3>4. \A c : Number(c, x) \in Nat /\ Number(c, y) \in Nat
      BY <3>1, SpotsFinite
    <3> HIDE DEF x, y
    <3>5. /\ buckets' \in Seq(Seq(Buffers)) /\ \A i \in DOMAIN buckets' : Len(buckets'[i]) = L
          /\ \A c : Cardinality(Tally(c, buckets', DOMAIN buckets')) = Cardinality(Tally(c, buckets, DOMAIN buckets)) + Number(c, x)
      <4> DEFINE C == <<x>> \o buckets
      <4>1. /\ C \in Seq(Seq(Buffers)) /\ \A i \in DOMAIN C : Len(C[i]) = L
            /\ \A c : Cardinality(Tally(c, C, DOMAIN C)) = Cardinality(Tally(c, buckets, DOMAIN buckets)) + Number(c, x)
        BY <1>3, <3>1, BucketsPush
      <4>2. buckets' = C
        BY <3>2
      <4> HIDE DEF C
      <4> QED BY <4>1, <4>2
    <3>6. \A c : InBuckets(c)' = InBuckets(c) + Number(c, x)
      BY <3>5, CountsAre
    <3>7. local'[t] = y /\ local' \in [Threads -> Seq(Buffers)] /\ \A u \in Threads \ {t} : local'[u] = local[u]
      BY <1>3, <3>1, <3>2
    <3>8. count' \in [Threads -> 0..(2 * L)] /\ count'[t] = n - L /\ \A u \in Threads \ {t} : count'[u] = count[u]
      BY <1>3, <3>1, <3>2
    <3>9. \A c : InBuckets(c) \in Nat
      <4>1. ASSUME NEW c PROVE Cardinality(Tally(c, buckets, DOMAIN buckets)) \in Nat
        BY <1>3, <3>1, TallyPrepend
      <4> QED BY <4>1, CountsAre
    <3>10. \A c : InBuckets(c)' + Number(c, local'[t]) = InBuckets(c) + Number(c, chain)
      BY <3>3, <3>4, <3>6, <3>7, <3>9
    <3>11. \A u \in Threads : count'[u] = Len(local'[u])
      BY <2>0, <3>1, <3>7, <3>8
    <3> QED BY <3>5, <3>7, <3>8, <3>10, <3>11
  <2>2. CASE ~(n > 2 * L)
    <3>1. buckets' = buckets /\ local' = [local EXCEPT ![t] = chain] /\ count' = [count EXCEPT ![t] = n] /\ n \in 0..(2 * L)
      BY <1>3, <1>4, <1>6, <2>2
    <3>2. local'[t] = chain /\ local' \in [Threads -> Seq(Buffers)] /\ \A u \in Threads \ {t} : local'[u] = local[u]
      BY <1>3, <1>4, <3>1
    <3>3. count' \in [Threads -> 0..(2 * L)] /\ count'[t] = n /\ \A u \in Threads \ {t} : count'[u] = count[u]
      BY <1>3, <3>1
    <3>4. \A c : InBuckets(c)' = InBuckets(c)
      BY <3>1 DEF InBuckets
    <3>5. \A u \in Threads : count'[u] = Len(local'[u])
      BY <1>4, <2>0, <3>2, <3>3
    <3> QED BY <1>3, <3>1, <3>2, <3>3, <3>4, <3>5
  <2> QED BY <2>1, <2>2
<1>8. ASSUME NEW c \in Buffers
      PROVE  InBuckets(c)' + InLocal(c)' + Freed(c)' + Used(c)' = IF c <= created' THEN 1 ELSE 0
  <2> DEFINE x == IF g = c THEN 1 ELSE 0
  <2>1. c # None
    BY DEF None, Buffers
  <2>2. Freed(c)' + x = Freed(c) + 0
    <3>1. Freed(c)' + (IF pc[t] \in Releasing /\ got[t] = c THEN 1 ELSE 0)
               = Freed(c) + (IF pc'[t] \in Releasing /\ got'[t] = c THEN 1 ELSE 0)
      BY <1>2, FreedChange
    <3> QED BY <1>1, <2>1, <3>1 DEF g
  <2>3. InLocal(c) \in Nat /\ InLocal(c)' \in Nat /\ InLocal(c)' + Number(c, local[t]) = InLocal(c) + Number(c, local'[t])
    BY <1>3, <1>7, LocalChange
  <2>4. InBuckets(c)' + Number(c, local'[t]) = InBuckets(c) + Number(c, q) + x
    <3>1. InBuckets(c)' + Number(c, local'[t]) = InBuckets(c) + Number(c, chain)
      BY <1>7
    <3>2. Number(c, q) \in Nat /\ InBuckets(c) \in Nat
      BY <1>3, SpotsFinite, Pooled
    <3> QED BY <1>5, <3>1, <3>2
  <2>5. Number(c, q) \in Nat /\ Number(c, local'[t]) \in Nat
    <3>1. q \in Seq(Buffers) /\ local'[t] \in Seq(Buffers)
      BY <1>3, <1>7
    <3> QED BY <3>1, SpotsFinite
  <2>6. InBuckets(c)' \in Nat
    <3>1. ASSUME NEW e \in Seq(Buffers) PROVE Cardinality(Tally(c, buckets', DOMAIN buckets')) \in Nat
      <4> DEFINE C == buckets'
      <4>1. C \in Seq(Seq(Buffers))
        BY <1>7
      <4> HIDE DEF C
      <4>2. Cardinality(Tally(c, C, DOMAIN C)) \in Nat
        BY <4>1, TallyPrepend
      <4> QED BY <4>2 DEF C
    <3> QED BY <1>3, <3>1, CountsAre
  <2>7. Used(c)' = Used(c) /\ local[t] = q
    BY <1>1 DEF Used, q
  <2>8. /\ InBuckets(c) \in Nat /\ InLocal(c) \in Nat /\ Used(c) \in {0, 1} /\ Freed(c) \in Nat
        /\ InBuckets(c) + InLocal(c) + Freed(c) + Used(c) = IF c <= created THEN 1 ELSE 0
    BY Pooled
  <2>9. Freed(c)' \in Nat /\ x \in Nat
    BY ThreadCounts
  <2> HIDE DEF x
  <2>10. InBuckets(c)' + InLocal(c)' + Freed(c)' = InBuckets(c) + InLocal(c) + Freed(c)
    BY <2>2, <2>3, <2>4, <2>5, <2>6, <2>7, <2>8, <2>9
  <2> QED BY <1>1, <2>3, <2>6, <2>7, <2>8, <2>9, <2>10
<1>9. \A u \in Threads : pc'[u] # "make" \/ count'[u] = 0
  <2>1. pc[t] # "make"
    BY <1>1 DEF Releasing
  <2>2. \A u \in Threads \ {t} : count'[u] = count[u]
    <3>1. \E k : count' = [count EXCEPT ![t] = k]
      BY <1>6
    <3> QED BY <1>3, <3>1
  <2> QED BY <1>1, <2>1, <2>2 DEF PoolInv
<1> QED BY <1>1, <1>3, <1>7, <1>8, <1>9 DEF PoolInv

\* The chain a thread takes from replaces its own; its first buffer is in use.
LEMMA PoolTake ==
    ASSUME CallsInv, PoolInv, NEW t \in Threads, Others(t), pc[t] \notin Releasing,
           pc'[t] \notin Releasing, pc'[t] # "make",
           NEW c \in Seq(Buffers), c # <<>>, Len(c) <= 2 * LocalSize, ref[Head(c)] = 0,
           Take(t, c, Len(c)), created' \in 0..MaxBuffer,
           buckets' \in Seq(Seq(Buffers)), \A i \in DOMAIN buckets' : Len(buckets'[i]) = LocalSize,
           \A b \in Buffers : InBuckets(b)' + Number(b, c) + InLocal(b) + Freed(b) + Used(b)
                                = Number(b, local[t]) + (IF b <= created' THEN 1 ELSE 0)
    PROVE  PoolInv'
<1> DEFINE h == Head(c)
           r == Tail(c)
<1>1. /\ local \in [Threads -> Seq(Buffers)] /\ count \in [Threads -> 0..(2 * LocalSize)]
      /\ LocalSize \in Nat \ {0} /\ ref \in [Buffers -> Int] /\ \A u \in Threads : count[u] = Len(local[u])
  BY BufferAssumption DEF PoolInv, CallsInv, BufferType
<1>2. h \in Buffers /\ r \in Seq(Buffers) /\ Len(r) = Len(c) - 1 /\ Len(c) - 1 \in 0..(2 * LocalSize)
  BY <1>1
<1>3. /\ local' = [local EXCEPT ![t] = r] /\ count' = [count EXCEPT ![t] = Len(c) - 1]
      /\ ref' = [ref EXCEPT ![h] = @ + 1]
  BY DEF Take
<1>4. /\ local' \in [Threads -> Seq(Buffers)] /\ local'[t] = r
      /\ \A u \in Threads \ {t} : local'[u] = local[u]
  BY <1>1, <1>2, <1>3
<1>5. /\ count' \in [Threads -> 0..(2 * LocalSize)] /\ count'[t] = Len(r)
      /\ \A u \in Threads \ {t} : count'[u] = count[u]
  BY <1>1, <1>2, <1>3
<1>6. ASSUME NEW b \in Buffers
      PROVE  InBuckets(b)' + InLocal(b)' + Freed(b)' + Used(b)' = IF b <= created' THEN 1 ELSE 0
  <2> DEFINE x == IF h = b THEN 1 ELSE 0
  <2>1. Freed(b)' + 0 = Freed(b) + 0
    BY FreedChange
  <2>2. Freed(b)' = Freed(b) /\ Freed(b) \in Nat
    BY <2>1, ThreadCounts
  <2>3. InLocal(b) \in Nat /\ InLocal(b)' \in Nat /\ InLocal(b)' + Number(b, local[t]) = InLocal(b) + Number(b, local'[t])
    BY <1>1, <1>4, LocalChange
  <2>4. Number(b, c) = Number(b, r) + x
    BY NumberEnds
  <2>5. Number(b, r) \in Nat /\ Number(b, local[t]) \in Nat
    <3>1. local[t] \in Seq(Buffers)
      BY <1>1
    <3> QED BY <1>2, <3>1, SpotsFinite
  <2>6. Used(b)' = Used(b) + x /\ Used(b) \in Nat
    BY <1>1, <1>2, <1>3 DEF Used
  <2>7. InBuckets(b)' \in Nat
    <3> DEFINE C == buckets'
    <3>1. C \in Seq(Seq(Buffers))
      OBVIOUS
    <3> HIDE DEF C
    <3>2. Cardinality(Tally(b, C, DOMAIN C)) \in Nat
      BY <1>2, <3>1, TallyPrepend
    <3> QED BY <3>2, CountsAre DEF C
  <2>8. x \in Nat
    OBVIOUS
  <2>9. InBuckets(b)' + Number(b, c) + InLocal(b) + Freed(b) + Used(b)
                                = Number(b, local[t]) + (IF b <= created' THEN 1 ELSE 0)
    OBVIOUS
  <2> DEFINE y == IF b <= created' THEN 1 ELSE 0
  <2>10. y \in Nat
    OBVIOUS
  <2> HIDE DEF x, r, h, y
  <2>11. InBuckets(b)' + Number(b, c) + InLocal(b) + Freed(b) + Used(b) = Number(b, local[t]) + y
    BY <2>9 DEF y
  <2>12. InLocal(b)' + Number(b, local[t]) = InLocal(b) + Number(b, r)
    BY <1>4, <2>3
  <2>13. InBuckets(b)' + InLocal(b)' + Freed(b)' + Used(b)' = y
    <3>2. InBuckets(b)' + (Number(b, r) + x) + InLocal(b) + Freed(b) + Used(b) = Number(b, local[t]) + y
      BY <2>4, <2>11
    <3>3. InBuckets(b)' + InLocal(b)' + Freed(b) + (Used(b) + x) = y
      <4>1. PICK i \in Nat, j \in Nat, k \in Nat, l \in Nat : i = InBuckets(b)' /\ j = InLocal(b)' /\ k = InLocal(b) /\ l = Freed(b)
        BY <2>2, <2>3, <2>7
      <4>2. PICK m \in Nat, p \in Nat, q \in Nat : m = Used(b) /\ p = Number(b, local[t]) /\ q = Number(b, r)
        BY <2>5, <2>6
      <4>3. i + (q + x) + k + l + m = p + y
        BY <3>2, <4>1, <4>2
      <4>4. j + p = k + q
        BY <2>12, <4>1, <4>2
      <4>5. i + j + l + (m + x) = y
        BY <2>8, <2>10, <4>3, <4>4
      <4> QED BY <4>1, <4>2, <4>5
    <3> QED BY <2>2, <2>6, <3>3
  <2> QED BY <2>13 DEF y
<1>7. \A u \in Threads : pc'[u] = "make" => count'[u] = 0
  BY <1>5 DEF Others, PoolInv
<1>8. \A u \in Threads : count'[u] = Len(local'[u])
  BY <1>1, <1>4, <1>5
<1> QED BY <1>4, <1>5, <1>6, <1>7, <1>8 DEF PoolInv

\* What is in a thread's pool or in a bucket has no reference.
LEMMA FreeHere ==
    ASSUME PoolInv, CallsInv, RefInv, NEW b \in Buffers,
           (\E t \in Threads : Number(b, local[t]) > 0) \/ InBuckets(b) > 0 \/ b > created
    PROVE  ref[b] = 0
<1>1. /\ InBuckets(b) \in Nat /\ InLocal(b) \in Nat /\ Freed(b) \in Nat /\ Used(b) \in {0, 1}
      /\ InBuckets(b) + InLocal(b) + Freed(b) + Used(b) = IF b <= created THEN 1 ELSE 0
      /\ \A t \in Threads : Number(b, local[t]) \in Nat /\ Number(b, local[t]) <= InLocal(b)
      /\ created \in Nat /\ b \in Nat
  BY Pooled, BufferAssumption DEF PoolInv, Buffers
<1>2. ref[b] \in Nat
  BY InUse
<1>3. Used(b) = 0
  <2>1. CASE \E t \in Threads : Number(b, local[t]) > 0
    <3>1. InLocal(b) > 0
      BY <1>1, <2>1
    <3> QED BY <1>1, <3>1
  <2>2. CASE InBuckets(b) > 0 \/ b > created
    BY <1>1, <2>2
  <2> QED BY <2>1, <2>2
<1> QED BY <1>2, <1>3 DEF Used

\* A chain of fresh nodes.
LEMMA Fresh ==
    ASSUME NEW n \in Nat
    PROVE  /\ MakeControl(n) \in Seq((n + 1)..(n + LocalSize)) /\ Len(MakeControl(n)) = LocalSize
           /\ MakeControl(n) # <<>> /\ Head(MakeControl(n)) = n + 1
           /\ \A b \in Nat : Number(b, MakeControl(n)) = IF n < b /\ b <= n + LocalSize THEN 1 ELSE 0
<1>1. LocalSize \in Nat \ {0}
  BY BufferAssumption
<1>2. MakeControl(n) \in Seq((n + 1)..(n + LocalSize)) /\ Len(MakeControl(n)) = LocalSize
  <2>1. \A i \in 1..LocalSize : n + i \in (n + 1)..(n + LocalSize)
    BY <1>1
  <2> QED BY <1>1, <2>1 DEF MakeControl
<1>3. MakeControl(n)[1] = n + 1
  BY <1>1 DEF MakeControl
<1>4. MakeControl(n) # <<>> /\ Head(MakeControl(n)) = n + 1
  BY <1>1, <1>2, <1>3
<1>5. ASSUME NEW b \in Nat PROVE Number(b, MakeControl(n)) = IF n < b /\ b <= n + LocalSize THEN 1 ELSE 0
  <2>1. Spots(b, MakeControl(n)) = IF n < b /\ b <= n + LocalSize THEN {b - n} ELSE {}
    <3>1. Spots(b, MakeControl(n)) = {i \in 1..LocalSize : n + i = b}
      BY DEF Spots, MakeControl
    <3>2. CASE n < b /\ b <= n + LocalSize
      <4>1. b - n \in 1..LocalSize
        BY <1>1, <3>2
      <4> QED BY <1>1, <3>1, <3>2, <4>1
    <3>3. CASE ~(n < b /\ b <= n + LocalSize)
      BY <1>1, <3>1, <3>3
    <3> QED BY <3>2, <3>3
  <2> QED BY <2>1, FS_EmptySet, FS_Singleton DEF Number
<1> QED BY <1>2, <1>4, <1>5

\* Alloc.
LEMMA PoolAlloc ==
    ASSUME CallsInv, RefInv, PoolInv, NEW t \in Contents, Alloc(t)
    PROVE  PoolInv' /\ RefInv'
<1>1. /\ t \in Threads /\ pc[t] = "idle" /\ created' = created /\ at' = at /\ got' = got /\ todo' = todo
      /\ batch' = batch /\ sendQ' = sendQ
  BY ThreadSets DEF Alloc, sessionVars
<1>2. Others(t)
  BY DEF Others, Alloc, Goto, CallsInv, BufferType
<1>3. /\ local \in [Threads -> Seq(Buffers)] /\ count \in [Threads -> 0..(2 * LocalSize)] /\ LocalSize \in Nat \ {0}
      /\ count[t] = Len(local[t]) /\ buckets \in Seq(Seq(Buffers)) /\ created \in 0..MaxBuffer
      /\ \A i \in DOMAIN buckets : Len(buckets[i]) = LocalSize
  BY <1>1, BufferAssumption DEF PoolInv
<1>4. CASE count[t] # 0 /\ Take(t, local[t], count[t]) /\ UNCHANGED <<buckets, pc>>
  <2> DEFINE c == local[t]
  <2>1. c \in Seq(Buffers) /\ c # <<>> /\ Len(c) <= 2 * LocalSize /\ Take(t, c, Len(c)) /\ Head(c) \in Buffers
    <3>1. c \in Seq(Buffers) /\ count[t] \in 0..(2 * LocalSize) /\ Len(c) # 0
      BY <1>1, <1>3, <1>4
    <3> QED BY <1>3, <1>4, <3>1
  <2>2. ref[Head(c)] = 0
    <3>1. 1 \in DOMAIN c /\ c[1] = Head(c)
      BY <2>1
    <3>2. Number(Head(c), c) > 0
      BY <2>1, <3>1, NumberSome
    <3> QED BY <1>1, <2>1, <3>2, FreeHere
  <2>3. ASSUME NEW b \in Buffers
        PROVE  InBuckets(b)' + Number(b, c) + InLocal(b) + Freed(b) + Used(b)
                                = Number(b, local[t]) + (IF b <= created' THEN 1 ELSE 0)
    <3>1. InBuckets(b)' = InBuckets(b)
      BY <1>4 DEF InBuckets
    <3>2. Number(b, c) \in Nat
      BY <2>1, SpotsFinite
    <3>3. /\ InBuckets(b) \in Nat /\ InLocal(b) \in Nat /\ Freed(b) \in Nat /\ Used(b) \in {0, 1}
          /\ InBuckets(b) + InLocal(b) + Freed(b) + Used(b) = IF b <= created THEN 1 ELSE 0
      BY Pooled
    <3> QED BY <1>1, <3>1, <3>2, <3>3
  <2>4. pc[t] \notin Releasing \cup {"process", "postSend", "make"} /\ pc' = pc
    BY <1>1, <1>4 DEF Releasing
  <2>5. at'[t] = at[t] /\ buckets' = buckets
    BY <1>1, <1>4
  <2> HIDE DEF c
  <2>6. PoolInv'
    <3>1. /\ buckets' \in Seq(Seq(Buffers)) /\ \A i \in DOMAIN buckets' : Len(buckets'[i]) = LocalSize
          /\ created' \in 0..MaxBuffer /\ pc[t] \notin Releasing /\ pc'[t] \notin Releasing /\ pc'[t] # "make"
      BY <1>1, <1>3, <2>4, <2>5
    <3> QED BY <1>1, <1>2, <2>1, <2>2, <2>3, <3>1, PoolTake
  <2>7. RefInv'
    <3>1. pc[t] \notin {"process", "postSend"} /\ pc'[t] \notin {"process", "postSend"}
      BY <2>4
    <3> QED BY <1>1, <1>2, <2>1, <2>2, <2>5, <3>1, RefTake
  <2> QED BY <2>6, <2>7
<1>5. CASE count[t] = 0 /\ buckets # <<>> /\ buckets' = Tail(buckets) /\ Take(t, Head(buckets), LocalSize) /\ UNCHANGED pc
  <2> DEFINE c == Head(buckets)
             R == Tail(buckets)
  <2>1. /\ c \in Seq(Buffers) /\ Len(c) = LocalSize /\ R \in Seq(Seq(Buffers))
        /\ (\A i \in DOMAIN R : Len(R[i]) = LocalSize)
        /\ \A b : /\ Cardinality(Tally(b, R, DOMAIN R)) \in Nat
                  /\ Cardinality(Tally(b, buckets, DOMAIN buckets)) = Cardinality(Tally(b, R, DOMAIN R)) + Number(b, c)
    BY <1>3, <1>5, BucketsPop
  <2>2. buckets' = R /\ Take(t, c, Len(c)) /\ local[t] = <<>>
    <3>1. local[t] \in Seq(Buffers)
      BY <1>1, <1>3
    <3>2. Len(local[t]) = 0
      BY <1>3, <1>5
    <3>3. local[t] = <<>>
      BY <3>1, <3>2
    <3> QED BY <1>5, <2>1, <3>3
  <2> HIDE DEF c, R
  <2>3. \A b : InBuckets(b) = InBuckets(b)' + Number(b, c) /\ InBuckets(b)' \in Nat
    <3>1. ASSUME NEW b
          PROVE  /\ InBuckets(b) = Cardinality(Tally(b, buckets, DOMAIN buckets))
                 /\ InBuckets(b)' = Cardinality(Tally(b, R, DOMAIN R))
      BY <2>2, CountsAre
    <3> QED BY <2>1, <3>1
  <2>4. c # <<>> /\ Len(c) <= 2 * LocalSize /\ Head(c) \in Buffers
    BY <1>3, <2>1
  <2>5. ref[Head(c)] = 0
    <3>1. 1 \in DOMAIN c /\ c[1] = Head(c)
      BY <2>1, <2>4
    <3>2. Number(Head(c), c) > 0
      BY <2>1, <3>1, NumberSome
    <3>3. Number(Head(c), c) \in Nat
      BY <2>1, SpotsFinite
    <3>4. InBuckets(Head(c)) > 0
      BY <2>3, <3>2, <3>3
    <3> QED BY <2>4, <3>4, FreeHere
  <2>6. ASSUME NEW b \in Buffers
        PROVE  InBuckets(b)' + Number(b, c) + InLocal(b) + Freed(b) + Used(b)
                                = Number(b, local[t]) + (IF b <= created' THEN 1 ELSE 0)
    <3>1. Number(b, c) \in Nat
      BY <2>1, SpotsFinite
    <3>2. /\ InBuckets(b) \in Nat /\ InLocal(b) \in Nat /\ Freed(b) \in Nat /\ Used(b) \in {0, 1}
          /\ InBuckets(b) + InLocal(b) + Freed(b) + Used(b) = IF b <= created THEN 1 ELSE 0
      BY Pooled
    <3>3. Number(b, local[t]) = 0
      BY <2>2, NumberOne
    <3> QED BY <1>1, <2>3, <3>1, <3>2, <3>3
  <2>7. pc[t] \notin Releasing \cup {"process", "postSend", "make"} /\ pc' = pc
    BY <1>1, <1>5 DEF Releasing
  <2>8. PoolInv'
    <3>1. /\ buckets' \in Seq(Seq(Buffers)) /\ \A i \in DOMAIN buckets' : Len(buckets'[i]) = LocalSize
          /\ created' \in 0..MaxBuffer /\ pc[t] \notin Releasing /\ pc'[t] \notin Releasing /\ pc'[t] # "make"
      BY <1>1, <1>3, <2>1, <2>2, <2>7
    <3> QED BY <1>1, <1>2, <2>1, <2>2, <2>4, <2>5, <2>6, <3>1, PoolTake
  <2>9. RefInv'
    <3>1. pc[t] \notin {"process", "postSend"} /\ pc'[t] \notin {"process", "postSend"} /\ at'[t] = at[t]
      BY <1>1, <2>7
    <3> QED BY <1>1, <1>2, <2>2, <2>4, <2>5, <3>1, RefTake
  <2> QED BY <2>8, <2>9
<1>6. CASE /\ count[t] = 0 /\ Goto(t, "make")
           /\ UNCHANGED <<buckets, local, count, ref, held, bytes, form, isEncrypt>>
  <2>1. pc'[t] = "make"
    BY <1>1, <1>6 DEF Goto, CallsInv, BufferType
  <2>2. pc[t] \notin Releasing /\ pc'[t] \notin Releasing
    BY <1>1, <2>1 DEF Releasing
  <2>3. PoolInv'
    <3>1. UNCHANGED poolVars /\ \A b \in Buffers : Used(b)' = Used(b)
      BY <1>1, <1>6 DEF poolVars, Used
    <3> QED BY <1>1, <1>2, <1>6, <2>2, <3>1, PoolQuiet
  <2>4. RefInv'
    <3>1. Out' = Out
      BY <1>1, <1>2, <2>1, OutSame
    <3>2. ref' = ref /\ held' = held
      BY <1>6
    <3> QED BY <1>1, <1>2, <2>1, <3>1, <3>2, RefQuiet
  <2> QED BY <2>3, <2>4
<1> QED BY <1>4, <1>5, <1>6 DEF Alloc

\* AcquireNode makes two buckets and takes the first buffer of one of them.
LEMMA PoolAcquireMake ==
    ASSUME CallsInv, RefInv, PoolInv, NEW t \in Contents, AcquireMake(t)
    PROVE  PoolInv' /\ RefInv'
<1> DEFINE L == LocalSize
           n == created
           c == MakeControl(n)
           d == MakeControl(n + L)
<1>1. /\ t \in Threads /\ pc[t] = "make" /\ created' = n + 2 * L /\ at' = at /\ got' = got /\ todo' = todo
      /\ batch' = batch /\ sendQ' = sendQ /\ pc'[t] = "idle" /\ buckets' = <<c>> \o buckets /\ Take(t, d, L)
      /\ n + 2 * L <= MaxBuffer
  BY ThreadSets DEF AcquireMake, sessionVars, Goto, CallsInv, BufferType
<1>2. Others(t)
  BY DEF Others, AcquireMake, Goto, CallsInv, BufferType
<1>3. /\ local \in [Threads -> Seq(Buffers)] /\ L \in Nat \ {0} /\ MaxBuffer \in Nat
      /\ count[t] = Len(local[t]) /\ count[t] = 0 /\ buckets \in Seq(Seq(Buffers)) /\ n \in 0..MaxBuffer
      /\ \A i \in DOMAIN buckets : Len(buckets[i]) = L
  BY <1>1, BufferAssumption DEF PoolInv
<1>4. n \in Nat /\ n + L \in Nat /\ created' \in 0..MaxBuffer
  BY <1>1, <1>3
<1>5. /\ c \in Seq((n + 1)..(n + L)) /\ Len(c) = L
      /\ \A b \in Nat : Number(b, c) = IF n < b /\ b <= n + L THEN 1 ELSE 0
  BY <1>4, Fresh
<1>6. /\ d \in Seq((n + L + 1)..(n + L + L)) /\ Len(d) = L /\ d # <<>> /\ Head(d) = n + L + 1
      /\ \A b \in Nat : Number(b, d) = IF n + L < b /\ b <= n + L + L THEN 1 ELSE 0
  BY <1>4, Fresh
<1> HIDE DEF c, d
<1>7. c \in Seq(Buffers) /\ d \in Seq(Buffers) /\ Head(d) \in Buffers
  <2>0. n + 1 > 0 /\ n + L <= MaxBuffer /\ n + L + 1 > 0 /\ n + L + L <= MaxBuffer
    BY <1>1, <1>3, <1>4
  <2>1. /\ \A x \in (n + 1)..(n + L) : x \in Buffers
        /\ \A x \in (n + L + 1)..(n + L + L) : x \in Buffers
    BY <1>3, <1>4, <2>0 DEF Buffers
  <2>2. \A S, T : (\A x \in S : x \in T) => \A q \in Seq(S) : q \in Seq(T)
    OBVIOUS
  <2>3. c \in Seq(Buffers)
    BY <1>5, <2>1, <2>2
  <2>4. d \in Seq(Buffers)
    BY <1>6, <2>1, <2>2
  <2> QED BY <1>6, <2>3, <2>4
<1>8. local[t] = <<>>
  <2>1. local[t] \in Seq(Buffers)
    BY <1>1, <1>3
  <2>2. Len(local[t]) = 0
    BY <1>3
  <2> QED BY <2>1, <2>2
<1>9. ref[Head(d)] = 0
  <2>1. Head(d) > created
    BY <1>3, <1>4, <1>6
  <2> QED BY <1>7, <2>1, FreeHere
<1>10. /\ buckets' \in Seq(Seq(Buffers)) /\ \A i \in DOMAIN buckets' : Len(buckets'[i]) = L
       /\ \A b : InBuckets(b)' = InBuckets(b) + Number(b, c)
  <2> DEFINE C == <<c>> \o buckets
  <2>1. /\ C \in Seq(Seq(Buffers)) /\ \A i \in DOMAIN C : Len(C[i]) = L
        /\ \A b : Cardinality(Tally(b, C, DOMAIN C)) = Cardinality(Tally(b, buckets, DOMAIN buckets)) + Number(b, c)
    BY <1>3, <1>5, <1>7, BucketsPush
  <2>2. buckets' = C
    BY <1>1
  <2> HIDE DEF C
  <2>3. ASSUME NEW b
        PROVE  /\ InBuckets(b) = Cardinality(Tally(b, buckets, DOMAIN buckets))
               /\ InBuckets(b)' = Cardinality(Tally(b, C, DOMAIN C))
    BY <2>2, CountsAre
  <2> QED BY <2>1, <2>2, <2>3
<1>11. ASSUME NEW b \in Buffers
       PROVE  InBuckets(b)' + Number(b, d) + InLocal(b) + Freed(b) + Used(b)
                                = Number(b, local[t]) + (IF b <= created' THEN 1 ELSE 0)
  <2>1. /\ InBuckets(b) \in Nat /\ InLocal(b) \in Nat /\ Freed(b) \in Nat /\ Used(b) \in {0, 1}
        /\ InBuckets(b) + InLocal(b) + Freed(b) + Used(b) = IF b <= n THEN 1 ELSE 0
    BY Pooled
  <2>2. Number(b, local[t]) = 0
    BY <1>8, NumberOne
  <2>3. b \in Nat /\ b > 0
    BY DEF Buffers
  <2>4. /\ Number(b, c) = (IF n < b /\ b <= n + L THEN 1 ELSE 0)
        /\ Number(b, d) = (IF n + L < b /\ b <= n + L + L THEN 1 ELSE 0)
    BY <1>5, <1>6, <2>3
  <2>5. InBuckets(b)' = InBuckets(b) + Number(b, c) /\ created' = n + L + L
    BY <1>1, <1>3, <1>4, <1>10
  <2> HIDE DEF n, L
  <2>6. Number(b, c) + Number(b, d) + (IF b <= n THEN 1 ELSE 0) = (IF b <= n + L + L THEN 1 ELSE 0)
    BY <1>3, <1>4, <2>3, <2>4
  <2>7. Number(b, c) \in Nat /\ Number(b, d) \in Nat
    BY <2>4
  <2> QED BY <2>1, <2>2, <2>5, <2>6, <2>7
<1>12. Take(t, d, Len(d)) /\ Len(d) <= 2 * L
  BY <1>1, <1>3, <1>6
<1>13. pc[t] \notin Releasing /\ pc'[t] \notin Releasing /\ pc'[t] # "make"
  BY <1>1 DEF Releasing
<1> HIDE DEF n
<1>14. PoolInv'
  BY <1>1, <1>2, <1>4, <1>6, <1>7, <1>9, <1>10, <1>11, <1>12, <1>13, PoolTake
<1>15. RefInv'
  <2>1. at'[t] = at[t] /\ pc[t] \notin {"process", "postSend"} /\ pc'[t] \notin {"process", "postSend"}
    BY <1>1
  <2> QED BY <1>1, <1>2, <1>7, <1>9, <1>12, <2>1, RefTake
<1> QED BY <1>14, <1>15

----------------------------------------------------------------------------
\* BytesInv.

\* Encode turns chars into as many chars.
LEMMA EncodeType ==
    ASSUME NEW x \in Seq(Chars), NEW k \in Nat
    PROVE  Encode(x, k) \in Seq(Chars) /\ Len(Encode(x, k)) = Len(x)
<1> DEFINE n == Len(x)
           p == CHOOSE f : f = [i \in 0..n |-> IF i = 0 THEN 0 ELSE x[i] ^^ Char(f[i - 1] + RandomKey + i)]
           e == CHOOSE f : f = [i \in 0..n |-> IF i = 0 THEN 0 ELSE p[i] ^^ Char(f[i - 1] + k + i)]
<1>1. n \in Nat /\ RandomKey \in Nat /\ \A i \in 1..n : x[i] \in Chars
  BY CodecAssumption
<1>2. Encode(x, k) = [i \in 1..n |-> e[i]]
  BY DEF Encode
<1>3. Round(p, n, x, RandomKey) /\ Round(e, n, p, k)
  BY DEF Round
<1> HIDE DEF n, p, e
<1>4. \A i \in 0..n : p[i] \in Chars
  BY <1>1, <1>3, Chained
<1>5. \A i \in 0..n : e[i] \in Chars
  <2>1. \A i \in 1..n : p[i] \in Chars
    BY <1>4
  <2> QED BY <1>1, <1>3, <2>1, Chained
<1>6. \A i \in 1..n : e[i] \in Chars
  BY <1>5
<1> QED BY <1>1, <1>2, <1>6 DEF n

LEMMA BytesTake ==
    ASSUME CallsInv, BytesInv, NEW t, NEW c, NEW n, Head(c) \in Buffers, Take(t, c, n)
    PROVE  BytesInv'
<1> DEFINE b == Head(c)
           m == <<0>> \o message
<1>1. bytes' = [bytes EXCEPT ![b] = m] /\ ref' = [ref EXCEPT ![b] = @ + 1] /\ b \in Buffers
  BY DEF Take
<1>2. m \in Seq(Chars) /\ m # <<>>
  <2>1. 0 \in Chars /\ message \in Seq(Chars)
    BY Halves, BufferAssumption DEF CallsInv, BufferType
  <2> QED BY <2>1
<1> HIDE DEF b, m
<1>3. bytes \in [Buffers -> Seq(Chars)] /\ ref \in [Buffers -> Int] /\ \A a \in Buffers : ref[a] > 0 => bytes[a] # <<>>
  BY DEF BytesInv, CallsInv, BufferType
<1> QED BY <1>1, <1>2, <1>3 DEF BytesInv

\* Nothing is written.
LEMMA BytesQuiet ==
    ASSUME BytesInv, bytes' = bytes, \A b \in Buffers : ref'[b] > 0 => ref[b] > 0
    PROVE  BytesInv'
BY DEF BytesInv

LEMMA BytesEncodeWrite ==
    ASSUME CallsInv, RefInv, BytesInv, NEW t \in Threads, EncodeWrite(t)
    PROVE  BytesInv'
<1> DEFINE b == got[t]
           k == key[at[t]]
           m == Encode(WriteNetHeader(Tail(bytes[b])), k)
<1>1. pc[t] \in Coding /\ bytes' = [bytes EXCEPT ![b] = m] /\ ref' = ref
  BY DEF EncodeWrite, Coding
<1>2. b \in Buffers /\ ref[b] > 0 /\ at[t] \in Sessions
  BY <1>1, CodingInUse
<1>3. bytes \in [Buffers -> Seq(Chars)] /\ bytes[b] # <<>>
  BY <1>2 DEF BytesInv
<1>4. k \in Nat
  <2>1. key \in [Sessions -> Chars]
    BY BufferAssumption DEF CallsInv, BufferType
  <2> QED BY <1>2, <2>1, Halves
<1>5. Tail(bytes[b]) \in Seq(Chars)
  BY <1>2, <1>3
<1>6. WriteNetHeader(Tail(bytes[b])) \in Seq(Chars)
  BY <1>5, HeaderValid
<1>7. Len(WriteNetHeader(Tail(bytes[b]))) > 0
  <2>1. Checksum(Tail(bytes[b])) \in Chars
    BY <1>5, ChecksumType
  <2> QED BY <1>5, <2>1 DEF WriteNetHeader
<1>8. m \in Seq(Chars) /\ Len(m) > 0
  BY <1>4, <1>6, <1>7, EncodeType
<1> HIDE DEF b, m
<1>9. m # <<>>
  BY <1>8
<1> QED BY <1>1, <1>2, <1>3, <1>8, <1>9 DEF BytesInv

LEMMA BytesRelease ==
    ASSUME CallsInv, CallsInv', RefInv, BytesInv, NEW t \in Threads, Release(t)
    PROVE  BytesInv'
<1>1. Head(todo[t]) \in Buffers /\ ref \in [Buffers -> Int]
  BY RefRelease DEF CallsInv, BufferType
<1>2. bytes' = bytes /\ ref' = [ref EXCEPT ![Head(todo[t])] = @ - 1]
  BY DEF Release, bufferVars
<1>3. \A b \in Buffers : ref'[b] > 0 => ref[b] > 0
  BY <1>1, <1>2
<1> QED BY <1>2, <1>3, BytesQuiet

LEMMA BytesAgain ==
    ASSUME CallsInv, RefInv, BytesInv, NEW t \in Contents, NEW b \in Buffers,
           \/ \E u \in Contents : Copy(t, u, b)
           \/ \E s \in Sessions : SendPacket(t, s, b)
    PROVE  BytesInv'
<1>1. /\ held[t][b] > 0 /\ ref' = [ref EXCEPT ![b] = @ + 1] /\ bytes' = bytes /\ ref \in [Buffers -> Int]
  BY DEF Copy, SendPacket, CallsInv, BufferType, bufferVars
<1>2. ref[b] > 0
  <2>1. held[t][b] <= ref[b] /\ held[t][b] \in 0..MaxHandle /\ ref[b] \in Nat /\ MaxHandle \in Nat
    BY InUse, BufferAssumption
  <2> QED BY <1>1, <2>1
<1>3. \A c \in Buffers : ref'[c] > 0 => ref[c] > 0
  BY <1>1, <1>2
<1> QED BY <1>1, <1>3, BytesQuiet

LEMMA BytesQuietSteps ==
    ASSUME BytesInv, NEW t,
           \/ \E b \in Buffers : Drop(t, b)
           \/ \E s \in Sessions : RealSend(t, s) \/ SendDone(t, s) \/ Reset(t, s) \/ Close(s)
           \/ ProcessBuffer(t) \/ Fill(t) \/ EncodeCheck(t) \/ EncodeLock(t) \/ EncodeMark(t) \/ SendPost(t)
           \/ PostSendEnd(t) \/ ResetEnd(t) \/ ReleaseEnd(t) \/ Free(t)
    PROVE  BytesInv'
<1>1. bytes' = bytes /\ ref' = ref
  BY DEF Drop, RealSend, SendDone, Reset, ProcessBuffer, Fill, EncodeCheck, EncodeLock, EncodeMark, SendPost,
         PostSendEnd, ResetEnd, ReleaseEnd, Free, Close, bufferVars
<1> QED BY <1>1, BytesQuiet

\* The buckets that the pool starts with hold each of its nodes once.
First(k) == [i \in 1..k |-> MakeControl((k - i) * LocalSize)]

\* The buckets the pool starts with have each of its nodes once.
LEMMA FirstBuckets ==
    ASSUME NEW m \in Nat
    PROVE  /\ First(m) \in Seq(Seq(Nat)) /\ \A i \in DOMAIN First(m) : Len(First(m)[i]) = LocalSize
           /\ \A i \in DOMAIN First(m) : First(m)[i] \in Seq(1..(m * LocalSize))
           /\ \A b \in Nat \ {0} : Cardinality(Tally(b, First(m), DOMAIN First(m)))
                                     = IF b <= m * LocalSize THEN 1 ELSE 0
<1> DEFINE L == LocalSize
           Good(k) == \A b \in Nat \ {0} : Cardinality(Tally(b, First(k), DOMAIN First(k)))
                                             = IF b <= k * L THEN 1 ELSE 0
           P == {k \in 0..m : Good(k)}
<1>1. L \in Nat \ {0}
  BY BufferAssumption
<1>2. ASSUME NEW k \in Nat
      PROVE  /\ First(k) \in Seq(Seq(Nat)) /\ DOMAIN First(k) = 1..k
             /\ \A i \in 1..k : Len(First(k)[i]) = L /\ First(k)[i] \in Seq(1..(k * L))
  <2>1. ASSUME NEW i \in 1..k
        PROVE  /\ MakeControl((k - i) * L) \in Seq(Nat) /\ Len(MakeControl((k - i) * L)) = L
               /\ MakeControl((k - i) * L) \in Seq(1..(k * L))
    <3> DEFINE a == (k - i) * L
               z == k * L
    <3>1. a \in Nat /\ z \in Nat
      BY <1>1
    <3>2. a + L <= z
      <4>1. (k - i) + 1 <= k /\ (k - i) + 1 \in Nat /\ k - i \in Nat
        OBVIOUS
      <4>2. ((k - i) + 1) * L <= k * L
        BY <1>1, <4>1
      <4>3. ((k - i) + 1) * L = (k - i) * L + L
        BY <1>1, <4>1
      <4> QED BY <4>2, <4>3
    <3> HIDE DEF a, z
    <3>3. MakeControl(a) \in Seq((a + 1)..(a + L)) /\ Len(MakeControl(a)) = L
      BY <3>1, Fresh
    <3>4. (\A x \in (a + 1)..(a + L) : x \in 1..z) /\ (\A x \in (a + 1)..(a + L) : x \in Nat)
      BY <1>1, <3>1, <3>2
    <3>5. \A S, T : (\A x \in S : x \in T) => \A q \in Seq(S) : q \in Seq(T)
      OBVIOUS
    <3>6. MakeControl(a) \in Seq(1..z)
      BY <3>3, <3>4, <3>5
    <3>7. MakeControl(a) \in Seq(Nat)
      BY <3>3, <3>4, <3>5
    <3> QED BY <3>3, <3>6, <3>7 DEF a, z
  <2> QED BY <2>1 DEF First
<1>3. 0 \in P
  <2>1. Tally(0, First(0), DOMAIN First(0)) = {} /\ \A b : Tally(b, First(0), DOMAIN First(0)) = {}
    BY <1>2 DEF Tally
  <2>2. \A b \in Nat \ {0} : ~(b <= 0 * L)
    BY <1>1
  <2>3. \A b : Cardinality(Tally(b, First(0), DOMAIN First(0))) = 0
    BY <2>1, FS_EmptySet
  <2> QED BY <2>2, <2>3
<1>4. ASSUME NEW k \in 1..m, k - 1 \in P PROVE k \in P
  <2> DEFINE a == (k - 1) * L
             c == MakeControl(a)
             B == First(k - 1)
             C == First(k)
  <2>1. k - 1 \in Nat /\ k \in Nat /\ a \in Nat /\ k * L = a + L
    BY <1>1
  <2>3. B \in Seq(Seq(Nat)) /\ c \in Seq(Nat) /\ C \in Seq(Seq(Nat)) /\ DOMAIN C = 1..k /\ DOMAIN B = 1..(k - 1)
    <3>1. B \in Seq(Seq(Nat)) /\ C \in Seq(Seq(Nat)) /\ DOMAIN C = 1..k /\ DOMAIN B = 1..(k - 1)
      BY <1>2, <2>1
    <3>2. c \in Seq((a + 1)..(a + L))
      BY <2>1, Fresh
    <3>3. \A x \in (a + 1)..(a + L) : x \in Nat
      BY <1>1, <2>1
    <3>4. \A S, T : (\A x \in S : x \in T) => \A q \in Seq(S) : q \in Seq(T)
      OBVIOUS
    <3> HIDE DEF a, c
    <3>5. c \in Seq(Nat)
      BY <3>2, <3>3, <3>4
    <3> QED BY <3>1, <3>5
  <2>2. C = <<c>> \o B
    <3>1. DOMAIN C = 1..k /\ DOMAIN B = 1..(k - 1) /\ C \in Seq(Seq(Nat)) /\ B \in Seq(Seq(Nat)) /\ c \in Seq(Nat)
      BY <2>3
    <3>2. ASSUME NEW i \in 1..k PROVE C[i] = (<<c>> \o B)[i]
      <4>1. CASE i = 1
        BY <2>1, <3>1, <4>1 DEF First
      <4>2. CASE i # 1
        <5>1. i - 1 \in 1..(k - 1) /\ (k - 1) - (i - 1) = k - i
          BY <2>1, <4>2
        <5>2. C[i] = MakeControl((k - i) * L) /\ B[i - 1] = MakeControl(((k - 1) - (i - 1)) * L)
          BY <2>1, <5>1 DEF First
        <5>3. (<<c>> \o B)[i] = B[i - 1]
          BY <3>1, <4>2
        <5> QED BY <5>1, <5>2, <5>3
      <4> QED BY <4>1, <4>2
    <3> HIDE DEF B, C, c
    <3>3. <<c>> \o B \in Seq(Seq(Nat)) /\ Len(<<c>> \o B) = k /\ Len(C) = k
      BY <2>1, <3>1
    <3> DEFINE D == <<c>> \o B
    <3>4. C = [i \in 1..k |-> C[i]] /\ D = [i \in 1..k |-> D[i]]
      BY <3>1, <3>3
    <3>5. \A i \in 1..k : C[i] = D[i]
      BY <3>2
    <3> HIDE DEF D
    <3>6. C = D
      BY <3>4, <3>5
    <3> QED BY <3>6 DEF D
  <2>4. \A b \in Nat : Number(b, c) = IF a < b /\ b <= a + L THEN 1 ELSE 0
    BY <2>1, Fresh
  <2>5. \A b \in Nat \ {0} : Cardinality(Tally(b, B, DOMAIN B)) = IF b <= a THEN 1 ELSE 0
    BY <1>4
  <2> HIDE DEF c, B, C, a
  <2>6. \A b : Cardinality(Tally(b, C, DOMAIN C)) = Cardinality(Tally(b, B, DOMAIN B)) + Number(b, c)
    <3> DEFINE D == <<c>> \o B
    <3>1. \A b : Cardinality(Tally(b, D, DOMAIN D)) = Cardinality(Tally(b, B, DOMAIN B)) + Number(b, c)
      BY <2>3, TallyPrepend
    <3>2. C = D
      BY <2>2
    <3> HIDE DEF D
    <3> QED BY <3>1, <3>2
  <2>7. \A b \in Nat \ {0} : Cardinality(Tally(b, C, DOMAIN C)) = IF b <= k * L THEN 1 ELSE 0
    BY <1>1, <2>1, <2>4, <2>5, <2>6
  <2> QED BY <2>7 DEF C
<1>5. m \in P
  <2> HIDE DEF P
  <2>1. 0..m \subseteq P
    BY <1>3, <1>4, UpTo
  <2> QED BY <2>1
<1> QED BY <1>2, <1>5

----------------------------------------------------------------------------
\* The theorems about references and the pool.

\* The invariant holds before the first packet.
LEMMA BufferInit == Init => BInv
<1> SUFFICES ASSUME Init PROVE BInv
  OBVIOUS
<1>0. /\ LocalSize \in Nat \ {0} /\ Multiplier \in Nat /\ MaxBuffer \in Nat /\ MaxHandle \in Nat \ {0}
      /\ MaxAlloc \in Nat /\ Multiplier * LocalSize <= MaxBuffer
  BY BufferAssumption
<1>1. CallsInv
  <2>1. BufferType
    BY <1>0 DEF Init, BufferType, Pcs
  <2>2. CallInv
    BY DEF Init, CallInv, Coding, Sending
  <2>3. SenderInv
    BY DEF Init, SenderInv, Sending, Coding
  <2>4. LockInv
    BY DEF Init, LockInv
  <2> QED BY <2>1, <2>2, <2>3, <2>4 DEF CallsInv
<1>2. RefInv
  <2>1. held \in [Contents -> [Buffers -> 0..MaxHandle]]
    BY <1>0 DEF Init
  <2>2. ASSUME NEW b \in Buffers PROVE ref[b] = HandleCount(b) + Queued(b) + Sent(b) + Due(b) + Called(b)
    <3>1. {h \in Contents \X (1..MaxHandle) : h[2] <= held[h[1]][b]} = {}
      BY <1>0 DEF Init
    <3>2. UNION {In(b, sendQ[s], s) : s \in Sessions} = {}
      BY DEF Init, In
    <3>3. UNION {In(b, Unreleased(s), s) : s \in Sessions} = {}
      BY DEF Init, In, Unreleased
    <3>4. UNION {In(b, todo[t], t) : t \in Threads} = {}
      BY DEF Init, In
    <3>5. {t \in Threads : pc[t] = "process" /\ got[t] = b} = {}
      BY DEF Init
    <3>6. HandleCount(b) = 0 /\ Queued(b) = 0 /\ Sent(b) = 0 /\ Due(b) = 0 /\ Called(b) = 0
      BY <3>1, <3>2, <3>3, <3>4, <3>5, FS_EmptySet DEF HandleCount, Queued, Sent, Due, Called
    <3>7. ref[b] = 0
      BY DEF Init
    <3> QED BY <3>6, <3>7
  <2> QED BY <2>1, <2>2 DEF RefInv
<1>3. PoolInv
  <2> DEFINE m == Multiplier * LocalSize
  <2>1. buckets = First(Multiplier) /\ created = m
    BY DEF Init, First
  <2>2. /\ buckets \in Seq(Seq(Nat)) /\ (\A i \in DOMAIN buckets : Len(buckets[i]) = LocalSize)
        /\ (\A i \in DOMAIN buckets : buckets[i] \in Seq(1..m))
        /\ \A b \in Nat \ {0} : Cardinality(Tally(b, buckets, DOMAIN buckets)) = IF b <= m THEN 1 ELSE 0
    BY <1>0, <2>1, FirstBuckets
  <2>3. m \in 0..MaxBuffer
    BY <1>0
  <2> HIDE DEF m
  <2>4. buckets \in Seq(Seq(Buffers))
    <3>1. \A x \in 1..m : x \in Buffers
      BY <1>0, <2>3 DEF Buffers
    <3>2. \A S, T : (\A x \in S : x \in T) => \A q \in Seq(S) : q \in Seq(T)
      OBVIOUS
    <3>3. \A i \in DOMAIN buckets : buckets[i] \in Seq(Buffers)
      BY <2>2, <3>1, <3>2
    <3>4. buckets = [i \in 1..Len(buckets) |-> buckets[i]] /\ DOMAIN buckets = 1..Len(buckets) /\ Len(buckets) \in Nat
      BY <2>2
    <3> QED BY <3>3, <3>4
  <2>5. local \in [Threads -> Seq(Buffers)] /\ count \in [Threads -> 0..(2 * LocalSize)]
    BY <1>0 DEF Init
  <2>6. \A t \in Threads : count[t] = Len(local[t]) /\ count[t] = 0
    BY DEF Init
  <2>7. ASSUME NEW b \in Buffers
        PROVE  InBuckets(b) + InLocal(b) + Freed(b) + Used(b) = IF b <= created THEN 1 ELSE 0
    <3>1. UNION {In(b, local[t], t) : t \in Threads} = {}
      BY DEF Init, In
    <3>2. {t \in Threads : pc[t] \in Releasing /\ got[t] = b} = {}
      BY DEF Init, Releasing
    <3>3. InLocal(b) = 0 /\ Freed(b) = 0
      BY <3>1, <3>2, FS_EmptySet DEF InLocal, Freed
    <3>4. Used(b) = 0
      BY DEF Init, Used
    <3>5. b \in Nat \ {0}
      BY DEF Buffers
    <3>6. InBuckets(b) = IF b <= m THEN 1 ELSE 0
      BY <2>2, <3>5, CountsAre
    <3> QED BY <2>1, <3>3, <3>4, <3>6
  <2> QED BY <2>1, <2>2, <2>3, <2>4, <2>5, <2>6, <2>7 DEF PoolInv
<1>4. BytesInv
  BY DEF Init, BytesInv
<1> QED BY <1>1, <1>2, <1>3, <1>4 DEF BInv

\* What takes a buffer from the pool keeps the bytes.
LEMMA BytesAlloc ==
    ASSUME BInv, NEW t \in Contents, Alloc(t) \/ AcquireMake(t)
    PROVE  BytesInv'
<1>1. CallsInv /\ PoolInv /\ BytesInv /\ RefInv /\ t \in Threads
  BY ThreadSets DEF BInv
<1>2. /\ local[t] \in Seq(Buffers) /\ count[t] = Len(local[t]) /\ buckets \in Seq(Seq(Buffers))
      /\ (\A i \in DOMAIN buckets : Len(buckets[i]) = LocalSize) /\ LocalSize \in Nat \ {0}
      /\ created \in 0..MaxBuffer /\ MaxBuffer \in Nat
  BY <1>1, BufferAssumption DEF PoolInv
<1>3. CASE count[t] # 0 /\ Take(t, local[t], count[t])
  <2>1. Head(local[t]) \in Buffers
    BY <1>2, <1>3
  <2> QED BY <1>1, <1>3, <2>1, BytesTake
<1>4. CASE buckets # <<>> /\ Take(t, Head(buckets), LocalSize)
  <2>1. Head(buckets) \in Seq(Buffers) /\ Len(Head(buckets)) = LocalSize
    <3>1. 1 \in DOMAIN buckets /\ buckets[1] = Head(buckets) /\ Head(buckets) \in Seq(Buffers)
      BY <1>2, <1>4
    <3> QED BY <1>2, <3>1
  <2>2. Head(Head(buckets)) \in Buffers
    BY <1>2, <2>1
  <2> QED BY <1>1, <1>4, <2>2, BytesTake
<1>5. CASE AcquireMake(t)
  <2>1. Take(t, MakeControl(created + LocalSize), LocalSize) /\ created + 2 * LocalSize <= MaxBuffer
    BY <1>5 DEF AcquireMake
  <2>2. created + LocalSize \in Nat /\ created + LocalSize + 1 \in Buffers
    BY <1>2, <2>1 DEF Buffers
  <2>3. Head(MakeControl(created + LocalSize)) = created + LocalSize + 1
    BY <2>2, Fresh
  <2> QED BY <1>1, <2>1, <2>2, <2>3, BytesTake
<1>6. CASE ref' = ref /\ bytes' = bytes
  BY <1>1, <1>6, BytesQuiet
<1> QED BY <1>3, <1>4, <1>5, <1>6 DEF Alloc

\* Each step keeps the invariant.
LEMMA BufferStep == BInv /\ [Next]_vars => BInv'
<1> SUFFICES ASSUME BInv, [Next]_vars PROVE BInv'
  OBVIOUS
<1>0. CallsInv /\ RefInv /\ PoolInv /\ BytesInv
  BY DEF BInv
<1>1. ASSUME NEW t \in Contents, Content(t) PROVE BInv'
  <2>0. t \in Threads
    BY ThreadSets
  <2>1. CASE Alloc(t)
    BY <1>0, <2>0, <2>1, CallsAlloc, PoolAlloc, BytesAlloc DEF BInv
  <2>2. CASE AcquireMake(t)
    BY <1>0, <2>0, <2>2, CallsAcquireMake, PoolAcquireMake, BytesAlloc DEF BInv
  <2>3. ASSUME NEW b \in Buffers, NEW u \in Contents, HandleCount(b) < MaxHandle, Copy(t, u, b) PROVE BInv'
    BY <1>0, <2>0, <2>3, CallsCopy, RefCopy, PoolAgain, BytesAgain DEF BInv
  <2>4. ASSUME NEW b \in Buffers, Drop(t, b) PROVE BInv'
    <3>1. CallsInv'
      BY <1>0, <2>0, <2>4, CallsDrop
    <3> QED BY <1>0, <2>0, <2>4, <3>1, RefDrop, PoolQuietSteps, BytesQuietSteps DEF BInv
  <2>5. ASSUME NEW b \in Buffers, NEW s \in Sessions, SendPacket(t, s, b) PROVE BInv'
    BY <1>0, <2>0, <2>5, CallsSendPacket, RefSendPacket, PoolAgain, BytesAgain DEF BInv
  <2>6. CASE ProcessBuffer(t)
    <3>1. CallsInv'
      BY <1>0, <2>0, <2>6, CallsProcessBuffer
    <3> QED BY <1>0, <2>0, <2>6, <3>1, RefProcessBuffer, PoolQuietSteps, BytesQuietSteps DEF BInv
  <2> QED BY <1>1, <2>1, <2>2, <2>3, <2>4, <2>5, <2>6 DEF Content
<1>2. ASSUME NEW t \in Threads, Worker(t) PROVE BInv'
  <2>1. ASSUME NEW s \in Sessions, RealSend(t, s) PROVE BInv'
    BY <1>0, <2>1, CallsRealSend, RefRealSend, PoolQuietSteps, BytesQuietSteps DEF BInv
  <2>2. ASSUME NEW s \in Sessions, SendDone(t, s) PROVE BInv'
    <3>1. CallsInv'
      BY <1>0, <2>2, CallsSendDone
    <3> QED BY <1>0, <2>2, <3>1, RefSendDone, PoolQuietSteps, BytesQuietSteps DEF BInv
  <2>3. ASSUME NEW s \in Sessions, Reset(t, s) PROVE BInv'
    <3>1. CallsInv'
      BY <1>0, <2>3, CallsReset
    <3> QED BY <1>0, <2>3, <3>1, RefReset, PoolQuietSteps, BytesQuietSteps DEF BInv
  <2>4. CASE Fill(t)
    <3>1. CallsInv'
      BY <1>0, <2>4, CallsFill
    <3> QED BY <1>0, <2>4, <3>1, RefFill, PoolQuietSteps, BytesQuietSteps DEF BInv
  <2>5. CASE TryEncode(t)
    <3>1. CallsInv'
      BY <1>0, <2>5, CallsEncodeCheck, CallsEncodeLock, CallsEncodeWrite, CallsEncodeMark DEF TryEncode
    <3>2. BytesInv'
      BY <1>0, <2>5, BytesQuietSteps, BytesEncodeWrite DEF TryEncode
    <3> QED BY <1>0, <2>5, <3>1, <3>2, RefTryEncode, PoolQuietSteps DEF BInv
  <2>6. CASE SendPost(t)
    BY <1>0, <2>6, CallsSendPost, RefSendPost, PoolQuietSteps, BytesQuietSteps DEF BInv
  <2>7. CASE PostSendEnd(t)
    BY <1>0, <2>7, CallsPostSendEnd, RefPostSendEnd, PoolQuietSteps, BytesQuietSteps DEF BInv
  <2>8. CASE ResetEnd(t) \/ ReleaseEnd(t)
    BY <1>0, <2>8, CallsResetEnd, CallsReleaseEnd, RefReleaseEnd, PoolQuietSteps, BytesQuietSteps DEF BInv
  <2>9. CASE Release(t)
    <3>1. CallsInv'
      BY <1>0, <2>9, CallsRelease
    <3> QED BY <1>0, <2>9, <3>1, RefRelease, PoolRelease, BytesRelease DEF BInv
  <2>10. CASE Free(t)
    <3>1. CallsInv'
      BY <1>0, <2>10, CallsFree
    <3> QED BY <1>0, <2>10, <3>1, RefFree, PoolFree, BytesQuietSteps DEF BInv
  <2> QED BY <1>2, <2>1, <2>2, <2>3, <2>4, <2>5, <2>6, <2>7, <2>8, <2>9, <2>10 DEF Worker
<1>3. ASSUME NEW s \in Sessions, Close(s) PROVE BInv'
  BY <1>0, <1>3, CallsClose, RefClose, PoolClose, BytesQuietSteps DEF BInv
<1>4. CASE UNCHANGED vars
  <2>1. /\ UNCHANGED <<buckets, local, count, created, allocs, ref, held, bytes, form, isEncrypt, lock>>
        /\ UNCHANGED <<sendQ, batch, busy, flight, state, key, message, pc, at, got, todo>>
    BY <1>4 DEF vars, poolVars, bufferVars, sessionVars, fixed, localVars
  <2>2. CallsInv'
    BY <1>0, <2>1 DEF CallsInv, BufferType, CallInv, SenderInv, LockInv
  <2>3. RefInv'
    BY <1>0, <2>1 DEF RefInv, HandleCount, Queued, Sent, Due, Called, Unreleased
  <2>4. PoolInv' /\ BytesInv'
    BY <1>0, <2>1 DEF PoolInv, BytesInv, InBuckets, InLocal, Freed, Used
  <2> QED BY <2>2, <2>3, <2>4 DEF BInv
<1> QED BY <1>1, <1>2, <1>3, <1>4 DEF Next

\* The inductive invariant, for any number of threads, sessions and buffers: what
\* a thread in a call has, one sender for a session, the encoder's lock, where the
\* references to a buffer are, where it is without one, and that a buffer in use
\* has a checksum to be encoded.
THEOREM BufferInvariance == Spec => []BInv
<1> QED BY BufferInit, BufferStep, PTL DEF Spec

\* _refCount is the number of handles, queued and sent packets and calls that have
\* the buffer, whatever copies, drops, failed sends and Resets come in between:
\* CSendBuffer::Release neither frees a buffer that is used nor forgets one.
THEOREM ReferencesExact == Spec => []RefExact
<1>1. BInv => RefExact
  <2> SUFFICES ASSUME BInv, NEW b \in 1..created
               PROVE  ref[b] = HandleCount(b)
                        + Cardinality(UNION {In(b, sendQ[s], s) : s \in Sessions})
                        + Cardinality(UNION {In(b, Unreleased(s), s) : s \in Sessions})
                        + Cardinality(UNION {In(b, todo[t], t) : t \in Threads})
                        + Cardinality({t \in Threads : pc[t] = "process" /\ got[t] = b})
    BY DEF RefExact
  <2>1. b \in Buffers
    BY BufferAssumption DEF BInv, PoolInv, Buffers
  <2> QED BY <2>1 DEF BInv, RefInv, Queued, Sent, Due, Called
<1> QED BY <1>1, BufferInvariance, PTL

\* TlsPool and its thread-local pools neither lose nor double a buffer, a bucket
\* has _localPoolSize nodes, and _objectCount is the length of the local chain, so
\* TlsPool::Alloc may set it without counting and Free may walk that far.
THEOREM NodesPooledOnce == Spec => []PooledOnce
<1>1. BInv => PooledOnce
  <2> SUFFICES ASSUME BInv PROVE PooledOnce
    OBVIOUS
  <2>1. /\ \A i \in DOMAIN buckets : Len(buckets[i]) = LocalSize
        /\ \A t \in Threads : count[t] = Len(local[t])
    BY DEF BInv, PoolInv
  <2>2. ASSUME NEW b \in 1..created
        PROVE  Cardinality(UNION {In(b, buckets[i], i) : i \in DOMAIN buckets})
               + Cardinality(UNION {In(b, local[t], t) : t \in Threads})
               + Cardinality({t \in Threads : pc[t] \in Releasing /\ got[t] = b})
               + (IF ref[b] > 0 THEN 1 ELSE 0) = 1
    <3>1. b \in Buffers /\ b <= created
      BY BufferAssumption DEF BInv, PoolInv, Buffers
    <3>2. InBuckets(b) + InLocal(b) + Freed(b) + Used(b) = 1
      BY <3>1 DEF BInv, PoolInv
    <3> QED BY <3>2 DEF InBuckets, InLocal, Freed, Used
  <2> QED BY <2>1, <2>2 DEF PooledOnce
<1> QED BY <1>1, BufferInvariance, PTL

\* The variables have their types: no reference count goes below zero, and a
\* local pool holds at most twice _localPoolSize nodes between two calls.
THEOREM BufferTypeCorrect == Spec => []TypeOK
<1>1. BInv => TypeOK
  <2> SUFFICES ASSUME BInv PROVE TypeOK
    OBVIOUS
  <2>1. CallsInv /\ RefInv /\ PoolInv /\ BytesInv
    BY DEF BInv
  <2>2. ref \in [Buffers -> Nat]
    <3>1. \A b \in Buffers : ref[b] \in Nat
      BY <2>1, InUse
    <3>2. ref \in [Buffers -> Int]
      BY <2>1 DEF CallsInv, BufferType
    <3> QED BY <3>1, <3>2
  <2>3. isEncrypt \in [Buffers -> 0..1]
    BY <2>1 DEF CallsInv, BufferType
  <2>4. /\ buckets \in Seq(Seq(Buffers)) /\ local \in [Threads -> Seq(Buffers)]
        /\ count \in [Threads -> 0..(2 * LocalSize)]
        /\ created \in 0..MaxBuffer /\ allocs \in 0..MaxAlloc
        /\ held \in [Contents -> [Buffers -> 0..MaxHandle]]
        /\ bytes \in [Buffers -> Seq(Chars)]
        /\ form \in [Buffers -> {"none", "lan", "net"}]
        /\ lock \in [Buffers -> Threads \cup {NoOne}]
    BY <2>1 DEF CallsInv, BufferType, RefInv, PoolInv, BytesInv
  <2>5. /\ sendQ \in [Sessions -> Seq(Buffers)] /\ batch \in [Sessions -> Seq(Buffers)]
        /\ state \in [Sessions -> {"open", "closing", "released"}]
        /\ at \in [Threads -> Sessions \cup {NoOne}]
        /\ got \in [Threads -> Buffers \cup {None}]
        /\ todo \in [Threads -> Seq(Buffers)]
    BY <2>1 DEF CallsInv, BufferType
  <2>6. busy \in [Sessions -> BOOLEAN]
    BY <2>1 DEF CallsInv, BufferType
  <2>7. flight \in [Sessions -> BOOLEAN]
    BY <2>1 DEF CallsInv, BufferType
  <2> QED BY <2>2, <2>3, <2>4, <2>5, <2>6, <2>7 DEF TypeOK
<1> QED BY <1>1, BufferInvariance, PTL

----------------------------------------------------------------------------
\* CodeInv: one lemma for each action.

\* A step that adds nothing to a batch leaves what is unreleased, or empties it.
LEMMA OutShrinks ==
    ASSUME NEW t \in Threads, Others(t), \A s \in Sessions : batch'[s] = batch[s] \/ batch'[s] = <<>>,
           pc[t] = "postSend" => (pc'[t] = pc[t] /\ at'[t] = at[t]) \/ batch'[at[t]] = <<>>
    PROVE  \A s \in Sessions : Unreleased(s)' = Unreleased(s) \/ Unreleased(s)' = <<>>
<1> SUFFICES ASSUME NEW s \in Sessions PROVE Unreleased(s)' = Unreleased(s) \/ Unreleased(s)' = <<>>
  OBVIOUS
<1>1. CASE \E u \in Threads : pc'[u] = "postSend" /\ at'[u] = s
  BY <1>1 DEF Unreleased
<1>2. CASE ~\E u \in Threads : pc'[u] = "postSend" /\ at'[u] = s
  <2>1. Unreleased(s)' = batch'[s]
    BY <1>2 DEF Unreleased
  <2>2. CASE \E u \in Threads : pc[u] = "postSend" /\ at[u] = s
    <3>1. pc[t] = "postSend" /\ at[t] = s
      BY <1>2, <2>2 DEF Others
    <3> QED BY <1>2, <2>1, <3>1
  <2>3. CASE ~\E u \in Threads : pc[u] = "postSend" /\ at[u] = s
    BY <2>1, <2>3 DEF Unreleased
  <2> QED BY <2>2, <2>3
<1> QED BY <1>1, <1>2

\* A step outside TryEncode that writes to no buffer in use.
LEMMA CodeQuiet ==
    ASSUME BInv, CodeInv, NEW t \in Threads, Others(t), pc[t] \notin Coding, pc'[t] \notin Coding,
           key' = key, message' = message,
           \A b \in Buffers : ref[b] > 0 => bytes'[b] = bytes[b] /\ form'[b] = form[b] /\ isEncrypt'[b] = isEncrypt[b],
           \A b \in Buffers : ref[b] > 0 \/ ~(ref'[b] > 0)
                \/ (bytes'[b] = << 0 >> \o message /\ isEncrypt'[b] = 0),
           \A s \in Sessions : Unreleased(s)' = Unreleased(s) \/ Unreleased(s)' = <<>>
    PROVE  CodeInv'
<1>1. CallsInv /\ RefInv
  BY DEF BInv
<1>2. \A u \in Threads : pc[u] \in Coding => got[u] \in Buffers /\ ref[got[u]] > 0
  BY <1>1, CodingInUse
<1>3. \A u \in Threads : pc'[u] \in Coding => pc'[u] = pc[u] /\ got'[u] = got[u] /\ at'[u] = at[u] /\ pc[u] \in Coding
  BY DEF Others
<1>4. \A u \in Threads : pc[u] \in Coding => pc'[u] = pc[u] /\ got'[u] = got[u] /\ at'[u] = at[u]
  BY DEF Others
<1>5. BodyInv'
  <2> SUFFICES ASSUME NEW b \in Buffers, ref'[b] > 0
               PROVE  IF Coded(b)' THEN form'[b] = "net" /\ \A s \in Sessions :
                            key'[s] # 0 /\ bytes'[b] = Encode(WriteNetHeader(message'), key'[s])
                      ELSE bytes'[b] = <<0>> \o message'
    BY DEF BodyInv
  <2>1. CASE ref[b] > 0
    <3>1. Coded(b)' <=> Coded(b)
      BY <1>3, <1>4, <2>1 DEF Coded, Coding
    <3>2. IF Coded(b) THEN form[b] = "net" /\ \A s \in Sessions :
                            key[s] # 0 /\ bytes[b] = Encode(WriteNetHeader(message), key[s])
          ELSE bytes[b] = <<0>> \o message
      BY <2>1 DEF CodeInv, BodyInv
    <3> QED BY <2>1, <3>1, <3>2
  <2>2. CASE ~(ref[b] > 0)
    <3>1. ~Coded(b)'
      BY <1>2, <1>3, <2>2 DEF Coded, Coding
    <3> QED BY <2>2, <3>1
  <2> QED BY <2>1, <2>2
<1>6. BatchInv'
  <2> SUFFICES ASSUME NEW s \in Sessions, NEW i \in DOMAIN Unreleased(s)'
               PROVE  IF key'[s] = 0 THEN form'[Unreleased(s)'[i]] = "lan"
                      ELSE isEncrypt'[Unreleased(s)'[i]] = 1
                            \/ \E u \in Threads : pc'[u] \in Coding /\ at'[u] = s /\ got'[u] = Unreleased(s)'[i]
    BY DEF BatchInv
  <2>1. Unreleased(s)' = Unreleased(s)
    <3>1. Unreleased(s)' # <<>>
      OBVIOUS
    <3> QED BY <3>1
  <2> DEFINE b == Unreleased(s)[i]
  <2>2. i \in DOMAIN Unreleased(s) /\ Unreleased(s)'[i] = b
    BY <2>1
  <2>3. b \in Buffers
    <3>1. Unreleased(s) \in Seq(Buffers)
      BY <1>1, OutType
    <3> QED BY <2>2, <3>1
  <2>4. ref[b] > 0
    BY <1>1, <2>2, <2>3, InUse
  <2>5. IF key[s] = 0 THEN form[b] = "lan"
        ELSE isEncrypt[b] = 1 \/ \E u \in Threads : pc[u] \in Coding /\ at[u] = s /\ got[u] = b
    BY <2>2 DEF CodeInv, BatchInv
  <2> HIDE DEF b
  <2>6. form'[b] = form[b] /\ isEncrypt'[b] = isEncrypt[b]
    BY <2>3, <2>4
  <2>7. (\E u \in Threads : pc[u] \in Coding /\ at[u] = s /\ got[u] = b)
           => \E u \in Threads : pc'[u] \in Coding /\ at'[u] = s /\ got'[u] = b
    BY <1>4
  <2> QED BY <2>2, <2>5, <2>6, <2>7
<1>7. KeyInv'
  BY <1>3 DEF CodeInv, KeyInv
<1> QED BY <1>5, <1>6, <1>7 DEF CodeInv

\* Steps that touch neither a buffer in use nor the batches' content.
LEMMA CodeQuietSteps ==
    ASSUME BInv, CodeInv, NEW t \in Threads,
           \/ \E b \in Buffers : Drop(t, b)
           \/ \E s \in Sessions : RealSend(t, s) \/ SendDone(t, s) \/ Reset(t, s)
           \/ ProcessBuffer(t) \/ SendPost(t) \/ PostSendEnd(t) \/ ResetEnd(t) \/ ReleaseEnd(t) \/ Free(t)
    PROVE  CodeInv'
<1>1. /\ pc \in [Threads -> Pcs] /\ at \in [Threads -> Sessions \cup {NoOne}]
      /\ got \in [Threads -> Buffers \cup {None}] /\ todo \in [Threads -> Seq(Buffers)]
      /\ batch \in [Sessions -> Seq(Buffers)]
  BY DEF BInv, CallsInv, BufferType
<1>2. Others(t)
  BY <1>1 DEF Others, Goto, Drop, RealSend, SendDone, Reset, ProcessBuffer, SendPost, PostSendEnd, ResetEnd, ReleaseEnd, Free
<1>3. UNCHANGED <<ref, bytes, form, isEncrypt, key, message>>
  BY DEF Drop, RealSend, SendDone, Reset, ProcessBuffer, SendPost, PostSendEnd, ResetEnd, ReleaseEnd, Free, bufferVars, fixed
<1>4. pc[t] \notin Coding
  BY DEF Coding, Releasing, Drop, RealSend, SendDone, Reset, ProcessBuffer, SendPost, PostSendEnd, ResetEnd, ReleaseEnd, Free
<1>5. pc'[t] \notin Coding
  <2>1. \A l : Goto(t, l) => pc'[t] = l
    BY <1>1 DEF Goto
  <2> QED BY <1>4, <2>1 DEF Coding, Drop, RealSend, SendDone, Reset, ProcessBuffer, SendPost, PostSendEnd, ResetEnd,
                            ReleaseEnd, Free
<1>6. \A s \in Sessions : batch'[s] = batch[s] \/ batch'[s] = <<>>
  BY <1>1 DEF Drop, RealSend, SendDone, Reset, ProcessBuffer, SendPost, PostSendEnd, ResetEnd, ReleaseEnd, Free, sessionVars
<1>7. pc[t] = "postSend" => (pc'[t] = pc[t] /\ at'[t] = at[t]) \/ batch'[at[t]] = <<>>
  <2>1. pc[t] = "postSend" => at[t] \in Sessions
    BY DEF BInv, CallsInv, CallInv, Sending
  <2>2. pc[t] = "postSend" => Free(t) \/ PostSendEnd(t)
    BY DEF Drop, RealSend, SendDone, Reset, ProcessBuffer, SendPost, ResetEnd, ReleaseEnd
  <2> QED BY <1>1, <2>1, <2>2 DEF Free, PostSendEnd
<1>8. \A s \in Sessions : Unreleased(s)' = Unreleased(s) \/ Unreleased(s)' = <<>>
  BY <1>2, <1>6, <1>7, OutShrinks
<1> QED BY <1>2, <1>3, <1>4, <1>5, <1>8, CodeQuiet

\* One reference more or fewer.
LEMMA CodeRefSteps ==
    ASSUME BInv, BInv', CodeInv, NEW t \in Threads,
           \/ Release(t)
           \/ /\ t \in Contents
              /\ \E b \in Buffers : (\E u \in Contents : Copy(t, u, b)) \/ (\E s \in Sessions : SendPacket(t, s, b))
    PROVE  CodeInv'
<1>1. CallsInv /\ CallsInv' /\ RefInv
  BY DEF BInv
<1>2. Others(t)
  BY <1>1 DEF Others, Goto, Release, Copy, SendPacket, CallsInv, BufferType, localVars
<1>3. UNCHANGED <<bytes, form, isEncrypt, key, message, batch>>
  BY DEF Release, Copy, SendPacket, bufferVars, fixed, sessionVars
<1>4. \A b \in Buffers : ref'[b] > 0 => ref[b] > 0
  <2>1. ref \in [Buffers -> Int]
    BY <1>1 DEF CallsInv, BufferType
  <2>2. CASE Release(t)
    <3>1. Head(todo[t]) \in Buffers
      BY <1>1, <2>2, RefRelease
    <3>2. ref' = [ref EXCEPT ![Head(todo[t])] = @ - 1]
      BY <2>2 DEF Release
    <3> QED BY <2>1, <3>1, <3>2
  <2>3. ASSUME t \in Contents, NEW b \in Buffers,
               (\E u \in Contents : Copy(t, u, b)) \/ (\E s \in Sessions : SendPacket(t, s, b))
        PROVE  \A c \in Buffers : ref'[c] > 0 => ref[c] > 0
    <3>1. held[t][b] > 0 /\ ref' = [ref EXCEPT ![b] = @ + 1]
      BY <2>3 DEF Copy, SendPacket
    <3>2. held[t][b] <= ref[b] /\ held[t][b] \in 0..MaxHandle /\ ref[b] \in Nat /\ MaxHandle \in Nat
      BY <1>1, <2>3, InUse, BufferAssumption
    <3>3. ref[b] > 0
      BY <3>1, <3>2
    <3> QED BY <2>1, <3>1, <3>3
  <2> QED BY <2>2, <2>3
<1>5. pc[t] \notin Coding /\ pc'[t] \notin Coding
  <2>1. pc[t] \notin Coding
    BY DEF Coding, Releasing, Release, Copy, SendPacket
  <2>2. \A l : Goto(t, l) => pc'[t] = l
    BY <1>1 DEF CallsInv, BufferType, Goto
  <2>3. pc'[t] = pc[t] \/ pc'[t] = "process"
    BY <2>2 DEF Release, Copy, SendPacket, localVars
  <2> QED BY <2>1, <2>3 DEF Coding
<1>6. pc[t] = "postSend" => pc'[t] = pc[t] /\ at'[t] = at[t]
  BY DEF Release, Copy, SendPacket, localVars
<1>7. \A s \in Sessions : Unreleased(s)' = Unreleased(s) \/ Unreleased(s)' = <<>>
  BY <1>2, <1>3, <1>6, OutShrinks
<1> QED BY <1>2, <1>3, <1>4, <1>5, <1>7, CodeQuiet

\* A buffer without references is cleared and written by content.
LEMMA CodeTake ==
    ASSUME BInv, CodeInv, NEW t \in Threads, NEW c, NEW n, Head(c) \in Buffers, ref[Head(c)] = 0,
           Take(t, c, n), Others(t), key' = key, message' = message, batch' = batch,
           pc[t] \notin Coding \cup {"postSend"}, pc'[t] \notin Coding
    PROVE  CodeInv'
<1> DEFINE h == Head(c)
<1>1. h \in Buffers /\ ref[h] = 0
  OBVIOUS
<1>2. /\ ref' = [ref EXCEPT ![h] = @ + 1] /\ bytes' = [bytes EXCEPT ![h] = <<0>> \o message]
      /\ form' = [form EXCEPT ![h] = "none"] /\ isEncrypt' = [isEncrypt EXCEPT ![h] = 0]
  BY DEF Take, Clear
<1> HIDE DEF h
<1>3. /\ ref \in [Buffers -> Int] /\ bytes \in [Buffers -> Seq(Chars)]
      /\ form \in [Buffers -> {"none", "lan", "net"}] /\ isEncrypt \in [Buffers -> {0, 1}]
  BY DEF BInv, CallsInv, BufferType, BytesInv
<1>4. \A b \in Buffers : ref[b] > 0 => bytes'[b] = bytes[b] /\ form'[b] = form[b] /\ isEncrypt'[b] = isEncrypt[b]
  BY <1>1, <1>2, <1>3
<1>5. \A b \in Buffers : ref[b] > 0 \/ ~(ref'[b] > 0) \/ (bytes'[b] = <<0>> \o message /\ isEncrypt'[b] = 0)
  BY <1>1, <1>2, <1>3
<1>6. \A s \in Sessions : Unreleased(s)' = Unreleased(s) \/ Unreleased(s)' = <<>>
  BY OutShrinks
<1>7. pc[t] \notin Coding
  OBVIOUS
<1> QED BY <1>4, <1>5, <1>6, <1>7, CodeQuiet

\* Alloc.
LEMMA CodeAlloc ==
    ASSUME BInv, CodeInv, NEW t \in Contents, Alloc(t) \/ AcquireMake(t)
    PROVE  CodeInv'
<1>1. CallsInv /\ PoolInv /\ BytesInv /\ RefInv /\ t \in Threads
  BY ThreadSets DEF BInv
<1>2. /\ local[t] \in Seq(Buffers) /\ count[t] = Len(local[t]) /\ buckets \in Seq(Seq(Buffers))
      /\ (\A i \in DOMAIN buckets : Len(buckets[i]) = LocalSize) /\ LocalSize \in Nat \ {0}
      /\ created \in 0..MaxBuffer /\ MaxBuffer \in Nat
  BY <1>1, BufferAssumption DEF PoolInv
<1>3. Others(t) /\ key' = key /\ message' = message /\ batch' = batch /\ at' = at
  BY <1>1 DEF Others, Alloc, AcquireMake, Goto, CallsInv, BufferType, fixed, sessionVars
<1>4. pc[t] \notin Coding \cup {"postSend"} /\ pc'[t] \notin Coding
  BY <1>1 DEF Alloc, AcquireMake, Goto, CallsInv, BufferType, Coding
<1>5. CASE count[t] # 0 /\ Take(t, local[t], count[t])
  <2> DEFINE c == local[t]
  <2>1. c # <<>> /\ Head(c) \in Buffers /\ 1 \in DOMAIN c /\ c[1] = Head(c) /\ c \in Seq(Buffers)
    BY <1>2, <1>5
  <2>2. Number(Head(c), c) > 0
    BY <2>1, NumberSome
  <2>3. ref[Head(c)] = 0
    BY <1>1, <2>1, <2>2, FreeHere
  <2> QED BY <1>1, <1>3, <1>4, <1>5, <2>1, <2>3, CodeTake
<1>6. CASE buckets # <<>> /\ Take(t, Head(buckets), LocalSize)
  <2> DEFINE c == Head(buckets)
  <2>1. c \in Seq(Buffers) /\ Len(c) = LocalSize
    BY <1>2, <1>6, BucketsPop
  <2>2. \A b : /\ Cardinality(Tally(b, Tail(buckets), DOMAIN Tail(buckets))) \in Nat
               /\ Cardinality(Tally(b, buckets, DOMAIN buckets))
                    = Cardinality(Tally(b, Tail(buckets), DOMAIN Tail(buckets))) + Number(b, c)
    BY <1>2, <1>6, BucketsPop
  <2>3. Take(t, c, LocalSize)
    BY <1>6
  <2> HIDE DEF c
  <2>4. c # <<>> /\ Head(c) \in Buffers /\ 1 \in DOMAIN c /\ c[1] = Head(c)
    BY <1>2, <2>1
  <2>5. Number(Head(c), c) > 0 /\ Number(Head(c), c) \in Nat
    BY <2>1, <2>4, NumberSome, SpotsFinite
  <2>6. InBuckets(Head(c)) > 0
    <3>1. Cardinality(Tally(Head(c), buckets, DOMAIN buckets)) > 0
      BY <2>2, <2>5
    <3> QED BY <3>1, CountsAre
  <2>7. ref[Head(c)] = 0
    BY <1>1, <2>4, <2>6, FreeHere
  <2> QED BY <1>1, <1>3, <1>4, <2>3, <2>4, <2>7, CodeTake
<1>7. CASE AcquireMake(t)
  <2>1. Take(t, MakeControl(created + LocalSize), LocalSize) /\ created + 2 * LocalSize <= MaxBuffer
    BY <1>7 DEF AcquireMake
  <2>2. created + LocalSize \in Nat /\ created + LocalSize + 1 \in Buffers /\ created + LocalSize + 1 > created
    BY <1>2, <2>1 DEF Buffers
  <2>3. Head(MakeControl(created + LocalSize)) = created + LocalSize + 1
    BY <2>2, Fresh
  <2> DEFINE c == MakeControl(created + LocalSize)
  <2> HIDE DEF c
  <2>4. Head(c) \in Buffers /\ ref[Head(c)] = 0 /\ Take(t, c, LocalSize)
    BY <1>1, <2>1, <2>2, <2>3, FreeHere DEF c
  <2> QED BY <1>1, <1>3, <1>4, <2>4, CodeTake
<1>8. CASE UNCHANGED <<ref, bytes, form, isEncrypt>>
  <2>1. \A s \in Sessions : Unreleased(s)' = Unreleased(s) \/ Unreleased(s)' = <<>>
    BY <1>1, <1>3, <1>4, OutShrinks
  <2> QED BY <1>1, <1>3, <1>4, <1>8, <2>1, CodeQuiet
<1> QED BY <1>5, <1>6, <1>7, <1>8 DEF Alloc

\* What a session still has to release does not change with TryEncode.
LEMMA CodingOut ==
    ASSUME CallsInv, NEW t \in Threads, TryEncode(t)
    PROVE  /\ Others(t) /\ pc[t] \in Coding /\ pc' = [pc EXCEPT ![t] = pc'[t]]
           /\ UNCHANGED <<ref, key, message, batch, at, got>>
           /\ \A s \in Sessions : Unreleased(s)' = Unreleased(s)
<1>1. pc \in [Threads -> Pcs]
  BY DEF CallsInv, BufferType
<1>2. pc[t] \in Coding /\ UNCHANGED <<ref, key, message, batch, at, got, todo>>
  BY DEF TryEncode, EncodeCheck, EncodeLock, EncodeWrite, EncodeMark, Coding, fixed, sessionVars
<1>3. \E l : Goto(t, l) /\ l # "postSend"
  BY DEF TryEncode, EncodeCheck, EncodeLock, EncodeWrite, EncodeMark
<1>4. pc' = [pc EXCEPT ![t] = pc'[t]] /\ pc'[t] # "postSend"
  BY <1>1, <1>3 DEF Goto
<1>5. Others(t)
  BY <1>1, <1>2, <1>4 DEF Others
<1>6. \A u \in Threads : pc'[u] = "postSend" <=> pc[u] = "postSend"
  BY <1>1, <1>2, <1>4 DEF Coding
<1>7. \A s \in Sessions : Unreleased(s)' = Unreleased(s)
  BY <1>2, <1>6 DEF Unreleased
<1> QED BY <1>2, <1>4, <1>5, <1>7

\* TryEncode's looks at isEncrypt: it goes on, or the buffer is encoded.
LEMMA CodeLook ==
    ASSUME BInv, CodeInv, NEW t \in Threads, EncodeCheck(t) \/ EncodeLock(t)
    PROVE  CodeInv'
<1>1. CallsInv /\ RefInv
  BY DEF BInv
<1>2. /\ Others(t) /\ pc[t] \in Coding /\ pc' = [pc EXCEPT ![t] = pc'[t]]
      /\ UNCHANGED <<ref, key, message, batch, at, got>>
      /\ \A s \in Sessions : Unreleased(s)' = Unreleased(s)
  BY <1>1, CodingOut DEF TryEncode
<1>3. pc \in [Threads -> Pcs] /\ isEncrypt \in [Buffers -> {0, 1}] /\ got[t] \in Buffers
  BY <1>1, <1>2, CodingInUse DEF CallsInv, BufferType
<1>4. UNCHANGED <<bytes, form, isEncrypt>>
  BY DEF EncodeCheck, EncodeLock, bufferVars
<1>5. pc[t] # "mark" /\ pc'[t] # "mark" /\ (pc'[t] \in Coding \/ isEncrypt[got[t]] = 1)
  <2>1. \A l : Goto(t, l) => pc'[t] = l
    BY <1>3 DEF Goto
  <2>2. pc[t] # "mark"
    BY DEF EncodeCheck, EncodeLock
  <2>3. isEncrypt[got[t]] = 0 \/ isEncrypt[got[t]] = 1
    BY <1>3
  <2>4. (pc'[t] \in {"lock", "encode"}) \/ (pc'[t] = "fill" /\ isEncrypt[got[t]] # 0)
    BY <2>1 DEF EncodeCheck, EncodeLock
  <2> QED BY <2>2, <2>3, <2>4 DEF Coding
<1>6. \A u \in Threads : pc'[u] = "mark" <=> pc[u] = "mark"
  BY <1>2, <1>3, <1>5
<1>7. BodyInv'
  <2>1. \A b : Coded(b)' <=> Coded(b)
    BY <1>2, <1>4, <1>6 DEF Coded
  <2> QED BY <1>2, <1>4, <2>1 DEF CodeInv, BodyInv
<1>8. BatchInv'
  <2> SUFFICES ASSUME NEW s \in Sessions, NEW i \in DOMAIN Unreleased(s)'
               PROVE  IF key'[s] = 0 THEN form'[Unreleased(s)'[i]] = "lan"
                      ELSE isEncrypt'[Unreleased(s)'[i]] = 1
                            \/ \E u \in Threads : pc'[u] \in Coding /\ at'[u] = s /\ got'[u] = Unreleased(s)'[i]
    BY DEF BatchInv
  <2> DEFINE b == Unreleased(s)[i]
  <2>1. i \in DOMAIN Unreleased(s) /\ Unreleased(s)'[i] = b
    BY <1>2
  <2>2. IF key[s] = 0 THEN form[b] = "lan"
        ELSE isEncrypt[b] = 1 \/ \E u \in Threads : pc[u] \in Coding /\ at[u] = s /\ got[u] = b
    BY <2>1 DEF CodeInv, BatchInv
  <2> HIDE DEF b
  <2>3. ASSUME NEW u \in Threads, pc[u] \in Coding, at[u] = s, got[u] = b
        PROVE  isEncrypt[b] = 1 \/ \E v \in Threads : pc'[v] \in Coding /\ at'[v] = s /\ got'[v] = b
    <3>1. CASE u = t
      BY <1>2, <1>5, <2>3, <3>1
    <3>2. CASE u # t
      <4>1. pc'[u] = pc[u]
        BY <1>2, <3>2 DEF Others
      <4> QED BY <1>2, <2>3, <4>1
    <3> QED BY <3>1, <3>2
  <2> QED BY <1>2, <1>4, <2>1, <2>2, <2>3
<1>9. KeyInv'
  BY <1>2, <1>3 DEF CodeInv, KeyInv
<1> QED BY <1>7, <1>8, <1>9 DEF CodeInv

\* All keys of a behaviour are the same.
LEMMA SameKey ==
    ASSUME OneKey, CallsInv, CodeInv, NEW t \in Threads, pc[t] \in Coding
    PROVE  /\ at[t] \in Sessions /\ key[at[t]] # 0 /\ key[at[t]] \in Nat
           /\ \A s \in Sessions : key[s] = key[at[t]]
<1>1. at[t] \in Sessions /\ key[at[t]] # 0
  BY DEF CallsInv, CallInv, Coding, Sending, CodeInv, KeyInv
<1>2. key \in KeyMaps
  BY DEF CallsInv, BufferType
<1>3. key \in [Sessions -> Chars]
  BY <1>2, BufferAssumption
<1>4. key[at[t]] \in Nat
  BY <1>1, <1>3, Halves DEF Chars
<1> QED BY <1>1, <1>2, <1>4 DEF OneKey

\* The lock: one thread encodes a buffer, and it finds what content wrote.
LEMMA CodeWrite ==
    ASSUME OneKey, BInv, CodeInv, NEW t \in Threads, EncodeWrite(t)
    PROVE  CodeInv'
<1>1. CallsInv /\ RefInv /\ BytesInv
  BY DEF BInv
<1>2. /\ Others(t) /\ pc[t] \in Coding /\ pc' = [pc EXCEPT ![t] = pc'[t]]
      /\ UNCHANGED <<ref, key, message, batch, at, got>>
      /\ \A s \in Sessions : Unreleased(s)' = Unreleased(s)
  BY <1>1, CodingOut DEF TryEncode
<1>3. /\ pc \in [Threads -> Pcs] /\ isEncrypt \in [Buffers -> {0, 1}]
      /\ got[t] \in Buffers /\ ref[got[t]] > 0
      /\ bytes \in [Buffers -> Seq(Chars)] /\ form \in [Buffers -> {"none", "lan", "net"}]
      /\ message \in Seq(Chars)
  BY <1>1, <1>2, CodingInUse, BufferAssumption DEF CallsInv, BufferType, BytesInv
<1>4. at[t] \in Sessions /\ key[at[t]] # 0 /\ \A s \in Sessions : key[s] = key[at[t]]
  BY <1>1, <1>2, SameKey
<1> DEFINE b == got[t]
           k == key[at[t]]
<1>5. /\ pc[t] = "encode" /\ isEncrypt' = isEncrypt /\ form' = [form EXCEPT ![b] = "net"]
      /\ bytes' = [bytes EXCEPT ![b] = Encode(WriteNetHeader(Tail(bytes[b])), k)]
  BY DEF EncodeWrite
<1>6. pc'[t] = "mark"
  BY <1>3 DEF EncodeWrite, Goto
<1>7. ~Coded(b)
  <2>1. isEncrypt[b] = 0 /\ lock[b] = t
    BY <1>1, <1>5 DEF CallsInv, LockInv
  <2>2. \A u \in Threads : pc[u] = "mark" /\ got[u] = b => u = t
    BY <1>1, <2>1 DEF CallsInv, LockInv
  <2> QED BY <1>5, <2>1, <2>2 DEF Coded
<1>8. Tail(bytes[b]) = message
  <2>1. bytes[b] = <<0>> \o message
    BY <1>3, <1>7 DEF CodeInv, BodyInv
  <2>2. Tail(<<0>> \o message) = message
    BY <1>3
  <2> QED BY <2>1, <2>2
<1>9. bytes'[b] = Encode(WriteNetHeader(message), k) /\ form'[b] = "net"
  BY <1>3, <1>5, <1>8
<1>10. \A c \in Buffers : c # b => bytes'[c] = bytes[c] /\ form'[c] = form[c]
  BY <1>3, <1>5
<1>11. BodyInv'
  <2> SUFFICES ASSUME NEW c \in Buffers, ref'[c] > 0
               PROVE  IF Coded(c)' THEN form'[c] = "net" /\ \A s \in Sessions :
                            key'[s] # 0 /\ bytes'[c] = Encode(WriteNetHeader(message'), key'[s])
                      ELSE bytes'[c] = <<0>> \o message'
    BY DEF BodyInv
  <2>1. CASE c = b
    <3>1. Coded(c)'
      BY <1>2, <1>6, <2>1 DEF Coded
    <3> QED BY <1>2, <1>4, <1>9, <2>1, <3>1
  <2>2. CASE c # b
    <3>1. Coded(c)' <=> Coded(c)
      <4>1. \A u \in Threads : got[u] = c => pc'[u] = pc[u]
        BY <1>2, <2>2 DEF Others
      <4> QED BY <1>2, <1>5, <4>1 DEF Coded
    <3>2. IF Coded(c) THEN form[c] = "net" /\ \A s \in Sessions :
                            key[s] # 0 /\ bytes[c] = Encode(WriteNetHeader(message), key[s])
          ELSE bytes[c] = <<0>> \o message
      BY <1>2 DEF CodeInv, BodyInv
    <3> QED BY <1>2, <1>10, <2>2, <3>1, <3>2
  <2> QED BY <2>1, <2>2
<1>12. \A u \in Threads : pc'[u] \in Coding <=> pc[u] \in Coding
  BY <1>2, <1>3, <1>6 DEF Coding
<1>13. BatchInv'
  BY <1>2, <1>4, <1>5, <1>12 DEF CodeInv, BatchInv
<1>14. KeyInv'
  BY <1>2, <1>12 DEF CodeInv, KeyInv
<1> QED BY <1>11, <1>13, <1>14 DEF CodeInv

\* isEncrypt tells the other senders what the lock's holder wrote.
LEMMA CodeMark ==
    ASSUME BInv, CodeInv, NEW t \in Threads, EncodeMark(t)
    PROVE  CodeInv'
<1>1. CallsInv /\ RefInv
  BY DEF BInv
<1>2. /\ Others(t) /\ pc[t] \in Coding /\ pc' = [pc EXCEPT ![t] = pc'[t]]
      /\ UNCHANGED <<ref, key, message, batch, at, got>>
      /\ \A s \in Sessions : Unreleased(s)' = Unreleased(s)
  BY <1>1, CodingOut DEF TryEncode
<1>3. pc \in [Threads -> Pcs] /\ isEncrypt \in [Buffers -> {0, 1}] /\ got[t] \in Buffers
  BY <1>1, <1>2, CodingInUse DEF CallsInv, BufferType
<1> DEFINE b == got[t]
<1>4. pc[t] = "mark" /\ UNCHANGED <<bytes, form>> /\ isEncrypt' = [isEncrypt EXCEPT ![b] = @ + 1]
  BY DEF EncodeMark
<1>5. pc'[t] = "fill"
  BY <1>3 DEF EncodeMark, Goto
<1>6. isEncrypt[b] = 0
  BY <1>1, <1>4 DEF CallsInv, LockInv
<1>7. isEncrypt'[b] = 1 /\ \A c \in Buffers : c # b => isEncrypt'[c] = isEncrypt[c]
  BY <1>3, <1>4, <1>6
<1>8. \A c \in Buffers : Coded(c)' <=> Coded(c)
  <2>1. ASSUME NEW c \in Buffers, c = b PROVE Coded(c)' <=> Coded(c)
    <3>1. isEncrypt'[c] = 1 /\ got[t] = c
      BY <1>7, <2>1
    <3> QED BY <1>4, <3>1 DEF Coded
  <2>2. ASSUME NEW c \in Buffers, c # b PROVE Coded(c)' <=> Coded(c)
    <3>1. \A u \in Threads : got[u] = c => pc'[u] = pc[u]
      BY <1>2, <2>2 DEF Others
    <3> QED BY <1>2, <1>7, <2>2, <3>1 DEF Coded
  <2> QED BY <2>1, <2>2
<1>9. BodyInv'
  BY <1>2, <1>4, <1>8 DEF CodeInv, BodyInv
<1>10. BatchInv'
  <2> SUFFICES ASSUME NEW s \in Sessions, NEW i \in DOMAIN Unreleased(s)'
               PROVE  IF key'[s] = 0 THEN form'[Unreleased(s)'[i]] = "lan"
                      ELSE isEncrypt'[Unreleased(s)'[i]] = 1
                            \/ \E u \in Threads : pc'[u] \in Coding /\ at'[u] = s /\ got'[u] = Unreleased(s)'[i]
    BY DEF BatchInv
  <2> DEFINE c == Unreleased(s)[i]
  <2>1. i \in DOMAIN Unreleased(s) /\ Unreleased(s)'[i] = c
    BY <1>2
  <2>2. IF key[s] = 0 THEN form[c] = "lan"
        ELSE isEncrypt[c] = 1 \/ \E u \in Threads : pc[u] \in Coding /\ at[u] = s /\ got[u] = c
    BY <2>1 DEF CodeInv, BatchInv
  <2>3. c \in Buffers
    <3>1. Unreleased(s) \in Seq(Buffers)
      BY <1>1, OutType
    <3> QED BY <2>1, <3>1
  <2> HIDE DEF c
  <2>4. CASE c = b
    BY <1>2, <1>4, <1>7, <2>1, <2>2, <2>4
  <2>5. CASE c # b
    <3>1. \A u \in Threads : got[u] = c => pc'[u] = pc[u]
      BY <1>2, <2>5 DEF Others
    <3> QED BY <1>2, <1>4, <1>7, <2>1, <2>2, <2>3, <2>5, <3>1
  <2> QED BY <2>4, <2>5
<1>11. KeyInv'
  <2>1. \A u \in Threads : pc'[u] \in Coding => pc[u] \in Coding
    BY <1>2, <1>3
  <2> QED BY <1>2, <2>1 DEF CodeInv, KeyInv
<1> QED BY <1>9, <1>10, <1>11 DEF CodeInv

\* RealSend dequeues a packet: WriteLanHeader, or on to TryEncode.
LEMMA CodeFill ==
    ASSUME OneKey, BInv, BInv', CodeInv, NEW t \in Threads, Fill(t)
    PROVE  CodeInv'
<1>1. CallsInv /\ RefInv /\ CallsInv'
  BY DEF BInv
<1>2. PICK s \in Sessions : s = at[t]
  BY <1>1 DEF Fill, CallsInv, CallInv, Sending
<1> DEFINE b == Head(sendQ[s])
           a == batch[s]
<1>3. /\ pc[t] = "fill" /\ pc'[t] \in {"fill", "check"} /\ UNCHANGED <<ref, bytes, isEncrypt, key, message, at>>
      /\ sendQ[s] # <<>> /\ sendQ[s] \in Seq(Buffers) /\ a \in Seq(Buffers)
      /\ batch \in [Sessions -> Seq(Buffers)] /\ pc \in [Threads -> Pcs] /\ got \in [Threads -> Buffers \cup {None}]
      /\ form \in [Buffers -> {"none", "lan", "net"}]
  BY <1>1, <1>2 DEF Fill, Goto, CallsInv, BufferType, fixed
<1>4. Others(t)
  BY <1>1 DEF CallsInv, BufferType, Others, Fill, Goto
<1>5. batch' = [batch EXCEPT ![s] = Append(a, b)]
  BY <1>2 DEF Fill
<1>6. b \in Buffers /\ ref[b] > 0
  <2>1. b \in Buffers /\ 1 \in DOMAIN sendQ[s] /\ sendQ[s][1] = b
    BY <1>3
  <2> QED BY <1>1, <2>1, InUse
<1>7. ASSUME NEW u \in Threads, pc[u] = "postSend" \/ pc'[u] = "postSend" PROVE at[u] # s /\ pc'[u] = pc[u]
  <2>1. u # t /\ pc[u] = "postSend" /\ pc'[u] = pc[u]
    BY <1>3, <1>4, <1>7 DEF Others
  <2>2. pc[t] \in Sending /\ pc[u] \in Sending
    BY <1>3, <2>1 DEF Sending
  <2> QED BY <1>1, <1>2, <2>1, <2>2 DEF CallsInv, SenderInv
<1>8. Unreleased(s) = a /\ Unreleased(s)' = Append(a, b)
  <2>1. Unreleased(s) = a
    BY <1>7 DEF Unreleased
  <2>2. Unreleased(s)' = batch'[s]
    BY <1>3, <1>7 DEF Unreleased
  <2> QED BY <1>3, <1>5, <2>1, <2>2
<1>9. \A r \in Sessions \ {s} : Unreleased(r)' = Unreleased(r)
  <2>1. ASSUME NEW r \in Sessions \ {s} PROVE Unreleased(r)' = Unreleased(r)
    <3>1. batch'[r] = batch[r]
      BY <1>3, <1>5
    <3>2. \A u \in Threads : pc'[u] = "postSend" <=> pc[u] = "postSend"
      BY <1>7
    <3> QED BY <1>3, <3>1, <3>2 DEF Unreleased
  <2> QED BY <2>1
<1>10. \/ key[s] = 0 /\ form' = [form EXCEPT ![b] = "lan"] /\ pc' = pc /\ got' = got
       \/ key[s] # 0 /\ form' = form /\ pc'[t] = "check" /\ got'[t] = b
  <2>1. \A l : Goto(t, l) => pc'[t] = l
    BY <1>3 DEF Goto
  <2>2. \A g : got' = [got EXCEPT ![t] = g] => got'[t] = g
    BY <1>3
  <2> QED BY <1>2, <2>1, <2>2 DEF Fill
<1>11. ~(pc[t] \in Coding) /\ pc[t] # "mark" /\ pc'[t] # "mark"
  BY <1>3 DEF Coding
<1>12. \A u \in Threads : pc[u] \in Coding => u # t /\ pc'[u] = pc[u] /\ got'[u] = got[u]
  BY <1>4, <1>11 DEF Others
<1>13. \A c : Coded(c)' <=> Coded(c)
  <2>1. \A u \in Threads : pc[u] = "mark" \/ pc'[u] = "mark" => pc'[u] = pc[u] /\ got'[u] = got[u]
    BY <1>4, <1>11 DEF Others
  <2> QED BY <1>3, <2>1 DEF Coded
<1>14. key \in KeyMaps /\ \A r, u \in Sessions : key[r] = key[u]
  BY <1>1 DEF CallsInv, BufferType, OneKey
<1> HIDE DEF a, b
<1>15. BodyInv'
  <2> SUFFICES ASSUME NEW c \in Buffers, ref'[c] > 0
               PROVE  IF Coded(c)' THEN form'[c] = "net" /\ \A r \in Sessions :
                            key'[r] # 0 /\ bytes'[c] = Encode(WriteNetHeader(message'), key'[r])
                      ELSE bytes'[c] = <<0>> \o message'
    BY DEF BodyInv
  <2>1. IF Coded(c) THEN form[c] = "net" /\ \A r \in Sessions :
                            key[r] # 0 /\ bytes[c] = Encode(WriteNetHeader(message), key[r])
        ELSE bytes[c] = <<0>> \o message
    BY <1>3 DEF CodeInv, BodyInv
  <2>2. Coded(c) => form'[c] = form[c]
    BY <1>10, <2>1
  <2> QED BY <1>3, <1>13, <2>1, <2>2
<1>16. BatchInv'
  <2> SUFFICES ASSUME NEW r \in Sessions, NEW i \in DOMAIN Unreleased(r)'
               PROVE  IF key'[r] = 0 THEN form'[Unreleased(r)'[i]] = "lan"
                      ELSE isEncrypt'[Unreleased(r)'[i]] = 1
                            \/ \E u \in Threads : pc'[u] \in Coding /\ at'[u] = r /\ got'[u] = Unreleased(r)'[i]
    BY DEF BatchInv
  <2> DEFINE c == Unreleased(r)'[i]
  <2>1. CASE r = s /\ i = Len(a) + 1
    <3>1. c = b
      BY <1>3, <1>8, <2>1 DEF a
    <3>2. key[s] = 0 => form'[b] = "lan"
      BY <1>3, <1>6, <1>10
    <3>3. key[s] # 0 => pc'[t] \in Coding /\ at'[t] = s /\ got'[t] = b
      BY <1>2, <1>3, <1>10 DEF Coding
    <3> QED BY <1>3, <2>1, <3>1, <3>2, <3>3
  <2>2. CASE ~(r = s /\ i = Len(a) + 1)
    <3>1. i \in DOMAIN Unreleased(r) /\ c = Unreleased(r)[i]
      <4>1. CASE r = s
        <5>1. \A z : i \in DOMAIN Append(a, z) /\ i # Len(a) + 1 => i \in DOMAIN a /\ Append(a, z)[i] = a[i]
          BY <1>3 DEF a
        <5> QED BY <1>8, <2>2, <4>1, <5>1
      <4>2. CASE r # s
        BY <1>9, <4>2
      <4> QED BY <4>1, <4>2
    <3>2. IF key[r] = 0 THEN form[c] = "lan"
          ELSE isEncrypt[c] = 1 \/ \E u \in Threads : pc[u] \in Coding /\ at[u] = r /\ got[u] = c
      BY <3>1 DEF CodeInv, BatchInv
    <3>3. c \in Buffers
      <4>1. Unreleased(r) \in Seq(Buffers)
        BY <1>1, OutType
      <4> QED BY <3>1, <4>1
    <3> HIDE DEF c
    <3>4. key[r] = 0 => form'[c] = "lan"
      BY <1>3, <1>6, <1>10, <3>2, <3>3
    <3>5. (\E u \in Threads : pc[u] \in Coding /\ at[u] = r /\ got[u] = c)
             => \E u \in Threads : pc'[u] \in Coding /\ at'[u] = r /\ got'[u] = c
      BY <1>3, <1>12
    <3> QED BY <1>3, <3>2, <3>4, <3>5 DEF c
  <2> QED BY <2>1, <2>2
<1>17. KeyInv'
  <2>1. ASSUME NEW u \in Threads, pc'[u] \in Coding PROVE key[at[u]] # 0
    <3>1. CASE u = t
      BY <1>2, <1>3, <1>10, <1>11, <2>1, <3>1
    <3>2. CASE u # t
      BY <1>4, <2>1, <3>2 DEF Others, CodeInv, KeyInv
    <3> QED BY <3>1, <3>2
  <2> QED BY <1>3, <2>1 DEF KeyInv
<1> QED BY <1>15, <1>16, <1>17 DEF CodeInv

\* Nothing is encoded at first.
LEMMA CodeInit == Init => CodeInv
<1> SUFFICES ASSUME Init PROVE CodeInv
  OBVIOUS
<1>1. BodyInv
  BY DEF Init, BodyInv
<1>2. BatchInv
  BY DEF Init, BatchInv, Unreleased
<1>3. KeyInv
  BY DEF Init, KeyInv, Coding
<1> QED BY <1>1, <1>2, <1>3 DEF CodeInv

\* Each step keeps what is in the buffers.
LEMMA CodeStep == OneKey /\ BInv /\ BInv' /\ CodeInv /\ [Next]_vars => CodeInv'
<1> SUFFICES ASSUME OneKey, BInv, BInv', CodeInv, [Next]_vars PROVE CodeInv'
  OBVIOUS
<1>1. ASSUME NEW t \in Contents, Content(t) PROVE CodeInv'
  <2>1. t \in Threads
    BY ThreadSets
  <2>2. CASE Alloc(t) \/ AcquireMake(t)
    BY <2>2, CodeAlloc
  <2>3. CASE \E b \in Buffers : (\E u \in Contents : Copy(t, u, b)) \/ (\E s \in Sessions : SendPacket(t, s, b))
    BY <1>1, <2>1, <2>3, CodeRefSteps
  <2>4. CASE ProcessBuffer(t) \/ \E b \in Buffers : Drop(t, b)
    BY <2>1, <2>4, CodeQuietSteps
  <2> QED BY <1>1, <2>2, <2>3, <2>4 DEF Content
<1>2. ASSUME NEW t \in Threads, Worker(t) PROVE CodeInv'
  <2>1. CASE \/ \E s \in Sessions : RealSend(t, s) \/ SendDone(t, s) \/ Reset(t, s)
             \/ SendPost(t) \/ PostSendEnd(t) \/ ResetEnd(t) \/ ReleaseEnd(t) \/ Free(t)
    BY <1>2, <2>1, CodeQuietSteps
  <2>2. CASE Fill(t)
    BY <1>2, <2>2, CodeFill
  <2>3. CASE TryEncode(t)
    BY <1>2, <2>3, CodeLook, CodeWrite, CodeMark DEF TryEncode
  <2>4. CASE Release(t)
    BY <1>2, <2>4, CodeRefSteps
  <2> QED BY <1>2, <2>1, <2>2, <2>3, <2>4 DEF Worker
<1>3. CASE (\E s \in Sessions : Close(s)) \/ UNCHANGED vars
  <2>1. UNCHANGED <<ref, bytes, form, isEncrypt, key, message, batch, pc, at, got>>
    BY <1>3 DEF Close, vars, bufferVars, sessionVars, fixed, localVars
  <2>2. BodyInv'
    BY <2>1 DEF CodeInv, BodyInv, Coded
  <2>3. \A s \in Sessions : Unreleased(s)' = Unreleased(s)
    BY <2>1 DEF Unreleased
  <2>4. BatchInv'
    BY <2>1, <2>3 DEF CodeInv, BatchInv
  <2>5. KeyInv'
    BY <2>1 DEF CodeInv, KeyInv
  <2> QED BY <2>2, <2>4, <2>5 DEF CodeInv
<1> QED BY <1>1, <1>2, <1>3 DEF Next

\* With one key for all sessions, a buffer in use is as content wrote it until
\* TryEncode's lock holder encodes it, once, and what a session is about to send
\* is encoded or about to be: the second look under the lock, and isEncrypt set
\* before the unlock, keep a second sender from encoding it again.
THEOREM CodeInvariance == OneKey => (Spec => [](BInv /\ CodeInv))
<1>1. BInv /\ [Next]_vars => BInv'
  BY BufferStep
<1>2. OneKey /\ BInv /\ CodeInv /\ [Next]_vars => CodeInv'
  BY <1>1, CodeStep
<1> SUFFICES ASSUME OneKey PROVE Spec => [](BInv /\ CodeInv)
  OBVIOUS
<1>3. BInv /\ CodeInv /\ [Next]_vars => BInv' /\ CodeInv'
  BY <1>1, <1>2
<1> QED BY <1>3, BufferInit, CodeInit, PTL DEF Spec

\* With one key for all sessions, a peer with that key decodes the message and
\* finds its checksum right in every outstanding WSASend, also for a buffer that
\* RealSend of other sessions sends and TryEncode of other threads looks at.
THEOREM SendsReadable == OneKey => (Spec => []WireReadable)
<1>1. BInv /\ CodeInv => WireReadable
  <2> SUFFICES ASSUME BInv, CodeInv, NEW s \in Sessions, flight[s], NEW i \in DOMAIN batch[s]
               PROVE  IF key[s] = 0 THEN form[batch[s][i]] = "lan" /\ Tail(bytes[batch[s][i]]) = message
                      ELSE LET x == Decode(bytes[batch[s][i]], key[s]) IN
                           form[batch[s][i]] = "net" /\ ChecksumValid(x) /\ Tail(x) = message
    BY DEF WireReadable
  <2> DEFINE b == batch[s][i]
  <2>1. CallsInv /\ RefInv
    BY DEF BInv
  <2>2. \A t \in Threads : pc[t] \in Sending => at[t] # s
    BY <2>1 DEF CallsInv, SenderInv
  <2>3. Unreleased(s) = batch[s]
    BY <2>2 DEF Unreleased, Sending
  <2>4. b \in Buffers
    <3>1. batch[s] \in Seq(Buffers)
      BY <2>1 DEF CallsInv, BufferType
    <3> QED BY <3>1
  <2>5. ref[b] > 0
    BY <2>1, <2>3, <2>4, InUse
  <2>6. IF key[s] = 0 THEN form[b] = "lan" ELSE isEncrypt[b] = 1
    <3>1. IF key[s] = 0 THEN form[b] = "lan"
          ELSE isEncrypt[b] = 1 \/ \E t \in Threads : pc[t] \in Coding /\ at[t] = s /\ got[t] = b
      BY <2>3 DEF CodeInv, BatchInv
    <3> QED BY <2>2, <3>1 DEF Sending
  <2>7. IF Coded(b) THEN form[b] = "net" /\ \A r \in Sessions :
                            key[r] # 0 /\ bytes[b] = Encode(WriteNetHeader(message), key[r])
        ELSE bytes[b] = <<0>> \o message
    BY <2>4, <2>5 DEF CodeInv, BodyInv
  <2>8. message \in Seq(Chars) /\ key \in [Sessions -> Chars]
    BY <2>1, BufferAssumption DEF CallsInv, BufferType
  <2> HIDE DEF b
  <2>9. CASE key[s] = 0
    <3>1. form[b] = "lan" /\ bytes[b] = <<0>> \o message
      BY <2>6, <2>7, <2>9
    <3>2. Tail(<<0>> \o message) = message
      BY <2>8
    <3> QED BY <2>9, <3>1, <3>2 DEF b
  <2>10. CASE key[s] # 0
    <3>1. Coded(b)
      BY <2>6, <2>10 DEF Coded
    <3>2. form[b] = "net" /\ bytes[b] = Encode(WriteNetHeader(message), key[s])
      BY <2>7, <3>1
    <3>3. key[s] \in Nat
      BY <2>8, Halves DEF Chars
    <3>4. Decode(bytes[b], key[s]) = WriteNetHeader(message)
      BY <2>8, <3>2, <3>3, DecodeUndoesEncode, HeaderValid
    <3>5. ChecksumValid(WriteNetHeader(message)) /\ Tail(WriteNetHeader(message)) = message
      BY <2>8, HeaderValid
    <3> QED BY <2>10, <3>2, <3>4, <3>5 DEF b
  <2> QED BY <2>9, <2>10
<1> QED BY <1>1, CodeInvariance, PTL
=============================================================================
