--------------------------- MODULE CandidateProofs ---------------------------
(***************************************************************************)
(* Theorems about Merkle and Candidate, for every set of transactions,     *)
(* every max_size and limit, and every body another node may be given.     *)
(*                                                                         *)
(* Of the levels of a tree only the first and the step to the next are     *)
(* used.  Trees with equal roots are compared along their left edges,      *)
(* which gives them the same height, and then level by level downwards,    *)
(* if nothing is repeated, or upwards, together with the runs of the       *)
(* padded lists.                                                           *)
(***************************************************************************)
EXTENDS Candidate, MempoolProofs, SequenceTheorems, Iteration

\* x is a list of n nodes.
IsNodes(x, n) == n \in Nat \ {0} /\ x = [i \in 1 .. n |-> x[i]]

LEMMA NodesLen ==
    ASSUME NEW x, NEW n, IsNodes(x, n)
    PROVE  Len(x) = n /\ DOMAIN x = 1 .. n /\ n \in Nat \ {0}
<1> DEFINE S == {x[i] : i \in 1 .. n}
<1>1. n \in Nat \ {0} /\ DOMAIN x = 1 .. n
  BY DEF IsNodes
<1>2. x \in [1 .. n -> S]
  BY DEF IsNodes
<1>3. x \in Seq(S)
  <2> HIDE DEF S
  <2> QED BY <1>1, <1>2
<1>4. Len(x) = n
  <2> HIDE DEF S
  <2> QED BY <1>1, <1>3, LenProperties
<1> QED BY <1>1, <1>4

\* Two lists of nodes are equal when their nodes are.
LEMMA NodesEqual ==
    ASSUME NEW x, NEW y, NEW n, IsNodes(x, n), IsNodes(y, n),
           \A i \in 1 .. n : x[i] = y[i]
    PROVE  x = y
BY DEF IsNodes

\* What one level up looks like
LEMMA NextLevelFacts ==
    ASSUME NEW x, NEW n, IsNodes(x, n)
    PROVE  /\ IsNodes(NextLevel(x), (n + 1) \div 2)
           /\ \A i \in 1 .. (n + 1) \div 2 :
                 NextLevel(x)[i] =
                     HashPair(x[2 * i - 1], IF 2 * i <= n THEN x[2 * i] ELSE x[2 * i - 1])
<1>1. Len(x) = n /\ n \in Nat \ {0}
  BY NodesLen
<1>2. (n + 1) \div 2 \in Nat \ {0}
  BY <1>1
<1> QED BY <1>1, <1>2 DEF NextLevel, IsNodes

\* The levels follow one another.
LEMMA LevelFacts ==
    ASSUME NEW nodes
    PROVE  /\ Level(nodes, 0) = nodes
           /\ \A k \in Nat : Level(nodes, k + 1) = NextLevel(Level(nodes, k))
<1> DEFINE Eq(f) == f = [i \in Nat |-> IF i = 0 THEN nodes ELSE NextLevel(f[i - 1])]
           A(f, n) == f[0] = nodes /\ \A k \in Nat : k < n => f[k + 1] = NextLevel(f[k])
           level == CHOOSE f : Eq(f)
<1>1. \A n \in Nat : \E f : A(f, n)
  <2> DEFINE N == {n \in Nat : \E f : A(f, n)}
  <2>1. 0 \in N
    <3>1. A([k \in {0} |-> nodes], 0)
      OBVIOUS
    <3> QED BY <3>1
  <2>2. ASSUME NEW n \in Nat, n \in N PROVE n + 1 \in N
    <3>1. PICK f : A(f, n)
      BY <2>2
    <3> DEFINE g == [k \in Nat |-> IF k = n + 1 THEN NextLevel(f[n]) ELSE f[k]]
    <3>2. g[0] = nodes
      BY <3>1
    <3>3. ASSUME NEW k \in Nat, k < n + 1 PROVE g[k + 1] = NextLevel(g[k])
      <4>1. CASE k = n
        BY <4>1
      <4>2. CASE k # n
        <5>1. k < n /\ g[k] = f[k] /\ g[k + 1] = f[k + 1]
          BY <3>3, <4>2
        <5> QED BY <3>1, <5>1
      <4> QED BY <4>1, <4>2
    <3>4. A(g, n + 1)
      BY <3>2, <3>3
    <3> HIDE DEF g
    <3>5. \E e : A(e, n + 1)
      BY <3>4
    <3> QED BY <3>5
  <2> HIDE DEF N
  <2>3. \A n \in Nat : n \in N
    BY <2>1, <2>2, NatBySteps
  <2> QED BY <2>3 DEF N
<1>2. ASSUME NEW f, NEW n \in Nat, A(f, n), NEW g, NEW m \in Nat, A(g, m)
      PROVE  \A k \in Nat : k <= n /\ k <= m => f[k] = g[k]
  <2> DEFINE N == {k \in Nat : k <= n /\ k <= m => f[k] = g[k]}
  <2>1. 0 \in N
    BY <1>2
  <2>2. ASSUME NEW k \in Nat, k \in N PROVE k + 1 \in N
    <3> SUFFICES ASSUME k + 1 <= n, k + 1 <= m PROVE f[k + 1] = g[k + 1]
      OBVIOUS
    <3>1. k < n /\ k < m /\ f[k] = g[k]
      BY <2>2
    <3> QED BY <1>2, <3>1
  <2> HIDE DEF N
  <2>3. \A k \in Nat : k \in N
    BY <2>1, <2>2, NatBySteps
  <2> QED BY <2>3 DEF N
<1> DEFINE h == [n \in Nat |-> CHOOSE f : A(f, n)]
           F == [n \in Nat |-> h[n][n]]
<1>3. \A n \in Nat : A(h[n], n)
  BY <1>1
<1>4. F[0] = nodes
  BY <1>3
<1>5. ASSUME NEW k \in Nat PROVE F[k + 1] = NextLevel(F[k])
  <2>1. A(h[k], k) /\ A(h[k + 1], k + 1) /\ k + 1 \in Nat /\ k < k + 1 /\ k <= k /\ k <= k + 1
    BY <1>3
  <2>2. h[k + 1][k + 1] = NextLevel(h[k + 1][k])
    BY <2>1
  <2>3. h[k + 1][k] = h[k][k]
    <3> HIDE DEF h, A
    <3> QED BY <1>2, <2>1
  <2> QED BY <2>2, <2>3
<1>6. Eq(F)
  <2> HIDE DEF F
  <2>1. ASSUME NEW i \in Nat PROVE F[i] = IF i = 0 THEN nodes ELSE NextLevel(F[i - 1])
    <3>1. CASE i = 0
      BY <1>4, <3>1
    <3>2. CASE i # 0
      <4>1. i - 1 \in Nat /\ (i - 1) + 1 = i
        BY <3>2
      <4> QED BY <1>5, <3>2, <4>1
    <3> QED BY <3>1, <3>2
  <2>2. F = [i \in Nat |-> F[i]]
    BY DEF F
  <2> QED BY <2>1, <2>2
<1>7. Eq(level)
  <2> HIDE DEF Eq, F
  <2> QED BY <1>6
<1>8. \A k : Level(nodes, k) = level[k]
  BY DEF Level
<1>9. \A i \in Nat : level[i] = IF i = 0 THEN nodes ELSE NextLevel(level[i - 1])
  <2> HIDE DEF level
  <2> QED BY <1>7
<1> HIDE DEF level
<1>10. ASSUME NEW k \in Nat PROVE level[k + 1] = NextLevel(level[k])
  <2>1. k + 1 \in Nat /\ k + 1 # 0 /\ (k + 1) - 1 = k
    OBVIOUS
  <2> QED BY <1>9, <2>1
<1> QED BY <1>8, <1>9, <1>10

\* Each level is a list of nodes, half as long as the one below.
LEMMA LevelNodes ==
    ASSUME NEW nodes, NEW n, IsNodes(nodes, n)
    PROVE  \A k \in Nat :
              /\ IsNodes(Level(nodes, k), Len(Level(nodes, k)))
              /\ Len(Level(nodes, k)) \in Nat \ {0}
              /\ Len(Level(nodes, k + 1)) = (Len(Level(nodes, k)) + 1) \div 2
<1> DEFINE L(k) == Level(nodes, k)
           N == {k \in Nat : IsNodes(L(k), Len(L(k))) /\ Len(L(k)) \in Nat \ {0}}
<1>1. /\ L(0) = nodes
      /\ \A k \in Nat : L(k + 1) = NextLevel(L(k))
  BY LevelFacts
<1> HIDE DEF L
<1>2. 0 \in N
  BY <1>1, NodesLen
<1>3. ASSUME NEW k \in Nat, k \in N
      PROVE  k + 1 \in N /\ Len(L(k + 1)) = (Len(L(k)) + 1) \div 2
  <2> DEFINE m == Len(L(k))
             h == (m + 1) \div 2
  <2>1. IsNodes(L(k), m) /\ m \in Nat \ {0}
    BY <1>3
  <2> HIDE DEF m
  <2>2. IsNodes(NextLevel(L(k)), h)
    BY <2>1, NextLevelFacts
  <2>3. IsNodes(L(k + 1), h)
    BY <1>1, <2>2
  <2>4. Len(L(k + 1)) = h /\ h \in Nat \ {0}
    <3> HIDE DEF h
    <3> QED BY <2>3, NodesLen
  <2> QED BY <2>3, <2>4 DEF m
<1>4. \A k \in Nat : k \in N
  <2> HIDE DEF N
  <2> QED BY <1>2, <1>3, NatBySteps
<1> QED BY <1>3, <1>4 DEF L

\* A number that is halved, rounding up, comes to 1.
Halves(w) ==
    /\ w \in [Nat -> Nat \ {0}]
    /\ \A k \in Nat : w[k + 1] = (w[k] + 1) \div 2

LEMMA Halving ==
    ASSUME NEW w, Halves(w), NEW n \in Nat \ {0}, w[0] = n
    PROVE  \E k \in 0 .. n : w[k] = 1 /\ (k = 0 \/ w[k - 1] # 1)
<1> DEFINE N == {k \in Nat : w[k] = 1 \/ w[k] <= n - k}
           C == {k \in Nat : w[k] = 1}
<1>1. 0 \in N
  OBVIOUS
<1>2. ASSUME NEW k \in Nat, k \in N PROVE k + 1 \in N
  <2>1. w[k] \in Nat \ {0} /\ w[k + 1] = (w[k] + 1) \div 2
    BY DEF Halves
  <2>2. CASE w[k] = 1
    BY <2>1, <2>2
  <2>3. CASE w[k] >= 2 /\ w[k] <= n - k
    <3>1. w[k + 1] <= w[k] - 1
      BY <2>1, <2>3
    <3> QED BY <2>1, <2>3, <3>1
  <2>4. w[k] = 1 \/ (w[k] >= 2 /\ w[k] <= n - k)
    <3>1. w[k] = 1 \/ w[k] <= n - k
      BY <1>2
    <3> QED BY <2>1, <3>1
  <2> QED BY <2>2, <2>3, <2>4
<1>3. \A k \in Nat : k \in N
  <2> HIDE DEF N
  <2> QED BY <1>1, <1>2, NatBySteps
<1>4. n - 1 \in Nat /\ n - 1 \in N /\ w[n - 1] \in Nat \ {0}
  BY <1>3 DEF Halves
<1>5. n - 1 \in C
  BY <1>4
<1>6. PICK k \in C : \A j \in C : ~(<<j, k>> \in OpToRel(<, Nat))
  <2>1. C \subseteq Nat /\ C # {}
    BY <1>5
  <2> HIDE DEF C
  <2> QED BY <2>1, NatLessThanWellFounded, WFMin
<1>7. \A j \in C : k <= j
  <2> TAKE j \in C
  <2>1. j \in Nat /\ k \in Nat
    OBVIOUS
  <2>2. ~(j < k)
    BY <1>6, <2>1 DEF OpToRel
  <2> QED BY <2>1, <2>2
<1>8. k <= n - 1
  BY <1>5, <1>7
<1>9. k = 0 \/ w[k - 1] # 1
  <2> SUFFICES ASSUME k # 0, w[k - 1] = 1 PROVE FALSE
    OBVIOUS
  <2>1. k - 1 \in C
    OBVIOUS
  <2> QED BY <1>7, <2>1
<1> QED BY <1>4, <1>8, <1>9

LEMMA TopFacts ==
    ASSUME NEW nodes, NEW n, IsNodes(nodes, n)
    PROVE  Top(nodes) \in Nat /\ Len(Level(nodes, Top(nodes))) = 1
<1> DEFINE w == [k \in Nat |-> Len(Level(nodes, k))]
           P(k) == Len(Level(nodes, k)) = 1 /\ (k = 0 \/ Len(Level(nodes, k - 1)) # 1)
<1>1. n \in Nat \ {0} /\ Len(nodes) = n
  BY NodesLen
<1>2. w[0] = n /\ Halves(w)
  <2>1. \A k \in Nat : /\ Len(Level(nodes, k)) \in Nat \ {0}
                       /\ Len(Level(nodes, k + 1)) = (Len(Level(nodes, k)) + 1) \div 2
    BY LevelNodes
  <2>2. Level(nodes, 0) = nodes
    BY LevelFacts
  <2>3. \A k \in Nat : w[k] = Len(Level(nodes, k))
    OBVIOUS
  <2>4. w \in [Nat -> Nat \ {0}]
    BY <2>1
  <2>5. ASSUME NEW k \in Nat PROVE w[k + 1] = (w[k] + 1) \div 2
    <3>1. k + 1 \in Nat
      OBVIOUS
    <3>2. w[k + 1] = Len(Level(nodes, k + 1)) /\ w[k] = Len(Level(nodes, k))
      <4> HIDE DEF w
      <4> QED BY <2>3, <3>1
    <3> QED BY <2>1, <3>2
  <2>6. w[0] = n
    BY <1>1, <2>2
  <2> HIDE DEF w
  <2> QED BY <2>4, <2>5, <2>6 DEF Halves
<1>3. \E k \in 0 .. n : w[k] = 1 /\ (k = 0 \/ w[k - 1] # 1)
  <2> HIDE DEF w
  <2> QED BY <1>1, <1>2, Halving
<1>4. \E k \in 0 .. Len(nodes) : P(k)
  <2>1. PICK k \in 0 .. n : w[k] = 1 /\ (k = 0 \/ w[k - 1] # 1)
    BY <1>3
  <2>2. k \in Nat /\ (k = 0 \/ k - 1 \in Nat)
    BY <1>1
  <2>3. P(k)
    BY <2>1, <2>2
  <2> HIDE DEF P
  <2> QED BY <1>1, <2>3
<1>5. Top(nodes) = CHOOSE k \in 0 .. Len(nodes) : P(k)
  BY DEF Top
<1>6. Top(nodes) \in 0 .. Len(nodes) /\ P(Top(nodes))
  <2> HIDE DEF P
  <2> QED BY <1>4, <1>5
<1> QED BY <1>1, <1>6

-----------------------------------------------------------------------------
(* Equal roots: the same number of levels *)

\* No node of x is the hash of a pair.
NoPairs(x, n) == \A i \in 1 .. n : \A l, r : x[i] # HashPair(l, r)

\* The leftmost node of a level holds that of the level below.
LEMMA LeftSpine ==
    ASSUME NEW nodes, NEW n, IsNodes(nodes, n), NEW k \in Nat
    PROVE  \E r : Level(nodes, k + 1)[1] = HashPair(Level(nodes, k)[1], r)
<1> DEFINE x == Level(nodes, k)
           m == Len(x)
           h == (m + 1) \div 2
<1>1. IsNodes(x, m) /\ m \in Nat \ {0}
  BY LevelNodes
<1>2. Level(nodes, k + 1) = NextLevel(x)
  BY LevelFacts
<1> HIDE DEF x, m
<1>3. \A i \in 1 .. h :
         NextLevel(x)[i] = HashPair(x[2 * i - 1], IF 2 * i <= m THEN x[2 * i] ELSE x[2 * i - 1])
  BY <1>1, NextLevelFacts
<1>4. 1 \in 1 .. h /\ 2 * 1 - 1 = 1
  BY <1>1
<1>5. NextLevel(x)[1] = HashPair(x[1], IF 2 * 1 <= m THEN x[2 * 1] ELSE x[1])
  BY <1>3, <1>4
<1> QED BY <1>2, <1>5 DEF x

LEMMA NoLessTop ==
    ASSUME NEW x, NEW n, IsNodes(x, n), NoPairs(x, n),
           NEW y, NEW m, IsNodes(y, m),
           Build(x) = Build(y), Top(x) <= Top(y)
    PROVE  Top(x) = Top(y)
<1> DEFINE D == Top(x)
           E == Top(y)
           X(k) == Level(x, k)[1]
           Y(k) == Level(y, k)[1]
           N == {j \in Nat : j <= D => X(D - j) = Y(E - j)}
<1>1. D \in Nat /\ E \in Nat /\ D <= E
  BY TopFacts
<1>2. X(D) = Y(E)
  BY DEF Build
<1>3. \A k \in Nat : \E r : X(k + 1) = HashPair(X(k), r)
  BY LeftSpine
<1>4. \A k \in Nat : \E r : Y(k + 1) = HashPair(Y(k), r)
  BY LeftSpine
<1>5. X(0) = x[1] /\ n \in Nat \ {0}
  BY LevelFacts, NodesLen
<1> HIDE DEF D, E, X, Y
<1>6. 0 \in N
  BY <1>1, <1>2
<1>7. ASSUME NEW j \in Nat, j \in N PROVE j + 1 \in N
  <2> SUFFICES ASSUME j + 1 <= D PROVE X(D - (j + 1)) = Y(E - (j + 1))
    OBVIOUS
  <2> DEFINE a == D - (j + 1)
             b == E - (j + 1)
  <2>1. a \in Nat /\ b \in Nat /\ a + 1 = D - j /\ b + 1 = E - j
    BY <1>1
  <2>2. X(D - j) = Y(E - j)
    BY <1>1, <1>7
  <2>3. X(a + 1) = Y(b + 1)
    BY <2>1, <2>2
  <2> HIDE DEF a, b
  <2>4. PICK r : X(a + 1) = HashPair(X(a), r)
    BY <1>3, <2>1
  <2>5. PICK q : Y(b + 1) = HashPair(Y(b), q)
    BY <1>4, <2>1
  <2>6. X(a) = Y(b)
    BY <2>3, <2>4, <2>5 DEF HashPair
  <2> QED BY <2>6 DEF a, b
<1>8. D \in N
  <2> HIDE DEF N
  <2> QED BY <1>1, <1>6, <1>7, NatBySteps
<1>9. x[1] = Y(E - D)
  <2>1. D - D = 0 /\ X(D - D) = Y(E - D)
    BY <1>1, <1>8
  <2> QED BY <1>5, <2>1
<1>10. E = D
  <2> SUFFICES ASSUME E # D PROVE FALSE
    OBVIOUS
  <2> DEFINE b == E - D - 1
  <2>1. b \in Nat /\ b + 1 = E - D
    BY <1>1
  <2> HIDE DEF b
  <2>2. PICK q : Y(b + 1) = HashPair(Y(b), q)
    BY <1>4, <2>1
  <2>3. x[1] = HashPair(Y(b), q)
    BY <1>9, <2>1, <2>2
  <2>4. 1 \in 1 .. n
    BY <1>5
  <2> QED BY <2>3, <2>4 DEF NoPairs
<1> QED BY <1>10 DEF D, E

LEMMA SameTop ==
    ASSUME NEW x, NEW n, IsNodes(x, n), NoPairs(x, n),
           NEW y, NEW m, IsNodes(y, m), NoPairs(y, m),
           Build(x) = Build(y)
    PROVE  /\ Top(x) \in Nat /\ Top(x) = Top(y)
           /\ IsNodes(Level(x, Top(x)), 1) /\ IsNodes(Level(y, Top(x)), 1)
           /\ Level(x, Top(x))[1] = Level(y, Top(x))[1]
<1>1. Top(x) \in Nat /\ Top(y) \in Nat
  BY TopFacts
<1>2. Top(x) <= Top(y) \/ Top(y) <= Top(x)
  BY <1>1
<1>3. ASSUME Top(x) <= Top(y) PROVE Top(x) = Top(y)
  BY <1>3, NoLessTop
<1>4. ASSUME Top(y) <= Top(x) PROVE Top(x) = Top(y)
  BY <1>4, NoLessTop
<1>5. Top(x) = Top(y)
  BY <1>2, <1>3, <1>4
<1>6. Len(Level(x, Top(x))) = 1 /\ Len(Level(y, Top(x))) = 1
  BY <1>5, TopFacts
<1>7. IsNodes(Level(x, Top(x)), 1) /\ IsNodes(Level(y, Top(x)), 1)
  BY <1>1, <1>6, LevelNodes
<1> QED BY <1>1, <1>5, <1>7 DEF Build

-----------------------------------------------------------------------------
(* Equal roots of lists without repetitions *)

Distinct(x, n) == \A i, j \in 1 .. n : x[i] = x[j] => i = j

LEMMA NextLevelDistinct ==
    ASSUME NEW x, NEW n, IsNodes(x, n), Distinct(x, n)
    PROVE  Distinct(NextLevel(x), (n + 1) \div 2)
<1> DEFINE h == (n + 1) \div 2
           Second(i) == IF 2 * i <= n THEN x[2 * i] ELSE x[2 * i - 1]
<1>1. n \in Nat \ {0}
  BY NodesLen
<1>2. \A i \in 1 .. h : NextLevel(x)[i] = HashPair(x[2 * i - 1], Second(i))
  BY NextLevelFacts
<1> SUFFICES ASSUME NEW i \in 1 .. h, NEW j \in 1 .. h, NextLevel(x)[i] = NextLevel(x)[j]
             PROVE  i = j
  BY DEF Distinct
<1>3. HashPair(x[2 * i - 1], Second(i)) = HashPair(x[2 * j - 1], Second(j))
  <2> HIDE DEF Second
  <2> QED BY <1>2
<1>4. x[2 * i - 1] = x[2 * j - 1]
  <2> HIDE DEF Second
  <2> QED BY <1>3 DEF HashPair
<1>5. i \in Nat /\ j \in Nat /\ 2 * i - 1 \in 1 .. n /\ 2 * j - 1 \in 1 .. n
  BY <1>1
<1>6. 2 * i - 1 = 2 * j - 1
  BY <1>4, <1>5 DEF Distinct
<1> QED BY <1>5, <1>6

LEMMA NextLevelOneToOne ==
    ASSUME NEW x, NEW n, IsNodes(x, n), Distinct(x, n),
           NEW y, NEW m, IsNodes(y, m), Distinct(y, m),
           NextLevel(x) = NextLevel(y)
    PROVE  x = y
<1> DEFINE h == (n + 1) \div 2
           Sx(i) == IF 2 * i <= n THEN x[2 * i] ELSE x[2 * i - 1]
           Sy(i) == IF 2 * i <= m THEN y[2 * i] ELSE y[2 * i - 1]
<1>1. n \in Nat \ {0} /\ m \in Nat \ {0}
  BY NodesLen
<1>2. h = (m + 1) \div 2 /\ h \in Nat \ {0}
  <2>1. Len(NextLevel(x)) = (n + 1) \div 2
    BY NextLevelFacts, NodesLen
  <2>2. Len(NextLevel(y)) = (m + 1) \div 2
    BY NextLevelFacts, NodesLen
  <2> QED BY <1>1, <2>1, <2>2
<1>3. ASSUME NEW i \in 1 .. h PROVE x[2 * i - 1] = y[2 * i - 1] /\ Sx(i) = Sy(i)
  <2>1. NextLevel(x)[i] = HashPair(x[2 * i - 1], Sx(i))
    BY NextLevelFacts
  <2>2. NextLevel(y)[i] = HashPair(y[2 * i - 1], Sy(i))
    BY <1>2, NextLevelFacts
  <2> HIDE DEF Sx, Sy
  <2> QED BY <2>1, <2>2 DEF HashPair
<1>4. n = m
  <2>1. h \in 1 .. h /\ x[2 * h - 1] = y[2 * h - 1] /\ Sx(h) = Sy(h)
    BY <1>2, <1>3
  <2>2. CASE n < m
    <3>1. 2 * h - 1 = n /\ 2 * h = m
      BY <1>1, <1>2, <2>2
    <3>2. y[2 * h - 1] = y[2 * h]
      BY <1>1, <2>1, <2>2, <3>1
    <3>3. 2 * h - 1 \in 1 .. m /\ 2 * h \in 1 .. m /\ 2 * h - 1 # 2 * h
      BY <1>1, <1>2, <3>1
    <3> QED BY <3>2, <3>3 DEF Distinct
  <2>3. CASE m < n
    <3>1. 2 * h - 1 = m /\ 2 * h = n
      BY <1>1, <1>2, <2>3
    <3>2. x[2 * h - 1] = x[2 * h]
      BY <1>1, <2>1, <2>3, <3>1
    <3>3. 2 * h - 1 \in 1 .. n /\ 2 * h \in 1 .. n /\ 2 * h - 1 # 2 * h
      BY <1>1, <1>2, <3>1
    <3> QED BY <3>2, <3>3 DEF Distinct
  <2> QED BY <1>1, <2>2, <2>3
<1>5. ASSUME NEW i \in 1 .. n PROVE x[i] = y[i]
  <2> DEFINE p == (i + 1) \div 2
  <2>1. p \in 1 .. h /\ (i = 2 * p - 1 \/ i = 2 * p)
    BY <1>1
  <2>2. x[2 * p - 1] = y[2 * p - 1] /\ Sx(p) = Sy(p)
    BY <1>3, <2>1
  <2> HIDE DEF p
  <2>3. CASE i = 2 * p - 1
    BY <2>2, <2>3
  <2>4. CASE i = 2 * p
    <3>1. 2 * p <= n /\ 2 * p <= m
      BY <1>1, <1>4, <2>4
    <3>2. Sx(p) = x[2 * p] /\ Sy(p) = y[2 * p]
      BY <3>1
    <3> QED BY <2>2, <2>4, <3>2
  <2> QED BY <2>1, <2>3, <2>4
<1> QED BY <1>4, <1>5, NodesEqual

LEMMA LevelDistinct ==
    ASSUME NEW nodes, NEW n, IsNodes(nodes, n), Distinct(nodes, n)
    PROVE  \A k \in Nat : Distinct(Level(nodes, k), Len(Level(nodes, k)))
<1> DEFINE L(k) == Level(nodes, k)
           N == {k \in Nat : Distinct(L(k), Len(L(k)))}
<1>1. /\ L(0) = nodes
      /\ \A k \in Nat : L(k + 1) = NextLevel(L(k))
  BY LevelFacts
<1>2. \A k \in Nat : /\ IsNodes(L(k), Len(L(k)))
                     /\ Len(L(k + 1)) = (Len(L(k)) + 1) \div 2
  BY LevelNodes
<1> HIDE DEF L
<1>3. 0 \in N
  BY <1>1, NodesLen
<1>4. ASSUME NEW k \in Nat, k \in N PROVE k + 1 \in N
  <2>1. Distinct(NextLevel(L(k)), (Len(L(k)) + 1) \div 2)
    BY <1>2, <1>4, NextLevelDistinct
  <2>2. Distinct(L(k + 1), Len(L(k + 1)))
    BY <1>1, <1>2, <2>1
  <2> QED BY <2>2
<1>5. \A k \in Nat : k \in N
  <2> HIDE DEF N
  <2> QED BY <1>3, <1>4, NatBySteps
<1> QED BY <1>5 DEF L

\* The tree of distinct leaves is determined by its root.
LEMMA RootDeterminesLeaves ==
    ASSUME NEW x, NEW n, IsNodes(x, n), NoPairs(x, n), Distinct(x, n),
           NEW y, NEW m, IsNodes(y, m), NoPairs(y, m), Distinct(y, m),
           Build(x) = Build(y)
    PROVE  x = y
<1> DEFINE D == Top(x)
           X(k) == Level(x, k)
           Y(k) == Level(y, k)
           N == {j \in Nat : j <= D => X(D - j) = Y(D - j)}
<1>1. /\ D \in Nat
      /\ IsNodes(X(D), 1) /\ IsNodes(Y(D), 1) /\ X(D)[1] = Y(D)[1]
  BY SameTop
<1>2. X(D) = Y(D)
  <2> HIDE DEF X, Y, D
  <2>1. \A i \in 1 .. 1 : X(D)[i] = Y(D)[i]
    BY <1>1
  <2> QED BY <1>1, <2>1, NodesEqual
<1>3. \A k \in Nat : X(k + 1) = NextLevel(X(k)) /\ Y(k + 1) = NextLevel(Y(k))
  BY LevelFacts
<1>4. X(0) = x /\ Y(0) = y
  BY LevelFacts
<1>5. \A k \in Nat : IsNodes(X(k), Len(X(k))) /\ IsNodes(Y(k), Len(Y(k)))
  BY LevelNodes
<1>6. \A k \in Nat : Distinct(X(k), Len(X(k))) /\ Distinct(Y(k), Len(Y(k)))
  BY LevelDistinct
<1> HIDE DEF D, X, Y
<1>7. 0 \in N
  BY <1>1, <1>2
<1>8. ASSUME NEW j \in Nat, j \in N PROVE j + 1 \in N
  <2> SUFFICES ASSUME j + 1 <= D PROVE X(D - (j + 1)) = Y(D - (j + 1))
    OBVIOUS
  <2> DEFINE a == D - (j + 1)
  <2>1. a \in Nat /\ a + 1 = D - j
    BY <1>1
  <2>2. X(a + 1) = Y(a + 1)
    BY <1>1, <1>8, <2>1
  <2> HIDE DEF a
  <2>3. NextLevel(X(a)) = NextLevel(Y(a))
    BY <1>3, <2>1, <2>2
  <2>4. X(a) = Y(a)
    BY <1>5, <1>6, <2>1, <2>3, NextLevelOneToOne
  <2> QED BY <2>4 DEF a
<1>9. D \in N
  <2> HIDE DEF N
  <2> QED BY <1>1, <1>7, <1>8, NatBySteps
<1>10. D - D = 0 /\ X(D - D) = Y(D - D)
  BY <1>1, <1>9
<1> QED BY <1>4, <1>10

-----------------------------------------------------------------------------
(* The list of a candidate *)

\* How many of P come before t
Rank(P, t) == Cardinality({u \in P : <<u, t>> \in before})

\* The ranks of a finite ordered set are 0, 1, ... without a gap.
LEMMA RankFacts ==
    ASSUME NEW P, IsFiniteSet(P), P \subseteq txs, PoolOrdered
    PROVE  /\ \A t, u \in P : Rank(P, t) = Rank(P, u) => t = u
           /\ \A i \in 1 .. Cardinality(P) : \E t \in P : Rank(P, t) = i - 1
<1> DEFINE B(t) == {u \in P : <<u, t>> \in before}
           c == Cardinality(P)
           f == [t \in P |-> Rank(P, t)]
           T == 0 .. c - 1
<1>1. c \in Nat
  BY FS_CardinalityType
<1>2. \A t \in P : IsFiniteSet(B(t)) /\ Cardinality(B(t)) \in Nat
  <2> SUFFICES ASSUME NEW t \in P PROVE IsFiniteSet(B(t)) /\ Cardinality(B(t)) \in Nat
    OBVIOUS
  <2>1. B(t) \in SUBSET P
    OBVIOUS
  <2> HIDE DEF B
  <2> QED BY <2>1, FS_Subset, FS_CardinalityType
<1>3. ASSUME NEW t \in P PROVE Rank(P, t) \in Nat /\ Rank(P, t) < c
  <2>1. B(t) \in SUBSET P /\ t \notin B(t)
    BY DEF PoolOrdered
  <2>2. Rank(P, t) = Cardinality(B(t))
    BY DEF Rank
  <2> HIDE DEF B
  <2>3. Cardinality(B(t)) <= c /\ (c = Cardinality(B(t)) => P = B(t))
    BY <2>1, FS_Subset
  <2>4. Cardinality(B(t)) # c
    BY <2>1, <2>3
  <2> HIDE DEF c
  <2> QED BY <1>1, <1>2, <2>2, <2>3, <2>4
<1>4. ASSUME NEW t \in P, NEW u \in P, <<t, u>> \in before PROVE Rank(P, t) < Rank(P, u)
  <2>1. B(t) \in SUBSET B(u) /\ t \in B(u) /\ t \notin B(t)
    <3>1. \A v \in P : <<v, t>> \in before => <<v, u>> \in before
      BY <1>4 DEF PoolOrdered
    <3>2. <<t, t>> \notin before
      BY DEF PoolOrdered
    <3> QED BY <1>4, <3>1, <3>2
  <2>2. Rank(P, t) = Cardinality(B(t)) /\ Rank(P, u) = Cardinality(B(u))
    BY DEF Rank
  <2>3. IsFiniteSet(B(u)) /\ Cardinality(B(u)) \in Nat /\ Cardinality(B(t)) \in Nat
    BY <1>2
  <2> HIDE DEF B
  <2>4. Cardinality(B(t)) <= Cardinality(B(u)) /\ (Cardinality(B(u)) = Cardinality(B(t)) => B(u) = B(t))
    BY <2>1, <2>3, FS_Subset
  <2> QED BY <2>1, <2>2, <2>3, <2>4
<1>5. ASSUME NEW t \in P, NEW u \in P, Rank(P, t) = Rank(P, u) PROVE t = u
  <2> SUFFICES ASSUME t # u PROVE FALSE
    OBVIOUS
  <2>1. <<t, u>> \in before \/ <<u, t>> \in before
    BY DEF PoolOrdered
  <2>2. Rank(P, t) < Rank(P, u) \/ Rank(P, u) < Rank(P, t)
    BY <1>4, <2>1
  <2>3. Rank(P, t) \in Nat /\ Rank(P, u) \in Nat
    BY <1>3
  <2> QED BY <1>5, <2>2, <2>3
<1>6. f \in [P -> T]
  <2>1. \A t \in P : Rank(P, t) \in T
    <3> HIDE DEF c
    <3> QED BY <1>1, <1>3
  <2> QED BY <2>1
<1>7. f \in Injection(P, T)
  <2>1. \A t, u \in P : f[t] = f[u] => t = u
    BY <1>5
  <2> HIDE DEF f, T
  <2> QED BY <1>6, <2>1 DEF Injection, IsInjective
<1>8. IsFiniteSet(T) /\ Cardinality(T) = c
  <2> HIDE DEF c
  <2>1. 0 \in Int /\ c - 1 \in Int
    BY <1>1
  <2>2. /\ IsFiniteSet(0 .. c - 1)
        /\ Cardinality(0 .. c - 1) = IF 0 > c - 1 THEN 0 ELSE (c - 1) - 0 + 1
    BY <2>1, FS_Interval
  <2> QED BY <1>1, <2>2
<1>9. f \in Surjection(P, T)
  <2> HIDE DEF f, T
  <2> QED BY <1>7, <1>8, FS_Injection
<1>10. ASSUME NEW i \in 1 .. c PROVE \E t \in P : Rank(P, t) = i - 1
  <2>1. i - 1 \in T
    <3> HIDE DEF c
    <3> QED BY <1>1
  <2>2. \E t \in P : f[t] = i - 1
    <3> HIDE DEF f, T
    <3> QED BY <1>9, <2>1 DEF Surjection
  <2> QED BY <2>2
<1> QED BY <1>5, <1>10

\* The transactions of a block
Bodies == Seq(Tx \cup Coinbase)

\* No transaction is taken twice.
LEMMA PendingFacts ==
    ASSUME PoolInv
    PROVE  PendingList \in Seq(Tx) /\ IsInjective(PendingList)
<1> DEFINE P == Pending(Limit)
           c == Cardinality(P)
           e(i) == CHOOSE t \in P : Rank(P, t) = i - 1
<1>1. P \in SUBSET txs /\ P \subseteq Tx
  BY DEF PoolInv, PoolTypeOK, Pending
<1>2. IsFiniteSet(txs) /\ PoolOrdered
  BY DEF PoolInv
<1>3. PendingList = [i \in 1 .. c |-> e(i)]
  BY DEF PendingList, Rank
<1> HIDE DEF P
<1>4. IsFiniteSet(P) /\ c \in Nat
  BY <1>1, <1>2, FS_Subset, FS_CardinalityType
<1>5. \A i \in 1 .. c : \E t \in P : Rank(P, t) = i - 1
  BY <1>1, <1>2, <1>4, RankFacts
<1> HIDE DEF c
<1>6. \A i \in 1 .. c : e(i) \in P /\ Rank(P, e(i)) = i - 1
  BY <1>5
<1> HIDE DEF e
<1>7. PendingList \in [1 .. c -> Tx]
  BY <1>1, <1>3, <1>6
<1>8. PendingList \in Seq(Tx)
  BY <1>4, <1>7
<1>9. \A i \in 1 .. c : Rank(P, PendingList[i]) = i - 1
  BY <1>3, <1>6
<1>10. ASSUME NEW i \in 1 .. c, NEW j \in 1 .. c, PendingList[i] = PendingList[j] PROVE i = j
  <2>1. i - 1 = j - 1
    BY <1>9, <1>10
  <2> QED BY <1>4, <2>1
<1>11. DOMAIN PendingList = 1 .. c
  BY <1>3
<1> QED BY <1>8, <1>10, <1>11 DEF IsInjective

LEMMA ListFacts ==
    ASSUME PoolInv, NEW coinbase \in Coinbase
    PROVE  /\ <<coinbase>> \o PendingList \in Bodies
           /\ <<coinbase>> \o PendingList # <<>>
           /\ IsInjective(<<coinbase>> \o PendingList)
<1> DEFINE S == Tx \cup Coinbase
           p == PendingList
           l == <<coinbase>> \o p
<1>1. p \in Seq(Tx) /\ IsInjective(p)
  BY PendingFacts
<1>2. coinbase \notin Tx
  BY CandidateAssumption
<1>3. <<coinbase>> \in Seq(S) /\ Len(<<coinbase>>) = 1 /\ <<coinbase>>[1] = coinbase
  OBVIOUS
<1>4. \A i \in 1 .. Len(p) : p[i] \in Tx
  <2> HIDE DEF p
  <2> QED BY <1>1, ElementOfSeq
<1>5. p \in Seq(S)
  <2>1. Tx \subseteq S
    OBVIOUS
  <2> HIDE DEF p, S
  <2> QED BY <1>1, <2>1, SeqMonotonic
<1> HIDE DEF S, p
<1>6. /\ l \in Seq(S)
      /\ Len(l) = 1 + Len(p)
      /\ \A i \in 1 .. 1 + Len(p) : l[i] = IF i <= 1 THEN coinbase ELSE p[i - 1]
  BY <1>3, <1>5, ConcatProperties
<1>7. Len(p) \in Nat /\ DOMAIN p = 1 .. Len(p)
  BY <1>5, LenProperties
<1> HIDE DEF l
<1>8. DOMAIN l = 1 .. 1 + Len(p)
  BY <1>6, LenProperties
<1>9. ASSUME NEW i \in 1 .. 1 + Len(p), NEW j \in 1 .. 1 + Len(p), l[i] = l[j] PROVE i = j
  <2>1. CASE i = 1 /\ j # 1
    <3>1. j - 1 \in 1 .. Len(p) /\ l[i] = coinbase /\ l[j] = p[j - 1]
      BY <1>6, <1>7, <2>1
    <3> QED BY <1>2, <1>4, <1>9, <3>1
  <2>2. CASE i # 1 /\ j = 1
    <3>1. i - 1 \in 1 .. Len(p) /\ l[j] = coinbase /\ l[i] = p[i - 1]
      BY <1>6, <1>7, <2>2
    <3> QED BY <1>2, <1>4, <1>9, <3>1
  <2>3. CASE i # 1 /\ j # 1
    <3>1. i - 1 \in 1 .. Len(p) /\ j - 1 \in 1 .. Len(p) /\ l[i] = p[i - 1] /\ l[j] = p[j - 1]
      BY <1>6, <1>7, <2>3
    <3>2. i - 1 = j - 1
      BY <1>1, <1>7, <1>9, <3>1 DEF IsInjective
    <3> QED BY <1>7, <3>2
  <2> QED BY <2>1, <2>2, <2>3
<1>10. IsInjective(l)
  BY <1>8, <1>9 DEF IsInjective
<1>11. l # <<>>
  BY <1>6, <1>7
<1> QED BY <1>6, <1>10, <1>11 DEF l, p, S, Bodies

-----------------------------------------------------------------------------
(* The root names the body *)

\* The hashes of the transactions
Leaves(s) == [i \in 1 .. Len(s) |-> Leaf(s[i])]

LEMMA LeavesFacts ==
    ASSUME NEW s \in Bodies, s # <<>>
    PROVE  /\ CalculateMerkleRoot(s) = Build(Leaves(s))
           /\ IsNodes(Leaves(s), Len(s))
           /\ NoPairs(Leaves(s), Len(s))
           /\ \A i \in 1 .. Len(s) : Leaves(s)[i] = Leaf(s[i])
           /\ IsInjective(s) => Distinct(Leaves(s), Len(s))
<1>1. Len(s) \in Nat \ {0} /\ DOMAIN s = 1 .. Len(s)
  <2>1. s \in Seq(Tx \cup Coinbase)
    BY DEF Bodies
  <2> QED BY <2>1, EmptySeq, LenProperties
<1>2. \A i \in 1 .. Len(s) : Leaves(s)[i] = <<s[i]>>
  BY DEF Leaves, Leaf
<1>3. IsNodes(Leaves(s), Len(s))
  BY <1>1 DEF Leaves, IsNodes
<1>4. NoPairs(Leaves(s), Len(s))
  <2>1. ASSUME NEW i \in 1 .. Len(s), NEW l, NEW r, Leaves(s)[i] = HashPair(l, r) PROVE FALSE
    <3>1. <<s[i]>> = <<l, r>>
      BY <1>2, <2>1 DEF HashPair
    <3>2. Len(<<s[i]>>) = 1 /\ Len(<<l, r>>) = 2
      OBVIOUS
    <3> QED BY <3>1, <3>2
  <2> QED BY <2>1 DEF NoPairs
<1>5. IsInjective(s) => Distinct(Leaves(s), Len(s))
  BY <1>1, <1>2 DEF IsInjective, Distinct
<1>6. CalculateMerkleRoot(s) = Build(Leaves(s))
  BY DEF CalculateMerkleRoot, Leaves
<1> QED BY <1>2, <1>3, <1>4, <1>5, <1>6 DEF Leaf

\* Lists without repetitions that have the same root are the same.
LEMMA RootDeterminesBody ==
    ASSUME NEW s \in Bodies, NEW t \in Bodies, s # <<>>, t # <<>>,
           IsInjective(s), IsInjective(t),
           CalculateMerkleRoot(s) = CalculateMerkleRoot(t)
    PROVE  s = t
<1>1. /\ IsNodes(Leaves(s), Len(s)) /\ NoPairs(Leaves(s), Len(s)) /\ Distinct(Leaves(s), Len(s))
      /\ CalculateMerkleRoot(s) = Build(Leaves(s))
      /\ \A i \in 1 .. Len(s) : Leaves(s)[i] = Leaf(s[i])
  BY LeavesFacts
<1>2. /\ IsNodes(Leaves(t), Len(t)) /\ NoPairs(Leaves(t), Len(t)) /\ Distinct(Leaves(t), Len(t))
      /\ CalculateMerkleRoot(t) = Build(Leaves(t))
      /\ \A i \in 1 .. Len(t) : Leaves(t)[i] = Leaf(t[i])
  BY LeavesFacts
<1>3. Leaves(s) = Leaves(t)
  <2>1. Build(Leaves(s)) = Build(Leaves(t))
    BY <1>1, <1>2
  <2> QED BY <1>1, <1>2, <2>1, RootDeterminesLeaves
<1>4. Len(s) = Len(t)
  <2>1. Len(Leaves(s)) = Len(s)
    BY <1>1, NodesLen
  <2>2. Len(Leaves(t)) = Len(t)
    BY <1>2, NodesLen
  <2> QED BY <1>3, <2>1, <2>2
<1>5. ASSUME NEW i \in 1 .. Len(s) PROVE s[i] = t[i]
  <2>1. <<s[i]>> = <<t[i]>>
    BY <1>1, <1>2, <1>3, <1>4 DEF Leaf
  <2> QED BY <2>1
<1> QED BY <1>4, <1>5, SeqEqual DEF Bodies

\* The inductive invariant: the root is that of the list, which repeats no
\* transaction, and of whatever body was taken for it.
CandidateInv ==
    /\ PoolInv
    /\ list \in Bodies /\ IsInjective(list)
    /\ root = CalculateMerkleRoot(list)
    /\ body \in Bodies
    /\ body # <<>> => list # <<>> /\ CalculateMerkleRoot(body) = root

LEMMA CandidateInvInit == CandidateInit => CandidateInv
<1> SUFFICES ASSUME CandidateInit PROVE CandidateInv
  OBVIOUS
<1>1. PoolInv
  BY PoolInvInit DEF CandidateInit
<1>2. list = <<>> /\ body = <<>> /\ root = Zeros
  BY DEF CandidateInit
<1>3. <<>> \in Bodies
  BY DEF Bodies
<1>4. IsInjective(<<>>)
  BY DEF IsInjective
<1>5. CalculateMerkleRoot(<<>>) = Zeros
  BY DEF CalculateMerkleRoot
<1> QED BY <1>1, <1>2, <1>3, <1>4, <1>5 DEF CandidateInv

LEMMA CandidateInvNext == CandidateInv /\ [CandidateNext]_candidateVars => CandidateInv'
<1> SUFFICES ASSUME CandidateInv, [CandidateNext]_candidateVars PROVE CandidateInv'
  OBVIOUS
<1>1. CASE Next /\ UNCHANGED <<list, root, body>>
  <2>1. PoolInv'
    BY <1>1, PoolInvNext DEF CandidateInv
  <2> QED BY <1>1, <2>1 DEF CandidateInv
<1>2. ASSUME NEW coinbase \in Coinbase, PrepareCandidate(coinbase) PROVE CandidateInv'
  <2>1. PoolInv'
    <3>1. UNCHANGED poolVars
      BY <1>2 DEF PrepareCandidate
    <3> QED BY <3>1, PoolInvNext DEF CandidateInv
  <2>2. list' \in Bodies /\ IsInjective(list')
    BY <1>2, ListFacts DEF PrepareCandidate, CandidateInv
  <2>3. root' = CalculateMerkleRoot(list') /\ body' = <<>>
    BY <1>2 DEF PrepareCandidate
  <2>4. <<>> \in Bodies
    BY DEF Bodies
  <2> QED BY <2>1, <2>2, <2>3, <2>4 DEF CandidateInv
<1>3. ASSUME NEW b \in Seq(Tx \cup Coinbase), ReceiveBody(b) PROVE CandidateInv'
  <2>1. UNCHANGED <<txs, before, list, root>> /\ body' = b /\ list # <<>>
        /\ CalculateMerkleRoot(b) = root
    BY <1>3 DEF ReceiveBody
  <2>2. PoolInv'
    BY <2>1, PoolInvNext DEF CandidateInv, poolVars
  <2>3. b \in Bodies
    BY DEF Bodies
  <2> QED BY <2>1, <2>2, <2>3 DEF CandidateInv
<1>4. CASE UNCHANGED candidateVars
  <2>1. UNCHANGED <<list, root, body>> /\ UNCHANGED poolVars
    BY <1>4 DEF candidateVars, poolVars
  <2>2. PoolInv'
    BY <2>1, PoolInvNext DEF CandidateInv
  <2> QED BY <2>1, <2>2 DEF CandidateInv
<1> QED BY <1>1, <1>2, <1>3, <1>4 DEF CandidateNext

THEOREM CandidateInvariance == CandidateSpec => []CandidateInv
BY CandidateInvInit, CandidateInvNext, PTL DEF CandidateSpec

\* Whatever body a node is sent under the header, when no transaction is
\* repeated in it and its root is the header's, then it is the candidate's,
\* in the order of the candidate.
THEOREM RootAlwaysNamesBody == CandidateSpec => []RootNamesBody
<1>1. CandidateInv => RootNamesBody
  BY RootDeterminesBody DEF CandidateInv, RootNamesBody
<1> QED BY <1>1, CandidateInvariance, PTL

-----------------------------------------------------------------------------
(* Bodies that repeat transactions *)

LEMMA ProductsGrow ==
    ASSUME NEW a \in Nat, NEW b \in Nat, NEW c \in Nat, a <= b
    PROVE  a * c \in Nat /\ a * c <= b * c
<1>1. PICK d \in Nat : b = a + d
  <2>1. b - a \in Nat /\ b = a + (b - a)
    OBVIOUS
  <2> QED BY <2>1
<1>2. (a + d) * c = a * c + d * c /\ d * c \in Nat /\ a * c \in Nat
  OBVIOUS
<1> QED BY <1>1, <1>2

\* What a round works on
Runs(T) ==
    {p \in [runs : Nat \ {0}, run : Nat \ {0}, list : Seq(T)] : Len(p.list) = p.runs * p.run}

\* Element j of run i
Item(p, i, j) == p.list[(i - 1) * p.run + j]

LEMMA ItemIndex ==
    ASSUME NEW n \in Nat \ {0}, NEW r \in Nat \ {0}, NEW i \in 1 .. n, NEW j \in 1 .. r
    PROVE  /\ (i - 1) * r \in Nat
           /\ (i - 1) * r + j \in 1 .. n * r
<1>1. (i - 1) * r \in Nat /\ (i - 1) * r <= (n - 1) * r
  <2>1. i - 1 \in Nat /\ n - 1 \in Nat /\ i - 1 <= n - 1 /\ r \in Nat
    OBVIOUS
  <2> QED BY <2>1, ProductsGrow
<1>2. (n - 1) * r = n * r - r /\ n * r \in Nat
  OBVIOUS
<1> QED BY <1>1, <1>2

\* A round joins the runs by twos; a last one without a partner is its own.
LEMMA RoundFacts ==
    ASSUME NEW T, NEW p \in Runs(T)
    PROVE  /\ Round(p) \in Runs(T)
           /\ Round(p).runs = (p.runs + 1) \div 2
           /\ Round(p).run = 2 * p.run
           /\ \A i \in 1 .. (p.runs + 1) \div 2 : \A j \in 1 .. p.run :
                 /\ Item(Round(p), i, j) = Item(p, 2 * i - 1, j)
                 /\ Item(Round(p), i, p.run + j) =
                       Item(p, IF 2 * i <= p.runs THEN 2 * i ELSE 2 * i - 1, j)
<1> DEFINE n == p.runs
           r == p.run
           l == p.list
           h == (n + 1) \div 2
           q == Round(p)
           m == q.list
<1>1. n \in Nat \ {0} /\ r \in Nat \ {0} /\ l \in Seq(T) /\ Len(l) = n * r
  BY DEF Runs
<1>2. q.runs = h /\ q.run = 2 * r /\ q = [runs |-> h, run |-> 2 * r, list |-> m]
  BY DEF Round
<1>3. m = IF n % 2 = 0 THEN l ELSE l \o SubSeq(l, Len(l) - r + 1, Len(l))
  BY DEF Round
<1>4. \A i, j : Item(q, i, j) = m[(i - 1) * (2 * r) + j] /\ Item(p, i, j) = l[(i - 1) * r + j]
  BY <1>2 DEF Item
<1> HIDE DEF q, m, n, r, l
<1>5. /\ n * r \in Nat /\ r <= n * r
  <2>1. 1 * r <= n * r /\ n * r \in Nat
    BY <1>1, ProductsGrow
  <2> QED BY <1>1, <2>1
<1>6. h \in Nat \ {0} /\ 2 * r \in Nat \ {0}
  BY <1>1
\* The list of the round: the old one, and what follows it
<1>7. /\ m \in Seq(T)
      /\ Len(m) = h * (2 * r)
      /\ \A k \in 1 .. n * r : m[k] = l[k]
      /\ n % 2 # 0 => \A j \in 1 .. r : m[n * r + j] = l[n * r - r + j]
  <2>1. CASE n % 2 = 0
    <3>1. n = 2 * h
      BY <1>1, <2>1
    <3>2. (2 * h) * r = h * (2 * r)
      BY <1>1, <1>6
    <3> QED BY <1>1, <1>3, <2>1, <3>1, <3>2
  <2>2. CASE n % 2 # 0
    <3> DEFINE a == n * r - r + 1
               b == n * r
               e == SubSeq(l, a, b)
    <3>1. a \in Int /\ b \in Int /\ a <= b /\ b - a + 1 = r /\ a >= 1
      BY <1>1, <1>5
    <3>2. \A k \in a .. b : l[k] \in T
      <4>1. \A k \in a .. b : k \in 1 .. Len(l)
        BY <1>1, <3>1
      <4> HIDE DEF a, b
      <4> QED BY <1>1, <4>1, ElementOfSeq
    <3> HIDE DEF a, b
    <3>3. /\ e \in Seq(T)
          /\ Len(e) = IF a <= b THEN b - a + 1 ELSE 0
          /\ \A k \in 1 .. b - a + 1 : e[k] = l[a + k - 1]
      BY <3>1, <3>2, SubSeqProperties
    <3> HIDE DEF e
    <3>4. m = l \o e
      BY <1>1, <1>3, <2>2 DEF a, b, e
    <3>5. e \in Seq(T) /\ Len(e) = r /\ \A k \in 1 .. r : e[k] = l[a + k - 1]
      BY <3>1, <3>3
    <3>6. /\ m \in Seq(T)
          /\ Len(m) = Len(l) + Len(e)
          /\ \A k \in 1 .. Len(l) + Len(e) : m[k] = IF k <= Len(l) THEN l[k] ELSE e[k - Len(l)]
      BY <1>1, <3>4, <3>5, ConcatProperties
    <3>7. Len(m) = h * (2 * r)
      <4>1. n + 1 = 2 * h
        BY <1>1, <2>2
      <4>2. (n + 1) * r = n * r + r
        BY <1>1
      <4>3. (2 * h) * r = h * (2 * r)
        BY <1>1, <1>6
      <4> QED BY <1>1, <3>5, <3>6, <4>1, <4>2, <4>3
    <3>8. \A k \in 1 .. n * r : m[k] = l[k]
      BY <1>1, <1>5, <3>5, <3>6
    <3>9. ASSUME NEW j \in 1 .. r PROVE m[n * r + j] = l[n * r - r + j]
      <4> DEFINE w == n * r
      <4>1. w \in Nat /\ w + j \in 1 .. w + r /\ ~(w + j <= w) /\ (w + j) - w = j
        BY <1>1, <1>5
      <4>2. m[w + j] = e[j]
        <5> HIDE DEF w
        <5>1. Len(l) = w
          BY <1>1 DEF w
        <5> QED BY <3>5, <3>6, <4>1, <5>1
      <4>3. a + j - 1 = w - r + j
        <5> HIDE DEF w
        <5>1. a = w - r + 1
          BY DEF a, w
        <5> QED BY <1>1, <4>1, <5>1
      <4> QED BY <3>5, <4>2, <4>3
    <3> QED BY <3>6, <3>7, <3>8, <3>9
  <2> QED BY <2>1, <2>2
<1>8. q \in Runs(T)
  <2>1. q.list = m /\ q.runs = h /\ q.run = 2 * r
    BY <1>2
  <2>2. q \in [runs : Nat \ {0}, run : Nat \ {0}, list : Seq(T)]
    BY <1>2, <1>6, <1>7
  <2> QED BY <1>7, <2>1, <2>2 DEF Runs
<1>9. ASSUME NEW i \in 1 .. h, NEW j \in 1 .. r
      PROVE  /\ Item(q, i, j) = Item(p, 2 * i - 1, j)
             /\ Item(q, i, r + j) = Item(p, IF 2 * i <= n THEN 2 * i ELSE 2 * i - 1, j)
  <2>1. i \in Nat \ {0} /\ j \in Nat \ {0} /\ 2 * i - 1 \in 1 .. n
    BY <1>1
  <2>2. (i - 1) * (2 * r) = ((2 * i - 1) - 1) * r
    BY <1>1, <2>1
  <2>3. (i - 1) * (2 * r) + (r + j) = (2 * i - 1) * r + j
    BY <1>1, <2>1
  <2>4. Item(q, i, j) = Item(p, 2 * i - 1, j)
    <3>1. ((2 * i - 1) - 1) * r + j \in 1 .. n * r
      BY <1>1, <2>1, ItemIndex
    <3> QED BY <1>4, <1>7, <2>2, <3>1
  <2>5. Item(q, i, r + j) = m[(2 * i - 1) * r + j]
    BY <1>4, <2>3
  <2>6. CASE 2 * i <= n
    <3>1. 2 * i \in 1 .. n /\ (2 * i) - 1 = 2 * i - 1
      BY <1>1, <2>1, <2>6
    <3>2. ((2 * i) - 1) * r + j \in 1 .. n * r
      BY <1>1, <3>1, ItemIndex
    <3>3. Item(p, 2 * i, j) = l[((2 * i) - 1) * r + j]
      BY <1>4
    <3> QED BY <1>7, <2>4, <2>5, <2>6, <3>2, <3>3
  <2>7. CASE ~(2 * i <= n)
    <3>1. 2 * i - 1 = n /\ n % 2 # 0
      BY <1>1, <2>1, <2>7
    <3>2. m[(2 * i - 1) * r + j] = l[n * r - r + j]
      BY <1>7, <3>1
    <3>3. (n - 1) * r = n * r - r
      BY <1>1
    <3>4. Item(p, 2 * i - 1, j) = l[n * r - r + j]
      BY <1>4, <3>1, <3>3
    <3> QED BY <2>4, <2>5, <2>7, <3>2, <3>4
  <2> QED BY <2>6, <2>7
<1> QED BY <1>2, <1>8, <1>9 DEF n, r, q

\* The rounds follow one another.
LEMMA RoundsFacts ==
    ASSUME NEW T, NEW s \in Seq(T), s # <<>>
    PROVE  /\ Rounds(s, 0) = [runs |-> Len(s), run |-> 1, list |-> s]
           /\ \A k \in Nat : /\ Rounds(s, k) \in Runs(T)
                             /\ Rounds(s, k + 1) = Round(Rounds(s, k))
<1> DEFINE R == Runs(T)
           p0 == [runs |-> Len(s), run |-> 1, list |-> s]
           Eq(f) == f = [i \in Nat |-> IF i = 0 THEN p0 ELSE Round(f[i - 1])]
           step == [p \in R |-> Round(p)]
           rounds == CHOOSE f : Eq(f)
<1>1. p0 \in R
  <2>1. Len(s) \in Nat \ {0} /\ Len(s) * 1 = Len(s)
    BY EmptySeq
  <2> QED BY <2>1 DEF Runs
<1> HIDE DEF p0
<1>2. \A p \in R : Round(p) \in R
  BY RoundFacts
<1> HIDE DEF R
<1>3. step \in [R -> R]
  BY <1>2
<1> HIDE DEF step
<1>4. PICK f \in [Nat -> R] : f[0] = p0 /\ \A k \in Nat : f[k + 1] = step[f[k]]
  <2> HIDE DEF Eq, rounds
  <2>1. p0 \in R /\ step \in [R -> R]
    BY <1>1, <1>3
  <2>2. \E f : Iterated(f, R, p0, step)
    BY <2>1, Iterates
  <2> QED BY <2>2 DEF Iterated
<1>5. ASSUME NEW i \in Nat PROVE f[i] = IF i = 0 THEN p0 ELSE Round(f[i - 1])
  <2>1. CASE i = 0
    BY <1>4, <2>1
  <2>2. CASE i # 0
    <3>1. i - 1 \in Nat /\ (i - 1) + 1 = i
      BY <2>2
    <3>2. f[(i - 1) + 1] = step[f[i - 1]] /\ f[i - 1] \in R
      BY <1>4, <3>1
    <3>3. step[f[i - 1]] = Round(f[i - 1])
      BY <3>2 DEF step
    <3> QED BY <2>2, <3>1, <3>2, <3>3
  <2> QED BY <2>1, <2>2
<1>6. Eq(f)
  <2>1. f = [i \in Nat |-> f[i]]
    OBVIOUS
  <2> QED BY <1>5, <2>1
<1>7. Eq(rounds)
  <2> HIDE DEF Eq
  <2> QED BY <1>6
<1>8. \A k : Rounds(s, k) = rounds[k]
  BY DEF Rounds, p0
<1>9. \A i \in Nat : rounds[i] = IF i = 0 THEN p0 ELSE Round(rounds[i - 1])
  <2> HIDE DEF rounds
  <2> QED BY <1>7
<1> HIDE DEF rounds
<1>10. ASSUME NEW k \in Nat PROVE rounds[k + 1] = Round(rounds[k])
  <2>1. k + 1 \in Nat /\ k + 1 # 0 /\ (k + 1) - 1 = k
    OBVIOUS
  <2> QED BY <1>9, <2>1
<1>11. rounds[0] = p0
  BY <1>9
<1> DEFINE N == {k \in Nat : rounds[k] \in R}
<1>12. 0 \in N
  BY <1>1, <1>11
<1>13. ASSUME NEW k \in Nat, k \in N PROVE k + 1 \in N
  <2>1. rounds[k + 1] = Round(rounds[k])
    BY <1>10
  <2>2. rounds[k] \in R
    BY <1>13
  <2>3. rounds[k + 1] \in R
    BY <1>2, <2>1, <2>2
  <2> QED BY <2>3
<1>14. \A k \in Nat : k \in N
  <2> HIDE DEF N
  <2> QED BY <1>12, <1>13, NatBySteps
<1> QED BY <1>8, <1>10, <1>11, <1>14 DEF p0, R

\* Equal nodes stand for equal runs.
Alike(x, p, y, q) ==
    \A i \in 1 .. p.runs : \A k \in 1 .. q.runs :
        x[i] = y[k] => \A j \in 1 .. p.run : Item(p, i, j) = Item(q, k, j)

LEMMA RoundAlike ==
    ASSUME NEW T, NEW p \in Runs(T), NEW q \in Runs(T), p.run = q.run,
           NEW x, IsNodes(x, p.runs), NEW y, IsNodes(y, q.runs), Alike(x, p, y, q)
    PROVE  Alike(NextLevel(x), Round(p), NextLevel(y), Round(q))
<1> DEFINE n == p.runs
           m == q.runs
           r == p.run
           A(i) == IF 2 * i <= n THEN 2 * i ELSE 2 * i - 1
           B(k) == IF 2 * k <= m THEN 2 * k ELSE 2 * k - 1
           P == Round(p)
           Q == Round(q)
           X == NextLevel(x)
           Y == NextLevel(y)
<1>1. n \in Nat \ {0} /\ m \in Nat \ {0} /\ r \in Nat \ {0}
  BY DEF Runs
<1>2. /\ P.runs = (n + 1) \div 2 /\ P.run = 2 * r
      /\ \A i \in 1 .. (n + 1) \div 2 : \A j \in 1 .. r :
            /\ Item(P, i, j) = Item(p, 2 * i - 1, j)
            /\ Item(P, i, r + j) = Item(p, A(i), j)
  BY RoundFacts
<1>3. /\ Q.runs = (m + 1) \div 2
      /\ \A k \in 1 .. (m + 1) \div 2 : \A j \in 1 .. r :
            /\ Item(Q, k, j) = Item(q, 2 * k - 1, j)
            /\ Item(Q, k, r + j) = Item(q, B(k), j)
  BY RoundFacts
<1>4. \A i \in 1 .. (n + 1) \div 2 : X[i] = HashPair(x[2 * i - 1], x[A(i)])
  <2>1. \A i \in 1 .. (n + 1) \div 2 :
           X[i] = HashPair(x[2 * i - 1], IF 2 * i <= n THEN x[2 * i] ELSE x[2 * i - 1])
    BY NextLevelFacts
  <2> HIDE DEF X
  <2> QED BY <2>1
<1>5. \A k \in 1 .. (m + 1) \div 2 : Y[k] = HashPair(y[2 * k - 1], y[B(k)])
  <2>1. \A k \in 1 .. (m + 1) \div 2 :
           Y[k] = HashPair(y[2 * k - 1], IF 2 * k <= m THEN y[2 * k] ELSE y[2 * k - 1])
    BY NextLevelFacts
  <2> HIDE DEF Y
  <2> QED BY <2>1
<1>6. \A i \in 1 .. (n + 1) \div 2 : 2 * i - 1 \in 1 .. n /\ A(i) \in 1 .. n
  BY <1>1
<1>7. \A k \in 1 .. (m + 1) \div 2 : 2 * k - 1 \in 1 .. m /\ B(k) \in 1 .. m
  BY <1>1
<1>8. \A i \in 1 .. n : \A k \in 1 .. m :
         x[i] = y[k] => \A j \in 1 .. r : Item(p, i, j) = Item(q, k, j)
  BY DEF Alike
<1> HIDE DEF n, m, r, A, B, P, Q, X, Y
<1> SUFFICES ASSUME NEW i \in 1 .. P.runs, NEW k \in 1 .. Q.runs, X[i] = Y[k],
                    NEW j \in 1 .. P.run
             PROVE  Item(P, i, j) = Item(Q, k, j)
  BY DEF Alike, X, Y, P, Q
<1>9. i \in 1 .. (n + 1) \div 2 /\ k \in 1 .. (m + 1) \div 2 /\ j \in 1 .. 2 * r
  BY <1>2, <1>3
<1>10. x[2 * i - 1] = y[2 * k - 1] /\ x[A(i)] = y[B(k)]
  <2>1. HashPair(x[2 * i - 1], x[A(i)]) = HashPair(y[2 * k - 1], y[B(k)])
    BY <1>4, <1>5, <1>9
  <2> QED BY <2>1 DEF HashPair
<1>11. CASE j <= r
  <2>1. j \in 1 .. r
    BY <1>1, <1>9, <1>11
  <2>2. Item(P, i, j) = Item(p, 2 * i - 1, j) /\ Item(Q, k, j) = Item(q, 2 * k - 1, j)
    BY <1>2, <1>3, <1>9, <2>1
  <2>3. Item(p, 2 * i - 1, j) = Item(q, 2 * k - 1, j)
    BY <1>6, <1>7, <1>8, <1>9, <1>10, <2>1
  <2> QED BY <2>2, <2>3
<1>12. CASE ~(j <= r)
  <2> DEFINE d == j - r
  <2>1. d \in 1 .. r /\ j = r + d
    BY <1>1, <1>9, <1>12
  <2> HIDE DEF d
  <2>2. Item(P, i, r + d) = Item(p, A(i), d) /\ Item(Q, k, r + d) = Item(q, B(k), d)
    BY <1>2, <1>3, <1>9, <2>1
  <2>3. Item(p, A(i), d) = Item(q, B(k), d)
    BY <1>6, <1>7, <1>8, <1>9, <1>10, <2>1
  <2> QED BY <2>1, <2>2, <2>3
<1> QED BY <1>11, <1>12

\* After as many rounds as levels, there are as many runs as nodes.
LEMMA RoundsAreLevels ==
    ASSUME NEW T, NEW s \in Seq(T), s # <<>>, NEW x, IsNodes(x, Len(s)), NEW k \in Nat
    PROVE  /\ Rounds(s, k) \in Runs(T)
           /\ Rounds(s, k).runs = Len(Level(x, k))
           /\ IsNodes(Level(x, k), Rounds(s, k).runs)
<1> DEFINE W(i) == Rounds(s, i)
           L(i) == Level(x, i)
           N == {i \in Nat : W(i).runs = Len(L(i))}
<1>1. /\ W(0).runs = Len(s)
      /\ \A i \in Nat : W(i) \in Runs(T) /\ W(i + 1) = Round(W(i))
  BY RoundsFacts
<1>2. \A i \in Nat : IsNodes(L(i), Len(L(i))) /\ Len(L(i + 1)) = (Len(L(i)) + 1) \div 2
  BY LevelNodes
<1>3. Len(L(0)) = Len(s)
  BY LevelFacts, NodesLen
<1>4. \A i \in Nat : W(i + 1).runs = (W(i).runs + 1) \div 2
  <2> HIDE DEF W
  <2> QED BY <1>1, RoundFacts
<1> HIDE DEF W, L
<1>5. 0 \in N
  BY <1>1, <1>3
<1>6. ASSUME NEW i \in Nat, i \in N PROVE i + 1 \in N
  <2>1. W(i).runs = Len(L(i))
    BY <1>6
  <2>2. W(i + 1).runs = (W(i).runs + 1) \div 2
    BY <1>4
  <2>3. Len(L(i + 1)) = (Len(L(i)) + 1) \div 2
    BY <1>2
  <2>4. W(i + 1).runs = Len(L(i + 1))
    BY <2>1, <2>2, <2>3
  <2> QED BY <2>4
<1>7. \A i \in Nat : i \in N
  <2> HIDE DEF N
  <2> QED BY <1>5, <1>6, NatBySteps
<1>8. W(k).runs = Len(L(k))
  BY <1>7
<1>9. IsNodes(L(k), W(k).runs)
  BY <1>2, <1>8
<1> QED BY <1>1, <1>8, <1>9 DEF W, L

\* The last round makes the topmost level.
LEMMA LastRoundIsTop ==
    ASSUME NEW T, NEW s \in Seq(T), s # <<>>, NEW x, IsNodes(x, Len(s))
    PROVE  LastRound(s) = Top(x)
<1> DEFINE P(k) == Len(Level(x, k)) = 1 /\ (k = 0 \/ Len(Level(x, k - 1)) # 1)
           Q(k) == Rounds(s, k).runs = 1 /\ (k = 0 \/ Rounds(s, k - 1).runs # 1)
           n == Len(s)
<1>1. Len(x) = n /\ n \in Nat
  BY NodesLen
<1>2. \A k \in Nat : Rounds(s, k).runs = Len(Level(x, k))
  BY RoundsAreLevels
<1>3. ASSUME NEW k \in 0 .. n PROVE P(k) <=> Q(k)
  <2>1. k \in Nat /\ (k = 0 \/ k - 1 \in Nat)
    BY <1>1
  <2> QED BY <1>2, <2>1
<1>4. LastRound(s) = CHOOSE k \in 0 .. n : Q(k)
  BY DEF LastRound
<1>5. Top(x) = CHOOSE k \in 0 .. n : P(k)
  BY <1>1 DEF Top
<1> HIDE DEF P, Q, n
<1>6. (CHOOSE k \in 0 .. n : P(k)) = (CHOOSE k \in 0 .. n : Q(k))
  BY <1>3
<1> QED BY <1>4, <1>5, <1>6

\* At every level equal nodes stand for equal runs.
LEMMA LevelsAlike ==
    ASSUME NEW T, NEW s \in Seq(T), s # <<>>, NEW t \in Seq(T), t # <<>>,
           NEW x, IsNodes(x, Len(s)), \A i \in 1 .. Len(s) : x[i] = Leaf(s[i]),
           NEW y, IsNodes(y, Len(t)), \A i \in 1 .. Len(t) : y[i] = Leaf(t[i]),
           NEW k \in Nat
    PROVE  /\ Rounds(s, k).run = Rounds(t, k).run
           /\ Alike(Level(x, k), Rounds(s, k), Level(y, k), Rounds(t, k))
<1> DEFINE V(i) == Rounds(s, i)
           W(i) == Rounds(t, i)
           X(i) == Level(x, i)
           Y(i) == Level(y, i)
           N == {i \in Nat : V(i).run = W(i).run /\ Alike(X(i), V(i), Y(i), W(i))}
<1>1. /\ V(0) = [runs |-> Len(s), run |-> 1, list |-> s]
      /\ \A i \in Nat : V(i) \in Runs(T) /\ V(i + 1) = Round(V(i))
  BY RoundsFacts
<1>2. /\ W(0) = [runs |-> Len(t), run |-> 1, list |-> t]
      /\ \A i \in Nat : W(i) \in Runs(T) /\ W(i + 1) = Round(W(i))
  BY RoundsFacts
<1>3. X(0) = x /\ Y(0) = y /\ \A i \in Nat : X(i + 1) = NextLevel(X(i)) /\ Y(i + 1) = NextLevel(Y(i))
  BY LevelFacts
<1>4. \A i \in Nat : IsNodes(X(i), V(i).runs) /\ IsNodes(Y(i), W(i).runs)
  BY RoundsAreLevels
<1> HIDE DEF V, W, X, Y
<1>5. 0 \in N
  <2>1. V(0).run = W(0).run
    BY <1>1, <1>2
  <2>2. Alike(X(0), V(0), Y(0), W(0))
    <3> DEFINE v == V(0)
               w == W(0)
    <3>6. v.runs = Len(s) /\ v.run = 1 /\ v.list = s
      <4>1. v = [runs |-> Len(s), run |-> 1, list |-> s]
        BY <1>1, Zenon
      <4> HIDE DEF v
      <4> QED BY <4>1
    <3>7. w.runs = Len(t) /\ w.run = 1 /\ w.list = t
      <4>1. w = [runs |-> Len(t), run |-> 1, list |-> t]
        BY <1>2, Zenon
      <4> HIDE DEF w
      <4> QED BY <4>1
    <3>8. X(0) = x /\ Y(0) = y
      BY <1>3
    <3> HIDE DEF v, w
    <3> SUFFICES ASSUME NEW i \in 1 .. Len(s), NEW j \in 1 .. Len(t), x[i] = y[j], NEW e \in 1 .. 1
                 PROVE  Item(v, i, e) = Item(w, j, e)
      BY <3>6, <3>7, <3>8 DEF Alike, v, w
    <3>1. <<s[i]>> = <<t[j]>>
      BY DEF Leaf
    <3>2. s[i] = t[j]
      BY <3>1
    <3>3. i \in Int /\ j \in Int /\ e = 1
      <4>1. Len(s) \in Nat /\ Len(t) \in Nat
        BY LenProperties
      <4> QED BY <4>1
    <3>4. (i - 1) * 1 + e = i /\ (j - 1) * 1 + e = j
      BY <3>3
    <3>5. Item(v, i, e) = s[i] /\ Item(w, j, e) = t[j]
      BY <3>4, <3>6, <3>7 DEF Item
    <3> QED BY <3>2, <3>5
  <2> QED BY <2>1, <2>2
<1>6. ASSUME NEW i \in Nat, i \in N PROVE i + 1 \in N
  <2>1. V(i).run = W(i).run /\ Alike(X(i), V(i), Y(i), W(i))
    BY <1>6
  <2>2. Alike(NextLevel(X(i)), Round(V(i)), NextLevel(Y(i)), Round(W(i)))
    BY <1>1, <1>2, <1>4, <2>1, RoundAlike
  <2>3. Alike(X(i + 1), V(i + 1), Y(i + 1), W(i + 1))
    BY <1>1, <1>2, <1>3, <2>2
  <2>4. Round(V(i)).run = 2 * V(i).run /\ Round(W(i)).run = 2 * W(i).run
    BY <1>1, <1>2, RoundFacts
  <2>5. V(i + 1).run = W(i + 1).run
    BY <1>1, <1>2, <2>1, <2>4
  <2> QED BY <2>3, <2>5
<1>7. \A i \in Nat : i \in N
  <2> HIDE DEF N
  <2> QED BY <1>5, <1>6, NatBySteps
<1> QED BY <1>7 DEF V, W, X, Y

\* Lists that have the same root are the same when padded.
LEMMA RootDeterminesPadded ==
    ASSUME NEW s \in Bodies, NEW t \in Bodies, s # <<>>, t # <<>>,
           CalculateMerkleRoot(s) = CalculateMerkleRoot(t)
    PROVE  Padded(s) = Padded(t)
<1> DEFINE T == Tx \cup Coinbase
           x == Leaves(s)
           y == Leaves(t)
           D == Top(x)
           p == Rounds(s, D)
           q == Rounds(t, D)
<1>1. s \in Seq(T) /\ t \in Seq(T)
  BY DEF Bodies
<1>2. /\ IsNodes(x, Len(s)) /\ NoPairs(x, Len(s)) /\ \A i \in 1 .. Len(s) : x[i] = Leaf(s[i])
      /\ CalculateMerkleRoot(s) = Build(x)
  BY LeavesFacts
<1>3. /\ IsNodes(y, Len(t)) /\ NoPairs(y, Len(t)) /\ \A i \in 1 .. Len(t) : y[i] = Leaf(t[i])
      /\ CalculateMerkleRoot(t) = Build(y)
  BY LeavesFacts
<1> HIDE DEF x, y, T
<1>4. Build(x) = Build(y)
  BY <1>2, <1>3
<1>5. /\ D \in Nat /\ D = Top(y)
      /\ IsNodes(Level(x, D), 1) /\ IsNodes(Level(y, D), 1)
      /\ Level(x, D)[1] = Level(y, D)[1]
  BY <1>2, <1>3, <1>4, SameTop
<1>6. LastRound(s) = D /\ LastRound(t) = D
  <2>1. LastRound(s) = Top(x)
    BY <1>1, <1>2, LastRoundIsTop
  <2>2. LastRound(t) = Top(y)
    BY <1>1, <1>3, LastRoundIsTop
  <2> QED BY <1>5, <2>1, <2>2
<1> HIDE DEF D
<1>7. p \in Runs(T) /\ p.runs = 1
  <2>1. p \in Runs(T) /\ p.runs = Len(Level(x, D))
    BY <1>1, <1>2, <1>5, RoundsAreLevels
  <2>2. Len(Level(x, D)) = 1
    BY <1>5, NodesLen
  <2> QED BY <2>1, <2>2
<1>8. q \in Runs(T) /\ q.runs = 1
  <2>1. q \in Runs(T) /\ q.runs = Len(Level(y, D))
    BY <1>1, <1>3, <1>5, RoundsAreLevels
  <2>2. Len(Level(y, D)) = 1
    BY <1>5, NodesLen
  <2> QED BY <2>1, <2>2
<1>9. p.run = q.run /\ Alike(Level(x, D), p, Level(y, D), q)
  BY <1>1, <1>2, <1>3, <1>5, LevelsAlike
<1> HIDE DEF p, q
<1>10. \A j \in 1 .. p.run : Item(p, 1, j) = Item(q, 1, j)
  <2>1. 1 \in 1 .. p.runs /\ 1 \in 1 .. q.runs
    BY <1>7, <1>8
  <2> QED BY <1>5, <1>9, <2>1 DEF Alike
<1>11. /\ p.run \in Nat \ {0}
       /\ p.list \in Seq(T) /\ Len(p.list) = p.run
       /\ q.list \in Seq(T) /\ Len(q.list) = p.run
  BY <1>7, <1>8, <1>9 DEF Runs
<1>12. ASSUME NEW j \in 1 .. p.run PROVE p.list[j] = q.list[j]
  <2>1. (1 - 1) * p.run + j = j /\ (1 - 1) * q.run + j = j
    BY <1>9, <1>11
  <2> QED BY <1>10, <2>1 DEF Item
<1>13. p.list = q.list
  BY <1>11, <1>12, SeqEqual
<1> QED BY <1>6, <1>13 DEF Padded, p, q

\* Whatever body a node takes for the candidate's, the two differ only in
\* repetitions of their ends that the levels of odd length make anyway.
THEOREM BodiesOnlyRepeatTails == CandidateSpec => []OnlyTailRepeats
<1>1. CandidateInv => OnlyTailRepeats
  BY RootDeterminesPadded DEF CandidateInv, OnlyTailRepeats
<1> QED BY <1>1, CandidateInvariance, PTL

\* A step of Candidate is one of Mempool or leaves the pool alone: what holds
\* of every behaviour of the mempool holds of it here.
LEMMA CandidateImplementsMempool == CandidateSpec => Spec
<1>1. CandidateInit => Init
  BY DEF CandidateInit
<1>2. [CandidateNext]_candidateVars => [Next]_poolVars
  BY DEF CandidateNext, candidateVars, poolVars, PrepareCandidate, ReceiveBody
<1> QED BY <1>1, <1>2, PTL DEF CandidateSpec, Spec

\* What the run of Candidate checks of the pool: it stays within max_size and
\* keeps the order in which transactions came, but for a resubmission of the
\* oldest to a full pool (mempool.py:9-20).
THEOREM CandidatePoolSafe ==
    CandidateSpec => [](PoolTypeOK /\ PoolBounded) /\ PoolKeepsOrder
<1>1. CandidateSpec => Spec
  BY CandidateImplementsMempool
<1> QED BY <1>1, PoolTypeCorrect, PoolAlwaysBounded, PoolAlwaysKeepsOrder, PTL
=============================================================================
