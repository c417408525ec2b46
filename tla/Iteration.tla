------------------------------ MODULE Iteration ------------------------------
(***************************************************************************)
(* Two facts about the natural numbers that the proofs of this project     *)
(* rest on: a set that holds 0 and the successor of each of its members    *)
(* holds all of them, and a step can be iterated.  Recursive functions are *)
(* well defined by the second, and reasoned about by the first.            *)
(***************************************************************************)
EXTENDS Naturals, TLAPS, WellFoundedInduction

\* Induction, over a set.
LEMMA NatBySteps ==
    ASSUME NEW S, 0 \in S, \A k \in Nat : k \in S => k + 1 \in S
    PROVE  \A k \in Nat : k \in S
<1> SUFFICES ASSUME Nat \ S # {} PROVE FALSE
  OBVIOUS
<1>1. PICK x \in Nat \ S : \A y \in Nat \ S : ~(<<y, x>> \in OpToRel(<, Nat))
  <2> DEFINE C == Nat \ S
  <2>1. C \subseteq Nat /\ C # {}
    OBVIOUS
  <2> HIDE DEF C
  <2>2. \E x \in C : \A y \in C : ~(<<y, x>> \in OpToRel(<, Nat))
    BY <2>1, NatLessThanWellFounded, WFMin
  <2> QED BY <2>2 DEF C
<1>2. \A y \in Nat \ S : ~(y < x)
  BY <1>1 DEF OpToRel
<1>3. x # 0 /\ x - 1 \in Nat /\ x - 1 < x /\ (x - 1) + 1 = x
  OBVIOUS
<1>4. x - 1 \in S
  BY <1>2, <1>3
<1> QED BY <1>3, <1>4

\* The first n iterates
Approx(f, n, S, s0, step) ==
    /\ f \in [0 .. n -> S]
    /\ f[0] = s0
    /\ \A k \in 0 .. n - 1 : f[k + 1] = step[f[k]]

\* All of them
Iterated(f, S, s0, step) ==
    /\ f \in [Nat -> S]
    /\ f[0] = s0
    /\ \A k \in Nat : f[k + 1] = step[f[k]]

\* Any step can be iterated from any start.
LEMMA Iterates ==
    ASSUME NEW S, NEW s0 \in S, NEW step \in [S -> S]
    PROVE  \E f : Iterated(f, S, s0, step)
<1> DEFINE A(f, n) == Approx(f, n, S, s0, step)
<1>1. \A n \in Nat : \E f : A(f, n)
  <2> DEFINE N == {n \in Nat : \E f : A(f, n)}
  <2>1. 0 \in N
    <3> DEFINE f == [k \in 0 .. 0 |-> s0]
    <3>1. A(f, 0)
      BY DEF Approx
    <3> QED BY <3>1
  <2>2. ASSUME NEW n \in Nat, n \in N PROVE n + 1 \in N
    <3>1. PICK f : A(f, n)
      BY <2>2
    <3> DEFINE g == [k \in 0 .. n + 1 |-> IF k = n + 1 THEN step[f[n]] ELSE f[k]]
    <3>2. f \in [0 .. n -> S] /\ f[n] \in S
      BY <3>1 DEF Approx
    <3>3. g \in [0 .. n + 1 -> S] /\ g[0] = s0
      BY <3>1, <3>2 DEF Approx
    <3>4. ASSUME NEW k \in 0 .. (n + 1) - 1 PROVE g[k + 1] = step[g[k]]
      <4>1. CASE k = n
        BY <4>1
      <4>2. CASE k # n
        <5>1. k \in 0 .. n - 1
          BY <4>2
        <5>2. g[k] = f[k] /\ g[k + 1] = f[k + 1]
          BY <5>1
        <5> QED BY <3>1, <5>1, <5>2 DEF Approx
      <4> QED BY <4>1, <4>2
    <3>5. A(g, n + 1)
      BY <3>3, <3>4 DEF Approx
    <3> QED BY <3>5
  <2> HIDE DEF N
  <2>3. \A n \in Nat : n \in N
    BY <2>1, <2>2, NatBySteps
  <2> QED BY <2>3 DEF N
<1>2. ASSUME NEW n \in Nat, NEW f, A(f, n), NEW m \in Nat, NEW g, A(g, m)
      PROVE  \A k \in Nat : k <= n /\ k <= m => f[k] = g[k]
  <2> DEFINE N == {k \in Nat : k <= n /\ k <= m => f[k] = g[k]}
  <2>1. 0 \in N
    BY <1>2 DEF Approx
  <2>2. ASSUME NEW k \in Nat, k \in N PROVE k + 1 \in N
    <3> SUFFICES ASSUME k + 1 <= n, k + 1 <= m PROVE f[k + 1] = g[k + 1]
      OBVIOUS
    <3>1. k \in 0 .. n - 1 /\ k \in 0 .. m - 1 /\ f[k] = g[k]
      BY <2>2
    <3>2. f[k + 1] = step[f[k]] /\ g[k + 1] = step[g[k]]
      BY <1>2, <3>1 DEF Approx
    <3> QED BY <3>1, <3>2
  <2> HIDE DEF N
  <2>3. \A k \in Nat : k \in N
    BY <2>1, <2>2, NatBySteps
  <2> QED BY <2>3 DEF N
<1> DEFINE h == [n \in Nat |-> CHOOSE f : A(f, n)]
           F == [n \in Nat |-> h[n][n]]
<1>3. \A n \in Nat : A(h[n], n)
  BY <1>1
<1>4. ASSUME NEW n \in Nat PROVE F[n] \in S /\ F[n] = h[n][n] /\ n \in 0 .. n
  BY <1>3 DEF Approx
<1>5. F \in [Nat -> S]
  BY <1>4
<1>6. F[0] = s0
  BY <1>3, <1>4 DEF Approx
<1>7. ASSUME NEW k \in Nat PROVE F[k + 1] = step[F[k]]
  <2>1. A(h[k], k) /\ A(h[k + 1], k + 1) /\ k + 1 \in Nat
    BY <1>3
  <2>2. k \in 0 .. (k + 1) - 1 /\ k <= k /\ k <= k + 1
    OBVIOUS
  <2>3. h[k + 1][k + 1] = step[h[k + 1][k]]
    BY <2>1, <2>2 DEF Approx
  <2>4. h[k + 1][k] = h[k][k]
    <3> HIDE DEF h
    <3> QED BY <1>2, <2>1, <2>2
  <2> QED BY <2>3, <2>4
<1> HIDE DEF F
<1> QED BY <1>5, <1>6, <1>7 DEF Iterated
=============================================================================
