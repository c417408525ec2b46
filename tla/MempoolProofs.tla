---------------------------- MODULE MempoolProofs ----------------------------
(***************************************************************************)
(* Proofs about Mempool, for every set of transactions and every max_size. *)
(***************************************************************************)
EXTENDS Mempool, TLAPS, FiniteSetTheorems

\* `before` stands for the order of a dict: it is strict and total.
PoolOrdered ==
    /\ \A t \in txs : <<t, t>> \notin before
    /\ \A t, u \in txs : t # u => (<<t, u>> \in before) # (<<u, t>> \in before)
    /\ \A t, u, v \in txs :
          <<t, u>> \in before /\ <<u, v>> \in before => <<t, v>> \in before

\* The inductive invariant: which transaction is the oldest, and so what an
\* eviction does to the order, needs the order to be strict and total; the
\* bound needs the pool to be finite.
PoolInv ==
    /\ PoolTypeOK
    /\ PoolOrdered
    /\ IsFiniteSet(txs)
    /\ PoolBounded

LEMMA AmongFacts ==
    ASSUME NEW S, NEW R, NEW t \in S, NEW u \in S
    PROVE  <<t, u>> \in Among(S, R) <=> <<t, u>> \in R
BY DEF Among

LEMMA AmongType ==
    ASSUME NEW S, NEW U, NEW R, R \subseteq U \X U
    PROVE  Among(S, R) \subseteq S \X S
BY DEF Among

\* Removing keys keeps the rest ordered.
LEMMA AmongOrdered ==
    ASSUME PoolTypeOK, PoolOrdered, NEW S \in SUBSET txs
    PROVE  /\ Among(S, before) \subseteq S \X S
           /\ \A t \in S : <<t, t>> \notin Among(S, before)
           /\ \A t, u \in S : t # u =>
                 (<<t, u>> \in Among(S, before)) # (<<u, t>> \in Among(S, before))
           /\ \A t, u, v \in S :
                 /\ <<t, u>> \in Among(S, before)
                 /\ <<u, v>> \in Among(S, before)
                 => <<t, v>> \in Among(S, before)
<1>1. Among(S, before) \subseteq S \X S
  BY AmongType DEF PoolTypeOK
<1>2. \A t, u \in S : <<t, u>> \in Among(S, before) <=> <<t, u>> \in before
  BY AmongFacts
<1> QED BY <1>1, <1>2 DEF PoolOrdered

\* An insertion into a subset of the keys keeps the order.
LEMMA InsertOrdered ==
    ASSUME PoolTypeOK, PoolOrdered, NEW S \in SUBSET txs, NEW t \in Tx, Insert(t, S)
    PROVE  PoolTypeOK' /\ PoolOrdered'
<1> DEFINE A == Among(S, before)
<1>1. /\ A \subseteq S \X S
      /\ \A x \in S : <<x, x>> \notin A
      /\ \A x, y \in S : x # y => (<<x, y>> \in A) # (<<y, x>> \in A)
      /\ \A x, y, z \in S : <<x, y>> \in A /\ <<y, z>> \in A => <<x, z>> \in A
  BY AmongOrdered
<1> HIDE DEF A
<1>2. txs' = S \cup {t} /\ before' = (IF t \in S THEN A ELSE A \cup (S \X {t}))
  BY DEF Insert, InsertedIn, A
<1>3. PoolTypeOK'
  BY <1>1, <1>2 DEF PoolTypeOK
<1>4. CASE t \in S
  <2>1. txs' = S /\ before' = A
    BY <1>2, <1>4
  <2> QED BY <1>1, <1>3, <2>1 DEF PoolOrdered
<1>5. CASE t \notin S
  <2>1. \A x, y : <<x, y>> \in before' <=> <<x, y>> \in A \/ (x \in S /\ y = t)
    BY <1>2, <1>5
  <2>2. \A x, y : <<x, y>> \in A => x \in S /\ y \in S
    BY <1>1
  <2>3. \A x \in txs' : <<x, x>> \notin before'
    BY <1>1, <1>2, <1>5, <2>1, <2>2
  <2>4. \A x, y \in txs' : x # y => (<<x, y>> \in before') # (<<y, x>> \in before')
    <3> SUFFICES ASSUME NEW x \in txs', NEW y \in txs', x # y
                 PROVE  (<<x, y>> \in before') # (<<y, x>> \in before')
      OBVIOUS
    <3>1. CASE x \in S /\ y \in S
      <4>1. (<<x, y>> \in A) # (<<y, x>> \in A)
        BY <1>1, <3>1
      <4>2. (<<x, y>> \in before' <=> <<x, y>> \in A) /\ (<<y, x>> \in before' <=> <<y, x>> \in A)
        BY <1>5, <2>1, <3>1
      <4> QED BY <4>1, <4>2
    <3>2. CASE x = t /\ y \in S
      BY <1>5, <2>1, <2>2, <3>2
    <3>3. CASE x \in S /\ y = t
      BY <1>5, <2>1, <2>2, <3>3
    <3> QED BY <1>2, <3>1, <3>2, <3>3
  <2>5. \A x, y, z \in txs' :
           <<x, y>> \in before' /\ <<y, z>> \in before' => <<x, z>> \in before'
    <3> SUFFICES ASSUME NEW x \in txs', NEW y \in txs', NEW z \in txs',
                        <<x, y>> \in before', <<y, z>> \in before'
                 PROVE  <<x, z>> \in before'
      OBVIOUS
    <3>1. y \in S /\ x \in S /\ <<x, y>> \in A
      BY <1>5, <2>1, <2>2
    <3>2. CASE z = t
      BY <2>1, <3>1, <3>2
    <3>3. CASE <<y, z>> \in A
      BY <1>1, <2>1, <2>2, <3>1, <3>3
    <3> QED BY <2>1, <3>2, <3>3
  <2> QED BY <1>3, <2>3, <2>4, <2>5 DEF PoolOrdered
<1> QED BY <1>3, <1>4, <1>5

LEMMA PoolInvNext == PoolInv /\ [Next]_poolVars => PoolInv'
<1> SUFFICES ASSUME PoolInv, [Next]_poolVars PROVE PoolInv'
  OBVIOUS
<1>1. /\ PoolTypeOK /\ PoolOrdered /\ IsFiniteSet(txs) /\ Cardinality(txs) \in Nat
      /\ Cardinality(txs) <= MaxSize
  BY FS_CardinalityType DEF PoolInv, PoolBounded
<1>2. ASSUME NEW t \in Tx, AddTransaction(t) PROVE PoolInv'
  <2>1. CASE Cardinality(txs) < MaxSize /\ Insert(t, txs)
    <3>1. PoolTypeOK' /\ PoolOrdered'
      BY <1>1, <2>1, InsertOrdered
    <3>2. txs' = txs \cup {t}
      BY <2>1 DEF Insert
    <3>3. IsFiniteSet(txs') /\ Cardinality(txs') <= Cardinality(txs) + 1 /\ Cardinality(txs') \in Nat
      BY <1>1, <3>2, FS_AddElement, FS_CardinalityType
    <3>4. Cardinality(txs') <= MaxSize
      BY <1>1, <2>1, <3>3, MempoolAssumption
    <3> QED BY <3>1, <3>3, <3>4 DEF PoolInv, PoolBounded
  <2>2. ASSUME NEW old \in txs, Insert(t, txs \ {old}) PROVE PoolInv'
    <3>1. PoolTypeOK' /\ PoolOrdered'
      BY <1>1, <2>2, InsertOrdered
    <3>2. txs' = (txs \ {old}) \cup {t}
      BY <2>2 DEF Insert
    <3>3. IsFiniteSet(txs \ {old}) /\ Cardinality(txs \ {old}) = Cardinality(txs) - 1
      BY <1>1, FS_RemoveElement
    <3>4. /\ IsFiniteSet(txs')
          /\ Cardinality(txs') <= Cardinality(txs \ {old}) + 1
          /\ Cardinality(txs') \in Nat /\ Cardinality(txs \ {old}) \in Nat
      <4> DEFINE U == txs \ {old}
      <4>1. IsFiniteSet(U) /\ Cardinality(U) \in Nat
        BY <3>3, FS_CardinalityType
      <4> HIDE DEF U
      <4>2. /\ IsFiniteSet(U \cup {t})
            /\ Cardinality(U \cup {t}) = IF t \in U THEN Cardinality(U) ELSE Cardinality(U) + 1
        BY <4>1, FS_AddElement
      <4>3. txs' = U \cup {t}
        BY <3>2 DEF U
      <4> QED BY <4>1, <4>2, <4>3 DEF U
    <3>5. Cardinality(txs') <= MaxSize
      BY <1>1, <3>3, <3>4, MempoolAssumption
    <3> QED BY <3>1, <3>4, <3>5 DEF PoolInv, PoolBounded
  <2> QED BY <1>2, <2>1, <2>2 DEF AddTransaction
<1>3. ASSUME NEW S \in SUBSET Tx, RemoveTransactions(S) PROVE PoolInv'
  <2>1. txs' = txs \ S /\ before' = Among(txs \ S, before)
    BY <1>3 DEF RemoveTransactions
  <2>2. txs \ S \in SUBSET txs
    OBVIOUS
  <2>3. PoolTypeOK' /\ PoolOrdered'
    BY <1>1, <2>1, <2>2, AmongOrdered DEF PoolTypeOK, PoolOrdered
  <2>4. IsFiniteSet(txs') /\ Cardinality(txs') <= Cardinality(txs) /\ Cardinality(txs') \in Nat
    BY <1>1, <2>1, <2>2, FS_Subset, FS_CardinalityType
  <2>5. Cardinality(txs') <= MaxSize
    BY <1>1, <2>4, MempoolAssumption
  <2> QED BY <2>3, <2>4, <2>5 DEF PoolInv, PoolBounded
<1>4. CASE UNCHANGED poolVars
  BY <1>1, <1>4 DEF poolVars, PoolInv, PoolTypeOK, PoolOrdered, PoolBounded
<1> QED BY <1>2, <1>3, <1>4 DEF Next

LEMMA PoolInvInit == Init => PoolInv
<1> SUFFICES ASSUME Init PROVE PoolInv
  OBVIOUS
<1>1. IsFiniteSet(txs) /\ Cardinality(txs) = 0
  BY FS_EmptySet DEF Init
<1> QED BY <1>1, MempoolAssumption DEF Init, PoolInv, PoolTypeOK, PoolOrdered, PoolBounded

THEOREM PoolInvariance == Spec => []PoolInv
BY PoolInvInit, PoolInvNext, PTL DEF Spec

\* The pool holds transactions, and the order is one of its members.
THEOREM PoolTypeCorrect == Spec => []PoolTypeOK
<1>1. PoolInv => PoolTypeOK
  BY DEF PoolInv
<1> QED BY <1>1, PoolInvariance, PTL

\* The pool never outgrows max_size.
THEOREM PoolAlwaysBounded == Spec => []PoolBounded
<1>1. PoolInv => PoolBounded
  BY DEF PoolInv
<1> QED BY <1>1, PoolInvariance, PTL

\* Only an eviction that is undone at once changes the order of two
\* transactions.
THEOREM PoolAlwaysKeepsOrder == Spec => PoolKeepsOrder
<1>1. ASSUME PoolInv, [Next]_poolVars, NEW t \in txs \cap txs', NEW u \in txs \cap txs',
             <<t, u>> \in before, <<t, u>> \notin before'
      PROVE  Cardinality(txs) >= MaxSize /\ IsOldest(t, txs, before)
  <2>1. ASSUME NEW n \in Tx, NEW S \in SUBSET txs, Insert(n, S), t \in S, u \in S
        PROVE  FALSE
    <3>1. <<t, u>> \in Among(S, before)
      BY <1>1, <2>1, AmongFacts
    <3> QED BY <1>1, <2>1, <3>1 DEF Insert, InsertedIn
  <2>2. ASSUME NEW n \in Tx, Cardinality(txs) < MaxSize, Insert(n, txs)
        PROVE  FALSE
    BY <2>1, <2>2
  <2>3. ASSUME NEW n \in Tx, NEW old \in txs, Cardinality(txs) >= MaxSize,
               IsOldest(old, txs, before), Insert(n, txs \ {old})
        PROVE  t = old
    <3> SUFFICES ASSUME t # old PROVE FALSE
      OBVIOUS
    <3>1. CASE u # old
      BY <2>1, <2>3, <3>1
    <3>2. CASE u = old
      <4>1. <<u, t>> \in before
        BY <2>3, <3>2 DEF IsOldest
      <4>2. t # u => (<<t, u>> \in before) # (<<u, t>> \in before)
        BY <1>1 DEF PoolInv, PoolOrdered
      <4> QED BY <1>1, <3>2, <4>1, <4>2
    <3> QED BY <3>1, <3>2
  <2>4. ASSUME NEW S \in SUBSET Tx, RemoveTransactions(S) PROVE FALSE
    <3>1. <<t, u>> \in Among(txs \ S, before)
      BY <1>1, <2>4, AmongFacts DEF RemoveTransactions
    <3> QED BY <1>1, <2>4, <3>1 DEF RemoveTransactions
  <2>5. ~UNCHANGED poolVars
    BY <1>1 DEF poolVars
  <2>6. CASE \E n \in Tx : AddTransaction(n)
    BY <2>2, <2>3, <2>6 DEF AddTransaction
  <2> QED BY <1>1, <2>4, <2>5, <2>6 DEF Next
<1>2. ASSUME PoolInv, [Next]_poolVars
      PROVE  \A t, u \in txs \cap txs' :
                <<t, u>> \in before /\ <<t, u>> \notin before' =>
                    Cardinality(txs) >= MaxSize /\ IsOldest(t, txs, before)
  BY <1>1, <1>2
<1> QED BY <1>2, PoolInvariance, PTL DEF Spec, PoolKeepsOrder
=============================================================================
