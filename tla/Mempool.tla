------------------------------ MODULE Mempool ------------------------------
(***************************************************************************)
(* The pending transactions (curvetime/storage/mempool.py): a dict from    *)
(* hash to transaction, of which the code uses the insertion order.        *)
(*                                                                         *)
(* The dict is its set of keys with the order they were inserted in; an    *)
(* assignment to a key that is present leaves the key where it is.  Every  *)
(* operation is synchronous, so each is one action.                        *)
(***************************************************************************)
EXTENDS Integers, FiniteSets

CONSTANTS
    Tx,       \* transactions, by hash
    MaxSize   \* Mempool.max_size: storage.mempool_size of the configuration

ASSUME MempoolAssumption == MaxSize \in Nat

VARIABLES
    txs,    \* the keys of Mempool.txs
    before  \* <<t, u>> is in it when t comes before u in the dict

poolVars == <<txs, before>>

-----------------------------------------------------------------------------
(* An insertion-ordered dict *)

\* next(iter(self.txs))
IsOldest(t, S, R) == t \in S /\ \A u \in S \ {t} : <<t, u>> \in R

\* The order R without the keys outside S.
Among(S, R) == {p \in R : p[1] \in S /\ p[2] \in S}

\* The keys S in the order R after `d[t] = tx`.
InsertedIn(t, S, R) == IF t \in S THEN R ELSE R \cup (S \X {t})

-----------------------------------------------------------------------------

Init == txs = {} /\ before = {}

\* Faulty: an assignment moves the key to the end.
InsertAtEnd(t, S) ==
    /\ txs' = S \cup {t}
    /\ before' = Among(S \ {t}, before) \cup ((S \ {t}) \X {t})

Insert(t, S) ==
    /\ txs' = S \cup {t}
    /\ before' = InsertedIn(t, S, Among(S, before))

\* Faulty: the pool is taken as full only above max_size.
AddTransactionLate(t) ==
    \/ /\ Cardinality(txs) <= MaxSize
       /\ Insert(t, txs)
    \/ /\ Cardinality(txs) > MaxSize
       /\ \E old \in txs : IsOldest(old, txs, before) /\ Insert(t, txs \ {old})

\* add_transaction: at max_size the oldest transaction goes first, whether
\* or not t is already there.  With max_size 0 the eviction raises
\* StopIteration on the empty dict.
AddTransaction(t) ==
    \/ /\ Cardinality(txs) < MaxSize
       /\ Insert(t, txs)
    \/ /\ Cardinality(txs) >= MaxSize
       /\ \E old \in txs : IsOldest(old, txs, before) /\ Insert(t, txs \ {old})

\* Faulty: the order keeps the removed keys.
RemoveTransactionsOnly(S) ==
    /\ txs' = txs \ S
    /\ UNCHANGED before

\* remove_transactions: pop with a default, for each of the list
RemoveTransactions(S) ==
    /\ txs' = txs \ S
    /\ before' = Among(txs \ S, before)

\* get_pending_transactions: the first keys of the dict
Pending(limit) ==
    {t \in txs : Cardinality({u \in txs : <<u, t>> \in before}) < limit}

Next ==
    \/ \E t \in Tx : AddTransaction(t)
    \/ \E S \in SUBSET Tx : RemoveTransactions(S)

Spec == Init /\ [][Next]_poolVars

-----------------------------------------------------------------------------
(* Properties *)

PoolTypeOK == txs \subseteq Tx /\ before \subseteq txs \X txs

\* The pool never holds more than max_size transactions, in whatever order
\* submissions, resubmissions and removals come (mempool.py:10-12).
PoolBounded == Cardinality(txs) <= MaxSize

\* First come, first mined: two transactions that stay in the pool keep
\* their order.  The one exception is the oldest of a full pool when it is
\* submitted again: it is evicted and comes back as the newest
\* (mempool.py:10-13).
PoolKeepsOrder ==
    [][\A t, u \in txs \cap txs' :
          <<t, u>> \in before /\ <<t, u>> \notin before' =>
              Cardinality(txs) >= MaxSize /\ IsOldest(t, txs, before)]_poolVars
=============================================================================
