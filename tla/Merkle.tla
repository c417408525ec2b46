------------------------------- MODULE Merkle -------------------------------
(***************************************************************************)
(* The Merkle tree over the transactions of a block                        *)
(* (curvetime/core/merkle.py, Block.calculate_merkle_root).                *)
(*                                                                         *)
(* A hash names what it is the hash of: that of a transaction is a tuple   *)
(* of one, that of two concatenated hashes the pair of them, so that no    *)
(* pair's hash is a transaction's.                                         *)
(***************************************************************************)
EXTENDS Integers, Sequences

CONSTANT Zeros  \* "0" * 64, the root of a block without transactions

\* tx.hash
Leaf(tx) == <<tx>>

HashPair(left, right) == <<left, right>>

\* Faulty: a node without a partner is left out.
NextLevelDropsLast(nodes) ==
    [i \in 1 .. Len(nodes) \div 2 |-> HashPair(nodes[2 * i - 1], nodes[2 * i])]

\* Faulty: a node without a partner is paired with the first one.
NextLevelWraps(nodes) ==
    [i \in 1 .. (Len(nodes) + 1) \div 2 |->
        HashPair(nodes[2 * i - 1],
                 IF 2 * i <= Len(nodes) THEN nodes[2 * i] ELSE nodes[1])]

\* One level up: pairs from the left; a node without a partner is its own.
NextLevel(nodes) ==
    [i \in 1 .. (Len(nodes) + 1) \div 2 |->
        HashPair(nodes[2 * i - 1],
                 IF 2 * i <= Len(nodes) THEN nodes[2 * i] ELSE nodes[2 * i - 1])]

\* The nodes k calls of _build further up
Level(nodes, k) ==
    LET level[i \in Nat] == IF i = 0 THEN nodes ELSE NextLevel(level[i - 1])
    IN  level[k]

\* How many calls it takes until one node is left
Top(nodes) ==
    CHOOSE k \in 0 .. Len(nodes) :
        /\ Len(Level(nodes, k)) = 1
        /\ k = 0 \/ Len(Level(nodes, k - 1)) # 1

Build(nodes) == Level(nodes, Top(nodes))[1]

CalculateMerkleRoot(transactions) ==
    IF transactions = <<>>
    THEN Zeros
    ELSE Build([i \in 1 .. Len(transactions) |-> Leaf(transactions[i])])

-----------------------------------------------------------------------------
(* For reference: the list whose complete tree has that root.  It is made  *)
(* in rounds, for runs of 1, 2, 4, ... elements: when a round finds an odd *)
(* number of runs, it repeats the last one.                                *)

Round(p) ==
    [runs |-> (p.runs + 1) \div 2,
     run  |-> 2 * p.run,
     list |-> IF p.runs % 2 = 0
              THEN p.list
              ELSE p.list \o SubSeq(p.list, Len(p.list) - p.run + 1, Len(p.list))]

Rounds(s, k) ==
    LET p[i \in Nat] == IF i = 0
                        THEN [runs |-> Len(s), run |-> 1, list |-> s]
                        ELSE Round(p[i - 1])
    IN  p[k]

\* The round that leaves a single run is the last.
LastRound(s) ==
    CHOOSE k \in 0 .. Len(s) :
        /\ Rounds(s, k).runs = 1
        /\ k = 0 \/ Rounds(s, k - 1).runs # 1

Padded(s) == Rounds(s, LastRound(s)).list
=============================================================================
