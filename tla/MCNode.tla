------------------------------- MODULE MCNode -------------------------------
(***************************************************************************)
(* Node over a small tree of blocks: one genesis block, two competing      *)
(* blocks at height 1, one of which has a successor, and a block that      *)
(* fails its proof of work.  Every block carries a transaction that the    *)
(* mempool can hold too.                                                   *)
(***************************************************************************)
EXTENDS Node

CONSTANTS g, a1, b1, a2, weak,  \* blocks
          t0, t1, t2, t3, forged  \* transactions

MCBlock == {g, a1, b1, a2, weak}
MCGenesis == {g}
MCTx == {t0, t1, t2, t3, forged}
MCSignedTx == {t1, t2, t3}
MCValidTx == MCTx \ {forged}

\* HashBits is 2: difficulty 1 asks for work < 2, difficulty 4 for work 0.
H(prev, height, bits, work) ==
    [prev |-> prev, height |-> height, bits |-> bits, work |-> work, rootOk |-> TRUE]

MCheader == [b \in MCBlock |->
    CASE b = g    -> H(NoBlock, 0, 4, 3)
      [] b = a1   -> H(g, 1, 1, 1)
      [] b = b1   -> H(g, 1, 4, 0)
      [] b = a2   -> H(a1, 2, 1, 0)
      [] b = weak -> H(g, 1, 4, 1)]

MCbody == [b \in MCBlock |->
    CASE b = g -> <<t0>>
      [] b \in {a1, weak} -> <<t1>>
      [] b = b1 -> <<t2>>
      [] b = a2 -> <<t2, t1>>]
=============================================================================
