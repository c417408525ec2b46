---------------------------- MODULE MCChainStore ----------------------------
(***************************************************************************)
(* ChainStore over a tree of blocks: two genesis blocks (two first starts  *)
(* in different seconds), forks at heights 1 and 2, a transaction that     *)
(* two competing and two consecutive blocks share, an empty block, and     *)
(* blocks that fail each check of Block.validate.                          *)
(***************************************************************************)
EXTENDS ChainStore

CONSTANTS g1, g2,              \* genesis blocks
          a1, b1, a2, b2, c2, e1, e2,  \* valid blocks, by height
          weak, forged, skip, stray, unsigned,  \* invalid ones
          t0, t1, t2, t3, tbad

MCBlock == {g1, g2, a1, b1, a2, b2, c2, e1, e2, weak, forged, skip, stray, unsigned}
MCGenesis == {g1, g2}
MCTx == {t0, t1, t2, t3, tbad}
MCValidTx == MCTx \ {tbad}

\* HashBits is 3: difficulty 1 asks for work < 4, difficulty 2 for work < 2
\* and difficulty 3 and above for 0.
H(prev, height, bits, work, rootOk) ==
    [prev |-> prev, height |-> height, bits |-> bits, work |-> work, rootOk |-> rootOk]

MCheader == [b \in MCBlock |->
    CASE b \in {g1, g2} -> H(NoBlock, 0, 4, 5, TRUE)
      [] b = a1         -> H(g1, 1, 1, 3, TRUE)
      [] b = b1         -> H(g1, 1, 3, 0, TRUE)
      [] b = e1         -> H(g2, 1, 1, 0, TRUE)
      [] b \in {a2, c2} -> H(a1, 2, 1, 2, TRUE)
      [] b = b2         -> H(b1, 2, 2, 1, TRUE)
      [] b = e2         -> H(e1, 2, 1, 0, TRUE)
      [] b = weak       -> H(a1, 2, 2, 2, TRUE)
      [] b = forged     -> H(a1, 2, 1, 0, FALSE)
      [] b = skip       -> H(g1, 2, 1, 0, TRUE)
      [] b = stray      -> H(b1, 1, 1, 0, TRUE)
      [] b = unsigned   -> H(g1, 1, 1, 0, TRUE)]

MCbody == [b \in MCBlock |->
    CASE b \in {g1, g2, forged, stray} -> <<t0>>
      [] b \in {a1, b2} -> <<t1, t2>>
      [] b = b1         -> <<t3, t1>>
      [] b = a2         -> <<t2, t3>>
      [] b = c2         -> <<t3>>
      [] b = e1         -> <<>>
      [] b = e2         -> <<t1>>
      [] b \in {weak, skip} -> <<t3>>
      [] b = unsigned   -> <<t1, tbad>>]
=============================================================================
