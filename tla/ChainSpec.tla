----------------------------- MODULE ChainSpec -----------------------------
(***************************************************************************)
(* What the block store promises its users: while the node is up there is  *)
(* one chain, it starts with a genesis block and only ever grows, by one   *)
(* block that validates against its tip.  A halt may lose the most recent  *)
(* blocks and nothing else.                                                *)
(***************************************************************************)
EXTENDS Blocks

VARIABLES
    chain,  \* the blocks by height, chain[h + 1] is the block at height h
    up      \* a node has the store open

vars == <<chain, up>>

Tip == chain[Len(chain)]

Init == chain = <<>> /\ up = FALSE

\* An empty store gets a genesis block, any other one is taken as it is.
Boot ==
    /\ ~up
    /\ up' = TRUE
    /\ \/ chain # <<>> /\ UNCHANGED chain
       \/ chain = <<>> /\ \E g \in Genesis : chain' = <<g>>

Extend(b) ==
    /\ up
    /\ Validate(b, Tip, header[Tip].height, header[b].bits)
    /\ chain' = Append(chain, b)
    /\ UNCHANGED up

Halt ==
    /\ up
    /\ up' = FALSE
    /\ \E n \in 0 .. Len(chain) : chain' = SubSeq(chain, 1, n)

Next ==
    \/ Boot
    \/ \E b \in Block : Extend(b)
    \/ Halt

Spec == Init /\ [][Next]_vars
=============================================================================
