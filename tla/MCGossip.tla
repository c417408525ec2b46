------------------------------ MODULE MCGossip ------------------------------
(***************************************************************************)
(* Gossip on four nodes: a triangle n1, n2, n3 with a tail n3 - n4, where  *)
(* a copy of n1's message can come to n3 on the longer way first, and a    *)
(* line n1 - n2 - n3 - n4, whose end is three hops away; and on the same   *)
(* triangle when n1 and n2 connect to each other: both connections stand   *)
(* under one key, and the end of one takes the other's entry out.          *)
(***************************************************************************)
EXTENDS Gossip, TLC

CONSTANTS n1, n2, n3, n4, m1, m2

MCNode == {n1, n2, n3, n4}
OneMsg == {m1}
TwoMsgs == {m1, m2}
TriangleWithTail == {<<n2, n1>>, <<n3, n1>>, <<n3, n2>>, <<n4, n3>>}
ThreeNodes == {n1, n2, n3}
Cross == {<<n1, n2>>, <<n2, n1>>, <<n3, n1>>, <<n3, n2>>}
MCFrom == [c \in Conn |-> c[1]]
MCTo == [c \in Conn |-> c[2]]
OneOrigin == [m \in OneMsg |-> n1]
TwoOrigins == (m1 :> n1) @@ (m2 :> n4)
TransactionTtl == [m \in OneMsg |-> 3]
NoTtlGiven == [m \in OneMsg |-> 0]
BothTtls == (m1 :> 3) @@ (m2 :> 2)  \* a transaction and a block
=============================================================================
