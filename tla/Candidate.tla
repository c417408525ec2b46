----------------------------- MODULE Candidate -----------------------------
(***************************************************************************)
(* The transactions of a candidate block: taken from the mempool by the    *)
(* mining loop (curvetime/consensus/curvetime_base.py, _prepare_candidate) *)
(* and committed to by the Merkle root, which is all that the header, and  *)
(* with it the hash of the block, says of them.  A node that is sent the   *)
(* block holds the body it gets against that root (Block.validate).        *)
(***************************************************************************)
EXTENDS Mempool, Merkle, Functions

CONSTANTS
    Coinbase,  \* the hashes of create_coinbase, by height and second
    Limit      \* of get_pending_transactions: 2000

ASSUME CandidateAssumption == Coinbase \cap Tx = {} /\ Limit \in Nat

VARIABLES
    list,  \* the transactions of the candidate, <<>> without one
    root,  \* its merkle_root
    body   \* what another node took for them, <<>> before it got the block

candidateVars == <<txs, before, list, root, body>>

CandidateInit ==
    /\ Init
    /\ list = <<>>
    /\ root = Zeros
    /\ body = <<>>

\* The order of the dict is the order in the block.
PendingList ==
    LET P == Pending(Limit) IN
    [i \in 1 .. Cardinality(P) |->
        CHOOSE t \in P : Cardinality({u \in P : <<u, t>> \in before}) = i - 1]

\* From get_pending_transactions to the root there is no await that waits.
PrepareCandidate(coinbase) ==
    /\ Pending(Limit) # {}
    /\ list' = <<coinbase>> \o PendingList
    /\ root' = CalculateMerkleRoot(list')
    /\ body' = <<>>
    /\ UNCHANGED poolVars

\* validate's check of the root, with whatever body came under the header
ReceiveBody(b) ==
    /\ list # <<>>
    /\ CalculateMerkleRoot(b) = root
    /\ body' = b
    /\ UNCHANGED <<txs, before, list, root>>

CandidateNext ==
    \/ Next /\ UNCHANGED <<list, root, body>>
    \/ \E coinbase \in Coinbase : PrepareCandidate(coinbase)
    \/ \E b \in Seq(Tx \cup Coinbase) : ReceiveBody(b)

CandidateSpec == CandidateInit /\ [][CandidateNext]_candidateVars

-----------------------------------------------------------------------------
(* Properties *)

\* The root, and so the hash of the block, names the transactions and their
\* order: a body in which none is repeated passes only if it is the
\* candidate's (merkle.py:13-21, block.py:87-89, mempool.py:15-16).
RootNamesBody == body # <<>> /\ IsInjective(body) => body = list

\* Every other body that passes repeats transactions of the list at its end,
\* as the levels of odd length do (merkle.py:17-21).
OnlyTailRepeats == body # <<>> => Padded(body) = Padded(list)
=============================================================================
