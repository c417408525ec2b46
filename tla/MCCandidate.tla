----------------------------- MODULE MCCandidate -----------------------------
(***************************************************************************)
(* Candidate with the bodies that could be mistaken for the candidate's:   *)
(* those that begin like it and go on with parts of it.                    *)
(***************************************************************************)
EXTENDS Candidate, SequencesExt, TLC

\* Bound on the bodies: the beginning of the list, and any run of it up to
\* three times.
Spliced(l) ==
    {SubSeq(l, 1, n) \o FlattenSeq([r \in 1 .. times |-> SubSeq(l, i, j)]) :
        n \in 0 .. Len(l), times \in 1 .. 3, i \in 1 .. Len(l), j \in 1 .. Len(l)}

MCNext ==
    \/ Next /\ UNCHANGED <<list, root, body>>
    \/ \E coinbase \in Coinbase : PrepareCandidate(coinbase)
    \/ \E b \in Spliced(list) : ReceiveBody(b)

MCSpec == CandidateInit /\ [][MCNext]_candidateVars

\* No transaction is treated unlike another.
Symmetry == Permutations(Tx)
=============================================================================
