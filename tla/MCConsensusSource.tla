------------------------- MODULE MCConsensusSource -------------------------
(* Instances of ConsensusSource for TLC. *)
EXTENDS ConsensusSource, TLC

\* The first target reads one page more than the second.
TwoThenOne == <<2, 1>>

\* The workers run the same code.
WorkerSymmetry == Permutations(Workers)
=============================================================================
