------------------------------ MODULE MCBaseline ------------------------------
(* Instances of Baseline for TLC.                                            *)
EXTENDS Baseline, TLC

(* No property names a worker, an answer or a run. *)
Symmetric == Permutations(Workers) \cup Permutations(Answers) \cup Permutations(Runs)

=============================================================================
