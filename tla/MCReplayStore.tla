---------------------------- MODULE MCReplayStore ----------------------------
(* Instances of ReplayStore for TLC.                                         *)
EXTENDS ReplayStore, TLC

(* No safety property names an update. *)
Symmetric == Permutations(Updates)

=============================================================================
