------------------------------- MODULE MCOperator -------------------------------
(***************************************************************************)
(* Operator for TLC: the values are in OperatorRun.cfg.                       *)
(***************************************************************************)
EXTENDS Operator

=============================================================================
