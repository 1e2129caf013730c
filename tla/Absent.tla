-------------------------------- MODULE Absent --------------------------------
(* What the code writes as null.                                             *)
CONSTANT None
=============================================================================
