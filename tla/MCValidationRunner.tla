------------------------- MODULE MCValidationRunner -------------------------
(* ValidationRunner for TLC. *)
EXTENDS ValidationRunner, TLC
=============================================================================
