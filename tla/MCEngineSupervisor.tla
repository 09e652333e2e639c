------------------------- MODULE MCEngineSupervisor -------------------------
(* EngineSupervisor for TLC: the constants of EngineSupervisor.cfg are bounds. *)
EXTENDS EngineSupervisor
=============================================================================
