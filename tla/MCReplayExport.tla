--------------------------- MODULE MCReplayExport ---------------------------
(* Snapshots and exports on small instances. *)
EXTENDS ReplayExport, TLC

Symmetry == Permutations(Handler) \cup Permutations(Export)
=============================================================================
