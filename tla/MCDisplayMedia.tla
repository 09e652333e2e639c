--------------------------- MODULE MCDisplayMedia ---------------------------
(* DisplayMedia for TLC: sources of one kind are alike, so are the flows that record. *)
EXTENDS DisplayMedia, TLC

Symmetry == Permutations(Screens) \union Permutations(Windows) \union Permutations(Recs)
=============================================================================
