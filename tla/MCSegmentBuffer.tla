-------------------------- MODULE MCSegmentBuffer --------------------------
(* The segment buffer on small instances. *)
EXTENDS SegmentBuffer, TLC

Symmetry == Permutations(Snap)
=============================================================================
