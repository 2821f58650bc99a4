------------------------- MODULE MCServiceListings -------------------------
(* Instances of ServiceListings for TLC. *)
EXTENDS ServiceListings, TLC

Symmetry == Permutations(Workers)
=============================================================================
