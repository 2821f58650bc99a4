------------------------- MODULE MCProvenanceChain -------------------------
(* Instances of ProvenanceChain for TLC. *)
EXTENDS ProvenanceChain, TLC

Symmetry == Permutations(Threads) \cup Permutations(Products)
=============================================================================
