----------------------------- MODULE MCListings -----------------------------
(* Instances of Listings for TLC. *)
EXTENDS Listings, TLC

Symmetry == Permutations(Lambdas) \cup Permutations(Users)
=============================================================================
