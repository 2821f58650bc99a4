------------------------------ MODULE MCEscrow ------------------------------
(* Instances of Escrow for TLC. *)
EXTENDS Escrow, TLC

CONSTANTS MaxStored, MaxPaid   \* bounds: states with more lock records stored, or
                               \* more payouts, are not expanded

Symmetry == Permutations(Lambdas) \cup Permutations(Terms)

Bounds == \A m \in MatchIds : stored[m] <= MaxStored /\ paid[m] <= MaxPaid
=============================================================================
