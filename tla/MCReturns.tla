----------------------------- MODULE MCReturns -----------------------------
(* Instances of Returns for TLC. *)
EXTENDS Returns, TLC

(* An order with both attributes, and one that lacks them. *)
MCOrderRows == {[seller |-> "seller-1", price |-> 7500], [seller |-> NoSeller, price |-> 0]}

Symmetry == Permutations(Lambdas) \cup Permutations(Users)
=============================================================================
