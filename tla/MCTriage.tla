------------------------------- MODULE MCTriage -------------------------------
(* Triage of an item without legal restrictions, for TLC.                   *)
EXTENDS Triage

MCItems ==
  { [word |-> "electronics", category |-> "electronics", made |-> "lately", recall |-> "none"] }
=============================================================================
