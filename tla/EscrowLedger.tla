---------------------------- MODULE EscrowLedger ----------------------------
(***************************************************************************)
(* What the escrow endpoints promise: funds are locked under some terms,   *)
(* and each locking is paid out at most once.  Locking again under the     *)
(* same match id replaces the terms.                                       *)
(***************************************************************************)
CONSTANTS
  MatchIds,   \* keys of the matches table
  Terms       \* listing, buyer and amount of a locking

VARIABLES
  state,      \* state[m]: "none", "locked" or "released"
  terms       \* terms[m]: the terms last locked, {} before the first locking

ledgerVars == <<state, terms>>

Init ==
  /\ state = [m \in MatchIds |-> "none"]
  /\ terms = [m \in MatchIds |-> {}]

Lock(m, t) ==
  /\ state' = [state EXCEPT ![m] = "locked"]
  /\ terms' = [terms EXCEPT ![m] = {t}]

Release(m) ==
  /\ state[m] = "locked"
  /\ state' = [state EXCEPT ![m] = "released"]
  /\ UNCHANGED terms

Next == \E m \in MatchIds : Release(m) \/ \E t \in Terms : Lock(m, t)

Spec == Init /\ [][Next]_ledgerVars
=============================================================================
