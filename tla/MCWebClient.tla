---------------------------- MODULE MCWebClient -----------------------------
(* One address to register, one demo account, and one screen.             *)
EXTENDS WebClient, TLC
CONSTANTS demo, own
DemoAccounts == demo :> "admin"
(* At most one restart or one token that grows old in a behaviour. *)
OneLoss == boots + Cardinality(expired) <= 1
=============================================================================
