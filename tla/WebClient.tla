----------------------------- MODULE WebClient ------------------------------
(***************************************************************************)
(* The web client: its session over the accounts of the service, and the    *)
(* live updates of its logistics screen.  The hook of the screen reads      *)
(* neither the token nor the user, so that a behaviour shows one of the two *)
(* at work and the other as it was at the start: nobody signed in, or no    *)
(* screen shown.                                                           *)
(***************************************************************************)
EXTENDS WebSession, LiveUpdates

VARIABLE part   \* what is at work: "session" or "screen"

vars == <<sessionVars, liveVars, part>>

Init ==
  /\ part \in {"session", "screen"}
  /\ SessionInit
  /\ LiveInit /\ (part = "session" => ~aws)

Next ==
  /\ \/ part = "session" /\ SessionNext /\ UNCHANGED liveVars
     \/ part = "screen" /\ LiveNext /\ UNCHANGED sessionVars
  /\ UNCHANGED part

(* The session owes nothing; without a screen no fair action is enabled.    *)
Spec == Init /\ [][Next]_vars /\ LiveFairness
=============================================================================
