--------------------------- MODULE ProvenanceLog ---------------------------
(***************************************************************************)
(* What the product passport service promises: a log of product events     *)
(* that grows one event at a time.  It is shortened only when the process  *)
(* restarts with an empty log or an operator restores an exported one.     *)
(***************************************************************************)
EXTENDS Sequences

CONSTANT Events   \* what happened to which product

VARIABLES
  log,      \* the events, oldest first
  backup    \* the log as it was last exported

logVars == <<log, backup>>

Init == log = <<>> /\ backup = <<>>

Record(event) ==
  /\ log' = Append(log, event)
  /\ UNCHANGED backup

Export ==
  /\ backup' = log
  /\ UNCHANGED log

Restore ==
  /\ log' = backup
  /\ UNCHANGED backup

Restart ==
  /\ log' = <<>>
  /\ UNCHANGED backup

Next ==
  \/ \E event \in Events : Record(event)
  \/ Export
  \/ Restore
  \/ Restart

Spec == Init /\ [][Next]_logVars
=============================================================================
