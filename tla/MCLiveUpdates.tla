---------------------------- MODULE MCLiveUpdates ----------------------------
(* One screen; the faults are bounded in the configuration.               *)
EXTENDS LiveUpdates
=============================================================================
