----------------------------- MODULE MCGtinCheck -----------------------------
(* Verifications of the codes of the service's own table, for TLC.          *)
EXTENDS GtinCheck

MCGtins == KnownGtins
=============================================================================
