------------------------------ MODULE GtinCheck ------------------------------
(***************************************************************************)
(* GS1VerificationService.verify_gtin.  The service keeps nothing between    *)
(* two verifications, so a behaviour is one of them.                       *)
(***************************************************************************)
EXTENDS Integers, Sequences, SequencesExt

CONSTANT TypedGtins   \* codes that someone types: sequences of digits

ASSUME GtinAssumption ==
  \A code \in TypedGtins : code \in Seq(0 .. 9) /\ Len(code) >= 2

VARIABLE checkedGtin   \* what was typed, what for, and how verify_gtin answers

GtinInit == checkedGtin = [typed |-> <<>>, meant |-> <<>>, source |-> "none"]
-----------------------------------------------------------------------------
(* The codes of known_gtins.                                                *)
KnownGtins ==
  {<<0, 0, 6, 1, 4, 1, 4, 1, 0, 8, 3, 5, 6, 1>>,
   <<0, 0, 1, 9, 4, 2, 5, 3, 3, 9, 6, 8, 3, 9>>,
   <<0, 0, 8, 4, 2, 3, 7, 9, 1, 0, 5, 9, 6, 9>>}

(* mutant: every second digit counts twice *)
WeightTwo(i) == IF i % 2 = 1 THEN 2 ELSE 1

Weight(i) == IF i % 2 = 1 THEN 3 ELSE 1

(* _validate_check_digit: from the right, the digits count 3 and 1 in turn.  *)
CheckDigitHolds(code) ==
  LET digits == Reverse(Front(code))
      total == SumFunction([i \in DOMAIN digits |-> digits[i] * Weight(i)])
  IN (10 - (total % 10)) % 10 = Last(code)

ValidFormat(code) == Len(code) \in {8, 12, 13, 14} /\ CheckDigitHolds(code)

(* verify_gtin of a code as typed, with dashes or not: they are dropped for  *)
(* the format only.  api: whether a key is set and the registry knows it.  *)
Source(code, dashed, api) ==
  IF ~ValidFormat(code) THEN "validation-failed"
  ELSE IF api THEN "GS1-API"
  ELSE IF code \in KnownGtins /\ ~dashed THEN "local-db" ELSE "not-found"

(* A code is typed as it is, or with one wrong digit.                       *)
VerifyGtin ==
  /\ checkedGtin.source = "none"
  /\ \E meant \in TypedGtins, dashed \in BOOLEAN, api \in BOOLEAN :
       \E i \in DOMAIN meant, digit \in 0 .. 9 :
         LET typed == [meant EXCEPT ![i] = digit]
         IN checkedGtin' = [typed |-> typed, meant |-> meant, source |-> Source(typed, dashed, api)]

GtinSpec == GtinInit /\ [][VerifyGtin]_checkedGtin
-----------------------------------------------------------------------------
(* One wrong digit in a code whose check digit holds is answered as a wrong  *)
(* format, and never with the warning that the product is a counterfeit.   *)
SlipsAreNoCounterfeits ==
  (checkedGtin.source # "none" /\ ValidFormat(checkedGtin.meant)
     /\ checkedGtin.typed # checkedGtin.meant)
    => checkedGtin.source = "validation-failed"

(* A code of the local database is verified: gs1_verification.py:276 calls   *)
(* the first of them "Known valid GTIN".                                   *)
KnownGtinsVerify ==
  checkedGtin.typed \in KnownGtins => checkedGtin.source \in {"GS1-API", "local-db"}
=============================================================================
