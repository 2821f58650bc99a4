------------------------------- MODULE Triage --------------------------------
(***************************************************************************)
(* Where a returned item goes: RegulatoryComplianceEngine, the disposition   *)
(* agent with its rule engine, and the endpoints that combine them and note  *)
(* the decision on the chain of blockchain_dpp.py.                         *)
(***************************************************************************)
EXTENDS Integers, Sequences, SequencesExt

CONSTANTS
  Items,      \* items: [word, category, made, recall], see ItemsOf
  Prices      \* msrp

Forbidden ==
  [c \in {"cosmetics", "personal_care", "car_seats", "airbags", "helmets", "infant_formula"}
     |-> "recycle"]

Referred == [c \in {"medical_devices", "prescription_items"} |-> "refurbish"]

Restricted ==
  [baby_products     |-> <<"expiration", "recall", "safety standard">>,
   lithium_batteries |-> <<"ground shipping", "packaging", "fire disclosure">>,
   mattresses        |-> <<"fire label", "sanitization", "state laws">>]

Categories == DOMAIN Forbidden \cup DOMAIN Referred \cup DOMAIN Restricted

(* word: the first word of the product id, in lower case; category: what     *)
(* the item is; made: its date of manufacture, if there is a readable one;  *)
(* recall: whether its recall id is on the list.                          *)
ItemsOf(words) ==
  [word : words, category : Categories \cup {"electronics"},
   made : {"over six years ago", "lately", "with time zone", "garbled", "unknown"}, recall : {"listed", "none"}]

ASSUME TriageAssumption ==
  /\ Items \subseteq ItemsOf(Categories \cup {"electronics", "iphone", "no word"})
  /\ Prices \subseteq Nat

VARIABLE decision   \* the request, its item, how it is answered and what is recorded

NoDecision == [asked |-> "nothing"]

TriageInit == decision = NoDecision

(* What the answer asks the seller to do; the other conditions say nothing.  *)
Demands(category) ==
  Range(Restricted[category]) \cap {"recall", "ground shipping", "fire disclosure", "sanitization"}

Passed(demands) == [allowed |-> TRUE, pathway |-> "hyperlocal-p2p", demands |-> demands]
Refused(pathway) == [allowed |-> FALSE, pathway |-> pathway, demands |-> {}]
NoAnswer == [allowed |-> FALSE, pathway |-> "error", demands |-> {}]

(* check_compliance of what the caller tells.  An unreadable date passes; one *)
(* with a time zone cannot be compared with the clock, and the check raises. *)
CheckCompliance(category, made, recall) ==
  LET listed == IF category \in DOMAIN Restricted THEN Range(Restricted[category]) ELSE {}
      fails == \/ "expiration" \in listed /\ made = "over six years ago"
               \/ "recall" \in listed /\ recall = "listed"
  IN IF category \notin Categories THEN Passed({})
     ELSE IF category \in DOMAIN Forbidden THEN Refused(Forbidden[category])
     ELSE IF category \in DOMAIN Referred THEN Refused(Referred[category])
     ELSE IF "expiration" \in listed /\ made = "with time zone" THEN NoAnswer
     ELSE IF fails THEN Refused("recycle") ELSE Passed(Demands(category))

(* /compliance/check: the client fills in the form.                         *)
CheckItem ==
  \E item \in Items :
    decision' = [asked |-> "compliance", item |-> item,
                 answer |-> CheckCompliance(item.category, item.made, item.recall)]

(* A grade is a letter, alone or as the inspection answers and the returns   *)
(* page sends it: "Grade A".                                               *)
GradeTexts == [letter : {"A", "B", "C", "D"}, spelled : BOOLEAN]

(* 'C' in grade, 'D' in grade: the word GRADE has a D.                       *)
HasLetter(letter, grade) == grade.letter = letter \/ (grade.spelled /\ letter = "D")

(* _mock_disposition.                                                       *)
RuleEngine(grade, msrp) ==
  IF msrp < 5000 THEN "locker-dropoff"
  ELSE IF HasLetter("C", grade) \/ HasLetter("D", grade)
  THEN IF msrp > 10000 THEN "refurbish" ELSE "recycle"
  ELSE IF HasLetter("B", grade) THEN "refurbish" ELSE "premium"

(* determine_disposition_agent: the rule engine where there is no key or the *)
(* model fails; a model's answer may lack the pathway.                     *)
Dispositions(grade, msrp) ==
  {[pathway |-> RuleEngine(grade, msrp), agent |-> FALSE]} \cup
  [pathway : {"premium", "resell", "refurbish", "recycle", "hyperlocal-p2p", "locker-dropoff", "missing"},
   agent : {TRUE}]

Shown(pathway) == IF pathway = "missing" THEN "hyperlocal-p2p" ELSE pathway

(* /ml/triage asks nobody whether the item may be passed on.                *)
DetermineTriage ==
  \E item \in Items, grade \in GradeTexts, msrp \in Prices :
    \E found \in Dispositions(grade, msrp) :
      decision' = [asked |-> "triage", item |-> item, grade |-> grade, agent |-> found.agent,
                   msrp |-> msrp, answer |-> [pathway |-> Shown(found.pathway)]]

(* The category is the first word of the product id, and neither the date    *)
(* nor a recall id is passed on.                                           *)
TurnsAway(item) == ~CheckCompliance(item.word, "unknown", "none").allowed

(* /ml/triage-enhanced: an id without a word fails; a block that cannot be   *)
(* recorded is dropped.                                                    *)
DetermineTriageEnhanced ==
  \E item \in Items, grade \in GradeTexts, msrp \in Prices :
    LET law == CheckCompliance(item.word, "unknown", "none")
        answers(pathway, demands, noted) ==
          decision' = [asked |-> "enhanced", item |-> item,
                       answer |-> [pathway |-> pathway, demands |-> demands], noted |-> noted]
    IN IF item.word = "no word" THEN answers("error", {}, FALSE)
       ELSE IF TurnsAway(item) THEN answers(law.pathway, law.demands, FALSE)
       ELSE \E found \in Dispositions(grade, msrp), noted \in BOOLEAN :
              answers(Shown(found.pathway), law.demands, noted)

TriageNext ==
  /\ decision = NoDecision
  /\ CheckItem \/ DetermineTriage \/ DetermineTriageEnhanced

TriageSpec == TriageInit /\ [][TriageNext]_decision
-----------------------------------------------------------------------------
(* The rules of gemini_ai_integrations.py:105: "If condition grade is 'A'     *)
(* (New/Flawless) -> Output 'resell' or 'premium'".  What the rule engine     *)
(* decides about an item of grade A is at least not to take it apart.        *)
FlawlessIsNotRecycled ==
  (decision.asked = "triage" /\ decision.grade.letter = "A" /\ ~decision.agent)
    => decision.answer.pathway # "recycle"
=============================================================================
