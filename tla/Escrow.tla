------------------------------- MODULE Escrow -------------------------------
(***************************************************************************)
(* The matches table of the return-intercept Lambda: POST /escrow/lock     *)
(* overwrites the match record, POST /escrow/release reads it, requires    *)
(* "locked" and writes it back as "released".  Neither PutItem has a       *)
(* condition, and invocations overlap.                                     *)
(***************************************************************************)
EXTENDS Naturals, FiniteSets

CONSTANTS
  Lambdas,        \* concurrent invocations of the function
  MatchIds,       \* keys of the matches table
  Terms,          \* complete lock requests: listing, buyer, positive amount
  BadTerms,       \* a lock request that lacks one of them
  LaggingReads,   \* TRUE when GetItem may read a replica that lags
  Retries,        \* TRUE when the AWS client may repeat a PutItem
  NoMatch, Idle   \* sentinels: no such record; invocation without a request

Matches == [terms : Terms, status : {"locked", "released"}]

(* base: the record that a release read; current: whether it was the stored  *)
(* one then (a history, which no guard reads).                              *)
Writes == [op : {"lock", "release"}, id : MatchIds,
           base : Matches \cup {NoMatch}, current : BOOLEAN, item : Matches]

ASSUME EscrowAssumption ==
  /\ IsFiniteSet(Lambdas)
  /\ BadTerms \notin Terms
  /\ LaggingReads \in BOOLEAN /\ Retries \in BOOLEAN
  /\ NoMatch \notin Matches /\ Idle \notin Writes

VARIABLES
  matches,   \* matches[m]: the stored record
  replica,   \* replica[m]: an older copy of it that GetItem may return
  call,      \* call[l]: the PutItem that invocation l is about to issue
  reply,     \* reply[l]: HTTP status of l's last answer, 0 before it
  paid,      \* history: releases of a current record that were answered 200
  stored,    \* history: how often a lock record was stored, repetitions included
  locked     \* history: the terms the match was ever locked under

historyVars == <<paid, stored, locked>>
vars == <<matches, replica, call, reply, historyVars>>

Init ==
  /\ matches = [m \in MatchIds |-> NoMatch]
  /\ replica = [m \in MatchIds |-> NoMatch]
  /\ call = [l \in Lambdas |-> Idle]
  /\ reply = [l \in Lambdas |-> 0]
  /\ paid = [m \in MatchIds |-> 0]
  /\ stored = [m \in MatchIds |-> 0]
  /\ locked = [m \in MatchIds |-> {}]

Answer(l, code) ==
  /\ reply' = [reply EXCEPT ![l] = code]
  /\ UNCHANGED <<matches, replica, call, historyVars>>

Prepare(l, op, m, base, item) ==
  /\ call' = [call EXCEPT ![l] = [op |-> op, id |-> m, base |-> base,
                                  current |-> base = matches[m], item |-> item]]
  /\ reply' = [reply EXCEPT ![l] = 0]
  /\ UNCHANGED <<matches, replica, historyVars>>

(* GetItem without ConsistentRead.  A read that fails is answered as a       *)
(* missing record.                                                        *)
GetItem(m) == {NoMatch, matches[m]} \cup (IF LaggingReads THEN {replica[m]} ELSE {})

(* mutant: the fields of the request are not checked *)
CompleteAlways(t) == TRUE

Complete(t) == t # BadTerms

(* mutant: funds that are already released are released again *)
ReleasableTwice(match) == match.status \in {"locked", "released"}

Releasable(match) == match.status = "locked"

(* mutant: the record is written back without its terms *)
ReleasedBlank(match) == [terms |-> BadTerms, status |-> "released"]

Released(match) == [match EXCEPT !.status = "released"]

EscrowLock(l, m, t) ==
  /\ call[l] = Idle
  /\ \/ ~Complete(t) /\ Answer(l, 400)
     \/ /\ Complete(t)
        /\ Prepare(l, "lock", m, NoMatch, [terms |-> t, status |-> "locked"])

EscrowRelease(l, m) ==
  /\ call[l] = Idle
  /\ \E match \in GetItem(m) :
       \/ match = NoMatch /\ Answer(l, 404)
       \/ match # NoMatch /\ ~Releasable(match) /\ Answer(l, 400)
       \/ /\ match # NoMatch /\ Releasable(match)
          /\ Prepare(l, "release", m, match, Released(match))

(* The record is stored. *)
StoreItem(l) ==
  LET w == call[l] IN
  /\ matches' = [matches EXCEPT ![w.id] = w.item]
  /\ IF w.op = "lock"
     THEN /\ locked' = [locked EXCEPT ![w.id] = @ \cup {w.item.terms}]
          /\ stored' = [stored EXCEPT ![w.id] = @ + 1]
     ELSE UNCHANGED <<locked, stored>>

Finish(l, code) ==
  /\ call' = [call EXCEPT ![l] = Idle]
  /\ reply' = [reply EXCEPT ![l] = code]
  /\ UNCHANGED replica

PutApplied(l, code) ==
  /\ call[l] # Idle
  /\ StoreItem(l)
  /\ paid' = IF call[l].op = "release" /\ call[l].current /\ code = 200
             THEN [paid EXCEPT ![call[l].id] = @ + 1] ELSE paid
  /\ Finish(l, code)

PutFailed(l) ==
  /\ call[l] # Idle
  /\ Finish(l, 500)
  /\ UNCHANGED <<matches, historyVars>>

(* The PutItem is applied, its answer is lost, the AWS client tries again. *)
PutRetried(l) ==
  /\ Retries
  /\ call[l] # Idle
  /\ StoreItem(l)
  /\ UNCHANGED <<replica, call, reply, paid>>

(* The invocation reaches the function's time limit before its PutItem. *)
TimeOut(l) ==
  /\ call[l] # Idle
  /\ call' = [call EXCEPT ![l] = Idle]
  /\ UNCHANGED <<matches, replica, reply, historyVars>>

Replicate(m) ==
  /\ LaggingReads /\ replica[m] # matches[m]
  /\ replica' = [replica EXCEPT ![m] = matches[m]]
  /\ UNCHANGED <<matches, call, reply, historyVars>>

Next ==
  \/ \E l \in Lambdas :
       \/ \E m \in MatchIds :
            EscrowRelease(l, m) \/ \E t \in Terms \cup {BadTerms} : EscrowLock(l, m, t)
       \/ \E code \in {200, 500} : PutApplied(l, code)
       \/ PutFailed(l) \/ PutRetried(l) \/ TimeOut(l)
  \/ \E m \in MatchIds : Replicate(m)

Spec == Init /\ [][Next]_vars
-----------------------------------------------------------------------------
(* Every variable holds a value of its type. *)
TypeOK ==
  /\ matches \in [MatchIds -> Matches \cup {NoMatch}]
  /\ replica \in [MatchIds -> Matches \cup {NoMatch}]
  /\ call \in [Lambdas -> Writes \cup {Idle}]
  /\ reply \in [Lambdas -> {0, 200, 400, 404, 500}]
  /\ paid \in [MatchIds -> Nat] /\ stored \in [MatchIds -> Nat]
  /\ locked \in [MatchIds -> SUBSET Terms]

(* A release carries the whole record through its read, and still never     *)
(* stores terms under which the match was not locked.                       *)
TermsWereLocked ==
  \A m \in MatchIds : matches[m] # NoMatch => matches[m].terms \in locked[m]

(* Each time a lock record is stored, a late repetition included, at most    *)
(* one payout per invocation that was running follows, and none while it is *)
(* still the record: a race pays twice and a repeated lock brings paid funds *)
(* back, but the releases that had not passed their check when the first one *)
(* was stored are refused.  Payouts by a release whose read lagged are not   *)
(* counted; nothing bounds them.                                           *)
Held(m) == IF matches[m] # NoMatch /\ matches[m].status = "locked" THEN 1 ELSE 0

PayoutsBounded ==
  \A m \in MatchIds : paid[m] <= Cardinality(Lambdas) * (stored[m] - Held(m))

(* The abstract ledger. *)
StateOf ==
  [m \in MatchIds |-> IF matches[m] = NoMatch THEN "none" ELSE matches[m].status]
TermsOf ==
  [m \in MatchIds |-> IF matches[m] = NoMatch THEN {} ELSE {matches[m].terms}]

Ledger == INSTANCE EscrowLedger WITH state <- StateOf, terms <- TermsOf

StaleWrite ==
  \E l \in Lambdas :
    /\ call[l] # Idle
    /\ call[l].op = "release"
    /\ call[l].base # matches[call[l].id]
    /\ StoreItem(l)

(* A record changes by a step of the ledger, or a release overwrites a      *)
(* record that changed after it was read.                                   *)
OnlyStaleWritesBreakLedger ==
  [][Ledger!Next \/ StaleWrite]_<<StateOf, TermsOf>>

(* Invocations that do not overlap, with current reads, implement the       *)
(* ledger.                                                                  *)
ImplementsLedger == Ledger!Spec

=============================================================================
