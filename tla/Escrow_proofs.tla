--------------------------- MODULE Escrow_proofs ---------------------------
(***************************************************************************)
(* Proofs about Escrow, for every finite set of invocations and every set  *)
(* of matches and terms.                                                   *)
(***************************************************************************)
EXTENDS Escrow, FiniteSetTheorems, TLAPS

(* A pending release holds the record it read, then locked, as released.    *)
WellFormed(w, terms) ==
  \/ w.op = "lock" /\ w.item.status = "locked"
  \/ /\ w.op = "release" /\ w.base \in Matches
     /\ w.base.status = "locked"
     /\ w.item = Released(w.base)
     /\ w.item.terms \in terms

(* The write that a request prepares. *)
Write(op, m, base, item) ==
  [op |-> op, id |-> m, base |-> base, current |-> base = matches[m], item |-> item]

(* The inductive invariant: copies of the record, in the replica and in the *)
(* invocations, carry terms that were locked as well, and a match that was   *)
(* ever locked has a record.                                               *)
EscrowInv ==
  /\ TypeOK
  /\ TermsWereLocked
  /\ \A m \in MatchIds : locked[m] # {} => matches[m] # NoMatch
  /\ \A m \in MatchIds : replica[m] # NoMatch => replica[m].terms \in locked[m]
  /\ \A l \in Lambdas : call[l] # Idle => WellFormed(call[l], locked[call[l].id])

LEMMA AnswerKeepsEscrowInv ==
  ASSUME EscrowInv, NEW l \in Lambdas, NEW code \in {400, 404}, Answer(l, code)
  PROVE  EscrowInv'
  BY DEF EscrowInv, TypeOK, TermsWereLocked, WellFormed, Answer, historyVars

LEMMA PrepareKeepsEscrowInv ==
  ASSUME EscrowInv, NEW l \in Lambdas, NEW op \in {"lock", "release"},
         NEW m \in MatchIds, NEW base \in Matches \cup {NoMatch}, NEW item \in Matches,
         WellFormed(Write(op, m, base, item), locked[m]),
         Prepare(l, op, m, base, item)
  PROVE  EscrowInv'
<1> DEFINE w == Write(op, m, base, item)
<1>1. w \in Writes /\ w.id = m /\ WellFormed(w, locked[m])
  BY DEF Writes, Write
<1>2. /\ call' = [call EXCEPT ![l] = w]
      /\ reply' = [reply EXCEPT ![l] = 0]
      /\ UNCHANGED <<matches, replica, paid, stored, locked>>
  BY DEF Prepare, Write, historyVars
<1> HIDE DEF w
<1>3. TypeOK'
  BY <1>1, <1>2 DEF EscrowInv, TypeOK
<1>4. TermsWereLocked' /\ (\A i \in MatchIds : locked'[i] # {} => matches'[i] # NoMatch)
      /\ \A i \in MatchIds : replica'[i] # NoMatch => replica'[i].terms \in locked'[i]
  BY <1>2 DEF EscrowInv, TermsWereLocked
<1>5. \A k \in Lambdas : call'[k] # Idle => WellFormed(call'[k], locked'[call'[k].id])
  BY <1>1, <1>2 DEF EscrowInv, TypeOK, WellFormed
<1> QED
  BY <1>3, <1>4, <1>5 DEF EscrowInv

LEMMA LockKeepsEscrowInv ==
  ASSUME EscrowInv, NEW l \in Lambdas, NEW m \in MatchIds,
         NEW t \in Terms \cup {BadTerms}, EscrowLock(l, m, t)
  PROVE  EscrowInv'
<1> DEFINE item == [terms |-> t, status |-> "locked"]
<1>1. CASE t = BadTerms
  BY <1>1, AnswerKeepsEscrowInv DEF EscrowLock, Complete
<1>2. CASE t # BadTerms
  <2>1. item \in Matches /\ item.status = "locked"
    BY <1>2 DEF Matches
  <2>2. Prepare(l, "lock", m, NoMatch, item)
    BY <1>2 DEF EscrowLock, Complete
  <2> HIDE DEF item
  <2>3. WellFormed(Write("lock", m, NoMatch, item), locked[m])
    BY <2>1 DEF WellFormed, Write
  <2> QED
    BY <2>1, <2>2, <2>3, PrepareKeepsEscrowInv
<1> QED
  BY <1>1, <1>2

LEMMA ReleaseKeepsEscrowInv ==
  ASSUME EscrowInv, NEW l \in Lambdas, NEW m \in MatchIds, EscrowRelease(l, m)
  PROVE  EscrowInv'
<1>1. PICK match \in GetItem(m) :
        \/ match = NoMatch /\ Answer(l, 404)
        \/ match # NoMatch /\ Answer(l, 400)
        \/ /\ match # NoMatch /\ Releasable(match)
           /\ Prepare(l, "release", m, match, Released(match))
  BY DEF EscrowRelease
<1>2. match # NoMatch => match \in Matches /\ match.terms \in locked[m]
  BY DEF EscrowInv, TypeOK, TermsWereLocked, GetItem
<1>3. CASE Answer(l, 404) \/ Answer(l, 400)
  BY <1>3, AnswerKeepsEscrowInv
<1>4. CASE /\ match # NoMatch /\ Releasable(match)
           /\ Prepare(l, "release", m, match, Released(match))
  <2>1. /\ Released(match) \in Matches
        /\ Released(match).terms \in locked[m]
        /\ match.status = "locked"
    BY <1>2, <1>4 DEF Released, Matches, Releasable
  <2>2. WellFormed(Write("release", m, match, Released(match)), locked[m])
    BY <1>2, <1>4, <2>1 DEF WellFormed, Write
  <2> QED
    BY <1>2, <1>4, <2>1, <2>2, PrepareKeepsEscrowInv
<1> QED
  BY <1>1, <1>3, <1>4

(* What storing a pending write does to the record and its history. *)
LEMMA StoredRecord ==
  ASSUME EscrowInv, NEW l \in Lambdas, call[l] # Idle, StoreItem(l)
  PROVE  /\ call[l] \in Writes /\ call[l].id \in MatchIds /\ call[l].item \in Matches
         /\ WellFormed(call[l], locked[call[l].id])
         /\ matches' = [matches EXCEPT ![call[l].id] = call[l].item]
         /\ matches' \in [MatchIds -> Matches \cup {NoMatch}]
         /\ locked' \in [MatchIds -> SUBSET Terms]
         /\ \A m \in MatchIds : locked[m] \subseteq locked'[m]
         /\ call[l].item.terms \in locked'[call[l].id]
         /\ \A m \in MatchIds : m # call[l].id => locked'[m] = locked[m]
         /\ stored' \in [MatchIds -> Nat]
         /\ TermsWereLocked'
<1> DEFINE w == call[l]
<1>1. w \in Writes /\ WellFormed(w, locked[w.id]) /\ w.id \in MatchIds /\ w.item \in Matches
      /\ w.item.terms \in Terms
  BY DEF EscrowInv, TypeOK, Writes, Matches
<1>2. /\ matches' = [matches EXCEPT ![w.id] = w.item]
      /\ locked' = IF w.op = "lock"
                   THEN [locked EXCEPT ![w.id] = @ \cup {w.item.terms}] ELSE locked
      /\ stored' = stored \/ stored' = [stored EXCEPT ![w.id] = @ + 1]
  BY DEF StoreItem
<1> HIDE DEF w
<1>3. matches' \in [MatchIds -> Matches \cup {NoMatch}]
  BY <1>1, <1>2 DEF EscrowInv, TypeOK
<1>4. /\ locked' \in [MatchIds -> SUBSET Terms]
      /\ \A m \in MatchIds : locked[m] \subseteq locked'[m]
      /\ \A m \in MatchIds : m # w.id => locked'[m] = locked[m]
  BY <1>1, <1>2 DEF EscrowInv, TypeOK
<1>5. w.item.terms \in locked'[w.id]
  BY <1>1, <1>2 DEF EscrowInv, TypeOK, WellFormed
<1>6. TermsWereLocked'
  BY <1>1, <1>2, <1>4, <1>5 DEF EscrowInv, TypeOK, TermsWereLocked
<1>7. stored' \in [MatchIds -> Nat]
  BY <1>1, <1>2 DEF EscrowInv, TypeOK
<1> QED
  BY <1>1, <1>2, <1>3, <1>4, <1>5, <1>6, <1>7 DEF w

LEMMA PutKeepsEscrowInv ==
  ASSUME EscrowInv, NEW l \in Lambdas,
         \/ \E code \in {200, 500} : PutApplied(l, code)
         \/ PutFailed(l) \/ PutRetried(l) \/ TimeOut(l)
  PROVE  EscrowInv'
<1> DEFINE w == call[l]
<1>1. /\ call' = call \/ call' = [call EXCEPT ![l] = Idle]
      /\ replica' = replica
      /\ reply' = reply \/ \E code \in {200, 500} : reply' = [reply EXCEPT ![l] = code]
  BY DEF PutApplied, PutFailed, PutRetried, TimeOut, Finish
<1>2. /\ call' \in [Lambdas -> Writes \cup {Idle}]
      /\ \A k \in Lambdas : call'[k] # Idle => call'[k] = call[k]
      /\ reply' \in [Lambdas -> {0, 200, 400, 404, 500}]
      /\ replica' \in [MatchIds -> Matches \cup {NoMatch}]
  BY <1>1 DEF EscrowInv, TypeOK
<1>3. CASE PutFailed(l) \/ TimeOut(l)
  <2>1. UNCHANGED <<matches, replica, paid, stored, locked>>
    BY <1>3 DEF PutFailed, TimeOut, Finish, historyVars
  <2> QED
    BY <1>2, <2>1 DEF EscrowInv, TypeOK, TermsWereLocked, WellFormed
<1>4. ASSUME call[l] # Idle, StoreItem(l), paid' \in [MatchIds -> Nat]
      PROVE  EscrowInv'
  <2>1. /\ w.id \in MatchIds /\ w.item \in Matches
        /\ matches' = [matches EXCEPT ![w.id] = w.item]
        /\ matches' \in [MatchIds -> Matches \cup {NoMatch}]
        /\ locked' \in [MatchIds -> SUBSET Terms]
        /\ stored' \in [MatchIds -> Nat]
        /\ \A m \in MatchIds : locked[m] \subseteq locked'[m]
        /\ \A m \in MatchIds : m # w.id => locked'[m] = locked[m]
        /\ TermsWereLocked'
    BY <1>4, StoredRecord
  <2> HIDE DEF w
  <2>2. \A m \in MatchIds : locked'[m] # {} => matches'[m] # NoMatch
    BY <2>1, EscrowAssumption DEF EscrowInv, TypeOK
  <2>3. \A m \in MatchIds : replica'[m] # NoMatch => replica'[m].terms \in locked'[m]
    BY <1>1, <2>1 DEF EscrowInv
  <2>4. \A k \in Lambdas : call'[k] # Idle => WellFormed(call'[k], locked'[call'[k].id])
    <3> TAKE k \in Lambdas
    <3> HAVE call'[k] # Idle
    <3>1. call'[k] = call[k] /\ WellFormed(call[k], locked[call[k].id]) /\ call[k].id \in MatchIds
      BY <1>2 DEF EscrowInv, TypeOK, Writes
    <3> QED
      BY <3>1, <2>1 DEF WellFormed
  <2> QED
    BY <1>2, <1>4, <2>1, <2>2, <2>3, <2>4 DEF EscrowInv, TypeOK
<1>5. CASE PutRetried(l)
  BY <1>4, <1>5 DEF PutRetried, EscrowInv, TypeOK
<1>6. ASSUME NEW code \in {200, 500}, PutApplied(l, code)
      PROVE  EscrowInv'
  <2>1. paid' \in [MatchIds -> Nat]
    <3>1. w.id \in MatchIds /\ paid \in [MatchIds -> Nat]
      BY <1>6 DEF PutApplied, EscrowInv, TypeOK, Writes
    <3>2. paid' = paid \/ paid' = [paid EXCEPT ![w.id] = @ + 1]
      BY <1>6 DEF PutApplied
    <3> HIDE DEF w
    <3> QED
      BY <3>1, <3>2
  <2> QED
    BY <1>4, <1>6, <2>1 DEF PutApplied
<1> QED
  BY <1>3, <1>5, <1>6

LEMMA ReplicateKeepsEscrowInv ==
  ASSUME EscrowInv, NEW m \in MatchIds, Replicate(m)
  PROVE  EscrowInv'
<1>1. /\ replica' = [replica EXCEPT ![m] = matches[m]]
      /\ UNCHANGED <<matches, call, reply, paid, stored, locked>>
  BY DEF Replicate, historyVars
<1>2. TypeOK'
  BY <1>1 DEF EscrowInv, TypeOK
<1>3. \A i \in MatchIds : replica'[i] # NoMatch => replica'[i].terms \in locked'[i]
  BY <1>1 DEF EscrowInv, TypeOK, TermsWereLocked
<1> QED
  BY <1>1, <1>2, <1>3 DEF EscrowInv, TermsWereLocked, WellFormed

LEMMA EscrowInvInductive ==
  ASSUME EscrowInv, [Next]_vars
  PROVE  EscrowInv'
<1>1. CASE Next
  BY <1>1, LockKeepsEscrowInv, ReleaseKeepsEscrowInv, PutKeepsEscrowInv,
     ReplicateKeepsEscrowInv DEF Next
<1>2. CASE UNCHANGED vars
  BY <1>2 DEF vars, historyVars, EscrowInv, TypeOK, TermsWereLocked, WellFormed
<1> QED
  BY <1>1, <1>2

LEMMA InitEscrowInv == Init => EscrowInv
  BY DEF Init, EscrowInv, TypeOK, TermsWereLocked

THEOREM EscrowInvHolds == Spec => []EscrowInv
<1>1. EscrowInv /\ [Next]_vars => EscrowInv'
  BY EscrowInvInductive
<1> QED
  BY <1>1, InitEscrowInv, PTL DEF Spec

(* Matches and the invocations' copies of them keep their types, however     *)
(* locks and releases interleave.                                          *)
THEOREM EscrowTypeCorrect == Spec => []TypeOK
<1>1. EscrowInv => TypeOK
  BY DEF EscrowInv
<1> QED
  BY <1>1, EscrowInvHolds, PTL

(* A stored match never carries terms under which it was not locked.         *)
THEOREM TermsAlwaysLocked == Spec => []TermsWereLocked
<1>1. EscrowInv => TermsWereLocked
  BY DEF EscrowInv
<1> QED
  BY <1>1, EscrowInvHolds, PTL
-----------------------------------------------------------------------------
(* Payouts.  The releases that read the record as it was and are not         *)
(* answered yet all read it locked: once it is released, each of them is    *)
(* one of the payouts that may still follow.                                *)

Pending(m) ==
  {l \in Lambdas : call[l] # Idle /\ call[l].op = "release" /\ call[l].id = m /\ call[l].current}

(* The payouts that a match may still see before it is locked anew.         *)
Due(m) == IF Held(m) = 1 THEN 0 ELSE Cardinality(Pending(m))

PayoutsInv ==
  \A m \in MatchIds :
    /\ matches[m] # NoMatch => stored[m] > 0
    /\ matches[m] = NoMatch => paid[m] = 0 /\ stored[m] = 0 /\ Pending(m) = {}
    /\ paid[m] + Due(m) <= Cardinality(Lambdas) * (stored[m] - Held(m))

LEMMA InvocationSubsets ==
  ASSUME NEW S \in SUBSET Lambdas
  PROVE  /\ IsFiniteSet(S) /\ Cardinality(S) \in Nat
         /\ Cardinality(Lambdas) \in Nat
         /\ Cardinality(S) <= Cardinality(Lambdas)
  BY FS_Subset, FS_CardinalityType, EscrowAssumption

(* What a step does to the payouts of a match.                              *)
LockStored(m) ==
  /\ stored'[m] = stored[m] + 1 /\ Held(m)' = 1
  /\ paid'[m] = paid[m] /\ matches'[m] # NoMatch

ReleaseStored(m) ==
  /\ stored'[m] = stored[m] /\ Held(m)' = 0
  /\ matches[m] # NoMatch /\ matches'[m] # NoMatch
  /\ \/ paid'[m] = paid[m] /\ Pending(m)' \subseteq Pending(m)
     \/ \E l \in Pending(m) : paid'[m] = paid[m] + 1 /\ Pending(m)' = Pending(m) \ {l}

RecordKept(m) ==
  /\ stored'[m] = stored[m] /\ matches'[m] = matches[m] /\ paid'[m] = paid[m]
  /\ Held(m) = 1 \/ Pending(m)' \subseteq Pending(m)

PayoutStep(m) == LockStored(m) \/ ReleaseStored(m) \/ RecordKept(m)

LEMMA PreparedRelease ==
  ASSUME EscrowInv, NEW l \in Lambdas, NEW i \in MatchIds, EscrowRelease(l, i), NEW m \in MatchIds
  PROVE  RecordKept(m)
<1>0. call \in [Lambdas -> Writes \cup {Idle}]
  BY DEF EscrowInv, TypeOK
<1>1. UNCHANGED <<matches, paid, stored>>
  BY DEF EscrowRelease, Answer, Prepare, historyVars
<1>2. CASE call' = call
  BY <1>1, <1>2 DEF RecordKept, Pending
<1>3. CASE call' # call
  <2>1. PICK match \in GetItem(i) :
          /\ match # NoMatch /\ match.status = "locked"
          /\ call' = [call EXCEPT ![l] = Write("release", i, match, Released(match))]
    BY <1>3 DEF EscrowRelease, Answer, Prepare, Write, Releasable
  <2>2. call'[l] = Write("release", i, match, Released(match))
        /\ \A k \in Lambdas : k # l => call'[k] = call[k]
    BY <1>0, <2>1
  <2> DEFINE w == Write("release", i, match, Released(match))
  <2>3. w.id = i /\ (w.current => match = matches[i])
    BY DEF Write
  <2> HIDE DEF w
  <2>4. CASE i = m /\ match = matches[m]
    BY <1>1, <2>1, <2>4 DEF RecordKept, Held
  <2>5. CASE i # m \/ match # matches[m]
    <3>1. call'[l] = w
      BY <2>2 DEF w
    <3>2. Pending(m)' \subseteq Pending(m)
      BY <2>2, <2>3, <2>5, <3>1 DEF Pending
    <3> QED
      BY <1>1, <3>2 DEF RecordKept
  <2> QED
    BY <2>4, <2>5
<1> QED
  BY <1>2, <1>3

(* A record is stored, once and for all or to be stored again.             *)
Kept(l) == call' = call /\ paid' = paid

Ended(l) ==
  /\ call' = [call EXCEPT ![l] = Idle]
  /\ \/ paid' = paid
     \/ /\ call[l].op = "release" /\ call[l].current
        /\ paid' = [paid EXCEPT ![call[l].id] = @ + 1]

LEMMA StoredPayout ==
  ASSUME EscrowInv, NEW l \in Lambdas, call[l] # Idle, StoreItem(l), NEW m \in MatchIds,
         Kept(l) \/ Ended(l)
  PROVE  PayoutStep(m)
<1> DEFINE w == call[l]
<1>0. /\ call \in [Lambdas -> Writes \cup {Idle}] /\ Idle \notin Writes
      /\ paid \in [MatchIds -> Nat] /\ stored \in [MatchIds -> Nat]
      /\ matches \in [MatchIds -> Matches \cup {NoMatch}] /\ NoMatch \notin Matches
  BY EscrowAssumption DEF EscrowInv, TypeOK
<1>1. /\ w \in Writes /\ w.id \in MatchIds /\ w.item \in Matches
      /\ WellFormed(w, locked[w.id])
      /\ matches' = [matches EXCEPT ![w.id] = w.item]
  BY StoredRecord
<1>2. stored' = IF w.op = "lock" THEN [stored EXCEPT ![w.id] = @ + 1] ELSE stored
  BY DEF StoreItem
<1>3. Pending(m)' = Pending(m) \/ Pending(m)' = Pending(m) \ {l}
  BY <1>0 DEF Pending, Kept, Ended
<1> HIDE DEF w
<1>4. CASE w.id # m
  <2>1. matches'[m] = matches[m] /\ stored'[m] = stored[m]
    BY <1>0, <1>1, <1>2, <1>4
  <2>2. paid'[m] = paid[m]
    BY <1>0, <1>1, <1>4 DEF w, Kept, Ended
  <2> QED
    BY <1>3, <2>1, <2>2 DEF PayoutStep, RecordKept
<1>5. CASE w.id = m /\ w.op = "lock"
  <2>1. matches'[m] = w.item /\ stored'[m] = stored[m] + 1
    BY <1>0, <1>1, <1>2, <1>5
  <2>2. w.item.status = "locked"
    BY <1>1, <1>5 DEF WellFormed
  <2>3. Held(m)' = 1 /\ matches'[m] # NoMatch
    BY <1>0, <1>1, <2>1, <2>2 DEF Held
  <2>4. paid' = paid
    BY <1>5 DEF w, Kept, Ended
  <2> QED
    BY <2>1, <2>3, <2>4 DEF PayoutStep, LockStored
<1>6. CASE w.id = m /\ w.op = "release"
  <2>1. matches'[m] = w.item /\ stored'[m] = stored[m]
    BY <1>0, <1>1, <1>2, <1>6
  <2>2. w.item.status = "released" /\ w.item.terms \in locked[m]
    BY <1>1, <1>6 DEF WellFormed, Released, Matches
  <2>3. Held(m)' = 0 /\ matches'[m] # NoMatch
    BY <1>0, <1>1, <2>1, <2>2 DEF Held
  <2>4. matches[m] # NoMatch
    BY <2>2 DEF EscrowInv
  <2>5. CASE paid' = paid
    BY <1>3, <2>1, <2>3, <2>4, <2>5 DEF PayoutStep, ReleaseStored
  <2>6. CASE paid' # paid
    <3>1. call' = [call EXCEPT ![l] = Idle] /\ w.current
          /\ paid' = [paid EXCEPT ![m] = @ + 1]
      BY <1>6, <2>6 DEF w, Kept, Ended
    <3>2. l \in Pending(m)
      BY <1>6, <3>1 DEF Pending, w
    <3>3. Pending(m)' = Pending(m) \ {l}
      BY <1>0, <3>1 DEF Pending
    <3>4. paid'[m] = paid[m] + 1
      BY <1>0, <3>1
    <3> QED
      BY <2>1, <2>3, <2>4, <3>2, <3>3, <3>4 DEF PayoutStep, ReleaseStored
  <2> QED
    BY <2>5, <2>6
<1> QED
  BY <1>1, <1>4, <1>5, <1>6 DEF WellFormed

LEMMA StepsPay ==
  ASSUME EscrowInv, [Next]_vars, NEW m \in MatchIds
  PROVE  PayoutStep(m)
<1>0. call \in [Lambdas -> Writes \cup {Idle}] /\ paid \in [MatchIds -> Nat]
  BY DEF EscrowInv, TypeOK
<1>1. ASSUME NEW l \in Lambdas, NEW i \in MatchIds, EscrowRelease(l, i)
      PROVE  PayoutStep(m)
  BY <1>1, PreparedRelease DEF PayoutStep
<1>2. ASSUME NEW l \in Lambdas, NEW i \in MatchIds, NEW t \in Terms \cup {BadTerms},
             EscrowLock(l, i, t)
      PROVE  PayoutStep(m)
  <2>1. UNCHANGED <<matches, paid, stored>>
        /\ (call' = call \/ \E w : w.op = "lock" /\ call' = [call EXCEPT ![l] = w])
    BY <1>2 DEF EscrowLock, Answer, Prepare, historyVars
  <2> QED
    BY <1>0, <2>1 DEF PayoutStep, RecordKept, Pending
<1>3. ASSUME NEW l \in Lambdas, NEW code \in {200, 500}, PutApplied(l, code)
      PROVE  PayoutStep(m)
  <2>1. call[l] # Idle /\ StoreItem(l) /\ Ended(l)
    BY <1>3 DEF PutApplied, Finish, Ended
  <2> QED
    BY <2>1, StoredPayout
<1>4. ASSUME NEW l \in Lambdas, PutRetried(l)
      PROVE  PayoutStep(m)
  <2>1. call[l] # Idle /\ StoreItem(l) /\ Kept(l)
    BY <1>4 DEF PutRetried, Kept
  <2> QED
    BY <2>1, StoredPayout
<1>5. ASSUME NEW l \in Lambdas, PutFailed(l) \/ TimeOut(l)
      PROVE  PayoutStep(m)
  <2>1. UNCHANGED <<matches, paid, stored>> /\ call' = [call EXCEPT ![l] = Idle]
    BY <1>5 DEF PutFailed, TimeOut, Finish, historyVars
  <2> QED
    BY <1>0, <2>1 DEF PayoutStep, RecordKept, Pending
<1>6. ASSUME UNCHANGED <<matches, call, paid, stored>>
      PROVE  PayoutStep(m)
  BY <1>6 DEF PayoutStep, RecordKept, Pending
<1> QED
  BY <1>1, <1>2, <1>3, <1>4, <1>5, <1>6 DEF Next, vars, Replicate, historyVars

(* A bound on the payouts for every number of lock records stored, in the    *)
(* form that multiplication needs.                                         *)
LEMMA OneMoreLock ==
  ASSUME NEW K \in Nat, NEW n \in Nat
  PROVE  K * (n + 1) = K * n + K /\ K * n \in Nat
  OBVIOUS

LEMMA PayoutsInvInductive ==
  ASSUME EscrowInv, PayoutsInv, [Next]_vars
  PROVE  PayoutsInv'
<1> SUFFICES ASSUME NEW m \in MatchIds
             PROVE  /\ matches'[m] # NoMatch => stored'[m] > 0
                    /\ matches'[m] = NoMatch => paid'[m] = 0 /\ stored'[m] = 0 /\ Pending(m)' = {}
                    /\ paid'[m] + Due(m)' <= Cardinality(Lambdas) * (stored'[m] - Held(m)')
  BY DEF PayoutsInv, Pending, Due, Held
<1>0. /\ paid[m] \in Nat /\ stored[m] \in Nat /\ paid'[m] \in Nat
      /\ Pending(m) \in SUBSET Lambdas /\ Pending(m)' \in SUBSET Lambdas
  <2>1. TypeOK /\ TypeOK'
    BY EscrowInvInductive DEF EscrowInv
  <2> QED
    BY <2>1 DEF TypeOK, Pending
<1>1. PICK K \in Nat : K = Cardinality(Lambdas)
  BY InvocationSubsets
<1>2. PICK p \in Nat : p = Cardinality(Pending(m)) /\ p <= K
  BY <1>0, <1>1, InvocationSubsets
<1>3. PICK q \in Nat : q = Cardinality(Pending(m)') /\ q <= K
  BY <1>0, <1>1, InvocationSubsets
<1>4. /\ matches[m] # NoMatch => stored[m] > 0
      /\ matches[m] = NoMatch => paid[m] = 0 /\ stored[m] = 0 /\ Pending(m) = {}
      /\ paid[m] + Due(m) <= K * (stored[m] - Held(m))
  BY <1>1 DEF PayoutsInv
<1>5. Held(m) \in {0, 1} /\ (Held(m) = 1 => matches[m] # NoMatch)
  BY DEF Held
<1>6. /\ Held(m) = 1 => stored[m] > 0 /\ paid[m] <= K * (stored[m] - 1)
      /\ Held(m) = 0 => paid[m] + p <= K * stored[m]
  BY <1>0, <1>2, <1>4, <1>5 DEF Due
<1>7. paid[m] + p <= K * stored[m]
  <2>1. CASE Held(m) = 0
    BY <1>6, <2>1
  <2>2. CASE Held(m) = 1
    <3>1. PICK n \in Nat : stored[m] = n + 1
      <4>1. stored[m] - 1 \in Nat /\ stored[m] = (stored[m] - 1) + 1
        BY <1>0, <1>6, <2>2
      <4> QED
        BY <4>1
    <3>2. stored[m] - 1 = n
      BY <3>1
    <3>3. paid[m] <= K * n
      BY <1>6, <2>2, <3>2
    <3>4. K * stored[m] = K * n + K /\ K * n \in Nat
      BY <3>1, OneMoreLock
    <3> QED
      BY <1>0, <1>2, <3>3, <3>4
  <2> QED
    BY <1>5, <2>1, <2>2
<1>8. CASE LockStored(m)
  <2>1. stored'[m] - 1 = stored[m] /\ stored'[m] > 0
    BY <1>0, <1>8 DEF LockStored
  <2>2. Due(m)' = 0
    BY <1>8 DEF LockStored, Due
  <2>3. K * stored[m] \in Nat
    BY <1>0, OneMoreLock
  <2>4. paid'[m] <= K * stored[m]
    BY <1>0, <1>7, <1>8, <2>3 DEF LockStored
  <2> QED
    BY <1>0, <1>1, <1>8, <2>1, <2>2, <2>4 DEF LockStored
<1>9. CASE ReleaseStored(m)
  <2>1. paid'[m] + q <= paid[m] + p
    <3>1. CASE paid'[m] = paid[m] /\ Pending(m)' \subseteq Pending(m)
      <4>1. Cardinality(Pending(m)') <= Cardinality(Pending(m))
        BY <1>0, <3>1, InvocationSubsets, FS_Subset
      <4> QED
        BY <1>0, <1>2, <1>3, <3>1, <4>1
    <3>2. ASSUME NEW l \in Pending(m), paid'[m] = paid[m] + 1, Pending(m)' = Pending(m) \ {l}
          PROVE  paid'[m] + q <= paid[m] + p
      <4>1. Cardinality(Pending(m)') = Cardinality(Pending(m)) - 1
        BY <1>0, <3>2, InvocationSubsets, FS_RemoveElement
      <4> QED
        BY <1>0, <1>2, <1>3, <3>2, <4>1
    <3> QED
      BY <1>9, <3>1, <3>2 DEF ReleaseStored
  <2>2. Due(m)' = q
    BY <1>3, <1>9 DEF ReleaseStored, Due
  <2>3. stored'[m] = stored[m] /\ Held(m)' = 0 /\ stored[m] > 0 /\ stored[m] - 0 = stored[m]
    BY <1>0, <1>4, <1>9 DEF ReleaseStored
  <2>4. K * stored[m] \in Nat
    BY <1>0, OneMoreLock
  <2>5. paid'[m] + q <= K * stored[m]
    BY <1>0, <1>7, <2>1, <2>4
  <2> QED
    BY <1>1, <1>9, <2>2, <2>3, <2>5 DEF ReleaseStored
<1>10. CASE RecordKept(m)
  <2>1. Held(m)' = Held(m)
    BY <1>10 DEF RecordKept, Held
  <2>2. Due(m)' <= Due(m) /\ Due(m) \in Nat /\ Due(m)' \in Nat
    <3>1. CASE Held(m) = 1
      BY <2>1, <3>1 DEF Due
    <3>2. CASE Held(m) # 1
      <4>1. Cardinality(Pending(m)') <= Cardinality(Pending(m))
        BY <1>0, <1>10, <3>2, InvocationSubsets, FS_Subset DEF RecordKept
      <4> QED
        BY <1>2, <1>3, <2>1, <3>2, <4>1 DEF Due
    <3> QED
      BY <3>1, <3>2
  <2>3. matches'[m] = NoMatch => paid'[m] = 0 /\ stored'[m] = 0 /\ Pending(m)' = {}
    BY <1>4, <1>5, <1>10 DEF RecordKept
  <2>4. paid'[m] = paid[m] /\ stored'[m] = stored[m] /\ matches'[m] = matches[m]
    BY <1>10 DEF RecordKept
  <2>5. PICK b \in Int : b = K * (stored[m] - Held(m))
    BY <1>0, <1>5
  <2>6. paid[m] + Due(m)' <= b
    BY <1>0, <1>4, <2>2, <2>5
  <2> QED
    BY <1>1, <1>4, <2>1, <2>3, <2>4, <2>5, <2>6
<1> QED
  BY <1>8, <1>9, <1>10, StepsPay DEF PayoutStep

(* Each time a lock record is stored, at most one payout per invocation       *)
(* follows, and none while it is still the record, however requests overlap  *)
(* and however often the AWS client repeats a PutItem.                       *)
THEOREM PayoutsAlwaysBounded == Spec => []PayoutsBounded
<1>1. Init => PayoutsInv
  <2> SUFFICES ASSUME Init, NEW m \in MatchIds
               PROVE  /\ matches[m] = NoMatch /\ stored[m] = 0 /\ paid[m] = 0 /\ Pending(m) = {}
                      /\ paid[m] + Due(m) <= Cardinality(Lambdas) * (stored[m] - Held(m))
    BY DEF PayoutsInv
  <2>1. matches[m] = NoMatch /\ stored[m] = 0 /\ paid[m] = 0 /\ Pending(m) = {}
    BY DEF Init, Pending
  <2>2. Held(m) = 0
    BY <2>1 DEF Held
  <2>3. Due(m) = 0
    BY <2>1, <2>2, FS_EmptySet DEF Due
  <2>4. PICK K \in Nat : K = Cardinality(Lambdas)
    BY InvocationSubsets
  <2>5. K * (0 - 0) = 0
    OBVIOUS
  <2> QED
    BY <2>1, <2>2, <2>3, <2>4, <2>5
<1>2. EscrowInv /\ PayoutsInv /\ [Next]_vars => PayoutsInv'
  BY PayoutsInvInductive
<1>3. EscrowInv /\ PayoutsInv => PayoutsBounded
  <2> SUFFICES ASSUME EscrowInv, PayoutsInv, NEW m \in MatchIds
               PROVE  paid[m] <= Cardinality(Lambdas) * (stored[m] - Held(m))
    BY DEF PayoutsBounded
  <2>1. paid[m] \in Nat /\ stored[m] \in Nat /\ Pending(m) \in SUBSET Lambdas
    BY DEF EscrowInv, TypeOK, Pending
  <2>2. paid[m] + Due(m) <= Cardinality(Lambdas) * (stored[m] - Held(m))
    BY DEF PayoutsInv
  <2>3. Due(m) \in Nat /\ Held(m) \in {0, 1} /\ Cardinality(Lambdas) \in Nat
    BY <2>1, InvocationSubsets DEF Due, Held
  <2>4. PICK b \in Int : b = Cardinality(Lambdas) * (stored[m] - Held(m))
    BY <2>1, <2>3
  <2> QED
    BY <2>1, <2>2, <2>3, <2>4
<1> QED
  BY <1>1, <1>2, <1>3, EscrowInvHolds, PTL DEF Spec
-----------------------------------------------------------------------------
(* Refinement of the ledger.                                                *)

(* Storing a record that nobody changed since it was read. *)
LEMMA FreshWriteFollowsLedger ==
  ASSUME EscrowInv, NEW l \in Lambdas, call[l] # Idle, StoreItem(l),
         call[l].op = "release" => call[l].base = matches[call[l].id]
  PROVE  Ledger!Next
<1> DEFINE m == call[l].id
           new == call[l].item
<1>1. /\ m \in MatchIds /\ new \in Matches /\ new # NoMatch
      /\ matches' = [matches EXCEPT ![m] = new]
      /\ WellFormed(call[l], locked[m])
  BY StoredRecord, EscrowAssumption
<1>2. matches \in [MatchIds -> Matches \cup {NoMatch}]
  BY DEF EscrowInv, TypeOK
<1> HIDE DEF m, new
<1>3. /\ StateOf' = [StateOf EXCEPT ![m] = new.status]
      /\ TermsOf' = [TermsOf EXCEPT ![m] = {new.terms}]
  BY <1>1, <1>2 DEF StateOf, TermsOf
<1>4. CASE call[l].op = "lock"
  <2>1. new.status = "locked" /\ new.terms \in Terms
    BY <1>1, <1>4 DEF WellFormed, new, Matches
  <2>2. Ledger!Lock(m, new.terms)
    BY <1>3, <2>1 DEF Ledger!Lock
  <2> QED
    BY <1>1, <2>1, <2>2 DEF Ledger!Next
<1>5. CASE call[l].op = "release"
  <2>1. matches[m] \in Matches /\ matches[m].status = "locked" /\ new = Released(matches[m])
    BY <1>1, <1>5 DEF WellFormed, new, m
  <2>2. new.status = "released" /\ new.terms = matches[m].terms
    BY <2>1 DEF Released, Matches
  <2>3. StateOf[m] = "locked" /\ TermsOf' = TermsOf
    BY <1>1, <1>2, <1>3, <2>1, <2>2, EscrowAssumption DEF StateOf, TermsOf
  <2>4. Ledger!Release(m)
    BY <1>3, <2>2, <2>3 DEF Ledger!Release
  <2> QED
    BY <1>1, <2>4 DEF Ledger!Next
<1> QED
  BY <1>1, <1>4, <1>5 DEF WellFormed

LEMMA RecordsChangeByStores ==
  ASSUME [Next]_vars
  PROVE  matches' = matches \/ \E l \in Lambdas : call[l] # Idle /\ StoreItem(l)
  BY DEF Next, vars, EscrowLock, EscrowRelease, Prepare, Answer, PutApplied, PutFailed,
         PutRetried, TimeOut, Replicate

(* A match leaves the ledger only when a release overwrites a record that   *)
(* changed after the release read it.                                       *)
THEOREM LedgerBrokenOnlyByStaleWrites == Spec => OnlyStaleWritesBreakLedger
<1>1. ASSUME EscrowInv, [Next]_vars
      PROVE  [Ledger!Next \/ StaleWrite]_<<StateOf, TermsOf>>
  <2>1. CASE matches' = matches
    BY <2>1 DEF StateOf, TermsOf
  <2>2. ASSUME NEW l \in Lambdas, call[l] # Idle, StoreItem(l)
        PROVE  Ledger!Next \/ StaleWrite
    <3>1. CASE call[l].op = "release" /\ call[l].base # matches[call[l].id]
      BY <2>2, <3>1 DEF StaleWrite
    <3>2. CASE call[l].op = "release" => call[l].base = matches[call[l].id]
      BY <1>1, <2>2, <3>2, FreshWriteFollowsLedger
    <3> QED
      BY <3>1, <3>2
  <2> QED
    BY <1>1, <2>1, <2>2, RecordsChangeByStores
<1> QED
  BY <1>1, EscrowInvHolds, PTL DEF Spec, OnlyStaleWritesBreakLedger

(* A pending release was read from the stored record, or is stored already. *)
FreshInv ==
  \A l \in Lambdas :
    call[l] # Idle /\ call[l].op = "release"
      => call[l].base = matches[call[l].id] \/ call[l].item = matches[call[l].id]

LEMMA FreshInvInductive ==
  ASSUME \A l, k \in Lambdas : l = k, LaggingReads = FALSE,
         EscrowInv, FreshInv, [Next]_vars
  PROVE  FreshInv'
<1>1. /\ call \in [Lambdas -> Writes \cup {Idle}]
      /\ matches \in [MatchIds -> Matches \cup {NoMatch}]
  BY DEF EscrowInv, TypeOK
<1>2. ASSUME NEW l \in Lambdas, NEW m \in MatchIds,
             EscrowRelease(l, m) \/ \E t \in Terms \cup {BadTerms} : EscrowLock(l, m, t)
      PROVE  FreshInv'
  <2>1. matches' = matches
    BY <1>2 DEF EscrowRelease, EscrowLock, Prepare, Answer
  <2>2. CASE call' = call
    BY <2>1, <2>2 DEF FreshInv
  <2>3. CASE call' # call
    <3>1. PICK op, base, item :
            Prepare(l, op, m, base, item) /\ (op = "release" => base = matches[m])
      <4>1. CASE EscrowRelease(l, m)
        <5>1. Prepare(l, "release", m, matches[m], Released(matches[m]))
          BY <2>3, <4>1 DEF EscrowRelease, Answer, GetItem
        <5> QED
          BY <5>1
      <4>2. ASSUME NEW t \in Terms \cup {BadTerms}, EscrowLock(l, m, t)
            PROVE  \E item : Prepare(l, "lock", m, NoMatch, item)
        BY <2>3, <4>2 DEF EscrowLock, Answer
      <4> QED
        BY <1>2, <4>1, <4>2
    <3> DEFINE w == Write(op, m, base, item)
    <3>2. call' = [call EXCEPT ![l] = w]
      BY <3>1 DEF Prepare, Write
    <3>3. w.op = "release" => w.base = matches[w.id]
      BY <3>1 DEF Write
    <3> HIDE DEF w
    <3>4. call'[l] = w
      BY <1>1, <3>2
    <3> QED
      BY <2>1, <3>3, <3>4 DEF FreshInv
  <2> QED
    BY <2>2, <2>3
<1>3. ASSUME NEW l \in Lambdas,
             (\E code \in {200, 500} : PutApplied(l, code)) \/ PutFailed(l) \/ TimeOut(l)
      PROVE  FreshInv'
  <2>1. call' = [call EXCEPT ![l] = Idle]
    BY <1>3 DEF PutApplied, PutFailed, TimeOut, Finish
  <2> QED
    BY <1>1, <2>1 DEF FreshInv
<1>4. ASSUME NEW l \in Lambdas, PutRetried(l)
      PROVE  FreshInv'
  <2>1. call[l] # Idle /\ StoreItem(l) /\ call' = call
    BY <1>4 DEF PutRetried
  <2>2. call[l].id \in MatchIds /\ matches' = [matches EXCEPT ![call[l].id] = call[l].item]
    BY <2>1, StoredRecord
  <2>3. matches'[call[l].id] = call[l].item
    BY <1>1, <2>2
  <2> QED
    BY <2>1, <2>3 DEF FreshInv
<1>5. ASSUME UNCHANGED <<matches, call>>
      PROVE  FreshInv'
  BY <1>5 DEF FreshInv
<1> QED
  BY <1>2, <1>3, <1>4, <1>5 DEF Next, vars, Replicate

(* Without overlap and lag the escrow endpoints implement the ledger, though*)
(* their writes may fail, be repeated, or succeed without an answer.        *)
THEOREM SerialEscrowImplementsLedger ==
  ASSUME \A l, k \in Lambdas : l = k, LaggingReads = FALSE
  PROVE  Spec => ImplementsLedger
<1>1. Init => Ledger!Init
  BY DEF Init, Ledger!Init, StateOf, TermsOf
<1>2. Init => FreshInv
  BY DEF Init, FreshInv
<1>3. EscrowInv /\ FreshInv /\ [Next]_vars => FreshInv'
  BY FreshInvInductive
<1>4. ASSUME EscrowInv, FreshInv, [Next]_vars
      PROVE  [Ledger!Next]_<<StateOf, TermsOf>>
  <2>1. CASE matches' = matches
    BY <2>1 DEF StateOf, TermsOf
  <2>2. ASSUME NEW l \in Lambdas, call[l] # Idle, StoreItem(l), matches' # matches
        PROVE  Ledger!Next
    <3>1. call[l].item # matches[call[l].id]
      BY <1>4, <2>2 DEF StoreItem, EscrowInv, TypeOK
    <3> QED
      BY <1>4, <2>2, <3>1, FreshWriteFollowsLedger DEF FreshInv
  <2> QED
    BY <1>4, <2>1, <2>2, RecordsChangeByStores
<1> QED
  BY <1>1, <1>2, <1>3, <1>4, EscrowInvHolds, PTL
  DEF Spec, ImplementsLedger, Ledger!Spec, Ledger!ledgerVars
=============================================================================
