---------------------- MODULE ServiceListings_proofs ----------------------
(***************************************************************************)
(* Proofs about ServiceListings, for every set of workers and listings and *)
(* every set of statuses that clients put.                                 *)
(***************************************************************************)
EXTENDS ServiceListings, TLAPS

(* What a pending write holds: what its endpoint computed from its input. *)
Justified(c) ==
  /\ c.op = "create" => c.status = "available" /\ c.escrow = "N/A"
  /\ c.op = "put" => c.status \in PutStatuses /\ c.escrow = "N/A"
  /\ c.op = "advance" => /\ c.base \in Items
                         /\ Advanced(c.base.status) = <<c.status, c.escrow>>
  /\ c.op = "dispute" => /\ c.base \in Items
                         /\ Disputed(c.base.condition) = <<c.status, c.escrow>>

IsTransition(c) == c.op \in {"advance", "dispute"}

(* Items are never deleted, so what was read once is still there. *)
ServiceInv ==
  /\ TypeOK
  /\ \A id \in ListingIds : replica[id] # NoItem => table[id] # NoItem
  /\ \A w \in Workers : call[w] # Idle =>
       Justified(call[w]) /\ (IsTransition(call[w]) => table[call[w].id] # NoItem)

LEMMA AdvancedPairs ==
  ASSUME NEW status \in Statuses
  PROVE  /\ Advanced(status)[1] \in Statuses /\ Advanced(status)[2] \in EscrowStatuses
         /\ Advanced(status) = <<Advanced(status)[1], Advanced(status)[2]>>
         /\ Advanced(status) \in Pairs
  BY DEF Advanced, Statuses, EscrowStatuses, Pairs

LEMMA DisputedPairs ==
  ASSUME NEW condition \in Conditions
  PROVE  /\ Disputed(condition)[1] \in Statuses /\ Disputed(condition)[2] \in EscrowStatuses
         /\ Disputed(condition) = <<Disputed(condition)[1], Disputed(condition)[2]>>
         /\ Disputed(condition) \in Pairs
  BY DEF Disputed, Statuses, EscrowStatuses, Pairs

LEMMA PrepareKeepsServiceInv ==
  ASSUME ServiceInv, NEW w \in Workers, NEW c \in Writes, Justified(c),
         IsTransition(c) => table[c.id] # NoItem,
         call' = [call EXCEPT ![w] = c], UNCHANGED <<table, replica>>
  PROVE  ServiceInv'
<1>1. TypeOK'
  BY DEF ServiceInv, TypeOK
<1>2. \A v \in Workers : call'[v] # Idle =>
        Justified(call'[v]) /\ (IsTransition(call'[v]) => table'[call'[v].id] # NoItem)
  BY DEF ServiceInv, TypeOK
<1>3. \A v \in Workers : call'[v] # Idle => Justified(call[v])'
  BY <1>2 DEF Justified
<1> QED
  BY <1>1, <1>2, <1>3 DEF ServiceInv, IsTransition

LEMMA RequestKeepsServiceInv ==
  ASSUME ServiceInv, NEW w \in Workers, Request(w)
  PROVE  ServiceInv'
<1>1. ASSUME NEW id \in ListingIds, NEW condition \in Conditions,
             CreateListing(w, id, condition)
      PROVE  ServiceInv'
  <2> DEFINE c == [op |-> "create", id |-> id, base |-> NoItem, status |-> "available",
                   escrow |-> "N/A", condition |-> condition]
  <2>1. c \in Writes /\ Justified(c) /\ ~IsTransition(c)
    BY DEF Writes, Justified, IsTransition, Statuses, EscrowStatuses
  <2>2. call' = [call EXCEPT ![w] = c] /\ UNCHANGED <<table, replica>>
    BY <1>1 DEF CreateListing, Prepare
  <2> QED
    BY <2>1, <2>2, PrepareKeepsServiceInv
<1>2. ASSUME NEW id \in ListingIds, NEW newStatus \in PutStatuses,
             UpdateListing(w, id, newStatus)
      PROVE  ServiceInv'
  <2> DEFINE c == [op |-> "put", id |-> id, base |-> NoItem, status |-> newStatus,
                   escrow |-> "N/A", condition |-> "good"]
  <2>1. c \in Writes /\ Justified(c) /\ ~IsTransition(c)
    BY DEF Writes, Justified, IsTransition, Statuses, EscrowStatuses, Conditions
  <2>2. call' = [call EXCEPT ![w] = c] /\ UNCHANGED <<table, replica>>
    BY <1>2 DEF UpdateListing, Prepare
  <2> QED
    BY <2>1, <2>2, PrepareKeepsServiceInv
<1>3. ASSUME NEW id \in ListingIds, NEW action \in {"advance", "dispute"},
             Transition(w, id, action)
      PROVE  ServiceInv'
  <2> DEFINE next(item) == IF action = "dispute" THEN Disputed(item.condition)
                                                 ELSE Advanced(item.status)
  <2>1. PICK item \in GetItem(id) :
          item # NoItem /\ Prepare(w, action, id, item, next(item)[1], next(item)[2], item.condition)
    BY <1>3 DEF Transition
  <2>2. item \in Items /\ table[id] # NoItem
    BY <2>1 DEF ServiceInv, TypeOK, GetItem
  <2>3. item.status \in Statuses /\ item.condition \in Conditions
    BY <2>2 DEF Items
  <2>4. /\ next(item)[1] \in Statuses /\ next(item)[2] \in EscrowStatuses
        /\ next(item) = <<next(item)[1], next(item)[2]>>
    BY <2>3, AdvancedPairs, DisputedPairs
  <2> DEFINE c == [op |-> action, id |-> id, base |-> item, status |-> next(item)[1],
                   escrow |-> next(item)[2], condition |-> item.condition]
  <2>5. Justified(c)
    <3>1. CASE action = "dispute"
      BY <2>2, <2>4, <3>1 DEF Justified
    <3>2. CASE action = "advance"
      BY <2>2, <2>4, <3>2 DEF Justified
    <3> QED
      BY <3>1, <3>2
  <2>6. call' = [call EXCEPT ![w] = c] /\ UNCHANGED <<table, replica>>
    BY <2>1 DEF Prepare
  <2>7. c.id = id
    OBVIOUS
  <2> HIDE DEF next
  <2>8. c \in Writes
    BY <2>2, <2>3, <2>4 DEF Writes
  <2> HIDE DEF c
  <2> QED
    BY <2>2, <2>5, <2>6, <2>7, <2>8, PrepareKeepsServiceInv
<1> QED
  BY <1>1, <1>2, <1>3 DEF Request

LEMMA WrittenType ==
  ASSUME NEW old \in Items \cup {NoItem}, NEW c \in Writes
  PROVE  Written(old, c) \in Items /\ Written(old, c) # NoItem
<1>1. /\ c.status \in Statuses /\ c.escrow \in EscrowStatuses /\ c.condition \in Conditions
  BY DEF Writes
<1>2. Written(old, c) \in Items
  BY <1>1 DEF Written, Items
<1> QED
  BY <1>2, ServiceAssumption

LEMMA StoreChangesOneItem ==
  ASSUME ServiceInv, NEW w \in Workers, call[w] # Idle, StoreItem(w)
  PROVE  /\ call[w] \in Writes /\ call[w].id \in ListingIds
         /\ table' \in [ListingIds -> Items \cup {NoItem}]
         /\ table'[call[w].id] = Written(table[call[w].id], call[w])
         /\ table'[call[w].id] \in Items /\ table'[call[w].id] # NoItem
         /\ \A id \in ListingIds : id # call[w].id => table'[id] = table[id]
<1> DEFINE c == call[w]
<1>1. c \in Writes /\ c.id \in ListingIds
  BY DEF ServiceInv, TypeOK, Writes
<1>2. table \in [ListingIds -> Items \cup {NoItem}]
  BY DEF ServiceInv, TypeOK
<1>3. table' = [table EXCEPT ![c.id] = Written(table[c.id], c)]
  BY DEF StoreItem
<1>4. table[c.id] \in Items \cup {NoItem}
  BY <1>1, <1>2
<1> HIDE DEF c
<1>5. Written(table[c.id], c) \in Items /\ Written(table[c.id], c) # NoItem
  BY <1>1, <1>4, WrittenType
<1> QED
  BY <1>1, <1>2, <1>3, <1>5 DEF c

LEMMA WriteKeepsServiceInv ==
  ASSUME ServiceInv, NEW w \in Workers,
         WriteApplied(w) \/ WriteFailed(w) \/ WriteRepeated(w)
  PROVE  ServiceInv'
<1>1. /\ table' = table \/ (call[w] # Idle /\ StoreItem(w))
      /\ call' = call \/ call' = [call EXCEPT ![w] = Idle]
      /\ replica' = replica
  BY DEF WriteApplied, WriteFailed, WriteRepeated
<1>2. /\ table' \in [ListingIds -> Items \cup {NoItem}]
      /\ \A id \in ListingIds : table[id] # NoItem => table'[id] # NoItem
  BY <1>1, StoreChangesOneItem DEF ServiceInv, TypeOK
<1>3. /\ call' \in [Workers -> Writes \cup {Idle}]
      /\ \A v \in Workers : call'[v] # Idle => call'[v] = call[v] /\ call[v].id \in ListingIds
  BY <1>1 DEF ServiceInv, TypeOK, Writes
<1>4. TypeOK'
  BY <1>1, <1>2, <1>3 DEF ServiceInv, TypeOK
<1>5. \A v \in Workers : call'[v] # Idle =>
        Justified(call[v])' /\ (IsTransition(call'[v]) => table'[call'[v].id] # NoItem)
  BY <1>2, <1>3 DEF ServiceInv, Justified
<1> QED
  BY <1>1, <1>2, <1>4, <1>5 DEF ServiceInv, IsTransition

LEMMA ServiceInvInductive ==
  ASSUME ServiceInv, [Next]_vars
  PROVE  ServiceInv'
<1>1. ASSUME NEW id \in ListingIds, Replicate(id)
      PROVE  ServiceInv'
  BY <1>1 DEF Replicate, ServiceInv, TypeOK, Justified, IsTransition
<1>2. CASE UNCHANGED vars
  BY <1>2 DEF vars, ServiceInv, TypeOK, Justified, IsTransition
<1> QED
  BY <1>1, <1>2, RequestKeepsServiceInv, WriteKeepsServiceInv DEF Next

LEMMA ServiceInvHolds == Spec => []ServiceInv
<1>1. Init => ServiceInv
  BY DEF Init, ServiceInv, TypeOK
<1>2. ServiceInv /\ [Next]_vars => ServiceInv'
  BY ServiceInvInductive
<1> QED
  BY <1>1, <1>2, PTL DEF Spec

(* Every stored item and every pending write has its type. *)
THEOREM ServiceTypeCorrect == Spec => []TypeOK
<1>1. ServiceInv => TypeOK
  BY DEF ServiceInv
<1> QED
  BY <1>1, ServiceInvHolds, PTL

(* Only the write of a worker changes the table. *)
LEMMA OnlyWritesChangeTable ==
  ASSUME [Next]_vars
  PROVE  table' = table \/ \E w \in Workers : call[w] # Idle /\ StoreItem(w)
  BY DEF Next, vars, Request, CreateListing, UpdateListing, Transition, Prepare,
         WriteApplied, WriteFailed, WriteRepeated, Replicate

(* The escrow status follows the status, whatever the transitions do to     *)
(* each other, except under the statuses that PUT /listing sets.            *)
THEOREM EscrowAlwaysFollowsStatus == Spec => []EscrowFollowsStatus
<1>1. Init => EscrowFollowsStatus
  BY DEF Init, EscrowFollowsStatus
<1>2. ASSUME ServiceInv, EscrowFollowsStatus, [Next]_vars
      PROVE  EscrowFollowsStatus'
  <2>1. CASE table' = table
    BY <1>2, <2>1 DEF EscrowFollowsStatus
  <2>2. ASSUME NEW w \in Workers, call[w] # Idle, StoreItem(w)
        PROVE  EscrowFollowsStatus'
    <3> DEFINE c == call[w]
               new == table'[c.id]
    <3>1. c \in Writes /\ Justified(c)
      BY <1>2, <2>2 DEF ServiceInv, TypeOK
    <3>2. c.op \in {"create", "put", "advance", "dispute"}
      BY <3>1 DEF Writes
    <3>3. c.op # "put" => <<c.status, c.escrow>> \in Pairs
      <4>1. CASE c.op = "create"
        BY <3>1, <4>1 DEF Justified, Pairs
      <4>2. CASE c.op = "advance"
        BY <3>1, <4>2, AdvancedPairs DEF Justified, Items
      <4>3. CASE c.op = "dispute"
        BY <3>1, <4>3, DisputedPairs DEF Justified, Items
      <4> QED
        BY <3>2, <4>1, <4>2, <4>3
    <3>4. new = Written(table[c.id], c) /\ c.id \in ListingIds
          /\ \A id \in ListingIds : id # c.id => table'[id] = table[id]
      BY <1>2, <2>2, StoreChangesOneItem
    <3>5. table[c.id] \in Items \cup {NoItem}
      BY <1>2, <3>4 DEF ServiceInv, TypeOK
    <3>6. c.op = "put" => c.status \in PutStatuses
      BY <3>1 DEF Justified
    <3> HIDE DEF c, new
    <3>7. new.status = c.status /\ (c.op # "put" => new.escrow = c.escrow)
      BY <3>2, <3>4, <3>5 DEF Written, Items
    <3>8. new.status \notin PutStatuses => <<new.status, new.escrow>> \in Pairs
      BY <3>3, <3>6, <3>7
    <3> QED
      BY <1>2, <3>4, <3>8 DEF EscrowFollowsStatus, new
  <2> QED
    BY <1>2, <2>1, <2>2, OnlyWritesChangeTable
<1> QED
  BY <1>1, <1>2, ServiceInvHolds, PTL DEF Spec
-----------------------------------------------------------------------------
(* The state machine. *)

LEMMA StoreSetsPair ==
  ASSUME ServiceInv, NEW w \in Workers, call[w] # Idle, StoreItem(w)
  PROVE  Cycle!Set(call[w].id, Written(table[call[w].id], call[w]).status,
                   Written(table[call[w].id], call[w]).escrow)
<1> DEFINE k == call[w].id
           new == Written(table[call[w].id], call[w])
<1>1. /\ k \in ListingIds /\ table'[k] = new /\ new # NoItem
      /\ \A id \in ListingIds : id # k => table'[id] = table[id]
  BY StoreChangesOneItem
<1> HIDE DEF k, new
<1>2. StatusOf' = [StatusOf EXCEPT ![k] = new.status]
  BY <1>1 DEF StatusOf
<1>3. EscrowOf' = [EscrowOf EXCEPT ![k] = new.escrow]
  BY <1>1 DEF EscrowOf
<1> QED
  BY <1>2, <1>3 DEF Cycle!Set, k, new

(* A write that is not stale is a step of the state machine. *)
LEMMA FreshStoreIsCycleStep ==
  ASSUME ServiceInv, NEW w \in Workers, call[w] # Idle, StoreItem(w),
         call[w].op = "advance" => call[w].base.status = StatusOf[call[w].id],
         call[w].op = "create" => table[call[w].id] = NoItem
  PROVE  Cycle!Next
<1> DEFINE c == call[w]
           k == c.id
           old == table[k]
           new == Written(old, c)
<1>1. c \in Writes /\ Justified(c) /\ (IsTransition(c) => old # NoItem)
  BY DEF ServiceInv, TypeOK
<1>2. k \in ListingIds /\ old \in Items \cup {NoItem}
  BY <1>1 DEF Writes, ServiceInv, TypeOK
<1>3. Cycle!Set(k, new.status, new.escrow)
  BY StoreSetsPair
<1>4. /\ StatusOf[k] = (IF old = NoItem THEN "absent" ELSE old.status)
      /\ EscrowOf[k] = (IF old = NoItem THEN "N/A" ELSE old.escrow)
  BY <1>2 DEF StatusOf, EscrowOf
<1>5. /\ c.op = "advance" => c.base.status = StatusOf[k]
      /\ c.op = "create" => old = NoItem
  OBVIOUS
<1>6. c.op \in {"create", "put", "advance", "dispute"}
  BY <1>1 DEF Writes
<1> HIDE DEF c, k, old, new
<1>7. CASE c.op = "create"
  <2>1. new.status = "available" /\ new.escrow = "N/A"
    BY <1>1, <1>7 DEF new, Written, Justified
  <2> QED
    BY <1>2, <1>3, <1>4, <1>5, <1>7, <2>1 DEF Cycle!Next, Cycle!Publish
<1>8. CASE c.op = "put"
  <2>1. c.status \in PutStatuses /\ new.status = c.status /\ new.escrow = EscrowOf[k]
    BY <1>1, <1>2, <1>4, <1>8 DEF new, Written, Justified, Items
  <2> QED
    BY <1>2, <1>3, <2>1 DEF Cycle!Next, Cycle!Relabel
<1>9. CASE c.op = "dispute"
  <2>1. new.status = c.status /\ new.escrow = c.escrow /\ old # NoItem
    BY <1>1, <1>2, <1>9 DEF new, Written, Items, IsTransition
  <2>2. old.status # "absent"
    BY <1>2, <2>1, ServiceAssumption DEF Items, Statuses
  <2>3. <<c.status, c.escrow>> \in {<<"sold", "ReleasedToSeller">>, <<"removed", "Refunded">>}
    BY <1>1, <1>9 DEF Justified, Disputed
  <2> QED
    BY <1>2, <1>3, <1>4, <2>1, <2>2, <2>3 DEF Cycle!Next, Cycle!Dispute
<1>10. CASE c.op = "advance"
  <2>1. new.status = c.status /\ new.escrow = c.escrow /\ old # NoItem
    BY <1>1, <1>2, <1>10 DEF new, Written, Items, IsTransition
  <2>2. old.status # "absent" /\ StatusOf[k] = old.status
    BY <1>2, <1>4, <2>1, ServiceAssumption DEF Items, Statuses
  <2>3. Advanced(old.status) = <<c.status, c.escrow>>
    BY <1>1, <1>5, <1>10, <2>2 DEF Justified
  <2>4. CASE old.status = "available"
    BY <1>2, <1>3, <2>1, <2>2, <2>3, <2>4 DEF Advanced, Cycle!Next, Cycle!Reserve
  <2>5. CASE old.status = "reserved"
    BY <1>2, <1>3, <2>1, <2>2, <2>3, <2>5 DEF Advanced, Cycle!Next, Cycle!Complete
  <2>6. CASE old.status \notin {"available", "reserved"}
    BY <1>2, <1>3, <2>1, <2>2, <2>3, <2>6 DEF Advanced, Cycle!Next, Cycle!Relist
  <2> QED
    BY <2>4, <2>5, <2>6
<1> QED
  BY <1>6, <1>7, <1>8, <1>9, <1>10

(* Whatever overlaps, only an advance computed from an older status and a   *)
(* create that finds an item leave the state machine.                       *)
THEOREM CycleBrokenOnlyByStaleWrites == Spec => OnlyStaleAdvancesBreakCycle
<1>1. ASSUME ServiceInv, [Next]_vars
      PROVE  [Cycle!Next \/ StaleAdvance \/ CreateOverItem]_<<StatusOf, EscrowOf>>
  <2>1. CASE table' = table
    BY <2>1 DEF StatusOf, EscrowOf
  <2>2. ASSUME NEW w \in Workers, call[w] # Idle, StoreItem(w)
        PROVE  Cycle!Next \/ StaleAdvance \/ CreateOverItem
    <3>1. CASE call[w].op = "advance" /\ call[w].base.status # StatusOf[call[w].id]
      BY <2>2, <3>1 DEF StaleAdvance
    <3>2. CASE call[w].op = "create" /\ table[call[w].id] # NoItem
      BY <2>2, <3>2 DEF CreateOverItem
    <3> QED
      BY <1>1, <2>2, <3>1, <3>2, FreshStoreIsCycleStep
  <2> QED
    BY <1>1, <2>1, <2>2, OnlyWritesChangeTable
<1> QED
  BY <1>1, ServiceInvHolds, PTL DEF Spec, OnlyStaleAdvancesBreakCycle
(* A step of the state machine settles the locked funds of a reserved        *)
(* listing, or leaves them locked.                                         *)
LEMMA CycleSettles ==
  ASSUME TypeOK, Cycle!Next, NEW id \in ListingIds,
         EscrowOf[id] = "Locked", StatusOf[id] = "reserved"
  PROVE  EscrowOf'[id] \in {"Locked"} \cup Settled
<1>1. EscrowOf \in [ListingIds -> EscrowStatuses]
  BY DEF TypeOK, EscrowOf, Items, EscrowStatuses
<1>2. ASSUME NEW k \in ListingIds, NEW status, Cycle!Relabel(k, status)
      PROVE  EscrowOf'[id] = "Locked"
  BY <1>1, <1>2 DEF Cycle!Relabel, Cycle!Set
<1>3. ASSUME NEW k \in ListingIds,
             \/ Cycle!Publish(k) \/ Cycle!Reserve(k) \/ Cycle!Complete(k)
             \/ Cycle!Relist(k) \/ Cycle!Dispute(k)
      PROVE  EscrowOf'[id] \in {"Locked"} \cup Settled
  <2>1. CASE k # id
    BY <1>1, <1>3, <2>1
       DEF Cycle!Publish, Cycle!Reserve, Cycle!Complete, Cycle!Relist, Cycle!Dispute, Cycle!Set
  <2>2. CASE k = id
    BY <1>1, <1>3, <2>2
       DEF Cycle!Publish, Cycle!Reserve, Cycle!Complete, Cycle!Relist, Cycle!Dispute, Cycle!Set,
           Settled
  <2> QED
    BY <2>1, <2>2
<1> QED
  BY <1>2, <1>3 DEF Cycle!Next

(* Locked funds are released or refunded before the escrow of a listing is   *)
(* cleared, except under a status that PUT /listing sets, by an advance that *)
(* was computed from an older status, or by a create that finds the listing. *)
THEOREM FundsAlwaysHeld == Spec => FundsHeld
<1>1. ASSUME ServiceInv, EscrowFollowsStatus,
             [Cycle!Next \/ StaleAdvance \/ CreateOverItem]_<<StatusOf, EscrowOf>>,
             NEW id \in ListingIds,
             EscrowOf[id] = "Locked", EscrowOf'[id] \notin {"Locked"} \cup Settled,
             StatusOf[id] \notin PutStatuses
      PROVE  StaleAdvance \/ CreateOverItem
  <2>1. table[id] # NoItem /\ table[id].escrow = "Locked"
    BY <1>1 DEF EscrowOf
  <2>2. StatusOf[id] = "reserved"
    BY <1>1, <2>1 DEF StatusOf, EscrowFollowsStatus, Pairs
  <2>3. EscrowOf' # EscrowOf
    BY <1>1
  <2>4. ~Cycle!Next
    BY <1>1, <2>2, CycleSettles DEF ServiceInv
  <2> QED
    BY <1>1, <2>3, <2>4
<1>2. ServiceInv /\ EscrowFollowsStatus
      /\ [Cycle!Next \/ StaleAdvance \/ CreateOverItem]_<<StatusOf, EscrowOf>>
      => [\A id \in ListingIds :
            EscrowOf[id] = "Locked" /\ EscrowOf'[id] \notin {"Locked"} \cup Settled =>
              StatusOf[id] \in PutStatuses \/ StaleAdvance \/ CreateOverItem]_vars
  BY <1>1
<1> QED
  BY <1>2, CycleBrokenOnlyByStaleWrites, EscrowAlwaysFollowsStatus, ServiceInvHolds,
     PTL DEF FundsHeld, OnlyStaleAdvancesBreakCycle
-----------------------------------------------------------------------------
(* Requests that do not overlap. *)

Serial == ~LaggingReads /\ FreshIds /\ \A v, w \in Workers : v = w

(* A pending write was computed from the item in the table, or it has been *)
(* applied and is pending again.                                           *)
Fresh(w) ==
  call[w] # Idle =>
    \/ Written(table[call[w].id], call[w]) = table[call[w].id]
    \/ /\ call[w].op = "advance" => call[w].base = table[call[w].id]
       /\ call[w].op = "create" => table[call[w].id] = NoItem

AllFresh == \A w \in Workers : Fresh(w)

LEMMA WrittenIdempotent ==
  ASSUME NEW old \in Items \cup {NoItem}, NEW c \in Writes
  PROVE  Written(Written(old, c), c) = Written(old, c)
<1>1. CASE c.op = "create"
  BY <1>1 DEF Written
<1>2. CASE c.op # "create" /\ old = NoItem
  <2>1. Written(old, c) # NoItem
    BY WrittenType
  <2>2. Written(old, c) = [status |-> c.status, escrow |-> c.escrow, condition |-> c.condition]
    BY <1>2 DEF Written
  <2> DEFINE new == Written(old, c)
  <2>3. new \in Items /\ new.status = c.status /\ new.escrow = c.escrow
    BY <2>2, WrittenType
  <2> HIDE DEF new
  <2>4. /\ [new EXCEPT !.status = c.status] = new
        /\ [new EXCEPT !.status = c.status, !.escrow = c.escrow] = new
    BY <2>3 DEF Items
  <2>5. Written(new, c) = new
    BY <1>2, <2>1, <2>4 DEF Written, new
  <2> QED
    BY <2>5 DEF new
<1>3. CASE c.op # "create" /\ old # NoItem
  <2>1. Written(old, c) # NoItem
    BY WrittenType
  <2>2. old \in Items
    BY <1>3
  <2> QED
    BY <1>3, <2>1, <2>2 DEF Written, Items
<1> QED
  BY <1>1, <1>2, <1>3

LEMMA FreshInductive ==
  ASSUME Serial, ServiceInv, AllFresh, [Next]_vars
  PROVE  AllFresh'
<1>1. ASSUME NEW w \in Workers, Request(w)
      PROVE  AllFresh'
  <2>1. ASSUME NEW id \in ListingIds, NEW condition \in Conditions,
               CreateListing(w, id, condition)
        PROVE  AllFresh'
    <3>1. call'[w].op = "create" /\ call'[w].id = id /\ table'[id] = NoItem
      BY <2>1 DEF CreateListing, Unused, Serial, Prepare, ServiceInv, TypeOK
    <3> QED
      BY <3>1 DEF AllFresh, Fresh, Serial
  <2>2. ASSUME NEW id \in ListingIds, NEW newStatus \in PutStatuses,
               UpdateListing(w, id, newStatus)
        PROVE  AllFresh'
    <3>1. call'[w].op = "put"
      BY <2>2 DEF UpdateListing, Prepare, ServiceInv, TypeOK
    <3> QED
      BY <3>1 DEF AllFresh, Fresh, Serial
  <2>3. ASSUME NEW id \in ListingIds, NEW action \in {"advance", "dispute"},
               Transition(w, id, action)
        PROVE  AllFresh'
    <3>1. /\ call'[w].op = action /\ call'[w].id = id
          /\ call'[w].base = table[id] /\ table' = table
      BY <2>3 DEF Transition, Prepare, GetItem, Serial, ServiceInv, TypeOK
    <3> QED
      BY <3>1 DEF AllFresh, Fresh, Serial
  <2> QED
    BY <1>1, <2>1, <2>2, <2>3 DEF Request
<1>2. ASSUME NEW w \in Workers, WriteApplied(w) \/ WriteFailed(w)
      PROVE  AllFresh'
  <2>1. call'[w] = Idle
    BY <1>2 DEF WriteApplied, WriteFailed, ServiceInv, TypeOK
  <2> QED
    BY <2>1 DEF AllFresh, Fresh, Serial
<1>3. ASSUME NEW w \in Workers, WriteRepeated(w)
      PROVE  AllFresh'
  <2> DEFINE c == call[w]
  <2>1. c \in Writes /\ c.id \in ListingIds /\ table'[c.id] = Written(table[c.id], c)
    BY <1>3, StoreChangesOneItem DEF WriteRepeated
  <2>2. table[c.id] \in Items \cup {NoItem} /\ call' = call
    BY <1>3, <2>1 DEF WriteRepeated, ServiceInv, TypeOK
  <2>3. Written(table'[c.id], c) = table'[c.id]
    BY <2>1, <2>2, WrittenIdempotent
  <2>4. Fresh(w)'
    BY <2>2, <2>3 DEF Fresh
  <2> QED
    BY <2>4 DEF AllFresh, Serial
<1>4. CASE (\E id \in ListingIds : Replicate(id)) \/ UNCHANGED vars
  <2>1. table' = table /\ call' = call
    BY <1>4 DEF Replicate, vars
  <2> QED
    BY <2>1 DEF AllFresh, Fresh
<1> QED
  BY <1>1, <1>2, <1>3, <1>4 DEF Next

(* Requests that do not overlap, with current reads and ids that are not in *)
(* use, implement the state machine, even when the AWS client repeats their *)
(* writes.                                                                 *)
THEOREM SerialRequestsImplementCycle ==
  ASSUME Serial
  PROVE  Spec => ImplementsCycle
<1>1. Init => AllFresh /\ Cycle!Init
  BY DEF Init, AllFresh, Fresh, Cycle!Init, StatusOf, EscrowOf
<1>2. ASSUME ServiceInv, AllFresh, [Next]_vars
      PROVE  [Cycle!Next]_(Cycle!cycleVars)
  <2>1. CASE table' = table
    BY <2>1 DEF StatusOf, EscrowOf, Cycle!cycleVars
  <2>2. ASSUME NEW w \in Workers, call[w] # Idle, StoreItem(w)
        PROVE  Cycle!Next \/ table' = table
    <3> DEFINE c == call[w]
    <3>1. /\ c \in Writes /\ c.id \in ListingIds
          /\ table'[c.id] = Written(table[c.id], c)
          /\ \A id \in ListingIds : id # c.id => table'[id] = table[id]
      BY <1>2, <2>2, StoreChangesOneItem
    <3>2. CASE Written(table[c.id], c) = table[c.id]
      <4>1. \A id \in ListingIds : table'[id] = table[id]
        BY <3>1, <3>2
      <4>2. table' = [id \in ListingIds |-> table'[id]] /\ table = [id \in ListingIds |-> table[id]]
        BY <1>2, <2>2, StoreChangesOneItem DEF ServiceInv, TypeOK
      <4> QED
        BY <4>1, <4>2
    <3>3. CASE /\ c.op = "advance" => c.base = table[c.id]
               /\ c.op = "create" => table[c.id] = NoItem
      <4>1. c.op = "advance" => c.base.status = StatusOf[c.id]
        BY <1>2, <2>2, <3>1, <3>3 DEF ServiceInv, IsTransition, StatusOf
      <4> QED
        BY <1>2, <2>2, <3>3, <4>1, FreshStoreIsCycleStep
    <3> QED
      BY <1>2, <2>2, <3>2, <3>3 DEF AllFresh, Fresh
  <2> QED
    BY <1>2, <2>1, <2>2, OnlyWritesChangeTable
<1>3. AllFresh /\ ServiceInv /\ [Next]_vars => AllFresh'
  BY FreshInductive
<1> QED
  BY <1>1, <1>2, <1>3, ServiceInvHolds, PTL DEF Spec, ImplementsCycle, Cycle!Spec

=============================================================================
