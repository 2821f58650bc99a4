------------------------------ MODULE Listings ------------------------------
(***************************************************************************)
(* The listings table of the return-intercept Lambda and the handlers that *)
(* write it: POST /listing, PUT /listing and POST /dpp.                    *)
(*                                                                         *)
(* PUT /listing and POST /dpp read the item (GetItem, not a consistent     *)
(* read), check it, and write the whole item back (PutItem, without a      *)
(* condition).  Invocations run concurrently, so anything may happen to    *)
(* the item between the two calls.  An invocation may die in between; the  *)
(* AWS client retries a PutItem whose answer it did not get; a PutItem     *)
(* reported as failed may have been applied.                               *)
(***************************************************************************)
EXTENDS Naturals, Sequences

CONSTANTS
  Lambdas,         \* concurrent invocations of the function
  ListingIds, Users, NoUser,
  OtherStatuses,   \* values of new_status other than reserved and sold
  ServiceActions,  \* action names a client puts in a block it appends
  MaxBlocks,       \* bound: no block is appended to a passport this long
  LaggingReads,    \* TRUE when GetItem may read a replica that lags
  Retries,         \* TRUE when the AWS client may repeat a PutItem
  NoItem, Idle     \* sentinels: no such item; invocation without a request

ASSUME ListingsAssumption ==
  /\ NoUser \notin Users
  /\ "available" \in OtherStatuses
  /\ OtherStatuses \cap {"reserved", "sold", "absent"} = {}
  /\ MaxBlocks \in Nat
  /\ LaggingReads \in BOOLEAN
  /\ Retries \in BOOLEAN

VARIABLES
  table,    \* table[id]: the stored item
  replica,  \* replica[id]: an older copy of it that GetItem may return
  call,     \* call[l]: the PutItem that invocation l is about to issue
  reply     \* reply[l]: HTTP status of l's last answer, 0 before it

vars == <<table, replica, call, reply>>

Statuses == {"reserved", "sold"} \cup OtherStatuses
BuyerIds == Users \cup {NoUser}

Block(owner, action) == [owner |-> owner, action |-> action]
Blocks == [owner : BuyerIds,
           action : {"purchased", "returned", "resold"} \cup ServiceActions]

Items == [status : Statuses, user : Users,
          owners : Seq(Users), dpp : Seq(Blocks)]

(* A request past its checks: the item it read (NoItem when it read none), *)
(* and the item it will write.                                             *)
Writes == [op : {"publish", "update", "append"}, id : ListingIds,
           base : Items \cup {NoItem}, item : Items]

ASSUME SentinelAssumption == NoItem \notin Items /\ Idle \notin Writes
-----------------------------------------------------------------------------
(* The items the three handlers build. *)

NewListing(user) ==
  [status |-> "available", user |-> user, owners |-> <<user>>,
   dpp |-> <<Block(user, "purchased"), Block(user, "returned")>>]

(* mutant: an empty buyer is recorded as an owner *)
UpdatedListingAnyBuyer(list, newStatus, buyer) ==
  IF newStatus = "sold"
  THEN [list EXCEPT !.status = newStatus,
                    !.owners = Append(@, buyer),
                    !.dpp = Append(@, Block(buyer, "resold"))]
  ELSE [list EXCEPT !.status = newStatus]

(* mutant: the sale reaches the passport but not the owner list *)
UpdatedListingNoOwner(list, newStatus, buyer) ==
  IF newStatus = "sold" /\ buyer # NoUser
  THEN [list EXCEPT !.status = newStatus,
                    !.dpp = Append(@, Block(buyer, "resold"))]
  ELSE [list EXCEPT !.status = newStatus]

UpdatedListing(list, newStatus, buyer) ==
  IF newStatus = "sold" /\ buyer # NoUser
  THEN [list EXCEPT !.status = newStatus,
                    !.owners = Append(@, buyer),
                    !.dpp = Append(@, Block(buyer, "resold"))]
  ELSE [list EXCEPT !.status = newStatus]

(* mutant: a sold listing can be updated *)
TransitionAllowedAfterSold(list, newStatus) ==
  /\ newStatus = "reserved" => list.status = "available"
  /\ newStatus = "sold" => list.status = "reserved"

TransitionAllowed(list, newStatus) ==
  /\ list.status # "sold"
  /\ newStatus = "reserved" => list.status = "available"
  /\ newStatus = "sold" => list.status = "reserved"

AppendedListing(list, block) ==
  [list EXCEPT !.dpp = Append(@, block),
               !.owners = IF block.owner # NoUser THEN Append(@, block.owner)
                                                  ELSE @]

HasRoom(list) == Len(list.dpp) < MaxBlocks
-----------------------------------------------------------------------------
Init ==
  /\ table = [id \in ListingIds |-> NoItem]
  /\ replica = [id \in ListingIds |-> NoItem]
  /\ call = [l \in Lambdas |-> Idle]
  /\ reply = [l \in Lambdas |-> 0]

(* GetItem without ConsistentRead.  A read that fails is answered as a       *)
(* missing item.                                                          *)
GetItem(id) == {NoItem, table[id]} \cup (IF LaggingReads THEN {replica[id]} ELSE {})

Answer(l, code) ==
  /\ reply' = [reply EXCEPT ![l] = code]
  /\ UNCHANGED <<table, replica, call>>

Prepare(l, op, id, base, item) ==
  /\ call' = [call EXCEPT ![l] = [op |-> op, id |-> id, base |-> base, item |-> item]]
  /\ reply' = [reply EXCEPT ![l] = 0]
  /\ UNCHANGED <<table, replica>>

PostListing(l, id, user) ==
  /\ call[l] = Idle
  /\ Prepare(l, "publish", id, NoItem, NewListing(user))

PutListing(l, id, newStatus, buyer) ==
  /\ call[l] = Idle
  /\ \E list \in GetItem(id) :
       \/ list = NoItem /\ Answer(l, 404)
       \/ list # NoItem /\ ~TransitionAllowed(list, newStatus) /\ Answer(l, 400)
       \/ /\ list # NoItem /\ TransitionAllowed(list, newStatus)
          /\ newStatus = "sold" => HasRoom(list)
          /\ Prepare(l, "update", id, list, UpdatedListing(list, newStatus, buyer))

PostDPP(l, id, block) ==
  /\ call[l] = Idle
  /\ \E list \in GetItem(id) :
       \/ list = NoItem /\ Answer(l, 404)
       \/ /\ list # NoItem /\ HasRoom(list)
          /\ Prepare(l, "append", id, list, AppendedListing(list, block))

StoreItem(l) == table' = [table EXCEPT ![call[l].id] = call[l].item]

Finish(l, code) ==
  /\ call' = [call EXCEPT ![l] = Idle]
  /\ reply' = [reply EXCEPT ![l] = code]
  /\ UNCHANGED replica

(* The PutItem is applied; its answer is lost after the last attempt in the *)
(* case of the 500.                                                         *)
PutApplied(l) ==
  /\ call[l] # Idle
  /\ StoreItem(l)
  /\ \E code \in {200, 500} : Finish(l, code)

PutFailed(l) ==
  /\ call[l] # Idle
  /\ Finish(l, 500)
  /\ UNCHANGED table

(* The PutItem is applied, its answer is lost, the AWS client tries again. *)
PutRetried(l) ==
  /\ Retries
  /\ call[l] # Idle
  /\ StoreItem(l)
  /\ UNCHANGED <<replica, call, reply>>

(* The invocation reaches the function's time limit before its PutItem. *)
TimeOut(l) ==
  /\ call[l] # Idle
  /\ call' = [call EXCEPT ![l] = Idle]
  /\ UNCHANGED <<table, replica, reply>>

Replicate(id) ==
  /\ LaggingReads /\ replica[id] # table[id]
  /\ replica' = [replica EXCEPT ![id] = table[id]]
  /\ UNCHANGED <<table, call, reply>>

Request(l) ==
  \E id \in ListingIds :
    \/ \E user \in Users : PostListing(l, id, user)
    \/ \E newStatus \in Statuses, buyer \in BuyerIds :
         PutListing(l, id, newStatus, buyer)
    \/ \E owner \in BuyerIds, action \in ServiceActions :
         PostDPP(l, id, Block(owner, action))

Next ==
  \/ \E l \in Lambdas :
       Request(l) \/ PutApplied(l) \/ PutFailed(l) \/ PutRetried(l) \/ TimeOut(l)
  \/ \E id \in ListingIds : Replicate(id)

Spec == Init /\ [][Next]_vars
-----------------------------------------------------------------------------
(* Every variable holds a value of its type. *)
TypeOK ==
  /\ table \in [ListingIds -> Items \cup {NoItem}]
  /\ replica \in [ListingIds -> Items \cup {NoItem}]
  /\ call \in [Lambdas -> Writes \cup {Idle}]
  /\ reply \in [Lambdas -> {0, 200, 400, 404, 500}]

(* The owner list of an item names, in order, exactly the owners of its     *)
(* passport from the "returned" block on: the handlers keep two histories   *)
(* of one product in the item and no interleaving may let them diverge.     *)
OwnersMatchPassport(list) ==
  \E at \in [1..Len(list.owners) -> 2..Len(list.dpp)] :
    /\ \A i, j \in 1..Len(list.owners) : i < j => at[i] < at[j]
    /\ \A i \in 1..Len(list.owners) : list.dpp[at[i]].owner = list.owners[i]
    /\ \A k \in 2..Len(list.dpp) :
         list.dpp[k].owner # NoUser => \E i \in 1..Len(list.owners) : at[i] = k

StartsWithReturn(list) ==
  /\ Len(list.dpp) >= 2
  /\ list.dpp[1] = Block(list.user, "purchased")
  /\ list.dpp[2] = Block(list.user, "returned")

Sound(list) == StartsWithReturn(list) /\ OwnersMatchPassport(list)

(* Whatever order overlapping invocations read and write in, and whichever  *)
(* of their writes fail or are repeated, the stored item's two histories    *)
(* agree, and both begin with the customer who returned the product.        *)
PassportsSound == \A id \in ListingIds : table[id] # NoItem => Sound(table[id])

(* A pending PutItem holds what its handler builds from the item it read,   *)
(* and the read item passed the handler's checks.                           *)
Justified(w) ==
  \/ w.op = "publish" /\ \E user \in Users : w.item = NewListing(user)
  \/ /\ w.op = "update" /\ w.base # NoItem
     /\ \E newStatus \in Statuses, buyer \in BuyerIds :
          /\ TransitionAllowed(w.base, newStatus)
          /\ w.item = UpdatedListing(w.base, newStatus, buyer)
  \/ /\ w.op = "append" /\ w.base # NoItem
     /\ \E owner \in BuyerIds, action \in ServiceActions :
          w.item = AppendedListing(w.base, Block(owner, action))

WritesJustified == \A l \in Lambdas : call[l] # Idle => Justified(call[l])
-----------------------------------------------------------------------------
(* The abstract listing: the item without the owner list. *)
StatusOf ==
  [id \in ListingIds |-> IF table[id] = NoItem THEN "absent" ELSE table[id].status]
PassportOf ==
  [id \in ListingIds |-> IF table[id] = NoItem THEN <<>> ELSE table[id].dpp]

Lifecycle == INSTANCE ListingLifecycle
               WITH status <- StatusOf, passport <- PassportOf

(* The write of an invocation whose item changed after it was read. *)
StaleWrite ==
  \E l \in Lambdas :
    /\ call[l] # Idle
    /\ call[l].op # "publish"
    /\ call[l].base # table[call[l].id]
    /\ StoreItem(l)

(* Each write either is one step of the lifecycle on the stored item, or    *)
(* writes back a copy that was out of date: only a lost race (or a lagging  *)
(* read) can take a listing out of its lifecycle, never the handlers'       *)
(* checks.                                                                  *)
OnlyStaleWritesBreakLifecycle ==
  [][Lifecycle!Next \/ StaleWrite]_<<StatusOf, PassportOf>>

(* Invocations that do not overlap and whose reads are current implement    *)
(* the lifecycle, failed and repeated writes included.                      *)
ImplementsLifecycle == Lifecycle!Spec
=============================================================================
