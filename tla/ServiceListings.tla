-------------------------- MODULE ServiceListings --------------------------
(***************************************************************************)
(* The listing endpoints of the Python service (main.py):                  *)
(*   POST /listing/create                put_item under an id it draws     *)
(*   PUT  /listing                       one update_item, no read          *)
(*   POST /listing/{id}/transition       get_item, then update_item        *)
(* FastAPI runs them on a thread pool, no update has a condition, and      *)
(* get_item is not a consistent read.  The AWS client repeats a write      *)
(* whose answer it did not get.                                            *)
(*                                                                         *)
(* An attribute that is missing is read with its default, so an item that  *)
(* PUT /listing creates has escrow status N/A and a good condition.        *)
(***************************************************************************)
CONSTANTS
  Workers,        \* threads of the pool, in all instances of the service
  ListingIds,
  PutStatuses,    \* values of new_status that clients of PUT /listing send
  LaggingReads,   \* TRUE when get_item may read a replica that lags
  Retries,        \* TRUE when the AWS client may repeat a write
  FreshIds,       \* TRUE when POST /listing/create never draws an id in use
  NoItem, Idle    \* sentinels: no such item; worker without a request

Statuses == {"available", "reserved", "sold", "removed"} \cup PutStatuses
EscrowStatuses == {"N/A", "Locked", "Released", "ReleasedToSeller", "Refunded"}
Conditions == {"good", "bad"}   \* grade A or B; any other grade

Items == [status : Statuses, escrow : EscrowStatuses, condition : Conditions]

(* A write about to be sent; base is the item its request read. *)
Writes == [op : {"create", "put", "advance", "dispute"}, id : ListingIds,
           base : Items \cup {NoItem}, status : Statuses,
           escrow : EscrowStatuses, condition : Conditions]

ASSUME ServiceAssumption ==
  /\ "absent" \notin PutStatuses
  /\ {LaggingReads, Retries, FreshIds} \subseteq BOOLEAN
  /\ NoItem \notin Items /\ Idle \notin Writes

VARIABLES
  table,     \* table[id]: the stored item
  replica,   \* replica[id]: an older copy of it that get_item may return
  call       \* call[w]: the write that worker w is about to send

vars == <<table, replica, call>>

Init ==
  /\ table = [id \in ListingIds |-> NoItem]
  /\ replica = [id \in ListingIds |-> NoItem]
  /\ call = [w \in Workers |-> Idle]

GetItem(id) == {table[id]} \cup (IF LaggingReads THEN {replica[id]} ELSE {})

Prepare(w, op, id, base, status, escrow, condition) ==
  /\ call' = [call EXCEPT
                ![w] = [op |-> op, id |-> id, base |-> base, status |-> status,
                        escrow |-> escrow, condition |-> condition]]
  /\ UNCHANGED <<table, replica>>
-----------------------------------------------------------------------------
(* The state machine. *)

(* mutant: a reserved listing goes back to available *)
AdvancedToShelf(status) ==
  IF status = "available" THEN <<"reserved", "Locked">> ELSE <<"available", "N/A">>

Advanced(status) ==
  CASE status = "available" -> <<"reserved", "Locked">>
    [] status = "reserved"  -> <<"sold", "Released">>
    [] OTHER                -> <<"available", "N/A">>

(* mutant: a product that is not as described goes back on the shelf *)
DisputedRelisted(condition) ==
  IF condition = "good" THEN <<"sold", "ReleasedToSeller">> ELSE <<"available", "N/A">>

(* mutant: a mismatch waits for a decision *)
DisputedPending(condition) ==
  IF condition = "good" THEN <<"sold", "ReleasedToSeller">> ELSE <<"disputed", "Locked">>

Disputed(condition) ==
  IF condition = "good" THEN <<"sold", "ReleasedToSeller">> ELSE <<"removed", "Refunded">>

(* The id is six hex digits of a uuid4, and nothing looks whether it is in   *)
(* use.                                                                   *)
Unused(id) == table[id] = NoItem /\ \A v \in Workers : call[v] # Idle => call[v].id # id

CreateListing(w, id, condition) ==
  /\ call[w] = Idle
  /\ FreshIds => Unused(id)
  /\ Prepare(w, "create", id, NoItem, "available", "N/A", condition)

UpdateListing(w, id, newStatus) ==
  /\ call[w] = Idle
  /\ Prepare(w, "put", id, NoItem, newStatus, "N/A", "good")

(* A missing item is answered with an error. *)
Transition(w, id, action) ==
  /\ call[w] = Idle
  /\ \E item \in GetItem(id) :
       LET next == IF action = "dispute" THEN Disputed(item.condition)
                                         ELSE Advanced(item.status)
       IN  /\ item # NoItem
           /\ Prepare(w, action, id, item, next[1], next[2], item.condition)
-----------------------------------------------------------------------------
(* mutant: a transition updates the status attribute only *)
WrittenStatusOnly(old, c) ==
  IF c.op = "create" \/ old = NoItem
  THEN [status |-> c.status, escrow |-> c.escrow, condition |-> c.condition]
  ELSE [old EXCEPT !.status = c.status]

Written(old, c) ==
  IF c.op = "create" \/ old = NoItem
  THEN [status |-> c.status, escrow |-> c.escrow, condition |-> c.condition]
  ELSE IF c.op = "put"
       THEN [old EXCEPT !.status = c.status]
       ELSE [old EXCEPT !.status = c.status, !.escrow = c.escrow]

StoreItem(w) ==
  table' = [table EXCEPT ![call[w].id] = Written(@, call[w])]

WriteApplied(w) ==
  /\ call[w] # Idle
  /\ StoreItem(w)
  /\ call' = [call EXCEPT ![w] = Idle]
  /\ UNCHANGED replica

(* The write, or the worker, fails before the table is changed. *)
WriteFailed(w) ==
  /\ call[w] # Idle
  /\ call' = [call EXCEPT ![w] = Idle]
  /\ UNCHANGED <<table, replica>>

(* The write is applied, its answer is lost, the AWS client tries again. *)
WriteRepeated(w) ==
  /\ Retries
  /\ call[w] # Idle
  /\ StoreItem(w)
  /\ UNCHANGED <<replica, call>>

Replicate(id) ==
  /\ LaggingReads /\ replica[id] # table[id]
  /\ replica' = [replica EXCEPT ![id] = table[id]]
  /\ UNCHANGED <<table, call>>

Request(w) ==
  \E id \in ListingIds :
    \/ \E condition \in Conditions : CreateListing(w, id, condition)
    \/ \E newStatus \in PutStatuses : UpdateListing(w, id, newStatus)
    \/ \E action \in {"advance", "dispute"} : Transition(w, id, action)

Next ==
  \/ \E w \in Workers :
       Request(w) \/ WriteApplied(w) \/ WriteFailed(w) \/ WriteRepeated(w)
  \/ \E id \in ListingIds : Replicate(id)

Spec == Init /\ [][Next]_vars
-----------------------------------------------------------------------------
(* Every variable holds a value of its type. *)
TypeOK ==
  /\ table \in [ListingIds -> Items \cup {NoItem}]
  /\ replica \in [ListingIds -> Items \cup {NoItem}]
  /\ call \in [Workers -> Writes \cup {Idle}]

(* The escrow status of a listing is the one its status calls for, in every *)
(* interleaving, unless the status is one that PUT /listing may have set:   *)
(* transitions write the pair in one update.                                *)
Pairs == {<<"available", "N/A">>, <<"reserved", "Locked">>, <<"sold", "Released">>,
          <<"sold", "ReleasedToSeller">>, <<"removed", "Refunded">>}

EscrowFollowsStatus ==
  \A id \in ListingIds :
    table[id] # NoItem /\ table[id].status \notin PutStatuses
      => <<table[id].status, table[id].escrow>> \in Pairs

(* The abstract state machine. *)
StatusOf ==
  [id \in ListingIds |-> IF table[id] = NoItem THEN "absent" ELSE table[id].status]
EscrowOf ==
  [id \in ListingIds |-> IF table[id] = NoItem THEN "N/A" ELSE table[id].escrow]

Cycle == INSTANCE ListingEscrow WITH status <- StatusOf, escrow <- EscrowOf

(* The write of an advance whose listing has another status by now than it  *)
(* read, and a create that finds an item: its own, when it is repeated      *)
(* late, or another one under the id it drew.                              *)
StaleAdvance ==
  \E w \in Workers :
    /\ call[w] # Idle /\ call[w].op = "advance"
    /\ call[w].base.status # StatusOf[call[w].id]
    /\ StoreItem(w)

CreateOverItem ==
  \E w \in Workers :
    /\ call[w] # Idle /\ call[w].op = "create"
    /\ table[call[w].id] # NoItem
    /\ StoreItem(w)

(* Disputes and updates take effect at once wherever they land: only an     *)
(* advance that was computed from an older status, and a create that finds  *)
(* an item, leave the state machine.                                        *)
OnlyStaleAdvancesBreakCycle ==
  [][Cycle!Next \/ StaleAdvance \/ CreateOverItem]_<<StatusOf, EscrowOf>>

(* Requests that do not overlap, with current reads and ids that are not in *)
(* use, implement it.                                                      *)
ImplementsCycle == Cycle!Spec

(* "Buyer payment held in escrow until pickup confirmation"                 *)
(* (PRODUCT_DOCUMENTATION.md:699): locked funds are released or refunded    *)
(* before the escrow of the listing is cleared, whatever overlaps, with      *)
(* three exceptions.  The code breaks the sentence when PUT /listing had     *)
(* relabelled the reserved listing, which takes no overlap; when an advance  *)
(* was computed from an older status; and when a create finds the listing.   *)
Settled == {"Released", "ReleasedToSeller", "Refunded"}

FundsHeld ==
  [][\A id \in ListingIds :
       EscrowOf[id] = "Locked" /\ EscrowOf'[id] \notin {"Locked"} \cup Settled =>
         StatusOf[id] \in PutStatuses \/ StaleAdvance \/ CreateOverItem]_vars
=============================================================================
