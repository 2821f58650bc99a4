--------------------------- MODULE ListingEscrow ---------------------------
(***************************************************************************)
(* What POST /listing/{id}/transition of the Python service promises: a    *)
(* state machine that moves a listing and its escrow together, one request *)
(* at a time.  PUT /listing relabels a listing without touching its        *)
(* escrow.                                                                 *)
(***************************************************************************)
CONSTANTS
  ListingIds,
  PutStatuses   \* values of new_status that clients of PUT /listing send

VARIABLES
  status,   \* status[id], "absent" before the listing exists
  escrow    \* escrow[id]

cycleVars == <<status, escrow>>

Init ==
  /\ status = [id \in ListingIds |-> "absent"]
  /\ escrow = [id \in ListingIds |-> "N/A"]

Set(id, newStatus, newEscrow) ==
  /\ status' = [status EXCEPT ![id] = newStatus]
  /\ escrow' = [escrow EXCEPT ![id] = newEscrow]

Publish(id) == status[id] = "absent" /\ Set(id, "available", "N/A")

Reserve(id) == status[id] = "available" /\ Set(id, "reserved", "Locked")

Complete(id) == status[id] = "reserved" /\ Set(id, "sold", "Released")

Relist(id) ==
  /\ status[id] \notin {"absent", "available", "reserved"}
  /\ Set(id, "available", "N/A")

(* A dispute is settled by the condition of the product alone. *)
Dispute(id) ==
  /\ status[id] # "absent"
  /\ Set(id, "sold", "ReleasedToSeller") \/ Set(id, "removed", "Refunded")

Relabel(id, newStatus) == Set(id, newStatus, escrow[id])

Next ==
  \E id \in ListingIds :
    \/ Publish(id) \/ Reserve(id) \/ Complete(id) \/ Relist(id) \/ Dispute(id)
    \/ \E newStatus \in PutStatuses : Relabel(id, newStatus)

Spec == Init /\ [][Next]_cycleVars
=============================================================================
