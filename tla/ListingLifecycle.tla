-------------------------- MODULE ListingLifecycle --------------------------
(***************************************************************************)
(* What the listing endpoints of the return-intercept Lambda promise: each *)
(* request takes effect at once.  A listing moves available -> reserved -> *)
(* sold, a sold listing never changes status, and its product passport     *)
(* only ever grows, unless the listing is published anew.                  *)
(*                                                                         *)
(* Listings.tla is the code: the same operations as a GetItem, a check and *)
(* an unconditional PutItem, run by Lambda invocations that overlap.       *)
(***************************************************************************)
EXTENDS Sequences

CONSTANTS
  ListingIds,      \* keys of the listings table
  Users,           \* user and seller ids
  NoUser,          \* the empty string in a user id field
  OtherStatuses,   \* values of new_status other than reserved and sold
  ServiceActions   \* action names a client puts in a block it appends

VARIABLES
  status,    \* status[id]: the listing's status, "absent" before the first POST
  passport   \* passport[id]: the product's DPP blocks, oldest first

lifecycleVars == <<status, passport>>

Block(owner, action) == [owner |-> owner, action |-> action]

Blocks == [owner : Users \cup {NoUser},
           action : {"purchased", "returned", "resold"} \cup ServiceActions]

Init ==
  /\ status = [id \in ListingIds |-> "absent"]
  /\ passport = [id \in ListingIds |-> <<>>]

Publish(id, user) ==
  /\ status' = [status EXCEPT ![id] = "available"]
  /\ passport' = [passport EXCEPT
                    ![id] = <<Block(user, "purchased"), Block(user, "returned")>>]

Reserve(id) ==
  /\ status[id] = "available"
  /\ status' = [status EXCEPT ![id] = "reserved"]
  /\ UNCHANGED passport

Sell(id, buyer) ==
  /\ status[id] = "reserved"
  /\ status' = [status EXCEPT ![id] = "sold"]
  /\ passport' = IF buyer = NoUser
                 THEN passport
                 ELSE [passport EXCEPT ![id] = Append(@, Block(buyer, "resold"))]

(* The handler accepts any other new_status for a listing that is not sold. *)
Relabel(id, other) ==
  /\ status[id] \notin {"absent", "sold"}
  /\ status' = [status EXCEPT ![id] = other]
  /\ UNCHANGED passport

AppendToPassport(id, block) ==
  /\ status[id] # "absent"
  /\ passport' = [passport EXCEPT ![id] = Append(@, block)]
  /\ UNCHANGED status

Next ==
  \E id \in ListingIds :
    \/ \E user \in Users : Publish(id, user)
    \/ Reserve(id)
    \/ \E buyer \in Users \cup {NoUser} : Sell(id, buyer)
    \/ \E other \in OtherStatuses : Relabel(id, other)
    \/ \E owner \in Users \cup {NoUser}, action \in ServiceActions :
         AppendToPassport(id, Block(owner, action))

Spec == Init /\ [][Next]_lifecycleVars
=============================================================================
