-------------------------- MODULE Listings_proofs --------------------------
(***************************************************************************)
(* Proofs about Listings, for every set of invocations, listings and users,*)
(* with and without lagging reads and repeated writes.                     *)
(***************************************************************************)
EXTENDS Listings, SequenceTheorems, TLAPS

SoundOrNone(list) == list # NoItem => Sound(list)

(* The inductive invariant behind PassportsSound: what the replica holds    *)
(* and what the invocations are about to write is sound as well, because    *)
(* each of it was or will be the stored item.                               *)
SoundInv ==
  /\ TypeOK
  /\ \A id \in ListingIds : SoundOrNone(table[id]) /\ SoundOrNone(replica[id])
  /\ \A l \in Lambdas : call[l] # Idle => Sound(call[l].item)
-----------------------------------------------------------------------------
(* A new listing is an item, and sound. *)
LEMMA NewListingSound ==
  ASSUME NEW user \in Users
  PROVE  NewListing(user) \in Items /\ Sound(NewListing(user))
<1> DEFINE new == NewListing(user)
<1>1. /\ new.dpp = <<Block(user, "purchased"), Block(user, "returned")>>
      /\ new.owners = <<user>>
      /\ new.user = user
  BY DEF NewListing
<1>2. new \in Items
  BY ListingsAssumption DEF NewListing, Items, Statuses, Blocks, Block, BuyerIds
<1>3. StartsWithReturn(new)
  BY <1>1 DEF StartsWithReturn
<1>4. OwnersMatchPassport(new)
  <2> DEFINE at == [i \in 1..1 |-> 2]
  <2>1. Len(new.owners) = 1 /\ Len(new.dpp) = 2
    BY <1>1
  <2>2. at \in [1..Len(new.owners) -> 2..Len(new.dpp)]
    BY <2>1
  <2>3. \A i \in 1..Len(new.owners) : new.dpp[at[i]].owner = new.owners[i]
    BY <1>1, <2>1 DEF Block
  <2>4. \A k \in 2..Len(new.dpp) : \E i \in 1..Len(new.owners) : at[i] = k
    BY <2>1
  <2>5. \A i, j \in 1..Len(new.owners) : i < j => at[i] < at[j]
    BY <2>1
  <2> QED
    BY <2>2, <2>3, <2>4, <2>5 DEF OwnersMatchPassport
<1> QED
  BY <1>2, <1>3, <1>4 DEF Sound

(* Appending a block to the passport, and its owner to the owner list when  *)
(* there is one, keeps an item sound.  This is the step that both PUT       *)
(* /listing and POST /dpp take.                                             *)
LEMMA ExtendedSound ==
  ASSUME NEW list \in Items, NEW new \in Items, Sound(list),
         NEW block \in Blocks,
         new.user = list.user,
         new.dpp = Append(list.dpp, block),
         new.owners = IF block.owner # NoUser THEN Append(list.owners, block.owner)
                                              ELSE list.owners
  PROVE  Sound(new)
<1> DEFINE n == Len(list.owners)
           d == Len(list.dpp)
<1>1. /\ list.owners \in Seq(Users) /\ list.dpp \in Seq(Blocks)
      /\ n \in Nat /\ d \in Nat
      /\ n = Len(list.owners) /\ d = Len(list.dpp)
  BY DEF Items
<1> HIDE DEF n, d
<1>0. n \in Nat /\ d \in Nat
  BY <1>1
<1>2. Len(new.dpp) = d + 1 /\ \A k \in 1..d : new.dpp[k] = list.dpp[k]
  BY <1>1
<1>3. new.dpp[d + 1] = block
  BY <1>1
<1>4. StartsWithReturn(new)
  BY <1>1, <1>2 DEF Sound, StartsWithReturn
<1>5. PICK at \in [1..n -> 2..d] :
        /\ \A i, j \in 1..n : i < j => at[i] < at[j]
        /\ \A i \in 1..n : list.dpp[at[i]].owner = list.owners[i]
        /\ \A k \in 2..d :
             list.dpp[k].owner # NoUser => \E i \in 1..n : at[i] = k
  BY <1>1 DEF Sound, OwnersMatchPassport
<1>6. d >= 2
  BY <1>1 DEF Sound, StartsWithReturn
<1>7. CASE block.owner = NoUser
  <2>1. new.owners = list.owners
    BY <1>7
  <2>2. at \in [1..n -> 2..Len(new.dpp)]
    BY <1>0, <1>2, <1>5
  <2>3. \A i \in 1..n : new.dpp[at[i]].owner = new.owners[i]
    <3> TAKE i \in 1..n
    <3>1. at[i] \in 2..d
      BY <1>5
    <3> QED
      BY <3>1, <1>1, <1>2, <1>5, <2>1
  <2>4. \A k \in 2..Len(new.dpp) :
          new.dpp[k].owner # NoUser => \E i \in 1..n : at[i] = k
    <3> TAKE k \in 2..Len(new.dpp)
    <3>1. CASE k = d + 1
      BY <3>1, <1>3, <1>7
    <3>2. CASE k # d + 1
      <4>1. k \in 2..d
        BY <3>2, <1>0, <1>2
      <4>2. new.dpp[k] = list.dpp[k]
        BY <4>1, <1>0, <1>2
      <4> QED
        BY <4>1, <4>2, <1>5
    <3> QED
      BY <3>1, <3>2
  <2>5. OwnersMatchPassport(new)
    <3>1. \A i, j \in 1..Len(new.owners) : i < j => at[i] < at[j]
      BY <2>1, <1>1, <1>5
    <3>2. Len(new.owners) = n
      BY <2>1, <1>1
    <3> QED
      BY <2>2, <2>3, <2>4, <3>1, <3>2, Zenon DEF OwnersMatchPassport
  <2> QED
    BY <1>4, <2>5 DEF Sound
<1>8. CASE block.owner # NoUser
  <2> DEFINE at2 == [i \in 1..n + 1 |-> IF i = n + 1 THEN d + 1 ELSE at[i]]
  <2>0. block.owner \in Users
    BY <1>8 DEF Blocks, BuyerIds
  <2>1. new.owners = Append(list.owners, block.owner)
    BY <1>8
  <2>2. /\ Len(new.owners) = n + 1
        /\ new.owners[n + 1] = block.owner
        /\ \A i \in 1..n : new.owners[i] = list.owners[i]
    BY <1>1, <2>0, <2>1
  <2>3. \A i \in 1..n : at[i] \in 2..d /\ at2[i] = at[i]
    BY <1>0, <1>5
  <2>4. at2[n + 1] = d + 1
    BY <1>0
  <2> HIDE DEF at2
  <2>5. at2 \in [1..Len(new.owners) -> 2..Len(new.dpp)]
    <3>1. \A i \in 1..n + 1 : at2[i] \in 2..d + 1
      BY <1>0, <1>6, <2>3, <2>4
    <3>2. at2 \in [1..n + 1 -> 2..d + 1]
      BY <3>1 DEF at2
    <3> QED
      BY <3>2, <1>2, <2>2, Zenon
  <2>6. \A i, j \in 1..Len(new.owners) : i < j => at2[i] < at2[j]
    <3> SUFFICES ASSUME NEW i \in 1..n + 1, NEW j \in 1..n + 1, i < j
                 PROVE  at2[i] < at2[j]
      BY <2>2
    <3>1. i \in 1..n
      BY <1>0
    <3>2. CASE j = n + 1
      <4>1. at2[i] \in 2..d /\ at2[j] = d + 1
        BY <3>1, <3>2, <2>3, <2>4, Zenon
      <4> QED
        BY <4>1, <1>0
    <3>3. CASE j # n + 1
      <4>1. j \in 1..n
        BY <3>3, <1>0
      <4>2. at[i] < at[j]
        BY <3>1, <4>1, <1>5
      <4>3. at2[i] = at[i] /\ at2[j] = at[j]
        BY <3>1, <4>1, <2>3, Zenon
      <4> QED
        BY <4>2, <4>3, Zenon
    <3> QED
      BY <3>2, <3>3
  <2>7. \A i \in 1..Len(new.owners) : new.dpp[at2[i]].owner = new.owners[i]
    <3> SUFFICES ASSUME NEW i \in 1..n + 1
                 PROVE  new.dpp[at2[i]].owner = new.owners[i]
      BY <2>2
    <3>1. CASE i = n + 1
      BY <3>1, <2>2, <2>4, <1>3
    <3>2. CASE i # n + 1
      <4>1. i \in 1..n
        BY <3>2, <1>0
      <4>2. at[i] \in 2..d /\ at[i] \in 1..d /\ at2[i] = at[i]
        BY <4>1, <2>3, <1>0
      <4>3. \A k \in 1..d : new.dpp[k] = list.dpp[k]
        BY <1>2
      <4>4. new.dpp[at[i]] = list.dpp[at[i]]
        BY <4>2, <4>3, Zenon
      <4>5. list.dpp[at[i]].owner = list.owners[i] /\ new.owners[i] = list.owners[i]
        BY <4>1, <1>5, <2>2, Zenon
      <4> QED
        BY <4>2, <4>4, <4>5, Zenon
    <3> QED
      BY <3>1, <3>2
  <2>8. \A k \in 2..Len(new.dpp) :
          new.dpp[k].owner # NoUser => \E i \in 1..Len(new.owners) : at2[i] = k
    <3> SUFFICES ASSUME NEW k \in 2..d + 1, new.dpp[k].owner # NoUser
                 PROVE  \E i \in 1..n + 1 : at2[i] = k
      BY <1>2, <2>2
    <3>1. CASE k = d + 1
      BY <3>1, <2>4, <1>0
    <3>2. CASE k # d + 1
      <4>1. k \in 2..d
        BY <3>2, <1>0
      <4>2. new.dpp[k] = list.dpp[k]
        BY <4>1, <1>0, <1>2
      <4>3. PICK i \in 1..n : at[i] = k
        BY <4>1, <4>2, <1>5
      <4>4. at2[i] = k /\ i \in 1..n + 1
        BY <4>3, <2>3, <1>0
      <4> QED
        BY <4>4, Zenon
    <3> QED
      BY <3>1, <3>2
  <2>9. OwnersMatchPassport(new)
    BY <2>5, <2>6, <2>7, <2>8 DEF OwnersMatchPassport
  <2> QED
    BY <1>4, <2>9 DEF Sound
<1> QED
  BY <1>7, <1>8

(* PUT /listing writes a sound item when it read one. *)
LEMMA UpdatedSound ==
  ASSUME NEW list \in Items, Sound(list),
         NEW newStatus \in Statuses, NEW buyer \in BuyerIds
  PROVE  /\ UpdatedListing(list, newStatus, buyer) \in Items
         /\ Sound(UpdatedListing(list, newStatus, buyer))
<1> DEFINE new == UpdatedListing(list, newStatus, buyer)
<1>0. list.owners \in Seq(Users) /\ list.dpp \in Seq(Blocks)
  BY DEF Items
<1>1. CASE newStatus = "sold" /\ buyer # NoUser
  <2>1. buyer \in Users /\ Block(buyer, "resold") \in Blocks
    BY <1>1 DEF BuyerIds, Blocks, Block
  <2>2. new = [list EXCEPT !.status = newStatus,
                           !.owners = Append(@, buyer),
                           !.dpp = Append(@, Block(buyer, "resold"))]
    BY <1>1 DEF UpdatedListing
  <2>3. /\ new.user = list.user
        /\ new.owners = Append(list.owners, buyer)
        /\ new.dpp = Append(list.dpp, Block(buyer, "resold"))
    BY <2>2 DEF Items
  <2>4. Append(list.owners, buyer) \in Seq(Users)
        /\ Append(list.dpp, Block(buyer, "resold")) \in Seq(Blocks)
    BY <1>0, <2>1
  <2>5. new \in Items
    BY <2>2, <2>4 DEF Items
  <2>6. Block(buyer, "resold").owner = buyer
    BY DEF Block
  <2> HIDE DEF new
  <2> QED
    BY <2>1, <2>3, <2>5, <2>6, <1>1, ExtendedSound DEF new
<1>2. CASE ~(newStatus = "sold" /\ buyer # NoUser)
  <2>1. new = [list EXCEPT !.status = newStatus]
    BY <1>2 DEF UpdatedListing
  <2>2. new \in Items
    BY <2>1 DEF Items
  <2>3. new.user = list.user /\ new.owners = list.owners /\ new.dpp = list.dpp
    BY <2>1 DEF Items
  <2> QED
    BY <2>2, <2>3 DEF Sound, StartsWithReturn, OwnersMatchPassport
<1> QED
  BY <1>1, <1>2

(* POST /dpp writes a sound item when it read one. *)
LEMMA AppendedSound ==
  ASSUME NEW list \in Items, Sound(list), NEW block \in Blocks
  PROVE  /\ AppendedListing(list, block) \in Items
         /\ Sound(AppendedListing(list, block))
<1> DEFINE new == AppendedListing(list, block)
<1>1. list.owners \in Seq(Users) /\ list.dpp \in Seq(Blocks)
  BY DEF Items
<1>2. Append(list.dpp, block) \in Seq(Blocks)
  BY <1>1
<1>3. /\ new.user = list.user
      /\ new.dpp = Append(list.dpp, block)
      /\ new.owners = IF block.owner # NoUser THEN Append(list.owners, block.owner)
                                              ELSE list.owners
  BY DEF AppendedListing, Items
<1>4. new.owners \in Seq(Users)
  BY <1>1, <1>3 DEF Blocks, BuyerIds
<1>5. new \in Items
  BY <1>2, <1>3, <1>4 DEF AppendedListing, Items
<1> HIDE DEF new
<1> QED
  BY <1>3, <1>5, ExtendedSound DEF new
-----------------------------------------------------------------------------
(* What each request prepares is a sound, justified write. *)

LEMMA TypesOfWrites ==
  ASSUME TypeOK, NEW l \in Lambdas, call[l] # Idle
  PROVE  /\ call[l] \in Writes
         /\ call[l].id \in ListingIds
         /\ call[l].item \in Items
  BY DEF TypeOK, Writes

LEMMA ReadsAreSound ==
  ASSUME SoundInv, NEW id \in ListingIds, NEW list \in GetItem(id), list # NoItem
  PROVE  list \in Items /\ Sound(list)
  BY DEF SoundInv, TypeOK, GetItem, SoundOrNone

(* Storing a pending request keeps the table sound. *)
LEMMA PrepareKeepsSoundInv ==
  ASSUME SoundInv, NEW l \in Lambdas, NEW op \in {"publish", "update", "append"},
         NEW id \in ListingIds, NEW base \in Items \cup {NoItem}, NEW item \in Items,
         Sound(item), Prepare(l, op, id, base, item)
  PROVE  SoundInv'
<1> DEFINE w == [op |-> op, id |-> id, base |-> base, item |-> item]
<1>1. w \in Writes /\ w.item = item
  BY DEF Writes
<1>2. call' = [call EXCEPT ![l] = w] /\ reply' = [reply EXCEPT ![l] = 0]
      /\ table' = table /\ replica' = replica
  BY DEF Prepare
<1> HIDE DEF w
<1>3. TypeOK'
  BY <1>1, <1>2 DEF SoundInv, TypeOK
<1>4. \A m \in Lambdas : call'[m] # Idle => Sound(call'[m].item)
  BY <1>1, <1>2 DEF SoundInv, TypeOK
<1>5. \A i \in ListingIds : SoundOrNone(table'[i]) /\ SoundOrNone(replica'[i])
  BY <1>2 DEF SoundInv
<1> QED
  BY <1>3, <1>4, <1>5 DEF SoundInv, SoundOrNone, Sound, StartsWithReturn, OwnersMatchPassport

LEMMA AnswerKeepsSoundInv ==
  ASSUME SoundInv, NEW l \in Lambdas, NEW code \in {0, 200, 400, 404, 500},
         Answer(l, code)
  PROVE  SoundInv'
  BY DEF SoundInv, TypeOK, Answer, SoundOrNone

(* Every step keeps SoundInv. *)
LEMMA RequestKeepsSoundInv ==
  ASSUME SoundInv, NEW l \in Lambdas, Request(l)
  PROVE  SoundInv'
<1> USE DEF SoundInv
<1>1. PICK id \in ListingIds :
        \/ \E user \in Users : PostListing(l, id, user)
        \/ \E newStatus \in Statuses, buyer \in BuyerIds :
             PutListing(l, id, newStatus, buyer)
        \/ \E owner \in BuyerIds, action \in ServiceActions :
             PostDPP(l, id, Block(owner, action))
  BY DEF Request
<1>2. ASSUME NEW user \in Users, PostListing(l, id, user)
      PROVE  SoundInv'
  BY <1>2, NewListingSound, PrepareKeepsSoundInv DEF PostListing
<1>3. ASSUME NEW newStatus \in Statuses, NEW buyer \in BuyerIds,
             PutListing(l, id, newStatus, buyer)
      PROVE  SoundInv'
  <2>1. PICK list \in GetItem(id) :
          \/ list = NoItem /\ Answer(l, 404)
          \/ list # NoItem /\ ~TransitionAllowed(list, newStatus) /\ Answer(l, 400)
          \/ /\ list # NoItem
             /\ Prepare(l, "update", id, list, UpdatedListing(list, newStatus, buyer))
    BY <1>3 DEF PutListing
  <2>2. CASE list = NoItem /\ Answer(l, 404)
    BY <2>2, AnswerKeepsSoundInv
  <2>3. CASE list # NoItem /\ Answer(l, 400)
    BY <2>3, AnswerKeepsSoundInv
  <2>4. CASE /\ list # NoItem
             /\ Prepare(l, "update", id, list, UpdatedListing(list, newStatus, buyer))
    BY <2>4, ReadsAreSound, UpdatedSound, PrepareKeepsSoundInv
  <2> QED
    BY <2>1, <2>2, <2>3, <2>4
<1>4. ASSUME NEW owner \in BuyerIds, NEW action \in ServiceActions,
             PostDPP(l, id, Block(owner, action))
      PROVE  SoundInv'
  <2> DEFINE block == Block(owner, action)
  <2>1. block \in Blocks
    BY DEF Block, Blocks
  <2> HIDE DEF block
  <2>2. PICK list \in GetItem(id) :
          \/ list = NoItem /\ Answer(l, 404)
          \/ /\ list # NoItem
             /\ Prepare(l, "append", id, list, AppendedListing(list, block))
    BY <1>4 DEF PostDPP, block
  <2>3. CASE list = NoItem /\ Answer(l, 404)
    BY <2>3, AnswerKeepsSoundInv
  <2>4. CASE /\ list # NoItem
             /\ Prepare(l, "append", id, list, AppendedListing(list, block))
    BY <2>1, <2>4, ReadsAreSound, AppendedSound, PrepareKeepsSoundInv
  <2> QED
    BY <2>2, <2>3, <2>4
<1> QED
  BY <1>1, <1>2, <1>3, <1>4

(* Storing a write keeps SoundInv whether the invocation ends or not. *)
LEMMA PutKeepsSoundInv ==
  ASSUME SoundInv, NEW l \in Lambdas,
         PutApplied(l) \/ PutFailed(l) \/ PutRetried(l) \/ TimeOut(l)
  PROVE  SoundInv'
<1>1. /\ call[l] \in Writes /\ call[l].id \in ListingIds
      /\ call[l].item \in Items /\ Sound(call[l].item)
  BY TypesOfWrites DEF SoundInv, PutApplied, PutFailed, PutRetried, TimeOut
<1>2. /\ table' = table \/ StoreItem(l)
      /\ call' = call \/ call' = [call EXCEPT ![l] = Idle]
      /\ replica' = replica
      /\ reply' = reply \/ \E code \in {200, 500} : reply' = [reply EXCEPT ![l] = code]
  BY DEF PutApplied, PutFailed, PutRetried, TimeOut, Finish
<1>3. /\ table' \in [ListingIds -> Items \cup {NoItem}]
      /\ \A id \in ListingIds : SoundOrNone(table'[id])
  <2>1. CASE table' = table
    BY <2>1 DEF SoundInv, TypeOK
  <2>2. CASE StoreItem(l)
    <3> DEFINE new == call[l].item
    <3>1. table' = [table EXCEPT ![call[l].id] = new]
      BY <2>2 DEF StoreItem
    <3> HIDE DEF new
    <3>2. new \in Items /\ SoundOrNone(new)
      BY <1>1 DEF new, SoundOrNone
    <3> QED
      BY <1>1, <3>1, <3>2 DEF SoundInv, TypeOK
  <2> QED
    BY <1>2, <2>1, <2>2
<1>4. /\ call' \in [Lambdas -> Writes \cup {Idle}]
      /\ \A m \in Lambdas : call'[m] # Idle => Sound(call'[m].item)
  BY <1>2 DEF SoundInv, TypeOK
<1>5. reply' \in [Lambdas -> {0, 200, 400, 404, 500}]
  BY <1>2 DEF SoundInv, TypeOK
<1>6. /\ replica' \in [ListingIds -> Items \cup {NoItem}]
      /\ \A id \in ListingIds : SoundOrNone(replica'[id])
  BY <1>2 DEF SoundInv, TypeOK
<1> QED
  BY <1>3, <1>4, <1>5, <1>6 DEF SoundInv, TypeOK

LEMMA ReplicateKeepsSoundInv ==
  ASSUME SoundInv, NEW id \in ListingIds, Replicate(id)
  PROVE  SoundInv'
<1>1. table[id] \in Items \cup {NoItem} /\ SoundOrNone(table[id])
  BY DEF SoundInv, TypeOK
<1>2. /\ replica' = [replica EXCEPT ![id] = table[id]]
      /\ table' = table /\ call' = call /\ reply' = reply
  BY DEF Replicate
<1>3. replica' \in [ListingIds -> Items \cup {NoItem}]
  BY <1>1, <1>2 DEF SoundInv, TypeOK
<1>4. \A i \in ListingIds : SoundOrNone(replica'[i])
  BY <1>1, <1>2 DEF SoundInv, TypeOK
<1> QED
  BY <1>2, <1>3, <1>4 DEF SoundInv, TypeOK

THEOREM SoundInvHolds == Spec => []SoundInv
<1>1. Init => SoundInv
  BY DEF Init, SoundInv, TypeOK, SoundOrNone
<1>2. SoundInv /\ [Next]_vars => SoundInv'
  <2> SUFFICES ASSUME SoundInv, [Next]_vars
               PROVE  SoundInv'
    OBVIOUS
  <2>1. CASE Next
    BY <2>1, RequestKeepsSoundInv, PutKeepsSoundInv, ReplicateKeepsSoundInv DEF Next
  <2>2. CASE UNCHANGED vars
    BY <2>2 DEF vars, SoundInv, TypeOK, SoundOrNone
  <2> QED
    BY <2>1, <2>2
<1> QED
  BY <1>1, <1>2, PTL DEF Spec

(* Every variable of the listing handlers keeps its type. *)
THEOREM ListingsTypeCorrect == Spec => []TypeOK
<1>1. SoundInv => TypeOK
  BY DEF SoundInv
<1> QED
  BY <1>1, SoundInvHolds, PTL

(* The owner list and the passport of every stored item agree, whatever the *)
(* interleaving of the handlers and the fate of their writes.               *)
THEOREM PassportsAlwaysSound == Spec => []PassportsSound
<1>1. SoundInv => PassportsSound
  BY DEF SoundInv, PassportsSound, SoundOrNone
<1> QED
  BY <1>1, SoundInvHolds, PTL
-----------------------------------------------------------------------------
(* The lifecycle.  Every pending write was justified when it was read; the  *)
(* write of an item that is still the stored one is therefore a step of the *)
(* lifecycle on the stored item.                                            *)

JustifiedInv == SoundInv /\ WritesJustified

LEMMA RequestKeepsJustified ==
  ASSUME JustifiedInv, NEW l \in Lambdas, Request(l)
  PROVE  WritesJustified'
<1>1. call \in [Lambdas -> Writes \cup {Idle}] /\ WritesJustified
  BY DEF JustifiedInv, SoundInv, TypeOK
<1>2. CASE call' = call
  BY <1>1, <1>2 DEF WritesJustified, Justified
<1>3. ASSUME NEW w, Justified(w), call' = [call EXCEPT ![l] = w]
      PROVE  WritesJustified'
  BY <1>1, <1>3 DEF WritesJustified, Justified
<1>4. PICK id \in ListingIds :
        \/ \E user \in Users : PostListing(l, id, user)
        \/ \E newStatus \in Statuses, buyer \in BuyerIds :
             PutListing(l, id, newStatus, buyer)
        \/ \E owner \in BuyerIds, action \in ServiceActions :
             PostDPP(l, id, Block(owner, action))
  BY DEF Request
<1>5. ASSUME NEW user \in Users, PostListing(l, id, user)
      PROVE  WritesJustified'
  <2> DEFINE w == [op |-> "publish", id |-> id, base |-> NoItem, item |-> NewListing(user)]
  <2>1. w.op = "publish" /\ w.item = NewListing(user)
    OBVIOUS
  <2>2. call' = [call EXCEPT ![l] = w]
    BY <1>5 DEF PostListing, Prepare
  <2> HIDE DEF w
  <2>3. Justified(w)
    BY <2>1 DEF Justified
  <2> QED
    BY <2>2, <2>3, <1>3
<1>6. ASSUME NEW newStatus \in Statuses, NEW buyer \in BuyerIds,
             PutListing(l, id, newStatus, buyer), call' # call
      PROVE  WritesJustified'
  <2>1. PICK list \in GetItem(id) :
          /\ list # NoItem /\ TransitionAllowed(list, newStatus)
          /\ Prepare(l, "update", id, list, UpdatedListing(list, newStatus, buyer))
    BY <1>6 DEF PutListing, Answer
  <2> DEFINE w == [op |-> "update", id |-> id, base |-> list,
                   item |-> UpdatedListing(list, newStatus, buyer)]
  <2>2. w.op = "update" /\ w.base = list
        /\ w.item = UpdatedListing(list, newStatus, buyer)
    OBVIOUS
  <2>3. call' = [call EXCEPT ![l] = w]
    BY <2>1 DEF Prepare
  <2> HIDE DEF w
  <2>4. Justified(w)
    BY <2>1, <2>2 DEF Justified
  <2> QED
    BY <2>3, <2>4, <1>3
<1>7. ASSUME NEW owner \in BuyerIds, NEW action \in ServiceActions,
             PostDPP(l, id, Block(owner, action)), call' # call
      PROVE  WritesJustified'
  <2> DEFINE block == Block(owner, action)
  <2>1. PICK list \in GetItem(id) :
          /\ list # NoItem
          /\ Prepare(l, "append", id, list, AppendedListing(list, block))
    BY <1>7 DEF PostDPP, Answer
  <2> DEFINE w == [op |-> "append", id |-> id, base |-> list,
                   item |-> AppendedListing(list, block)]
  <2>2. w.op = "append" /\ w.base = list /\ w.item = AppendedListing(list, block)
    OBVIOUS
  <2>3. call' = [call EXCEPT ![l] = w]
    BY <2>1 DEF Prepare
  <2> HIDE DEF w
  <2>4. Justified(w)
    BY <2>1, <2>2 DEF Justified
  <2> QED
    BY <2>3, <2>4, <1>3
<1> QED
  BY <1>2, <1>4, <1>5, <1>6, <1>7

LEMMA JustifiedInvInductive ==
  ASSUME JustifiedInv, [Next]_vars
  PROVE  JustifiedInv'
<1>0. SoundInv /\ WritesJustified /\ call \in [Lambdas -> Writes \cup {Idle}]
  BY DEF JustifiedInv, SoundInv, TypeOK
<1>1. SoundInv'
  <2>1. CASE Next
    BY <1>0, <2>1, RequestKeepsSoundInv, PutKeepsSoundInv, ReplicateKeepsSoundInv DEF Next
  <2>2. CASE UNCHANGED vars
    BY <1>0, <2>2 DEF vars, SoundInv, TypeOK, SoundOrNone
  <2> QED
    BY <2>1, <2>2
<1>2. ASSUME NEW l \in Lambdas, Request(l)
      PROVE  WritesJustified'
  BY <1>2, RequestKeepsJustified
<1>3. ASSUME NEW l \in Lambdas,
             PutApplied(l) \/ PutFailed(l) \/ PutRetried(l) \/ TimeOut(l)
      PROVE  WritesJustified'
  <2>1. call' = call \/ call' = [call EXCEPT ![l] = Idle]
    BY <1>3 DEF PutApplied, PutFailed, PutRetried, TimeOut, Finish
  <2> QED
    BY <1>0, <2>1 DEF WritesJustified, Justified
<1>4. ASSUME UNCHANGED call
      PROVE  WritesJustified'
  BY <1>0, <1>4 DEF WritesJustified, Justified
<1>5. \/ \E l \in Lambdas : Request(l)
      \/ \E l \in Lambdas : PutApplied(l) \/ PutFailed(l) \/ PutRetried(l) \/ TimeOut(l)
      \/ UNCHANGED call
  <2>1. CASE Next
    BY <2>1, Zenon DEF Next, Replicate
  <2>2. CASE UNCHANGED vars
    BY <2>2 DEF vars
  <2> QED
    BY <2>1, <2>2
<1>6. WritesJustified'
  BY <1>2, <1>3, <1>4, <1>5
<1> QED
  BY <1>1, <1>6 DEF JustifiedInv

(* Storing an item that nobody changed since it was read. *)
LEMMA FreshWriteFollowsLifecycle ==
  ASSUME JustifiedInv, NEW l \in Lambdas, call[l] # Idle, StoreItem(l),
         call[l].op = "publish" \/ call[l].base = table[call[l].id]
  PROVE  Lifecycle!Next
<1> DEFINE id == call[l].id
           new == call[l].item
           old == table[id]
<1>1. /\ id \in ListingIds /\ new \in Items /\ new # NoItem
      /\ table \in [ListingIds -> Items \cup {NoItem}]
      /\ table' = [table EXCEPT ![id] = new]
      /\ Justified(call[l])
  BY TypesOfWrites, SentinelAssumption
  DEF JustifiedInv, SoundInv, TypeOK, WritesJustified, StoreItem
<1> HIDE DEF id, new
<1>2. /\ StatusOf' = [StatusOf EXCEPT ![id] = new.status]
      /\ PassportOf' = [PassportOf EXCEPT ![id] = new.dpp]
  BY <1>1 DEF StatusOf, PassportOf
<1>3. old # NoItem => /\ StatusOf[id] = old.status /\ PassportOf[id] = old.dpp
                      /\ old \in Items
  BY <1>1 DEF StatusOf, PassportOf
<1>4. PassportOf = [PassportOf EXCEPT ![id] = PassportOf[id]]
  BY DEF PassportOf
<1>5. CASE call[l].op = "publish"
  <2>1. PICK user \in Users : new = NewListing(user)
    BY <1>1, <1>5 DEF Justified, new
  <2>2. new.status = "available"
        /\ new.dpp = <<Lifecycle!Block(user, "purchased"), Lifecycle!Block(user, "returned")>>
    BY <2>1 DEF NewListing, Block, Lifecycle!Block
  <2>3. Lifecycle!Publish(id, user)
    BY <1>2, <2>2 DEF Lifecycle!Publish
  <2> QED
    BY <1>1, <2>3 DEF Lifecycle!Next
<1>6. CASE call[l].op = "update"
  <2>1. PICK newStatus \in Statuses, buyer \in BuyerIds :
          /\ TransitionAllowed(old, newStatus)
          /\ new = UpdatedListing(old, newStatus, buyer)
    BY <1>1, <1>6 DEF Justified, new, id
  <2>2. old # NoItem
    BY <1>1, <1>6 DEF Justified, id
  <2>3. old.status = StatusOf[id] /\ old.dpp = PassportOf[id] /\ old \in Items
        /\ old.status \in Statuses
    BY <1>3, <2>2 DEF Items
  <2> HIDE DEF old
  <2>4. new.status = newStatus
    BY <2>1, <2>3 DEF UpdatedListing, Items
  <2>5. CASE newStatus = "reserved"
    <3>1. new.dpp = old.dpp
      BY <2>1, <2>3, <2>5 DEF UpdatedListing, Items
    <3>2. Lifecycle!Reserve(id)
      BY <1>2, <1>4, <2>1, <2>3, <2>4, <2>5, <3>1
      DEF Lifecycle!Reserve, TransitionAllowed
    <3> QED
      BY <1>1, <3>2 DEF Lifecycle!Next
  <2>6. CASE newStatus = "sold"
    <3>1. StatusOf[id] = "reserved" /\ StatusOf' = [StatusOf EXCEPT ![id] = "sold"]
      BY <1>2, <2>1, <2>3, <2>4, <2>6 DEF TransitionAllowed
    <3>2. new.dpp = IF buyer = NoUser THEN old.dpp
                    ELSE Append(old.dpp, Lifecycle!Block(buyer, "resold"))
      BY <2>1, <2>3, <2>6 DEF UpdatedListing, Items, Block, Lifecycle!Block
    <3>3. PassportOf' = IF buyer = NoUser THEN PassportOf
            ELSE [PassportOf EXCEPT
                    ![id] = Append(PassportOf[id], Lifecycle!Block(buyer, "resold"))]
      BY <1>2, <1>4, <2>3, <3>2
    <3>4. Lifecycle!Sell(id, buyer)
      BY <3>1, <3>3 DEF Lifecycle!Sell
    <3> QED
      BY <1>1, <3>4 DEF Lifecycle!Next, BuyerIds
  <2>7. CASE newStatus \in OtherStatuses
    <3>1. newStatus # "sold"
      BY <2>7, ListingsAssumption
    <3>2. new.dpp = old.dpp
      BY <2>1, <2>3, <3>1 DEF UpdatedListing, Items
    <3>3. StatusOf[id] \notin {"absent", "sold"}
      BY <2>1, <2>3, ListingsAssumption DEF TransitionAllowed, Statuses
    <3>4. Lifecycle!Relabel(id, newStatus)
      BY <1>2, <1>4, <2>3, <2>4, <3>2, <3>3 DEF Lifecycle!Relabel
    <3> QED
      BY <1>1, <2>7, <3>4 DEF Lifecycle!Next
  <2> QED
    BY <2>5, <2>6, <2>7 DEF Statuses
<1>7. CASE call[l].op = "append"
  <2>1. PICK owner \in BuyerIds, action \in ServiceActions :
          new = AppendedListing(old, Block(owner, action))
    BY <1>1, <1>7 DEF Justified, new, id
  <2>2. old # NoItem
    BY <1>1, <1>7 DEF Justified, id
  <2>3. old.status = StatusOf[id] /\ old.dpp = PassportOf[id] /\ old \in Items
        /\ old.status \in Statuses
    BY <1>3, <2>2 DEF Items
  <2> HIDE DEF old
  <2>4. /\ new.status = old.status
        /\ new.dpp = Append(old.dpp, Lifecycle!Block(owner, action))
    BY <2>1, <2>3 DEF AppendedListing, Items, Block, Lifecycle!Block
  <2>5. StatusOf[id] # "absent" /\ StatusOf' = StatusOf
    BY <1>2, <2>3, <2>4, ListingsAssumption DEF Statuses, StatusOf
  <2>6. Lifecycle!AppendToPassport(id, Lifecycle!Block(owner, action))
    BY <1>2, <2>3, <2>4, <2>5 DEF Lifecycle!AppendToPassport
  <2> QED
    BY <1>1, <2>6 DEF Lifecycle!Next, BuyerIds
<1> QED
  BY <1>5, <1>6, <1>7, <1>1 DEF Justified

(* Each step of the handlers is a step of the lifecycle, leaves the listing *)
(* as it is, or writes back a stale copy.                                   *)
LEMMA NextFollowsLifecycle ==
  ASSUME JustifiedInv, [Next]_vars
  PROVE  [Lifecycle!Next \/ StaleWrite]_<<StatusOf, PassportOf>>
<1>1. CASE table' = table
  BY <1>1 DEF StatusOf, PassportOf
<1>2. ASSUME NEW l \in Lambdas, call[l] # Idle, StoreItem(l)
      PROVE  Lifecycle!Next \/ StaleWrite
  BY <1>2, FreshWriteFollowsLifecycle DEF StaleWrite
<1>3. table' = table \/ \E l \in Lambdas : call[l] # Idle /\ StoreItem(l)
  BY DEF Next, vars, Request, PostListing, PutListing, PostDPP, Prepare, Answer,
         PutApplied, PutFailed, PutRetried, TimeOut, Replicate
<1> QED
  BY <1>1, <1>2, <1>3

LEMMA JustifiedInvHolds == Spec => []JustifiedInv
<1>1. Init => JustifiedInv
  BY DEF Init, JustifiedInv, SoundInv, TypeOK, SoundOrNone, WritesJustified
<1>2. JustifiedInv /\ [Next]_vars => JustifiedInv'
  BY JustifiedInvInductive
<1> QED
  BY <1>1, <1>2, PTL DEF Spec

(* Only the write-back of an out-of-date copy takes a listing out of its    *)
(* lifecycle, for any number of invocations, lagging reads and repeated     *)
(* writes.                                                                  *)
THEOREM LifecycleBrokenOnlyByStaleWrites == Spec => OnlyStaleWritesBreakLifecycle
<1>1. JustifiedInv /\ [Next]_vars => [Lifecycle!Next \/ StaleWrite]_<<StatusOf, PassportOf>>
  BY NextFollowsLifecycle
<1> QED
  BY <1>1, JustifiedInvHolds, PTL DEF Spec, OnlyStaleWritesBreakLifecycle
-----------------------------------------------------------------------------
(* One invocation at a time, with current reads.                            *)

(* A pending write was read from the stored item, or is already stored (its *)
(* PutItem is being repeated).                                              *)
FreshInv ==
  \A l \in Lambdas :
    call[l] # Idle /\ call[l].op # "publish"
      => call[l].base = table[call[l].id] \/ call[l].item = table[call[l].id]

LEMMA FreshInvInductive ==
  ASSUME \A l, m \in Lambdas : l = m, LaggingReads = FALSE,
         JustifiedInv, FreshInv, [Next]_vars
  PROVE  FreshInv'
<1>1. /\ call \in [Lambdas -> Writes \cup {Idle}]
      /\ table \in [ListingIds -> Items \cup {NoItem}]
  BY DEF JustifiedInv, SoundInv, TypeOK
<1>2. CASE \E l \in Lambdas : Request(l)
  <2>1. PICK l \in Lambdas : Request(l)
    BY <1>2
  <2>2. table' = table
    BY <2>1 DEF Request, PostListing, PutListing, PostDPP, Prepare, Answer
  <2>3. CASE call' = call
    BY <2>2, <2>3 DEF FreshInv
  <2>4. CASE call' # call
    <3>1. PICK op, id, base, item :
            Prepare(l, op, id, base, item) /\ (op # "publish" => base = table[id])
      BY <2>1, <2>4 DEF Request, PostListing, PutListing, PostDPP, Answer, GetItem
    <3> DEFINE w == [op |-> op, id |-> id, base |-> base, item |-> item]
    <3>2. /\ call' = [call EXCEPT ![l] = w]
          /\ w.op # "publish" => w.base = table[w.id]
      <4>1. call' = [call EXCEPT ![l] = w]
        <5>1. Prepare(l, op, id, base, item)
          BY <3>1
        <5> QED
          BY <5>1 DEF Prepare
      <4>2. w.op = op /\ w.base = base /\ w.id = id
        OBVIOUS
      <4> HIDE DEF w
      <4> QED
        BY <3>1, <4>1, <4>2
    <3> HIDE DEF w
    <3>3. call'[l] = w
      BY <1>1, <3>2
    <3>4. \A m \in Lambdas : m = l
      OBVIOUS
    <3> QED
      BY <2>2, <3>2, <3>3, <3>4 DEF FreshInv
  <2> QED
    BY <2>3, <2>4
<1>3. CASE \E l \in Lambdas : PutApplied(l) \/ PutFailed(l) \/ TimeOut(l)
  <2>1. PICK l \in Lambdas : call' = [call EXCEPT ![l] = Idle]
    BY <1>3 DEF PutApplied, PutFailed, TimeOut, Finish
  <2> QED
    BY <1>1, <2>1 DEF FreshInv
<1>4. CASE \E l \in Lambdas : PutRetried(l)
  <2>1. PICK l \in Lambdas : call[l] # Idle /\ StoreItem(l) /\ call' = call
    BY <1>4 DEF PutRetried
  <2>2. call[l].id \in ListingIds
    BY <2>1, TypesOfWrites DEF JustifiedInv, SoundInv
  <2>3. table'[call[l].id] = call[l].item
    BY <1>1, <2>1, <2>2 DEF StoreItem
  <2> QED
    BY <2>1, <2>3 DEF FreshInv
<1>5. CASE UNCHANGED <<table, call>>
  BY <1>5 DEF FreshInv
<1> QED
  BY <1>2, <1>3, <1>4, <1>5 DEF Next, vars, Replicate

LEMMA SerialStepFollowsLifecycle ==
  ASSUME JustifiedInv, FreshInv, [Next]_vars
  PROVE  [Lifecycle!Next]_<<StatusOf, PassportOf>>
<1>1. CASE table' = table
  BY <1>1 DEF StatusOf, PassportOf
<1>2. ASSUME NEW l \in Lambdas, call[l] # Idle, StoreItem(l), table' # table
      PROVE  Lifecycle!Next
  <2>1. table \in [ListingIds -> Items \cup {NoItem}]
    BY DEF JustifiedInv, SoundInv, TypeOK
  <2>2. call[l].item # table[call[l].id]
    BY <1>2, <2>1 DEF StoreItem
  <2> QED
    BY <1>2, <2>2, FreshWriteFollowsLifecycle DEF FreshInv
<1>3. table' = table \/ \E l \in Lambdas : call[l] # Idle /\ StoreItem(l)
  BY DEF Next, vars, Request, PostListing, PutListing, PostDPP, Prepare, Answer,
         PutApplied, PutFailed, PutRetried, TimeOut, Replicate
<1> QED
  BY <1>1, <1>2, <1>3

(* Without overlap and lag the handlers implement the lifecycle, though     *)
(* their writes may fail, be repeated, or succeed without an answer.        *)
THEOREM SerialHandlersImplementLifecycle ==
  ASSUME \A l, m \in Lambdas : l = m, LaggingReads = FALSE
  PROVE  Spec => ImplementsLifecycle
<1>1. Init => Lifecycle!Init
  BY DEF Init, Lifecycle!Init, StatusOf, PassportOf
<1>2. Init => FreshInv
  BY DEF Init, FreshInv
<1>3. JustifiedInv /\ FreshInv /\ [Next]_vars => FreshInv'
  BY FreshInvInductive
<1>4. JustifiedInv /\ FreshInv /\ [Next]_vars => [Lifecycle!Next]_<<StatusOf, PassportOf>>
  BY SerialStepFollowsLifecycle
<1> QED
  BY <1>1, <1>2, <1>3, <1>4, JustifiedInvHolds, PTL
  DEF Spec, ImplementsLifecycle, Lifecycle!Spec, Lifecycle!lifecycleVars
=============================================================================
