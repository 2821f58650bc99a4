------------------------------ MODULE Returns ------------------------------
(***************************************************************************)
(* POST /return/intercept of the Go Lambda, and the metrics that read what *)
(* it stores.  The handler reads the order, chooses a pathway, and then    *)
(* puts two items, one into each of two tables: the return and its carbon  *)
(* credit.  There is no transaction, a PutItem that fails is only logged,  *)
(* and the answer is 200 in any case.                                      *)
(*                                                                         *)
(* A request without its mandatory fields is answered 400 and changes      *)
(* nothing.  Left out: the media, the device hash, the geohash and the     *)
(* grade, which are copied into the return.  The coordinates of a request  *)
(* are kept as what the handler asks of them: how far the closest listing  *)
(* is.                                                                     *)
(***************************************************************************)
EXTENDS Integers, FiniteSetsExt

CONSTANTS
  Lambdas,        \* invocations that may run at the same time
  Orders, Users,
  ReturnIds,      \* values of return_id that clients send
  Products,       \* "p-high" stands for the ids with that prefix
  Locations,      \* subset of BOOLEAN: requests with coordinates, or without
  QueryPrices,    \* what the msrp query parameter parses to, 0 for no number
  RouteDistances, LockerDistances,   \* to the closest listing and locker, in 100 m
  Retries,        \* TRUE when the AWS client may repeat a PutItem
  OrderRows,      \* what the orders table may hold of an order
  NoId, NoQuery, NoOrder, NoSeller, NoReturn, NoCredit, Idle   \* sentinels

DefaultSeller == "seller-default"
DefaultId(order) == <<"ret", order>>

Ids == ReturnIds \cup {DefaultId(order) : order \in Orders}
Pathways == {"premium", "commodity", "hyperlocal-p2p", "locker-dropoff", "keep-credit"}
Sellers == ({row.seller : row \in OrderRows} \ {NoSeller}) \cup {DefaultSeller}

ReturnRecords == [user : Users, order : Orders, msrp : Nat, located : BOOLEAN,
                  route : Nat, pathway : Pathways]
CreditRecords == [user : Users, seller : Sellers, co2 : Nat, pathway : Pathways]

(* An invocation about to put its return or its credit; the history says    *)
(* whether it ran alone on its id and whether its writes succeeded so far.  *)
Puts == [stage : {"return", "credit"}, id : Ids, record : ReturnRecords,
         credit : CreditRecords, alone : BOOLEAN, ok : BOOLEAN]

ASSUME ReturnsAssumption ==
  /\ QueryPrices \subseteq Nat /\ RouteDistances \subseteq Nat
  /\ LockerDistances \subseteq Nat
  /\ Locations \subseteq BOOLEAN /\ Retries \in BOOLEAN
  /\ \A row \in OrderRows : row.price \in Nat
  /\ NoOrder \notin OrderRows
  /\ NoReturn \notin ReturnRecords /\ NoCredit \notin CreditRecords
  /\ Idle \notin Puts

VARIABLES
  returns,   \* ReturnsTable
  carbon,    \* CarbonTable
  call,      \* call[l]: what invocation l is about to put
  settled,   \* history: the last request for the id ran alone and stored both
  refused    \* history: ids for which a return was refused

vars == <<returns, carbon, call, settled, refused>>
-----------------------------------------------------------------------------
(* What a request is worth and where it goes. *)

(* mutant: an order without a seller is taken as it is *)
SellerAsRead(row) == IF row # NoOrder THEN row.seller ELSE DefaultSeller

Seller(row) ==
  IF row # NoOrder /\ row.seller # NoSeller THEN row.seller ELSE DefaultSeller

Msrp(row, query, product) ==
  LET priced == row # NoOrder /\ row.price # 0 IN
  CASE priced -> row.price
    [] ~priced /\ query # NoQuery -> query
    [] OTHER -> IF product = "p-high" THEN 7500 ELSE 1500

(* Repair 20 per grade below A+, depreciation 15% of 200, distance / 2; in  *)
(* tenths.  Every request with coordinates is taken to be 4.2 km away.      *)
PredictedMargin(located) ==
  1000 - 200 * (5 - 4) - 300 - (IF located THEN 21 ELSE 50)

Pathway(located, route, locker) ==
  CASE PredictedMargin(located) >= 400 -> "premium"
    [] PredictedMargin(located) < 400 /\ ~located -> "commodity"
    [] PredictedMargin(located) < 400 /\ located /\ route < 150 -> "hyperlocal-p2p"
    [] OTHER -> IF locker <= 50 THEN "locker-dropoff" ELSE "keep-credit"

(* Grams saved against a warehouse 350 km away. *)
CO2Saved(pathway, route) ==
  CASE pathway = "hyperlocal-p2p" -> IF route < 3500 THEN (3500 - route) * 15 ELSE 0
    [] pathway = "locker-dropoff" -> 21000
    [] pathway = "keep-credit" -> 52500
    [] OTHER -> 10500
-----------------------------------------------------------------------------
Init ==
  /\ returns = [id \in Ids |-> NoReturn]
  /\ carbon = [id \in Ids |-> NoCredit]
  /\ call = [l \in Lambdas |-> Idle]
  /\ settled = [id \in Ids |-> FALSE]
  /\ refused = [id \in Ids |-> FALSE]

ReturnId(givenId, order) == IF givenId = NoId THEN DefaultId(order) ELSE givenId

InFlight(id) == {l \in Lambdas : call[l] # Idle /\ call[l].id = id}

(* Everything up to the first PutItem.  The order is read once; a read that *)
(* fails counts as an order that does not exist.  An attribute that is      *)
(* missing from the order reads as 0 or NoSeller.                           *)
Intercept(l, givenId, order, user) ==
  LET id == ReturnId(givenId, order) IN
  /\ call[l] = Idle
  /\ \E row \in OrderRows \cup {NoOrder}, product \in Products, query \in QueryPrices \cup {NoQuery},
        located \in Locations, route \in RouteDistances, locker \in LockerDistances :
       LET pathway == Pathway(located, route, locker) IN
       call' = [m \in Lambdas |->
         IF m = l
         THEN [stage |-> "return", id |-> id,
               record |-> [user |-> user, order |-> order,
                           msrp |-> Msrp(row, query, product),
                           located |-> located, route |-> route, pathway |-> pathway],
               credit |-> [user |-> user, seller |-> Seller(row),
                           co2 |-> CO2Saved(pathway, route), pathway |-> pathway],
               alone |-> InFlight(id) = {}, ok |-> TRUE]
         ELSE IF m \in InFlight(id) THEN [call[m] EXCEPT !.alone = FALSE] ELSE call[m]]
  /\ settled' = [settled EXCEPT ![id] = FALSE]
  /\ UNCHANGED <<returns, carbon, refused>>

(* mutant: the credit is filed under the order, whatever id was given *)
CreditIdOfOrder(put) == DefaultId(put.record.order)

CreditId(put) == put.id

AtStage(l, stage) == call[l] # Idle /\ call[l].stage = stage

(* The first PutItem succeeds, or its error is logged. *)
StoreReturn(l) ==
  /\ AtStage(l, "return")
  /\ returns' = [returns EXCEPT ![call[l].id] = call[l].record]
  /\ call' = [call EXCEPT ![l].stage = "credit"]
  /\ UNCHANGED <<carbon, settled, refused>>

ReturnRefused(l) ==
  /\ AtStage(l, "return")
  /\ call' = [call EXCEPT ![l].stage = "credit", ![l].ok = FALSE]
  /\ refused' = [refused EXCEPT ![call[l].id] = TRUE]
  /\ UNCHANGED <<returns, carbon, settled>>

(* The second one, after which the request is answered. *)
StoreCredit(l) ==
  /\ AtStage(l, "credit")
  /\ carbon' = [carbon EXCEPT ![CreditId(call[l])] = call[l].credit]
  /\ settled' = [settled EXCEPT ![call[l].id] = call[l].alone /\ call[l].ok]
  /\ call' = [call EXCEPT ![l] = Idle]
  /\ UNCHANGED <<returns, refused>>

CreditRefused(l) ==
  /\ AtStage(l, "credit")
  /\ call' = [call EXCEPT ![l] = Idle]
  /\ UNCHANGED <<returns, carbon, settled, refused>>

(* A PutItem is applied, its answer is lost, the AWS client tries again. *)
PutRepeated(l) ==
  /\ Retries
  /\ \/ /\ AtStage(l, "return")
        /\ returns' = [returns EXCEPT ![call[l].id] = call[l].record]
        /\ UNCHANGED carbon
     \/ /\ AtStage(l, "credit")
        /\ carbon' = [carbon EXCEPT ![CreditId(call[l])] = call[l].credit]
        /\ UNCHANGED returns
  /\ UNCHANGED <<call, settled, refused>>

(* The invocation reaches the function's time limit. *)
TimeOut(l) ==
  /\ call[l] # Idle
  /\ call' = [call EXCEPT ![l] = Idle]
  /\ UNCHANGED <<returns, carbon, settled, refused>>

Next ==
  \E l \in Lambdas :
    \/ \E givenId \in ReturnIds \cup {NoId}, order \in Orders, user \in Users :
         Intercept(l, givenId, order, user)
    \/ StoreReturn(l) \/ ReturnRefused(l) \/ StoreCredit(l) \/ CreditRefused(l)
    \/ PutRepeated(l) \/ TimeOut(l)

Spec == Init /\ [][Next]_vars
-----------------------------------------------------------------------------
(* GET /user/metrics: the user's share of a scan of the carbon table. *)

(* mutant: the credits of all users *)
UserCO2OfAll(user) ==
  MapThenSumSet(LAMBDA id : carbon[id].co2, {id \in Ids : carbon[id] # NoCredit})

UserCO2(user) ==
  MapThenSumSet(LAMBDA id : carbon[id].co2,
                {id \in Ids : carbon[id] # NoCredit /\ carbon[id].user = user})
-----------------------------------------------------------------------------
(* Every variable holds a value of its type. *)
TypeOK ==
  /\ returns \in [Ids -> ReturnRecords \cup {NoReturn}]
  /\ carbon \in [Ids -> CreditRecords \cup {NoCredit}]
  /\ call \in [Lambdas -> Puts \cup {Idle}]
  /\ settled \in [Ids -> BOOLEAN]
  /\ refused \in [Ids -> BOOLEAN]

(* The two tables tell the same story of a return after a request that ran  *)
(* alone and whose writes succeeded, whatever failed, overlapped or was     *)
(* repeated on that return before: a client that retries repairs the pair.  *)
Matched(record, credit) ==
  /\ record.user = credit.user /\ record.pathway = credit.pathway
  /\ credit.co2 = CO2Saved(record.pathway, record.route)

PairsAgree ==
  \A id \in Ids :
    settled[id] =>
      returns[id] # NoReturn /\ carbon[id] # NoCredit /\ Matched(returns[id], carbon[id])

(* A crash between the two writes costs the credit, never the return: only  *)
(* a refused PutItem leaves a credit without its return.                    *)
CreditHasReturn ==
  \A id \in Ids :
    carbon[id] # NoCredit => returns[id] # NoReturn \/ refused[id]

(* Once every stored return is settled, the metrics of a user, which read   *)
(* the carbon table alone, add up to what the returns stored for that user  *)
(* save on their pathways.                                                  *)
ReturnsOf(user) == {id \in Ids : returns[id] # NoReturn /\ returns[id].user = user}

SavedBy(user) ==
  MapThenSumSet(LAMBDA id : CO2Saved(returns[id].pathway, returns[id].route), ReturnsOf(user))

MetricsMatchReturns ==
  (\A id \in Ids : returns[id] # NoReturn \/ carbon[id] # NoCredit => settled[id])
  => \A user \in Users : UserCO2(user) = SavedBy(user)

(* What the handler's tests expect of a cheap return with coordinates: it    *)
(* is offered to a listing that is less than 15 km away.  The predicted     *)
(* margin does not depend on the price and never falls below the threshold. *)
CheapReturnsMatched ==
  \A id \in Ids :
    returns[id] # NoReturn /\ returns[id].msrp = 1500
    /\ returns[id].located /\ returns[id].route < 150
      => returns[id].pathway = "hyperlocal-p2p"

=============================================================================
