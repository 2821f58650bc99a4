-------------------------- MODULE Returns_proofs --------------------------
(***************************************************************************)
(* Proofs about Returns, for every set of invocations, orders, users and   *)
(* return ids.                                                             *)
(***************************************************************************)
EXTENDS Returns, TLAPS

LEMMA MsrpType ==
  ASSUME NEW row \in OrderRows \cup {NoOrder}, NEW query \in QueryPrices \cup {NoQuery},
         NEW product
  PROVE  Msrp(row, query, product) \in Nat
<1>1. row # NoOrder => row.price \in Nat
  BY ReturnsAssumption
<1>2. query # NoQuery => query \in Nat
  BY ReturnsAssumption
<1>3. CASE row # NoOrder /\ row.price # 0
  BY <1>1, <1>3 DEF Msrp
<1>4. CASE ~(row # NoOrder /\ row.price # 0) /\ query # NoQuery
  BY <1>2, <1>4 DEF Msrp
<1>5. CASE ~(row # NoOrder /\ row.price # 0) /\ query = NoQuery
  BY <1>5 DEF Msrp
<1> QED
  BY <1>3, <1>4, <1>5

LEMMA SellerType ==
  ASSUME NEW row \in OrderRows \cup {NoOrder}
  PROVE  Seller(row) \in Sellers
  BY DEF Seller, Sellers

LEMMA PathwayType ==
  ASSUME NEW located \in BOOLEAN, NEW route \in Nat, NEW locker \in Nat
  PROVE  Pathway(located, route, locker) \in Pathways
<1>1. PredictedMargin(located) \in Int
  BY DEF PredictedMargin
<1>2. PredictedMargin(located) >= 400
  BY DEF PredictedMargin
<1> QED
  BY <1>2 DEF Pathway, Pathways

LEMMA CO2Type ==
  ASSUME NEW pathway, NEW route \in Nat
  PROVE  CO2Saved(pathway, route) \in Nat
<1>1. CASE pathway = "hyperlocal-p2p"
  <2>1. route < 3500 => (3500 - route) * 15 \in Nat
    OBVIOUS
  <2> QED
    BY <1>1, <2>1 DEF CO2Saved
<1>2. CASE pathway # "hyperlocal-p2p"
  BY <1>2 DEF CO2Saved
<1> QED
  BY <1>1, <1>2
-----------------------------------------------------------------------------
(* An invocation that ran alone and stored its return finds it in the table *)
(* when it stores the credit, and nobody disturbs a settled id.             *)
CallSound(l) ==
  call[l] # Idle =>
    /\ Matched(call[l].record, call[l].credit)
    /\ ~settled[call[l].id]
    /\ call[l].alone => \A m \in InFlight(call[l].id) : m = l
    /\ call[l].stage = "return" => call[l].ok
    /\ call[l].stage = "credit" =>
         /\ call[l].ok => returns[call[l].id] # NoReturn
         /\ ~call[l].ok => refused[call[l].id]
         /\ call[l].alone /\ call[l].ok => returns[call[l].id] = call[l].record

ReturnsInv ==
  /\ TypeOK
  /\ PairsAgree
  /\ CreditHasReturn
  /\ \A l \in Lambdas : CallSound(l)

LEMMA InitReturns == Init => ReturnsInv
<1> SUFFICES ASSUME Init
             PROVE  ReturnsInv
  OBVIOUS
<1>1. TypeOK
  BY DEF Init, TypeOK
<1> QED
  BY <1>1 DEF Init, ReturnsInv, PairsAgree, CreditHasReturn, CallSound

LEMMA InterceptKeepsInv ==
  ASSUME ReturnsInv, NEW l \in Lambdas, NEW givenId \in ReturnIds \cup {NoId},
         NEW order \in Orders, NEW user \in Users, Intercept(l, givenId, order, user)
  PROVE  ReturnsInv'
<1> DEFINE id == ReturnId(givenId, order)
<1>1. id \in Ids
  BY DEF ReturnId, Ids
<1>2. PICK row \in OrderRows \cup {NoOrder}, product \in Products,
           query \in QueryPrices \cup {NoQuery}, located \in Locations,
           route \in RouteDistances, locker \in LockerDistances :
        LET pathway == Pathway(located, route, locker) IN
        call' = [m \in Lambdas |->
          IF m = l
          THEN [stage |-> "return", id |-> id,
                record |-> [user |-> user, order |-> order,
                            msrp |-> Msrp(row, query, product),
                            located |-> located, route |-> route, pathway |-> pathway],
                credit |-> [user |-> user, seller |-> Seller(row),
                            co2 |-> CO2Saved(pathway, route), pathway |-> pathway],
                alone |-> InFlight(id) = {}, ok |-> TRUE]
          ELSE IF m \in InFlight(id) THEN [call[m] EXCEPT !.alone = FALSE] ELSE call[m]]
  BY DEF Intercept
<1>3. settled' = [settled EXCEPT ![id] = FALSE] /\ UNCHANGED <<returns, carbon, refused>>
      /\ call[l] = Idle
  BY DEF Intercept
<1> DEFINE pathway == Pathway(located, route, locker)
           record == [user |-> user, order |-> order, msrp |-> Msrp(row, query, product),
                      located |-> located, route |-> route, pathway |-> pathway]
           credit == [user |-> user, seller |-> Seller(row),
                      co2 |-> CO2Saved(pathway, route), pathway |-> pathway]
           put == [stage |-> "return", id |-> id, record |-> record, credit |-> credit,
                   alone |-> InFlight(id) = {}, ok |-> TRUE]
<1>4. located \in BOOLEAN /\ route \in Nat /\ locker \in Nat
  BY ReturnsAssumption
<1>5. pathway \in Pathways
  BY <1>4, PathwayType
<1>6. Msrp(row, query, product) \in Nat /\ Seller(row) \in Sellers
      /\ CO2Saved(pathway, route) \in Nat
  BY <1>4, MsrpType, SellerType, CO2Type
<1> HIDE DEF pathway, id
<1>7. record \in ReturnRecords /\ credit \in CreditRecords /\ Matched(record, credit)
  BY <1>4, <1>5, <1>6 DEF ReturnRecords, CreditRecords, Matched
<1>8. call' = [m \in Lambdas |->
                IF m = l THEN put
                ELSE IF m \in InFlight(id) THEN [call[m] EXCEPT !.alone = FALSE] ELSE call[m]]
  BY <1>2 DEF pathway, id
<1> HIDE DEF record, credit
<1>9. /\ put \in Puts /\ put.id = id /\ put.record = record /\ put.credit = credit
      /\ put.stage = "return" /\ put.ok = TRUE /\ (put.alone <=> InFlight(id) = {})
  BY <1>1, <1>7 DEF Puts
<1> HIDE DEF put
<1>10. call \in [Lambdas -> Puts \cup {Idle}] /\ settled \in [Ids -> BOOLEAN]
  BY DEF ReturnsInv, TypeOK
<1>11. \A m \in Lambdas : m # l /\ call[m] # Idle =>
         /\ call'[m] \in Puts
         /\ call'[m].id = call[m].id /\ call'[m].stage = call[m].stage
         /\ call'[m].record = call[m].record /\ call'[m].credit = call[m].credit
         /\ call'[m].ok = call[m].ok
         /\ call'[m].alone => call[m].alone /\ call[m].id # id
  <2> SUFFICES ASSUME NEW m \in Lambdas, m # l, call[m] # Idle
               PROVE  /\ call'[m] \in Puts
                      /\ call'[m].id = call[m].id /\ call'[m].stage = call[m].stage
                      /\ call'[m].record = call[m].record /\ call'[m].credit = call[m].credit
                      /\ call'[m].ok = call[m].ok
                      /\ call'[m].alone => call[m].alone /\ call[m].id # id
    OBVIOUS
  <2>1. call[m] \in Puts
    BY <1>10
  <2>2. CASE call[m].id = id
    <3>1. call'[m] = [call[m] EXCEPT !.alone = FALSE]
      BY <1>8, <2>2 DEF InFlight
    <3>2. call'[m].alone = FALSE
      BY <2>1, <3>1 DEF Puts
    <3>3. /\ call'[m] \in Puts
          /\ call'[m].id = call[m].id /\ call'[m].stage = call[m].stage
          /\ call'[m].record = call[m].record /\ call'[m].credit = call[m].credit
          /\ call'[m].ok = call[m].ok
      BY <2>1, <3>1 DEF Puts
    <3> QED
      BY <3>2, <3>3
  <2>3. CASE call[m].id # id
    <3>1. call'[m] = call[m]
      BY <1>8, <2>3 DEF InFlight
    <3> QED
      BY <2>1, <2>3, <3>1
  <2> QED
    BY <2>2, <2>3
<1>12. /\ call'[l] = put
       /\ \A m \in Lambdas : m # l => (call'[m] = Idle <=> call[m] = Idle)
  <2>1. call'[l] = put
    BY <1>8
  <2>2. ASSUME NEW m \in Lambdas, m # l, call[m] = Idle
        PROVE  call'[m] = Idle
    BY <1>8, <2>2 DEF InFlight
  <2>3. ASSUME NEW m \in Lambdas, m # l, call[m] # Idle
        PROVE  call'[m] # Idle
    BY <1>11, <2>3, ReturnsAssumption
  <2> QED
    BY <2>1, <2>2, <2>3
<1>13. TypeOK'
  <2>1. call' \in [Lambdas -> Puts \cup {Idle}]
    <3>1. \A m \in Lambdas : call'[m] \in Puts \cup {Idle}
      BY <1>9, <1>11, <1>12
    <3> QED
      BY <1>8, <3>1
  <2>2. settled' \in [Ids -> BOOLEAN]
    BY <1>3, <1>10
  <2> QED
    BY <1>3, <2>1, <2>2 DEF ReturnsInv, TypeOK
<1>14. \A k \in Ids : settled'[k] => settled[k] /\ k # id
  BY <1>1, <1>3, <1>10
<1>15. PairsAgree' /\ CreditHasReturn'
  BY <1>3, <1>14 DEF ReturnsInv, PairsAgree, CreditHasReturn
<1>16. \A m \in Lambdas : call'[m] # Idle => call'[m].id \in Ids
  BY <1>13 DEF TypeOK, Puts
<1>17. CallSound(l)'
  <2>1. put.alone => \A m \in InFlight(id)' : m = l
    BY <1>9, <1>11, <1>12 DEF InFlight
  <2>2. ~settled'[id]
    BY <1>1, <1>3, <1>10
  <2>3. put.ok /\ put.stage # "credit"
    BY <1>9
  <2> QED
    BY <1>7, <1>9, <1>12, <2>1, <2>2, <2>3, Zenon DEF CallSound
<1>18. ASSUME NEW m \in Lambdas, m # l
       PROVE  CallSound(m)'
  <2> SUFFICES ASSUME call'[m] # Idle
               PROVE  CallSound(m)'
    BY DEF CallSound
  <2>1. call[m] # Idle /\ CallSound(m)
    BY <1>12, <1>18 DEF ReturnsInv
  <2>2. ~settled'[call[m].id]
    BY <1>14, <1>16, <1>11, <1>18, <2>1 DEF CallSound
  <2>5. call'[m].alone => call[m].id # id /\ call[m].alone
    BY <1>11, <1>18, <2>1, Zenon
  <2>3. call'[m].alone => \A n \in InFlight(call[m].id)' : n = m
    <3>1. call[m].id # id => InFlight(call[m].id)' \subseteq InFlight(call[m].id)
      <4> SUFFICES ASSUME call[m].id # id, NEW n \in InFlight(call[m].id)'
                   PROVE  n \in InFlight(call[m].id)
        OBVIOUS
      <4>1. n \in Lambdas /\ call'[n] # Idle /\ call'[n].id = call[m].id
        BY <1>11, <1>18, <2>1 DEF InFlight
      <4>2. n # l
        BY <1>9, <1>12, <4>1
      <4> QED
        BY <1>11, <1>12, <4>1, <4>2 DEF InFlight
    <3>2. call[m].alone => \A n \in InFlight(call[m].id) : n = m
      BY <2>1, Zenon DEF CallSound
    <3> QED
      BY <2>5, <3>1, <3>2, Zenon
  <2>4. call'[m].alone => call[m].alone
    BY <1>11, <1>18, <2>1, Zenon
  <2> QED
    BY <1>3, <1>11, <1>18, <2>1, <2>2, <2>3, <2>4 DEF CallSound
<1> QED
  BY <1>13, <1>15, <1>17, <1>18 DEF ReturnsInv

LEMMA FirstPutKeepsInv ==
  ASSUME ReturnsInv, NEW l \in Lambdas, StoreReturn(l) \/ ReturnRefused(l)
  PROVE  ReturnsInv'
<1> DEFINE c == call[l]
           id == c.id
<1>1. c \in Puts /\ c # Idle /\ c.stage = "return" /\ CallSound(l)
  BY DEF StoreReturn, ReturnRefused, AtStage, ReturnsInv, TypeOK
<1>2. /\ id \in Ids /\ c.record \in ReturnRecords
      /\ UNCHANGED <<carbon, settled>>
      /\ c.record # NoReturn
  BY <1>1, ReturnsAssumption DEF Puts, StoreReturn, ReturnRefused
<1>3. /\ call \in [Lambdas -> Puts \cup {Idle}]
      /\ returns \in [Ids -> ReturnRecords \cup {NoReturn}] /\ refused \in [Ids -> BOOLEAN]
  BY DEF ReturnsInv, TypeOK
<1>4. /\ call'[l] \in Puts /\ call'[l].stage = "credit"
      /\ call'[l].id = id /\ call'[l].record = c.record /\ call'[l].credit = c.credit
      /\ call'[l].alone = c.alone
      /\ call' \in [Lambdas -> Puts \cup {Idle}]
      /\ \A m \in Lambdas : m # l => call'[m] = call[m]
  BY <1>1, <1>3 DEF StoreReturn, ReturnRefused, Puts
<1>5. /\ returns' = returns \/ returns' = [returns EXCEPT ![id] = c.record]
      /\ refused' = refused \/ refused' = [refused EXCEPT ![id] = TRUE]
  BY DEF StoreReturn, ReturnRefused
<1>6. \/ returns'[id] = c.record
      \/ refused'[id] /\ ~call'[l].ok
  <2>1. CASE StoreReturn(l)
    BY <1>2, <1>3, <2>1 DEF StoreReturn
  <2>2. CASE ReturnRefused(l)
    <3>1. refused'[id] = TRUE
      BY <1>2, <1>3, <2>2 DEF ReturnRefused
    <3>2. call'[l].ok = FALSE
      BY <1>1, <1>3, <2>2 DEF ReturnRefused, Puts
    <3> QED
      BY <3>1, <3>2
  <2> QED
    BY <2>1, <2>2
<1>7. /\ \A k \in Ids : k # id => returns'[k] = returns[k]
      /\ \A k \in Ids : returns[k] # NoReturn => returns'[k] # NoReturn
      /\ \A k \in Ids : refused[k] => refused'[k]
      /\ returns' \in [Ids -> ReturnRecords \cup {NoReturn}]
      /\ refused' \in [Ids -> BOOLEAN]
  <2>1. /\ \A k \in Ids : k # id => returns'[k] = returns[k]
        /\ \A k \in Ids : returns[k] # NoReturn => returns'[k] # NoReturn
        /\ returns' \in [Ids -> ReturnRecords \cup {NoReturn}]
    BY <1>2, <1>3, <1>5
  <2>2. \A k \in Ids : refused[k] => refused'[k]
    BY <1>3, <1>5
  <2>3. refused' \in [Ids -> BOOLEAN]
    BY <1>3, <1>5
  <2> QED
    BY <2>1, <2>2, <2>3
<1>8. InFlight(id)' = InFlight(id) /\ \A m \in Lambdas : InFlight(call[m].id)' = InFlight(call[m].id)
  BY <1>1, <1>3, <1>4, ReturnsAssumption DEF InFlight
<1> HIDE DEF c, id
<1>9. TypeOK'
  BY <1>2, <1>4, <1>7 DEF ReturnsInv, TypeOK
<1>10. PairsAgree' /\ CreditHasReturn'
  <2>1. ~settled[id]
    BY <1>1 DEF CallSound, c, id
  <2> QED
    BY <1>2, <1>7, <2>1 DEF ReturnsInv, PairsAgree, CreditHasReturn
<1>11. CallSound(l)'
  <2>1. /\ Matched(call'[l].record, call'[l].credit) /\ ~settled'[id]
    BY <1>1, <1>2, <1>4 DEF CallSound, c, id
  <2>2. returns'[id] # NoReturn \/ (refused'[id] /\ ~call'[l].ok)
    BY <1>2, <1>6
  <2>3. ~call'[l].ok => refused'[id]
    <3>1. CASE StoreReturn(l)
      <4>1. call'[l].ok = c.ok
        BY <1>1, <1>3, <3>1 DEF StoreReturn, Puts, c
      <4>2. c.ok
        BY <1>1 DEF CallSound, c
      <4> QED
        BY <4>1, <4>2, Zenon
    <3>2. CASE ReturnRefused(l)
      <4>1. refused'[id] = TRUE
        BY <1>2, <1>3, <3>2 DEF ReturnRefused, c, id
      <4> QED
        BY <4>1
    <3> QED
      BY <3>1, <3>2
  <2>4. call'[l].ok => returns'[id] = c.record
    BY <1>6, Zenon
  <2>5. call'[l].stage # "return"
    BY <1>4
  <2>6. call'[l].alone => c.alone
    BY <1>4, Zenon
  <2>7. call'[l].ok => returns'[id] # NoReturn
    BY <2>2, Zenon
  <2>8. Matched(call'[l].record, call'[l].credit) /\ ~settled'[call'[l].id]
    BY <1>4, <2>1
  <2>9. call'[l].alone => \A m \in InFlight(call[l].id)' : m = l
    <3>1. InFlight(call[l].id)' = InFlight(call[l].id)
      BY <1>8
    <3>2. c.alone => \A m \in InFlight(call[l].id) : m = l
      BY <1>1, Zenon DEF CallSound, c
    <3> QED
      BY <2>6, <3>1, <3>2, Zenon
  <2>10. /\ call'[l].ok => returns'[call'[l].id] # NoReturn
         /\ ~call'[l].ok => refused'[call'[l].id]
         /\ call'[l].alone /\ call'[l].ok => returns'[call'[l].id] = call'[l].record
    BY <1>4, <2>3, <2>4, <2>7, Zenon
  <2> QED
    BY <2>5, <2>8, <2>9, <2>10, Zenon DEF CallSound
<1>12. ASSUME NEW m \in Lambdas, m # l
       PROVE  CallSound(m)'
  <2> SUFFICES ASSUME call[m] # Idle
               PROVE  CallSound(m)'
    BY <1>4, <1>12 DEF CallSound
  <2>1. call'[m] = call[m] /\ CallSound(m) /\ call[m].id \in Ids
    BY <1>3, <1>4, <1>12 DEF ReturnsInv, Puts
  <2>2. call[m].alone => call[m].id # id
    <3> SUFFICES ASSUME call[m].id = id, call[m].alone
                 PROVE  FALSE
      OBVIOUS
    <3>1. l \in InFlight(call[m].id)
      BY <1>1 DEF InFlight, c, id
    <3> QED
      BY <1>12, <2>1, <3>1 DEF CallSound
  <2> QED
    BY <1>2, <1>7, <1>8, <2>1, <2>2 DEF CallSound
<1> QED
  BY <1>9, <1>10, <1>11, <1>12 DEF ReturnsInv

(* What the end of an invocation, or a repeated put, leaves to the others. *)
LEMMA OthersStaySound ==
  ASSUME ReturnsInv, NEW l \in Lambdas, NEW m \in Lambdas, m # l,
         call'[m] = call[m], call[l] # Idle, call[m] # Idle,
         \A n \in Lambdas : call'[n] # Idle => call'[n] = call[n],
         \A k \in Ids : k # call[l].id => returns'[k] = returns[k] /\ settled'[k] = settled[k],
         \A k \in Ids : returns[k] # NoReturn => returns'[k] # NoReturn,
         settled'[call[l].id] => call[l].alone \/ settled[call[l].id],
         refused' = refused
  PROVE  CallSound(m)'
<1>1. CallSound(m) /\ CallSound(l) /\ call[m].id \in Ids /\ call[l].id \in Ids
  BY DEF ReturnsInv, TypeOK, Puts
<1>2. call[l].id = call[m].id => ~call[l].alone /\ ~call[m].alone
  BY <1>1 DEF CallSound, InFlight
<1>3. InFlight(call[m].id)' \subseteq InFlight(call[m].id)
  BY DEF InFlight
<1>4. ~settled'[call[m].id]
  BY <1>1, <1>2 DEF CallSound
<1> QED
  BY <1>1, <1>2, <1>3, <1>4 DEF CallSound

LEMMA LastPutKeepsInv ==
  ASSUME ReturnsInv, NEW l \in Lambdas, StoreCredit(l) \/ CreditRefused(l) \/ TimeOut(l)
  PROVE  ReturnsInv'
<1> DEFINE c == call[l]
           id == c.id
<1>1. c \in Puts /\ c # Idle /\ CallSound(l)
  BY DEF StoreCredit, CreditRefused, TimeOut, AtStage, ReturnsInv, TypeOK
<1>2. /\ id \in Ids /\ c.credit \in CreditRecords /\ c.credit # NoCredit
      /\ UNCHANGED <<returns, refused>> /\ call' = [call EXCEPT ![l] = Idle]
  BY <1>1, ReturnsAssumption DEF Puts, StoreCredit, CreditRefused, TimeOut
<1>3. /\ call \in [Lambdas -> Puts \cup {Idle}]
      /\ carbon \in [Ids -> CreditRecords \cup {NoCredit}] /\ settled \in [Ids -> BOOLEAN]
  BY DEF ReturnsInv, TypeOK
<1>4. /\ c.alone \in BOOLEAN /\ c.ok \in BOOLEAN
      /\ call' \in [Lambdas -> Puts \cup {Idle}] /\ call'[l] = Idle
      /\ \A m \in Lambdas : m # l => call'[m] = call[m]
  BY <1>1, <1>2, <1>3 DEF Puts
<1>5. \/ UNCHANGED <<carbon, settled>>
      \/ /\ c.stage = "credit"
         /\ carbon' = [carbon EXCEPT ![id] = c.credit]
         /\ settled' = [settled EXCEPT ![id] = c.alone /\ c.ok]
  BY DEF StoreCredit, CreditRefused, TimeOut, CreditId, AtStage
<1> HIDE DEF c, id
<1>6. /\ carbon' \in [Ids -> CreditRecords \cup {NoCredit}]
      /\ \A k \in Ids : k # id => carbon'[k] = carbon[k]
  BY <1>2, <1>3, <1>5
<1>7. /\ settled' \in [Ids -> BOOLEAN]
      /\ \A k \in Ids : k # id => settled'[k] = settled[k]
  <2>1. CASE settled' = settled
    BY <1>3, <2>1
  <2>2. CASE settled' = [settled EXCEPT ![id] = c.alone /\ c.ok]
    <3>1. (c.alone /\ c.ok) \in BOOLEAN
      OBVIOUS
    <3> QED
      BY <1>3, <2>2, <3>1
  <2> QED
    BY <1>5, <2>1, <2>2
<1>8. ~settled[id]
  BY <1>1 DEF CallSound, c, id
<1>9. settled'[id] => /\ c.alone /\ c.ok /\ c.stage = "credit" /\ carbon'[id] = c.credit
  <2>1. CASE settled' = settled
    BY <1>8, <2>1
  <2>2. CASE /\ c.stage = "credit"
             /\ carbon' = [carbon EXCEPT ![id] = c.credit]
             /\ settled' = [settled EXCEPT ![id] = c.alone /\ c.ok]
    <3>1. carbon'[id] = c.credit
      BY <1>2, <1>3, <2>2
    <3>2. settled'[id] = (c.alone /\ c.ok)
      BY <1>2, <1>3, <2>2
    <3> QED
      BY <2>2, <3>1, <3>2
  <2> QED
    BY <1>5, <2>1, <2>2
<1>10. TypeOK'
  BY <1>2, <1>4, <1>6, <1>7 DEF ReturnsInv, TypeOK
<1>11. PairsAgree'
  <2> SUFFICES ASSUME NEW k \in Ids, settled'[k]
               PROVE  /\ returns'[k] # NoReturn /\ carbon'[k] # NoCredit
                      /\ Matched(returns'[k], carbon'[k])
    BY DEF PairsAgree
  <2>1. CASE k = id
    <3>1. returns[id] = c.record /\ returns[id] # NoReturn /\ Matched(c.record, c.credit)
      BY <1>1, <1>9, <2>1 DEF CallSound, c, id
    <3> QED
      BY <1>2, <1>9, <2>1, <3>1
  <2>2. CASE k # id
    BY <1>2, <1>6, <1>7, <2>2 DEF ReturnsInv, PairsAgree
  <2> QED
    BY <2>1, <2>2
<1>12. CreditHasReturn'
  <2>1. c.stage = "credit" => returns[id] # NoReturn \/ refused[id]
    BY <1>1 DEF CallSound, c, id
  <2>2. carbon'[id] = carbon[id] \/ c.stage = "credit"
    BY <1>5
  <2> QED
    BY <1>2, <1>6, <2>1, <2>2 DEF ReturnsInv, CreditHasReturn
<1>13. \A m \in Lambdas : CallSound(m)'
  <2> SUFFICES ASSUME NEW m \in Lambdas, m # l, call[m] # Idle
               PROVE  CallSound(m)'
    BY <1>4 DEF CallSound
  <2>1. \A n \in Lambdas : call'[n] # Idle => call'[n] = call[n]
    BY <1>4
  <2> QED
    BY <1>1, <1>2, <1>4, <1>7, <1>9, <2>1, OthersStaySound DEF c, id
<1> QED
  BY <1>10, <1>11, <1>12, <1>13 DEF ReturnsInv

LEMMA RepeatKeepsInv ==
  ASSUME ReturnsInv, NEW l \in Lambdas, PutRepeated(l)
  PROVE  ReturnsInv'
<1> DEFINE c == call[l]
           id == c.id
<1>1. c \in Puts /\ c # Idle /\ CallSound(l)
  BY DEF PutRepeated, AtStage, ReturnsInv, TypeOK
<1>2. /\ id \in Ids /\ c.credit \in CreditRecords /\ c.credit # NoCredit
      /\ c.record \in ReturnRecords /\ c.record # NoReturn
      /\ UNCHANGED <<call, settled, refused>>
  BY <1>1, ReturnsAssumption DEF Puts, PutRepeated
<1>3. /\ carbon \in [Ids -> CreditRecords \cup {NoCredit}]
      /\ returns \in [Ids -> ReturnRecords \cup {NoReturn}]
  BY DEF ReturnsInv, TypeOK
<1>4. \/ c.stage = "return" /\ returns' = [returns EXCEPT ![id] = c.record] /\ carbon' = carbon
      \/ c.stage = "credit" /\ carbon' = [carbon EXCEPT ![id] = c.credit] /\ returns' = returns
  BY DEF PutRepeated, CreditId, AtStage
<1>5. ~settled[id] /\ (c.stage = "credit" => returns[id] # NoReturn \/ refused[id])
  BY <1>1 DEF CallSound
<1> HIDE DEF c, id
<1>6. /\ returns' \in [Ids -> ReturnRecords \cup {NoReturn}]
      /\ carbon' \in [Ids -> CreditRecords \cup {NoCredit}]
      /\ \A k \in Ids : k # id => returns'[k] = returns[k] /\ carbon'[k] = carbon[k]
      /\ \A k \in Ids : returns[k] # NoReturn => returns'[k] # NoReturn
      /\ carbon'[id] = carbon[id] \/ c.stage = "credit"
  BY <1>2, <1>3, <1>4
<1>7. TypeOK'
  BY <1>2, <1>6 DEF ReturnsInv, TypeOK
<1>8. PairsAgree' /\ CreditHasReturn'
  BY <1>2, <1>5, <1>6 DEF ReturnsInv, PairsAgree, CreditHasReturn
<1>9. CallSound(l)'
  <2>1. c.stage = "credit" => returns' = returns
    BY <1>4
  <2>2. call' = call /\ settled' = settled /\ refused' = refused
    BY <1>2
  <2> QED
    BY <1>1, <2>1, <2>2 DEF CallSound, InFlight, c, id
<1>10. \A m \in Lambdas : CallSound(m)'
  <2> SUFFICES ASSUME NEW m \in Lambdas, m # l, call[m] # Idle
               PROVE  CallSound(m)'
    BY <1>2, <1>9 DEF CallSound
  <2> QED
    BY <1>1, <1>2, <1>6, OthersStaySound DEF c, id
<1> QED
  BY <1>7, <1>8, <1>10 DEF ReturnsInv

LEMMA ReturnsInvHolds == Spec => []ReturnsInv
<1>1. ASSUME ReturnsInv, [Next]_vars
      PROVE  ReturnsInv'
  <2>1. CASE UNCHANGED vars
    BY <1>1, <2>1 DEF vars, ReturnsInv, TypeOK, PairsAgree, CreditHasReturn, CallSound, InFlight
  <2> QED
    BY <1>1, <2>1, InterceptKeepsInv, FirstPutKeepsInv, LastPutKeepsInv, RepeatKeepsInv DEF Next
<1> QED
  BY <1>1, InitReturns, PTL DEF Spec

(* Both tables and every pending put are well typed.                        *)
THEOREM ReturnsTypeCorrect == Spec => []TypeOK
<1>1. ReturnsInv => TypeOK
  BY DEF ReturnsInv
<1> QED
  BY <1>1, ReturnsInvHolds, PTL

(* A request that ran alone and whose writes succeeded leaves a return and  *)
(* a credit that agree, whatever happened on that return before.            *)
THEOREM PairsAlwaysAgree == Spec => []PairsAgree
<1>1. ReturnsInv => PairsAgree
  BY DEF ReturnsInv
<1> QED
  BY <1>1, ReturnsInvHolds, PTL

(* Only a refused PutItem leaves a credit without its return.               *)
THEOREM CreditsHaveReturns == Spec => []CreditHasReturn
<1>1. ReturnsInv => CreditHasReturn
  BY DEF ReturnsInv
<1> QED
  BY <1>1, ReturnsInvHolds, PTL
-----------------------------------------------------------------------------
(* The metrics.  When every stored return is settled, the two tables list    *)
(* the same returns for a user with the same savings, so the two sums pick   *)
(* the same elements in the same order and are defined by one equation.     *)
CreditsOf(user) == {id \in Ids : carbon[id] # NoCredit /\ carbon[id].user = user}

Saving(id) == CO2Saved(returns[id].pathway, returns[id].route)

LEMMA SettledTables ==
  ASSUME ReturnsInv
  PROVE  MetricsMatchReturns
<1> SUFFICES ASSUME \A id \in Ids : returns[id] # NoReturn \/ carbon[id] # NoCredit => settled[id],
                    NEW user \in Users
             PROVE  UserCO2(user) = SavedBy(user)
  BY DEF MetricsMatchReturns
<1> DEFINE S == CreditsOf(user)
           pick(s) == CHOOSE x \in s : TRUE
           IsCredit(it) == it = [s \in SUBSET S |->
             IF s = {} THEN 0 ELSE carbon[pick(s)].co2 + it[s \ {pick(s)}]]
           IsSaving(it) == it = [s \in SUBSET S |->
             IF s = {} THEN 0 ELSE Saving(pick(s)) + it[s \ {pick(s)}]]
<1>1. S = ReturnsOf(user) /\ \A id \in S : carbon[id].co2 = Saving(id)
  BY DEF ReturnsInv, PairsAgree, Matched, CreditsOf, ReturnsOf, Saving
<1>2. UserCO2(user) = (CHOOSE it : IsCredit(it))[S]
  BY DEF UserCO2, CreditsOf, MapThenSumSet, MapThenFoldSet
<1>3. SavedBy(user) = (CHOOSE it : IsSaving(it))[S]
  <2>1. SavedBy(user) = (CHOOSE it : it = [s \in SUBSET ReturnsOf(user) |->
                           IF s = {} THEN 0 ELSE Saving(pick(s)) + it[s \ {pick(s)}]])[ReturnsOf(user)]
    BY DEF SavedBy, Saving, MapThenSumSet, MapThenFoldSet
  <2> HIDE DEF S, pick
  <2> QED
    BY <1>1, <2>1
<1>4. \A it : IsCredit(it) <=> IsSaving(it)
  <2> TAKE it
  <2>1. \A s \in SUBSET S : s # {} => carbon[pick(s)].co2 = Saving(pick(s))
    <3>1. \A s \in SUBSET S : s # {} => pick(s) \in S
      BY Zenon
    <3> QED
      BY <1>1, <3>1
  <2> HIDE DEF S, pick
  <2>2. [s \in SUBSET S |-> IF s = {} THEN 0 ELSE carbon[pick(s)].co2 + it[s \ {pick(s)}]]
        = [s \in SUBSET S |-> IF s = {} THEN 0 ELSE Saving(pick(s)) + it[s \ {pick(s)}]]
    BY <2>1
  <2> QED
    BY <2>2
<1> HIDE DEF S, IsCredit, IsSaving
<1>5. (CHOOSE it : IsCredit(it)) = (CHOOSE it : IsSaving(it))
  BY <1>4
<1> QED
  BY <1>2, <1>3, <1>5

(* Once every stored return is settled, the metrics of a user add up to what *)
(* the returns stored for that user save, for every number of returns.      *)
THEOREM MetricsAlwaysMatch == Spec => []MetricsMatchReturns
<1>1. ReturnsInv => MetricsMatchReturns
  BY SettledTables
<1> QED
  BY <1>1, ReturnsInvHolds, PTL
=============================================================================
