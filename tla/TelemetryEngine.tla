--------------------------- MODULE TelemetryEngine ---------------------------
(***************************************************************************)
(* LogisticsTelemetryEngine: one object with the simulated fleet, orders   *)
(* and alerts.  The Socket.IO server ticks its engine from one event loop; *)
(* the REST service shares one engine among the threads that serve         *)
(* GET .../tick and GET .../metrics, with no lock, so ticks overlap.       *)
(***************************************************************************)
EXTENDS Integers, FiniteSets

CONSTANTS
  Orders,      \* orders of the simulation
  Vehicles,    \* vehicles of the simulation
  Tickers,     \* threads that may run a tick
  Levels,      \* the progress percentages told apart; those below cap progress
  MaxAlerts,   \* alerts kept (50 in the code)
  Idle         \* a thread that runs no tick

Statuses == {"pending", "picked-up", "in-transit", "out-for-delivery", "delivered"}

(* Position in ORDER_STATUSES; "returned", the last one, is never reached. *)
Rank ==
  [s \in Statuses |-> CASE s = "pending" -> 0 [] s = "picked-up" -> 1
                        [] s = "in-transit" -> 2 [] s = "out-for-delivery" -> 3
                        [] s = "delivered" -> 4]
NextStatus(s) == CHOOSE n \in Statuses : Rank[n] = Rank[s] + 1

ProgressMap ==
  [s \in Statuses |-> CASE s = "pending" -> 0 [] s = "picked-up" -> 15 [] s = "in-transit" -> 50
                        [] s = "out-for-delivery" -> 85 [] s = "delivered" -> 100]

VARIABLES
  orders,    \* orders[o]: status, progress, has a vehicle, eta above zero
  fleet,     \* fleet[v]: status of the vehicle
  alerts,    \* length of the alert list
  tick       \* tick[t]: what thread t has read and is about to write

engineVars == <<orders, fleet, alerts, tick>>

OrderStates == [status : Statuses, progress : Levels, vehicle : BOOLEAN, eta : BOOLEAN]

(* A tick between two orders, one that is about to write the next status of  *)
(* an order and then what goes with it, and one that raises its progress.   *)
Ticks ==
  [at : {"fleet", "orders", "cut"}, left : SUBSET Orders] \cup
  [at : {"status", "progress"}, left : SUBSET Orders, order : Orders,
   base : OrderStates, next : Statuses] \cup
  [at : {"creep"}, left : SUBSET Orders, order : Orders, base : OrderStates]

ASSUME EngineAssumption ==
  /\ {0, 15, 50, 85, 99, 100} \subseteq Levels /\ Levels \subseteq 0 .. 100
  /\ MaxAlerts \in Nat \ {0}
  /\ Idle \notin Ticks

(* A new order; its progress is taken as the first level of its status.  One *)
(* on its way has a vehicle, a delivered one has none.                    *)
InitOrders ==
  {o \in OrderStates :
     /\ o.vehicle <=> o.status \in {"in-transit", "out-for-delivery"}
     /\ o.eta <=> o.status \notin {"delivered", "pending"}
     /\ o.progress = ProgressMap[o.status]}

EngineInit ==
  /\ orders \in [Orders -> InitOrders]
  /\ fleet \in [Vehicles -> {"idle", "en-route", "returning"}]
  /\ alerts = 0
  /\ tick = [t \in Tickers |-> Idle]

StartTick(t) ==
  /\ tick[t] = Idle
  /\ tick' = [tick EXCEPT ![t] = [at |-> "fleet", left |-> Orders]]
  /\ UNCHANGED <<orders, fleet, alerts>>

(* A vehicle that is en route stays so.                                   *)
Moves(s) == CASE s = "en-route" -> {"en-route"}
              [] s = "returning" -> {"returning", "idle"}
              [] s = "idle" -> {"idle", "en-route"}

MoveVehicles(t) ==
  /\ tick[t] # Idle /\ tick[t].at = "fleet"
  /\ \E f \in [Vehicles -> {"idle", "en-route", "returning"}] :
       /\ \A v \in Vehicles : f[v] \in Moves(fleet[v])
       /\ fleet' = f
  /\ tick' = [tick EXCEPT ![t].at = "orders"]
  /\ UNCHANGED <<orders, alerts>>

(* mutant: an order that is put in transit gets no vehicle *)
CarriedBefore(order, next) == order.vehicle

Carried(order, next) == order.vehicle \/ next = "in-transit"

Creep(p) == IF p >= 99 THEN {99} ELSE {q \in Levels : p <= q /\ q <= 99}

(* mutant: an order that is already delivered is progressed too *)
ProgressesAlways(order) == TRUE

Progresses(order) == order.status # "delivered"

(* The next order of the tick is read: skipped (delivered, or no minutes    *)
(* left), chosen for its next status, or its progress is to be raised.    *)
ReadOrder(t) ==
  /\ tick[t] # Idle /\ tick[t].at = "orders"
  /\ \E o \in tick[t].left :
       LET rest == tick[t].left \ {o}
           Goes(w) == tick' = [tick EXCEPT ![t] = w]
       IN \/ /\ ~Progresses(orders[o]) \/ ~orders[o].eta
             /\ Goes([at |-> "orders", left |-> rest])
          \/ /\ Progresses(orders[o]) /\ orders[o].status # "delivered"
             /\ Goes([at |-> "status", left |-> rest, order |-> o, base |-> orders[o],
                      next |-> NextStatus(orders[o].status)])
          \/ /\ Progresses(orders[o]) /\ orders[o].eta
             /\ Goes([at |-> "creep", left |-> rest, order |-> o, base |-> orders[o]])
  /\ UNCHANGED <<orders, fleet, alerts>>

WriteStatus(t) ==
  /\ tick[t] # Idle /\ tick[t].at = "status"
  /\ orders' = [orders EXCEPT ![tick[t].order].status = tick[t].next]
  /\ tick' = [tick EXCEPT ![t].at = "progress"]
  /\ UNCHANGED <<fleet, alerts>>

(* The fields that go with a status.                                       *)
Accompanied(order, next) ==
  [order EXCEPT !.progress = ProgressMap[next],
                !.vehicle = Carried(order, next),
                !.eta = order.eta /\ next # "delivered"]

WriteProgress(t) ==
  /\ tick[t] # Idle /\ tick[t].at = "progress"
  /\ orders' = [orders EXCEPT ![tick[t].order] = Accompanied(@, tick[t].next)]
  /\ tick' = [tick EXCEPT ![t] = [at |-> "orders", left |-> @.left]]
  /\ UNCHANGED <<fleet, alerts>>

CreepProgress(t) ==
  /\ tick[t] # Idle /\ tick[t].at = "creep"
  /\ \E p \in Creep(tick[t].base.progress) \cup Creep(orders[tick[t].order].progress),
        eta \in {FALSE, tick[t].base.eta} :
       orders' = [orders EXCEPT ![tick[t].order] = [@ EXCEPT !.progress = p, !.eta = eta]]
  /\ tick' = [tick EXCEPT ![t] = [at |-> "orders", left |-> @.left]]
  /\ UNCHANGED <<fleet, alerts>>

(* mutant: the list of alerts is never cut *)
CutNever(n) == n

Cut(n) == IF n > MaxAlerts THEN MaxAlerts ELSE n

(* After the last order: perhaps an alert, appended and then cut.          *)
RaiseAlert(t) ==
  /\ tick[t] # Idle /\ tick[t].at = "orders" /\ tick[t].left = {}
  /\ alerts' = alerts + 1
  /\ tick' = [tick EXCEPT ![t] = [at |-> "cut", left |-> {}]]
  /\ UNCHANGED <<orders, fleet>>

EndTick(t) ==
  /\ tick[t] # Idle /\ tick[t].at \in {"orders", "cut"} /\ tick[t].left = {}
  /\ alerts' = IF tick[t].at = "cut" THEN Cut(alerts) ELSE alerts
  /\ tick' = [tick EXCEPT ![t] = Idle]
  /\ UNCHANGED <<orders, fleet>>

EngineNext ==
  \E t \in Tickers :
    \/ StartTick(t) \/ MoveVehicles(t) \/ ReadOrder(t) \/ WriteStatus(t)
    \/ WriteProgress(t) \/ CreepProgress(t) \/ RaiseAlert(t) \/ EndTick(t)

-----------------------------------------------------------------------------
(* Types of the engine; the alert list exceeds its limit by the alerts that *)
(* running ticks have appended and not yet cut, never by more.             *)
EngineTypeOK ==
  /\ orders \in [Orders -> OrderStates]
  /\ fleet \in [Vehicles -> {"idle", "en-route", "returning"}]
  /\ alerts \in 0 .. MaxAlerts + Cardinality({t \in Tickers : tick[t] # Idle /\ tick[t].at = "cut"})
  /\ tick \in [Tickers -> Ticks \cup {Idle}]

(* An order on its way has a vehicle, except while the tick that put it in   *)
(* transit has written the status and not yet the vehicle.                 *)
OnTheWayHasVehicle ==
  \A o \in Orders :
    orders[o].status \in {"in-transit", "out-for-delivery"} /\ ~orders[o].vehicle =>
      \E t \in Tickers : /\ tick[t] # Idle /\ tick[t].at = "progress"
                         /\ tick[t].order = o /\ tick[t].next = "in-transit"

(* An order moves back in its life, or a delivered one drops below 100 per   *)
(* cent, only by the write of a tick that had read it in another state:     *)
(* ticks that do not overlap never undo one another.                       *)
OnlyOverlapsUndo ==
  [][\A o \in Orders :
       \/ Rank[orders'[o].status] < Rank[orders[o].status]
       \/ orders[o].status = "delivered" /\ orders'[o].progress < orders[o].progress
       => \E t \in Tickers :
            /\ tick[t] # Idle /\ tick[t].at \in {"status", "progress", "creep"}
            /\ tick'[t] # tick[t] /\ tick[t].order = o
            /\ tick[t].base.status # orders[o].status
            /\ tick[t].at = "progress" => tick[t].next # orders[o].status]_engineVars
=============================================================================
