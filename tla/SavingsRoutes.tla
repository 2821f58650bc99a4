---------------------------- MODULE SavingsRoutes ----------------------------
(***************************************************************************)
(* ClarkeWrightSolver.solve: every delivery starts as a route of its own;  *)
(* pairs of deliveries are taken by falling saving, and the two routes are  *)
(* joined when both deliveries are at an end of their route and the joined  *)
(* demand fits.  routes and demands are keyed by a delivery, and route_of   *)
(* says under which key a delivery is filed.                              *)
(***************************************************************************)
EXTENDS Integers, Sequences, FiniteSets, SequencesExt

CONSTANTS
  Scenarios,     \* delivery scenarios: deliveries 1 .. n around the depot 0
  MaxCapacity    \* demand that a route may carry

Deliveries(sc) == 1 .. sc.n
Pairs(sc) == {p \in Deliveries(sc) \X Deliveries(sc) : p[1] < p[2]}

ASSUME ScenariosAssumption ==
  /\ MaxCapacity \in Nat
  /\ \A sc \in Scenarios :
       /\ sc.n \in Nat
       /\ sc.demand \in [Deliveries(sc) -> Nat] /\ sc.green \subseteq Deliveries(sc)
       /\ sc.dist \in [(0 .. sc.n) \X (0 .. sc.n) -> Nat]
       /\ \A i \in Deliveries(sc) : sc.demand[i] <= MaxCapacity

VARIABLES
  scenario,   \* the nodes given to solve
  routeOf,    \* route_of
  routes,     \* routes: key -> deliveries in order
  demands,    \* demands: key -> summed demand
  todo        \* pairs not considered yet

routeVars == <<scenario, routeOf, routes, demands, todo>>

SolveInit ==
  /\ scenario \in Scenarios
  /\ routeOf = [i \in Deliveries(scenario) |-> i]
  /\ routes = [i \in Deliveries(scenario) |-> <<i>>]
  /\ demands = scenario.demand
  /\ todo = Pairs(scenario)

Saving(p) ==
  scenario.dist[0, p[1]] + scenario.dist[0, p[2]] - scenario.dist[p[1], p[2]]

Fits(ri, rj) == demands[ri] + demands[rj] <= MaxCapacity

(* The joined route, or the empty one when i or j is inside its route.      *)
Joined(a, b, i, j) ==
  IF a[Len(a)] = i /\ b[1] = j THEN a \o b
  ELSE IF a[1] = i /\ b[Len(b)] = j THEN b \o a
  ELSE IF a[Len(a)] = i /\ b[Len(b)] = j THEN a \o Reverse(b)
  ELSE IF a[1] = i /\ b[1] = j THEN Reverse(a) \o b
  ELSE << >>

(* mutant: only the delivery of the pair is filed under the new key *)
RefiledAlone(ri, j) == [routeOf EXCEPT ![j] = ri]

Refiled(ri, j) ==
  [x \in DOMAIN routeOf |-> IF routeOf[x] = routeOf[j] THEN ri ELSE routeOf[x]]

Join(p) ==
  LET ri == routeOf[p[1]]
      rj == routeOf[p[2]]
      new == Joined(routes[ri], routes[rj], p[1], p[2])
      left == DOMAIN routes \ {rj}
  IN IF ri # rj /\ Fits(ri, rj) /\ new # << >>
     THEN /\ routeOf' = Refiled(ri, p[2])
          /\ routes' = [k \in left |-> IF k = ri THEN new ELSE routes[k]]
          /\ demands' = [k \in left |->
                           IF k = ri THEN demands[ri] + demands[rj] ELSE demands[k]]
     ELSE UNCHANGED <<routeOf, routes, demands>>

(* The next pair: no other one saves more.                                *)
MergeNext(p) ==
  /\ p \in todo
  /\ \A q \in todo : Saving(q) <= Saving(p)
  /\ todo' = todo \ {p}
  /\ Join(p)
  /\ UNCHANGED scenario

-----------------------------------------------------------------------------
(* Every delivery is on exactly one route and once on it: the routes are    *)
(* filed under the keys that route_of gives, a key is on its own route, and  *)
(* no route repeats a delivery (solve joins, reverses and deletes routes    *)
(* under keys that it reads from route_of).                               *)
RoutesPartition ==
  /\ DOMAIN routes = DOMAIN demands
  /\ routeOf \in [Deliveries(scenario) -> DOMAIN routes]
  /\ \A k \in DOMAIN routes :
       /\ routes[k] \in Seq(Deliveries(scenario)) /\ routes[k] # << >>
       /\ {routes[k][x] : x \in DOMAIN routes[k]} = {i \in DOMAIN routeOf : routeOf[i] = k}
       /\ \A x, y \in DOMAIN routes[k] : routes[k][x] = routes[k][y] => x = y

(* No route carries more than the limit.                                  *)
RoutesFit == \A k \in DOMAIN routes : demands[k] <= MaxCapacity
=============================================================================
