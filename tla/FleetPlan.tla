------------------------------ MODULE FleetPlan ------------------------------
(***************************************************************************)
(* One POST /api/v1/fleet/optimize: routes by savings, a greedy choice of   *)
(* vehicle types, a genetic search over fleet limits and weights, and the   *)
(* report.  All requests share one GeneticFleetTuner, whose field          *)
(* "generations" each request sets just before it reads it.                *)
(* Kilometres and demands are whole; cost in tenths, emissions in grams,    *)
(* weights in per cent, so that scores compare as the code compares them.   *)
(***************************************************************************)
EXTENDS SavingsRoutes, SequencesExt, FiniteSetsExt

CONSTANTS
  PopSize,         \* size of the population (5 in the code)
  RandomGenomes,   \* [counts, alpha]: outcomes of the random initial genomes
  Drifts,          \* outcomes of the random change of a weight (-10 .. 10)
  Mutations,       \* outcomes of the random change of a count (-2 .. 2)
  Asked            \* numbers of generations that requests ask for

VTypes == {"cargo-bike", "ev-pod", "hybrid-van", "diesel-truck"}
Position == [v \in VTypes |-> CASE v = "cargo-bike" -> 1 [] v = "ev-pod" -> 2
                                [] v = "hybrid-van" -> 3 [] v = "diesel-truck" -> 4]
FleetTypes ==
  [v \in VTypes |->
    CASE v = "cargo-bike" ->
           [capacity |-> 3, fixed |-> 500, perKm |-> 15, co2 |-> 0, range |-> 30, zero |-> TRUE]
      [] v = "ev-pod" ->
           [capacity |-> 6, fixed |-> 1000, perKm |-> 25, co2 |-> 0, range |-> 80, zero |-> TRUE]
      [] v = "hybrid-van" ->
           [capacity |-> 12, fixed |-> 2000, perKm |-> 50, co2 |-> 45, range |-> 200, zero |-> FALSE]
      [] v = "diesel-truck" ->
           [capacity |-> 25, fixed |-> 4000, perKm |-> 100, co2 |-> 210, range |-> 400, zero |-> FALSE]]

ASSUME FleetAssumption ==
  /\ PopSize \in Nat /\ PopSize >= 2
  /\ Asked \subseteq Nat /\ Drifts \subseteq Int /\ Mutations \subseteq Int
  /\ \A g \in RandomGenomes : g.counts \in [VTypes -> Nat] /\ g.alpha \in 20 .. 90

VARIABLES
  phase,         \* "merge", "tune", "evolve" or "done"
  own,           \* ga_generations of this request
  generations,   \* ga_tuner.generations, shared
  rounds,        \* generations that this evolution is to run
  population,    \* genomes, best first after a generation
  history        \* number of entries of evolution_history

planVars == <<phase, own, generations, rounds, population, history>>
fleetVars == <<routeVars, planVars>>

TourLength(r) ==
  LET leg == [x \in DOMAIN r |-> IF x = Len(r) THEN scenario.dist[r[x], 0]
                                 ELSE scenario.dist[r[x], r[x + 1]]]
  IN scenario.dist[0, r[1]] + SumFunction(leg)

Route(k) ==
  [demand |-> SumFunction([x \in DOMAIN routes[k] |-> scenario.demand[routes[k][x]]]),
   km |-> TourLength(routes[k]),
   green |-> \E x \in DOMAIN routes[k] : routes[k][x] \in scenario.green]

(* mutant: the green zone is not looked at *)
UsableAnywhere(v, route, counts) ==
  /\ counts[v] > 0
  /\ route.demand <= FleetTypes[v].capacity /\ route.km <= FleetTypes[v].range

Usable(v, route, counts) ==
  /\ counts[v] > 0
  /\ route.demand <= FleetTypes[v].capacity
  /\ route.km <= FleetTypes[v].range
  /\ route.green => FleetTypes[v].zero

Cost(v, route) == FleetTypes[v].fixed + route.km * FleetTypes[v].perKm
CO2(v, route) == route.km * FleetTypes[v].co2
Score(v, route, g) == 5 * g.alpha * Cost(v, route) + g.beta * CO2(v, route)

(* The vehicle of least score, the first of those that tie.               *)
Best(route, counts, g) ==
  LET usable == {v \in VTypes : Usable(v, route, counts)}
      before(v, w) == \/ Score(v, route, g) < Score(w, route, g)
                      \/ Score(v, route, g) = Score(w, route, g) /\ Position[v] < Position[w]
  IN IF usable = {} THEN "unassigned"
     ELSE CHOOSE v \in usable : \A w \in usable \ {v} : before(v, w)

(* Routes by falling length, ties by their key; each takes one vehicle of    *)
(* what the ones before have left.                                         *)
Assign(g) ==
  LET last(S) == CHOOSE k \in S : \A m \in S \ {k} :
                   \/ Route(m).km > Route(k).km
                   \/ Route(m).km = Route(k).km /\ m < k
      take(k, acc) ==
        LET v == Best(Route(k), acc.counts, g) IN
        [counts |-> IF v = "unassigned" THEN acc.counts ELSE [acc.counts EXCEPT ![v] = @ - 1],
         vehicle |-> [acc.vehicle EXCEPT ![k] = v]]
      none == [counts |-> g.counts, vehicle |-> [k \in DOMAIN routes |-> "unassigned"]]
  IN MapThenFoldSet(take, none, LAMBDA k : k, last, DOMAIN routes).vehicle

Assigned(vehicle) == {k \in DOMAIN routes : vehicle[k] # "unassigned"}
Optimal(vehicle) == Assigned(vehicle) = DOMAIN routes
TotalCost(vehicle) == SumFunction([k \in Assigned(vehicle) |-> Cost(vehicle[k], Route(k))])
TotalCO2(vehicle) == SumFunction([k \in Assigned(vehicle) |-> CO2(vehicle[k], Route(k))])

(* fitness_combined, 20-fold: an unassigned route costs nothing.           *)
Fitness(g) == LET vehicle == Assign(g) IN TotalCost(vehicle) + 10 * TotalCO2(vehicle)

CostGenome ==
  [counts |-> [v \in VTypes |-> Cardinality(DOMAIN routes)], alpha |-> 100, beta |-> 0]
GreenGenome ==
  [counts |-> [v \in VTypes |-> IF FleetTypes[v].zero THEN Cardinality(DOMAIN routes) ELSE 0],
   alpha |-> 0, beta |-> 100]

FleetInit ==
  /\ SolveInit
  /\ phase = "merge" /\ own \in Asked
  /\ generations = 5
  /\ rounds = 0 /\ population = << >> /\ history = 0

Solve ==
  /\ phase = "merge"
  /\ IF todo = {} THEN phase' = "tune" /\ UNCHANGED routeVars
     ELSE /\ \E p \in todo : MergeNext(p)
          /\ UNCHANGED phase
  /\ UNCHANGED <<own, generations, rounds, population, history>>

SetGenerations ==
  /\ phase = "tune" /\ phase' = "evolve"
  /\ generations' = own
  /\ UNCHANGED <<routeVars, own, rounds, population, history>>

(* Another request sets the field of the shared tuner.                    *)
OtherRequest ==
  /\ phase \in {"tune", "evolve"} /\ population = << >>
  /\ generations' \in Asked
  /\ UNCHANGED <<routeVars, phase, own, rounds, population, history>>

(* evolve: the random genomes, the two seeds in front, range(generations).  *)
StartEvolve ==
  /\ phase = "evolve" /\ population = << >>
  /\ \E random \in [3 .. PopSize -> RandomGenomes] :
       population' = [x \in 1 .. PopSize |->
         CASE x = 1 -> CostGenome [] x = 2 -> GreenGenome
           [] x >= 3 -> [counts |-> random[x].counts, alpha |-> random[x].alpha,
                         beta |-> 100 - random[x].alpha]]
  /\ rounds' = generations
  /\ UNCHANGED <<routeVars, phase, own, generations, history>>

Clamp(n, low, high) == IF n < low THEN low ELSE IF n > high THEN high ELSE n

(* mutant: a count may fall below zero *)
ChangedFreely(n, m) == n + m

Changed(n, m) == IF n + m < 0 THEN 0 ELSE n + m

(* A child of two genomes of the elite.                                   *)
Children(a, b) ==
  {[counts |-> [v \in VTypes |-> IF v = w THEN Changed(c[v], m) ELSE c[v]],
    alpha |-> Clamp((a.alpha + b.alpha) \div 2 + d, 5, 95),
    beta |-> 100 - Clamp((a.alpha + b.alpha) \div 2 + d, 5, 95)] :
     c \in {f \in [VTypes -> {a.counts[v] : v \in VTypes} \cup {b.counts[v] : v \in VTypes}] :
              \A v \in VTypes : f[v] \in {a.counts[v], b.counts[v]}},
     w \in VTypes, m \in Mutations \cup {0}, d \in Drifts}

(* mutant: the elite is taken from behind the best genome *)
EliteOffByOne(ranked) == SubSeq(ranked, 2, 3)

(* max(2, pop_size // 4) genomes survive, for up to 11 genomes two.         *)
Elite(ranked) == SubSeq(ranked, 1, IF PopSize \div 4 > 2 THEN PopSize \div 4 ELSE 2)

(* The population by rising fitness, ties in their order.                  *)
ByFitness(fitness) ==
  LET before(x) == {y \in 1 .. PopSize :
                      fitness[y] < fitness[x] \/ (fitness[y] = fitness[x] /\ y < x)}
  IN [p \in 1 .. PopSize |->
        population[CHOOSE x \in 1 .. PopSize : Cardinality(before(x)) = p - 1]]

Generation ==
  /\ phase = "evolve" /\ population # << >> /\ history < rounds
  /\ \E fitness \in {[x \in 1 .. PopSize |-> Fitness(population[x])]} :
       \E elite \in {Elite(ByFitness(fitness))} :
         LET parents == {xy \in (DOMAIN elite) \X (DOMAIN elite) : xy[1] # xy[2]}
         IN \E child \in [1 .. PopSize - Len(elite) ->
                          UNION {Children(elite[xy[1]], elite[xy[2]]) : xy \in parents}] :
              population' = elite \o child
  /\ history' = history + 1
  /\ UNCHANGED <<routeVars, phase, own, generations, rounds>>

Finish ==
  /\ phase = "evolve" /\ population # << >> /\ history = rounds
  /\ phase' = "done"
  /\ UNCHANGED <<routeVars, own, generations, rounds, population, history>>

FleetNext == Solve \/ SetGenerations \/ OtherRequest \/ StartEvolve \/ Generation \/ Finish

FleetSpec == FleetInit /\ [][FleetNext]_fleetVars

(* The report: a route without a vehicle is priced as a hybrid van.         *)
Reported(v) == IF v = "unassigned" THEN "hybrid-van" ELSE v
KpiCost(vehicle) ==
  SumFunction([k \in DOMAIN routes |-> Cost(Reported(vehicle[k]), Route(k))])
GreenViolations(vehicle) ==
  {k \in DOMAIN routes : Route(k).green /\ ~FleetTypes[Reported(vehicle[k])].zero}

-----------------------------------------------------------------------------
(* The fields the request works on: a population is as large as configured  *)
(* and its weights are shares of one hundred.                             *)
FleetTypeOK ==
  /\ phase \in {"merge", "tune", "evolve", "done"} /\ own \in Asked
  /\ history <= rounds
  /\ Len(population) \in {0, PopSize}
  /\ \A x \in DOMAIN population :
       /\ population[x].counts \in [VTypes -> Nat]
       /\ population[x].alpha + population[x].beta = 100

(* Whatever genome wins, the vehicles it hands out exist, carry the load of *)
(* their route, reach its end and enter a green zone only without emission; *)
(* so the violations that the report counts are routes without a vehicle,   *)
(* and its cost is the cost of the plan exactly when every route has one.   *)
PlanHonest ==
  \A x \in DOMAIN population :
    LET g == population[x]
        vehicle == Assign(g)
    IN /\ \A v \in VTypes : Cardinality({k \in DOMAIN routes : vehicle[k] = v}) <= g.counts[v]
       /\ \A k \in Assigned(vehicle) :
            LET type == FleetTypes[vehicle[k]] IN
            /\ demands[k] <= type.capacity /\ Route(k).km <= type.range
            /\ Route(k).green => type.zero
       /\ GreenViolations(vehicle) \cap Assigned(vehicle) = {}
       /\ (KpiCost(vehicle) = TotalCost(vehicle)) <=> Optimal(vehicle)

(* The search never ends below the two plans it was seeded with: after any  *)
(* generation the first genome scores at least as well as the pure cost and *)
(* the pure green one, though selection and mutation replace the others.    *)
SeedsNeverBeaten ==
  history > 0 =>
    /\ Fitness(population[1]) <= Fitness(CostGenome)
    /\ Fitness(population[1]) <= Fitness(GreenGenome)
=============================================================================
