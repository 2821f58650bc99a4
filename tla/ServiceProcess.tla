--------------------------- MODULE ServiceProcess ----------------------------
(***************************************************************************)
(* The parts of the Python service that main.py puts into one process and   *)
(* that share no state with each other: what one of them does leaves the     *)
(* others as they are, so that a behaviour shows the requests to one part,   *)
(* in every interleaving of its threads, and the others at rest.  Listings,  *)
(* chain and accounts, which other programs work on too, are modelled in     *)
(* modules of their own.                                                  *)
(***************************************************************************)
EXTENDS TelemetryEngine, CatalogCache, TrustGraph, TryOn, UnitRepairs, GtinCheck,
        Triage, FleetPlan, RouteSearch

VARIABLE part   \* the part that is asked

Parts == {"telemetry", "catalog", "trust", "try-on", "units", "gtin", "triage", "fleet", "routing"}

vars == <<engineVars, catalogVars, trustVars, tryOnVars, unitVars, checkedGtin, decision,
          fleetVars, searchVars, part>>

(* A part at rest is as good as any of its initial states.                  *)
FleetRest ==
  /\ scenario = CHOOSE sc \in Scenarios : TRUE
  /\ routeOf = << >> /\ routes = << >> /\ demands = << >> /\ todo = {}
  /\ phase = "merge" /\ own = CHOOSE n \in Asked : TRUE
  /\ generations = 5 /\ rounds = 0 /\ population = << >> /\ history = 0

SearchRest ==
  /\ point = CHOOSE p \in Points : TRUE
  /\ asked = CHOOSE n \in AskedRounds : TRUE
  /\ members = << >> /\ generation = 0 /\ front = << >>

EngineRest ==
  /\ orders = [o \in Orders |-> CHOOSE s \in InitOrders : s.status = "pending"]
  /\ fleet = [v \in Vehicles |-> "idle"]
  /\ alerts = 0 /\ tick = [t \in Tickers |-> Idle]

Init ==
  /\ part \in Parts
  /\ IF part = "fleet" THEN FleetInit ELSE FleetRest
  /\ IF part = "routing" THEN SearchInit ELSE SearchRest
  /\ IF part = "telemetry" THEN EngineInit ELSE EngineRest
  /\ CatalogInit /\ GtinInit /\ TriageInit
  /\ TrustInit /\ (part # "trust" => returns = CHOOSE rows \in Tables : TRUE)
  /\ TryOnInit /\ (part # "try-on" => idm = FALSE)
  /\ UnitInit /\ (part # "units" => units = [u \in UnitIds |-> Seeded("A", 0)])

Next ==
  /\ \/ part = "telemetry" /\ EngineNext
     \/ part = "catalog" /\ CatalogNext
     \/ part = "trust" /\ TrustNext
     \/ part = "try-on" /\ TryOnNext
     \/ part = "units" /\ UnitNext
     \/ part = "gtin" /\ VerifyGtin
     \/ part = "triage" /\ TriageNext
     \/ part = "fleet" /\ FleetNext
     \/ part = "routing" /\ SearchNext
  /\ IF part = "telemetry" THEN TRUE ELSE UNCHANGED engineVars
  /\ IF part = "catalog" THEN TRUE ELSE UNCHANGED catalogVars
  /\ IF part = "trust" THEN TRUE ELSE UNCHANGED trustVars
  /\ IF part = "try-on" THEN TRUE ELSE UNCHANGED tryOnVars
  /\ IF part = "units" THEN TRUE ELSE UNCHANGED unitVars
  /\ IF part = "gtin" THEN TRUE ELSE UNCHANGED checkedGtin
  /\ IF part = "triage" THEN TRUE ELSE UNCHANGED decision
  /\ IF part = "fleet" THEN TRUE ELSE UNCHANGED fleetVars
  /\ IF part = "routing" THEN TRUE ELSE UNCHANGED searchVars
  /\ UNCHANGED part

Spec == Init /\ [][Next]_vars
-----------------------------------------------------------------------------
(* Every delivery of a fleet request is on exactly one route, once, and no   *)
(* route carries more than the limit, however routes are joined and turned   *)
(* (fleet_optimizer.py, solve).                                            *)
RoutesSound == part = "fleet" => RoutesPartition /\ RoutesFit

(* The routing search sorts its members into the fronts of the definition,   *)
(* and the front that it answers with is a trade-off that ends at the        *)
(* cheapest plan (nsga2_routing.py, _non_dominated_sort and optimize).      *)
SearchSound == part = "routing" => FrontsAreLayers /\ FrontTradesOff
=============================================================================
