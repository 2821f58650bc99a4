# CircularCommerce in TLA+

This directory specifies CircularCommerce ("SecondLife Commerce"): what its handlers
do to the tables and in-memory stores they share when requests overlap, fail, are
repeated or time out, how its client follows, and what its searches compute. The
modules are translated from the source; TLC
checks them on small instances and TLAPS proves the main results for every value
of the constants.

    tlc -workers 2 -config ListingsRaces.cfg MCListings    # model-check one run
    tlapm Listings_proofs.tla                              # check one proof module

Runs, properties, source lines of every definition, hazards and theorems are
listed in `PROJECT.json`.

## 1. The system

| Component | Where | State | Operations |
|---|---|---|---|
| Marketplace listings and passport | `return-intercept/main.go` | listings table: status, owner list, passport blocks | POST/PUT `/listing`, POST `/dpp` |
| Escrow | same | matches table: terms, `locked`/`released` | POST `/escrow/lock`, `/escrow/release` |
| Return interception, impact metrics | same | returns and carbon tables | POST `/return/intercept`, GET `/user/metrics`, `/seller/metrics` |
| Media upload, AI inspection, catalog, routing | same | none of their own | GET `/return/media-url`, `/catalog`; helpers |
| Listing endpoints of the service | `ml-service/main.py` | listings table: status, escrow status | `/listing/create`, PUT `/listing`, `/listing/{id}/transition` |
| Passport chain | `blockchain_dpp.py` | `self.chain` in memory | record, history, verify, export, import |
| Catalog cache | `catalog_cache.py`, `main.py` | Redis key, memory copy with expiry | GET `/catalog`, start-up load |
| Accounts and tokens | `auth.py` | `_USER_STORE` in memory, signed tokens | register, login, `/auth/me`, `/auth/users`, `/user/metrics` |
| Logistics simulation | `logistics_telemetry.py` | fleet, orders, alerts in memory | tick, snapshots |
| WebSocket connections | `ws_lambda_handlers.py`, `logistics_ws_server.py` | connection table | connect, disconnect, message, broadcast |
| Trust graph | `network_fraud.py` | one graph per process | rebuild and evaluate |
| Virtual try-on | `vto_orchestrator.py`, `*_vto_*.py`, `vto_*.py` | result cache, result files, engine | generate with fallbacks |
| Unit inventory | `unit_inventory.py` | units with grade, status, worth | list, repair |
| GTIN verification | `gs1_verification.py` | constant table | verify, verify batch |
| Compliance, disposition, triage | `regulatory_compliance.py`, `gemini_ai_integrations.py`, `main.py` | constant tables | `/compliance/check`, `/ml/triage`, `/ml/triage-enhanced` |
| Optimisers | `fleet_optimizer.py`, `nsga2_routing.py` | population per call, one shared tuner | savings routes, greedy fleet, two genetic searches |
| Serial numbers, registry, QR and NFC | `serial_verification.py`, `product_registry.py`, `qr_nfc_generator.py` | constant tables | checks, lookups, formatting |
| Prices, sizes, demand, friction, AI adapters | remaining `ml-service` files | none | pure functions, external calls |
| Web client | `frontend/src` | session, telemetry connection, views | login, silent refresh, polling and sockets |

How they interact. The Go function and the Python service are two back ends
over DynamoDB; each has its own listings table and its own idea of a listing's
life cycle, and the client calls both. Within a back end the components share
state only through tables (Lambda) or module globals (service). The client
reaches the service through REST and through one of two socket transports. Redis
holds the catalog that the service builds from its listings table.

What is hard here:

* **Lambda invocations overlap.** Handlers read with `GetItem`, which is not a
  consistent read, check the copy, and store the whole item with an
  unconditional `PutItem`. A `PutItem` reported as failed may have been applied,
  the AWS client repeats one whose answer it lost, and an invocation can be
  killed at its time limit between any two calls.
* **FastAPI runs `def` endpoints on a thread pool**: module globals (accounts,
  engine, graph, try-on cache, units, tuner) are shared by threads without a
  lock, and processes restart with empty stores.
* **Two writes without a transaction** (a return and its carbon credit), and
  stores of which one may fail (Redis or the copy in memory).
* **The browser**: late answers, several tabs with one token, lost sockets,
  fallback timers.
* **Searches that mutate in place**: routes filed under keys that joins change,
  fronts peeled by counters, populations cut at a limit.

What makes each part correct:

* a listing follows its life cycle and its two histories of owners agree; funds
  are paid once per locking under the terms they were locked under; escrow
  status and listing status move together and locked funds are settled before they
  are let go; the two records of a return tell one story; the chain keeps every
  recorded event and its blocks form a tree;
* an account changes hands only by a race or a restart, and a tab shows the user
  whose token its requests carry;
* updates reach a screen, from one source, and closed connections leave the table;
* simulated orders move forward with a vehicle, the catalog moves forward too,
  a trust score is that of the rows it reads and never charges for a tie that is
  not there, a try-on shows who asked for it, a unit is worth its grade;
* a wrong digit is not called a counterfeit, a flawless item is not recycled;
* routes visit every delivery once within the limit, a plan's vehicles exist and
  fit, and a search never loses its best.

## 2. Modules and the code

All modules share one way of modelling. A handler is split where another
invocation can get in between: an action up to the last read of shared state,
and an action per write. `call[l]` holds what an invocation has decided to write
and, as history, the copy (`base`) it decided on. Failures are actions of their
own (`PutFailed`, `PutRetried`, `TimeOut`). Identifiers, users and terms are
model values; prices, timestamps, texts and media do not occur unless a decision
depends on them.

**Listings** (`main.go:543-676`, `759-839`). `table[id]` is the stored item:
status, user, owner list, passport. `PostListing`, `PutListing` and `PostDPP`
are the handlers up to the write, with their answers 404, 400 and 500.
`LaggingReads` lets `GetItem` return `replica[id]`, an older copy that
`Replicate` refreshes. `MaxBlocks` bounds the passport. *ListingLifecycle* is
the abstract machine: each request takes effect at once, available -> reserved
-> sold. `new_status` values other than `reserved` and `sold` are accepted by
the code for any listing that is not sold (`Relabel`); the client sends such
values, among them its action names.

**Escrow** (`main.go:678-757`). `matches[m]` is the record; `locked` (terms it was
locked under), `stored` (lock records stored, late repetitions included) and
`paid` (payouts by releases that read the record as it was) are history
variables. *EscrowLedger* is the abstract machine of a locking that is paid out at
most once.

**Returns** (`main.go:273-541`, `1072-1104`). `Intercept` is everything up to the
first `PutItem`: the order read (a failed read counts as no order), the price,
the predicted margin, the pathway and the saved CO2, in scaled integers. Then
`StoreReturn`/`ReturnRefused` and `StoreCredit`/`CreditRefused`; an error is only
logged and the second write is made in either case. `alone` and `ok` in `call`,
`settled` and `refused` are history. A stored return keeps the distance that its
pathway and CO2 were computed from. The order and the AI service are only read
and no other handler writes the orders table, so that part is one step.
`UserCO2` is `GET /user/metrics`.

**ServiceListings** (`ml-service/main.py:532-581`, `667-749`). Same idea for
boto3: `create` and PUT read nothing, the transition reads and then updates
status and escrow status. A create draws six hex digits, so it may find a listing
under its id (`CreateOverItem`) unless `FreshIds`. *ListingEscrow* is its state
machine.

**ProvenanceChain** (`blockchain_dpp.py`). `record_event` is three steps: it
reads the tail's hash, then the length (`ReadTail`, `ReadLength`), mines, and
appends (`AppendBlock`, atomic in CPython). A hash stands for what it was
computed from, that is, SHA-256 is taken as collision-free. `ExportChain`,
`ImportChain` (refuses a chain that does not verify) and `Restart` complete it.
`torn` is a history variable: an import happened while an event was being
recorded. *ProvenanceLog* is the abstract append-only log.

**Accounts** and **WebSession** (`auth.py`; `AuthContext.tsx`). `users` is
`_USER_STORE`, keyed by address and seeded anew at each `Restart`. A registration
is two steps, because bcrypt runs between the check for a free address
(`RegisterUser`) and the store (`StoreUser`). A token is its claims: it is judged
by signature and age alone, so it survives the account. WebSession adds the tabs
of one browser: the token in localStorage (`stored`, shared), the user each tab
shows, and the silent refresh under way. `RefreshUser` is a page load: it drops
what the tab had in progress, shows the claims and asks `/auth/me`;
`RefreshArrives` sets the user without looking at the token stored by then.
`reborn` (addresses whose account was lost or replaced) and `seen` are history.

**LiveUpdates** (`useLogisticsTelemetry.ts`, `ws_lambda_handlers.py`,
`logistics_ws_server.py`). One screen: the refs `wsMode` and `polling`, the flag
it shows, the snapshot request, the fallback timer and the socket, in the
variant that `VITE_WS_URL` selects (`aws`). `StartPolling(flag)` is
`startPolling` after its caller set the flag; a native socket whose `onerror`
already started polling gets its `onclose` later (`Closed`). The server keeps
`table`; `DisconnectHandler` may never run with API Gateway, and `Broadcast`
deletes every connection that it could not post to, open ones included.

**WebClient** composes WebSession and LiveUpdates, which share nothing: the hook
of the screen reads neither token nor user. A behaviour shows one at work.

**ServiceProcess** composes the parts of the Python process that share no state
with each other. Each part is a module with its own variables, `Init` and `Next`;
a behaviour drives one of them (`part`), which is enough because no other part
can observe it.

* *TelemetryEngine* (`logistics_telemetry.py`): a tick moves the vehicles, then
  reads each order and decides, writes its status, then progress and vehicle,
  then perhaps an alert that is appended and cut. Ticks of several threads
  interleave between these steps. `Creep` raises progress to at most 99.
* *CatalogCache* (`catalog_cache.py`, `main.py:418-504`): `client` is
  `_redis_client` (the first ping decides for good), `redis` and `memory` are
  entries with a version of the listings and an expiry. `Ask` is a lookup; a
  miss loads (`Load`: any version up to the current one, because the scan is not a
  consistent read, or 0 when DynamoDB fails: the demo list) and stores (`Store`:
  Redis, or memory when that fails). The first ping and the call after it fail
  separately. `unsure` is history: loads that overlapped or read an older version.
  `Edit` is a write to the listings that tells the cache nothing.
* *TrustGraph* (`network_fraud.py`): `Begin` replaces the shared graph,
  `OwnReturns` and `OtherReturns` add the query's rows and those of one page of the
  scan (`ScanLimit`, 100 in the code), `Evaluate` reads whatever graph is there
  then. `clean` is history: nobody overlapped and no read failed.
* *TryOn* (`vto_orchestrator.py`, `kolors_vto_local.py`, `idm_vton_client.py`,
  `main.py:332-370`): cache lookup, download, Kolors (local weights or remote
  client, chosen once), IDM with its timeout, local drape (which may fail), a file
  named for the second, and the entry in the cache that is never dropped. The height
  that a user enters counts as part of the size.
* *UnitRepairs* (`unit_inventory.py`): a repair assigns grade, status, worth and
  history one after another; worth comes from a table of its own.
* *GtinCheck* (`gs1_verification.py`): one verification of a code typed with at
  most one wrong digit, from format and check digit to registry and local table.
* *Triage* (`regulatory_compliance.py`, the rule engine of
  `gemini_ai_integrations.py`, `main.py:196-238`, `1103-1156`): one request to
  one of the three endpoints. What the AI model answers is any pathway or none. A
  date of manufacture with a time zone makes the check raise.
* *SavingsRoutes*, extended by *FleetPlan* (`fleet_optimizer.py`): one fleet
  request. Joins in the order of savings with the three dictionaries `route_of`,
  `routes` and `demands`; then greedy assignment (`Assign`) and the genetic search
  with elite, crossover and mutation; the tuner's `generations` is shared with
  `OtherRequest`. Random draws are choices from constant sets.
* *RouteSearch* (`nsga2_routing.py`): one routing request: evaluation,
  non-dominated sort with its counters, crowding distance, survivors, tournament,
  crossover, mutation with renumbering, answer and knee.

Numbers: distances and demands are whole; costs, emissions and weights are scaled
to integers so that scores compare as in the code. Orders of ties are the code's
(stable sorts, first of equals).

The two listing tables are different tables in the code (`ListingsTable`,
`SecondLife_Listings`), so no module composes Listings with ServiceListings;
Listings composes its handlers for listing and passport over one item, which is
where they interfere.

## 3. Runs

| Run | Question | Bounds |
|---|---|---|
| `listings_races` | types; the owner list and the passport agree in every stored item; a step outside the life cycle is a write of an outdated copy | 2 invocations, 1 listing, 2 users, passports of 3 blocks, lagging reads and repeats |
| `escrow_races` | types; stored terms were locked; payouts are at most the number of invocations per lock record stored; a step outside the ledger is an outdated release | 3 invocations, 2 terms, lagging reads, repeats, at most 3 lock records stored |
| `chain_log` | types; the blocks form a tree; no event is missing from its history; the events are an append-only log | 2 threads, 2 events, chains of 3 blocks and what was pending, imports and restarts |
| `service_races` | types; escrow follows status; only stale advances and colliding creates leave the state machine; locked funds are settled before the escrow is cleared, with the exceptions named | 2 workers, 1 listing, statuses `advance` and `sold` by PUT, lagging reads, repeats, ids in use |
| `returns_races` | types; return and credit match; a credit has a return; metrics add up | 2 invocations, 2 users, 2 ids of which one is the default id |
| `web_client` | accounts change hands only by a race or a restart; a tab contradicts the stored token only after another tab's change or a late answer; the profile is that of the token's holder; with API Gateway one source of updates; what can make a screen claim updates it does not get; a screen gets its first updates; closed connections leave the table | session: 2 tabs, one demo address and one to register, 2 roles (one invalid), one restart or one expired token; screen: both variants, at most 5 lost sockets or remounts, any number of failed posts |
| `service_process` | the nine parts of the process, see below | per part, see below |
| `chain_fork` | does an untouched chain verify? **Violated** | 2 threads |
| `gtin_known` | are the codes of the service's own table accepted? **Violated** | the three codes and their one-digit slips |
| `returns_pathway` | is a cheap located return offered to a buyer nearby, as the handler's test expects? **Violated** | one invocation, price 1500 |
| `live_fallback` | does a screen whose updates stop fall back to polling, as the documentation says? **Violated** | one screen, at most 3 faults, the fairness of section 4 |
| `triage_grade` | is an item of grade A never recycled by the rules? **Violated** | one item, the four prices around the limits, both spellings of a grade |

`service_process` asks, per part:

| Part | Properties | Bounds |
|---|---|---|
| telemetry | OnTheWayHasVehicle, OnlyOverlapsUndo | 2 threads, 1 order, 1 vehicle, 6 levels of progress, alert limit 1 |
| catalog | CatalogSettles | 2 requests and the start-up load, lifetime 2 of 5 clock ticks, 2 edits, 2 failures or restarts, any late reads |
| trust | OnlyOverlapsMisjudge, OnlyRealTiesCount | 2 threads, 2 users, 2 devices, tables of 0, 2 and 5 rows, missing marks, pages of 4 rows |
| try-on | TryOnsOwn | 2 threads, 2 photos (one unreadable), 2 products (one clothing), 2 sizes, 2 seconds, nothing new once one entry is cached |
| units | RepairsAgree | 2 threads, 1 unit, grades B, D and one that is none |
| gtin | SlipsAreNoCounterfeits | 5 codes of 14 and 8 digits, every single wrong digit |
| fleet | RoutesSound, PlanHonest, SeedsNeverBeaten | 3 scenarios of 3 or 4 deliveries, populations of 3, up to 2 generations |
| routing | SearchSound, ExtremesSurvive | 3 deliveries, populations of 3, 2 generations, one mutated gene per child |

Triage is a part of this run without a property of its own: 9 items of every kind
of restriction go through its endpoints, and what is said of it is `triage_grade`.

Why the bounds are enough. The operations of tables address one key each and never
compare two, so one key shows all interference, except in Returns, where a
default id and a client's id may name one order. Two actors suffice for
read-check-write races; the payout bound counts actors and is checked with three,
where a lock record can be stored three times, once as a late repetition.
Two users (or terms, photos, sizes) suffice to tell two requests apart. A passport
of three blocks is one beyond publication. `listings_races` knows no status besides
`available`, `reserved` and `sold`, to stay small; its theorems cover any others.
In `web_client` five faults leave room for a loss, a remount and a loss after it.
There one restart or one expiry (`OneLoss`) separates accounts of one address from
each other, and claims from a token; ids and passwords of later restarts would be
told apart in the same way. In `catalog` the clock runs for two lifetimes and one
tick, so an entry of each store can expire after the last failure. In `trust` the
table of five rows is longer than the page, and its last row would change a score
if it were read. The scenarios of `fleet` are chosen so that
joins of all four kinds occur, limits and green zones exclude vehicles, and one
stop is out of reach of the electric types; those of `routing` so that a front
exceeds the population. The theorems of section 5 hold for all sizes.

Symmetry is used where no definition tells the values apart and no liveness
property is checked. `OneLoss` and `Bounds` (of MCEscrow) are state constraints; no liveness property
speaks of the session that the first one bounds.

What a passing run may be relied on for. One family says that writes that overlap
do damage in one way only, by storing what was computed from an outdated copy:
`OnlyStaleWritesBreakLifecycle`, `OnlyStaleWritesBreakLedger`,
`OnlyStaleAdvancesBreakCycle`, `OnlyRacesReplaceAccounts`, `OnlyLateAnswersMislead`,
`OnlyOverlapsUndo` and `OnlyOverlapsMisjudge`. They classify, they do not exclude:
each names the steps by which the code does go wrong and shows that a conditional
write, or a lock, would repair the handler and that its checks need no change. The
other family holds of the races themselves:

* `PayoutsBounded` bounds the damage of overlapping releases and of repeated locks.
* `FundsHeld` lets funds go unsettled only under a status that PUT `/listing` set,
  by a stale advance, or by a create that finds the listing.
* `PairsAgree`, `CreditHasReturn` and `MetricsMatchReturns` hold in every
  interleaving of the two writes of a return.
* `OnlyRealTiesCount` holds for the mixture of graphs that overlapping trust scores
  leave to each other: nobody is charged for a tie that no return shows.
* `OnTheWayHasVehicle`, `LineageSound` and `CatalogSettles` likewise.

Deadlock checking is off throughout: an instance may stop, when every bound is
reached or every endpoint has no request left, as a server without requests does.

Disagreements with documents, comments and tests. The five violation runs (quoted
in `PROJECT.json`): an untouched chain fails `verify-integrity` after two
overlapping events; the check digit of every code in the service's own GTIN table
is refused; the rule engine finds the letter D in "Grade A"; the margin model of
the return handler is constant, so the cheap located return of its own test is
never matched with a buyer; a screen whose API Gateway socket had been open does
not fall back to REST polling, because `wsMode` stays set and `startPolling`
returns. Others were met on the way and are what the passing properties leave open:

* "Cannot change state of sold listing", "Listing is not available for
  reservation" and "Cannot release funds" are answers that overlapping
  invocations evade: the stale writes that the three first properties name.
* "Buyer payment held in escrow until pickup confirmation"
  (`PRODUCT_DOCUMENTATION.md:699`) fails in the three cases that `FundsHeld` names. The
  first takes no overlap: PUT `/listing` relabels a reserved listing, and the next
  advance clears its locked escrow. So requests served one after the other do not
  always hold funds either.
* Nothing in the repository promises a catalog that follows writes to the listings
  at once (`Edit`), what a return starts from when its order cannot be read, how a
  category is to be read from the product id of the enhanced triage, or for how
  many generations a fleet request evolves that another one overlaps. These are
  modelled, so that all other properties hold whatever happens there, and no
  property is stated about them.

## 4. Fairness

Only LiveUpdates, and WebClient with it, states fairness (`LiveFairness`); all other
properties are safety properties and hold in behaviours that stop anywhere: an
invocation can always be killed and nothing promises progress beyond an answer per
request. `LiveFairness` is weak fairness of four things.

* `FallbackTimer`: `setTimeout` fires (3 s) while the screen is mounted.
* `Connect \/ ConnectError \/ Closed`: an attempt to connect ends one way or the
  other, and `onerror` is followed by `onclose`; browser and Socket.IO guarantee it.
* `~aws /\ DisconnectHandler`: Socket.IO notices a lost peer by its heartbeat.
* `CleanBroadcast`: the schedule repeats the broadcast, and not every repetition
  meets a passing failure. Without this a post or a delete could fail for ever.

Nothing is promised for sockets that stay open, screens that stay mounted, the
answer of the snapshot, and the `$disconnect` route. Under these assumptions
`UpdatesBegin` and `StaleRemoved` hold, and `FallsBackToPolling`, which speaks of every
loss of updates and not of the first connection only, does not.

## 5. Proofs

Each `*_proofs` module extends the module it is about and TLAPS. The constants'
assumptions are the `...Assumption` formulas of the modules: sentinels differ
from data, Booleans are Booleans, bounds are natural numbers, `available` is a
status a client can send, `Lambdas` is finite (for the payout bound only),
distances and demands are natural numbers and no single delivery exceeds the
limit, what mutations add is whole, and a population has room for its two seeds. No
theorem assumes a number of actors or keys.

* **Listings_proofs.** `SoundInv` extends TypeOK and PassportsSound to every
  copy an invocation holds and to replicas: a stored item is sound because
  whatever will be stored is already sound. The core lemma is `ExtendedSound`:
  appending a block together with its owner keeps the embedding of the owner list
  into the passport. `JustifiedInv` says that each pending write is what a handler
  builds from the item it read; from it follows that a write is a life cycle step
  unless the item changed. `SerialHandlersImplementLifecycle` is the refinement
  for requests that do not overlap: `FreshInv` says that a pending write was then
  computed from the stored item, or is stored already and will be repeated.
* **Escrow_proofs.** `EscrowInv` gives type correctness and TermsWereLocked. The
  payout bound needs the stronger `PayoutsInv`: unless the match is held, what was
  paid and the invocations that still hold a current release (`Due`) are together
  at most the number of invocations for each lock record stored; storing another
  one, repeated or new, brings room for a whole round. It is proved with
  cardinalities. Then the two ledger theorems, as for listings.
* **ProvenanceChain_proofs.** Types; `LineageAlwaysSound` by an invariant that,
  until `torn`, ties every pending block to a block of the chain below the
  position where it will land; the refinement `ChainImplementsLog`, without any
  condition; and `SerialChainVerifies`. `HistoriesAlwaysComplete` rests on one fact
  that survives every interleaving: the first block and no other has index 0.
* **ServiceListings_proofs.** `ServiceInv` (types, and each pending write's pair of
  statuses) gives EscrowAlwaysFollowsStatus; then the two state machine theorems.
  `FundsAlwaysHeld` combines them: a locked escrow belongs to a reserved listing or
  to a status of PUT (EscrowFollowsStatus), every other step is one of the state
  machine, and of these each settles what it clears (`CycleSettles`).
* **Returns_proofs.** `ReturnsInv` adds to the properties what every invocation in
  flight holds: its record and credit match, a run that is alone on its id is the
  only one, and after a successful first write of such a run the stored return is
  its own. The pair of an id is settled only by such a run. `MetricsAlwaysMatch` is
  about both tables as wholes: what their rows add up to is the same once every
  pair is settled, whatever number of rows there is.
* **WebSession_proofs.** `SessionTypes` (types; a pending registration saw the
  address free; a refresh answers with the address of its token) gives the
  account and the tab theorem. ProfileIsHolders is not inductive: `KnownInv` says
  that whatever carries an address that is not in `reborn` (stored token, tab,
  refresh, answer on its way) carries the id of the account stored under it.
  Every step can only add to `reborn`, so what is known stays known.
* **LiveUpdates_proofs.** `LinkInv`: with API Gateway there is no timer, and while
  a socket is connecting or failed none had been open; hence nothing polls once
  `wsMode` is set. The flag theorem is a case split over the steps under it.
* **ServiceProcess_proofs.** `StepsOfParts` reduces a step of the process to a step
  or a stutter of each part; then one invariant per part.
  `TickInv`: what a tick is about to write belongs to the order it read, and an
  order between its two writes is the one without a vehicle.
  `CacheInv`: an entry stored since the last trouble is in the one store that the
  service looks at and no older than what was answered last, and a request that
  no other one overlapped and that read the current table stores nothing older
  either.
  `TryInv`: cache entries, pictures on their way and answers show the request
  they belong to, and so do files that nothing of the same second replaced.
  `UnitInv`: during a repair alone on its unit, the fields it has
  passed are its own. `RoutesInv`: RoutesSound with sequences without repetition,
  kept by the four ways to join (`Appended`, `Turned`, `JoinedVisits`).
  `FleetInv` adds to RoutesInv that the demand on file for a key is the sum over the
  deliveries filed under it (`LoadsInv`) and what the population holds
  (`EvolveInv`): genomes with natural counts whose weights share one hundred, the
  two seeds in front before the first generation, and after it a first genome at
  least as fit as both. A plan is honest because of `Handed`: at every point of
  the greedy assignment, vehicles handed out and vehicles left add up to the
  counts of the genome, and every vehicle handed out can serve its route.
  `SearchInv`: while a routing request runs, its members are a whole population of
  individuals judged by the scenario (natural vehicles and cost, `OffspringJudged`),
  and an answer trades off among them. The counting sort is proved round by round:
  `Released` says that a count is the number of dominators not yet walked and that
  the next front lists those who lost the last one, `Layered` that the fronts so far
  are the layers; that it places everyone needs that dominance has no cycle
  (`AllPlaced`, by the sum of vehicles and cost). A generation keeps both ends because
  only four members of a front, the ends of its two orders, have the largest
  crowding distance (`CrowdingSpreads`), so that among three taken by falling distance
  one has the lowest cost and one the fewest vehicles (`EndIsTaken`); with two
  members this is false, and the theorem excludes it as the property does.
  `GtinInv` and `WrongDigitShows`: a digit changed by d changes the weighted sum by
  d or 3d, which ten does not divide. `TrustInv`: what a request that ran alone has
  read so far is what the rows of the page give. `RealInv`: in the graph, whoever
  built which part of it, every edge is shown and every score noted by a return;
  row by row along the scan (`ScanIsReal`). So suspects are ties (`SuspectsAreTies`).

**Data.** The library's induction theorems cannot be instantiated here, so what a
sum, a fold or a sort computes for every input is proved by the least
counterexample: a set of finite sets has a smallest member (`SmallestSet`, from the
well-foundedness of the naturals), and a value that is wrong for it would be wrong for
the set without one element. That a recursion over subsets has a solution at
all is `SubsetRecursion`. On them rest the lemmas about sums (`SumTakesAny`,
`SumSame`, `SumGrows`, `SumDisjoint`, `SumMapped`), about folds along a sequence
(`FoldsExist`) and about ranks (`FirstOfAll`, `Ranks`): things ranked by a value and
ties by their number have the ranks 1 to n. Loops over numbers that a LET function
computes have a solution by `RunExists` and are followed round by round with `UpTo`;
`SortingSorts` says what sorted() returns for every key.

Only model-checked: the liveness properties (UpdatesBegin, StaleRemoved), which
need ENABLED. The violation runs are counterexamples by nature.

## 6. Not modelled

`PROJECT.json` lists every component with its reason. In short:

* Pure arithmetic and calls of external models (prices, sizes, demand, friction,
  metrics, AI adapters) have no state to check; what an external model answers is
  an input where a decision depends on it (Triage, TryOn).
* Serial numbers, the product registry, QR and NFC payloads: constant tables,
  sums over characters and formatting.
* The compositing of try-on pictures and the video try-on: numeric image code
  that works on one request's data. The pose and size measures are part of the
  rating, which TryOn keeps as the request it belongs to.
* Screens issue one request per click; these requests are inputs of the
  modelled endpoints. Presigning, distances and geohashes do not influence
  stored state (the pathway that would use distances is in `Pathway`, with the
  distance as an input).
* Of the modelled handlers, left out are answers' bodies, logging, payload
  attributes, and the pages of scans beyond the first where the code sets no limit
  of its own; of the simulation positions, speeds and
  dates; of the trust graph the cached answers for demo data; of GTINs the batch
  (a loop of single verifications); of the genetic searches the random draws
  beyond the sets given, and emissions that are only reported.

## 7. Plan

Done: every module that the survey planned. First the tables of the two back ends
with their abstract specifications and proofs (Listings, Escrow, ProvenanceChain,
ServiceListings, Returns); then the accounts with the client's session, the live
updates with their liveness, and the parts of the Python process with the
optimisers; then the proofs about these.

The set of runs is kept at a dozen. Questions about races of listings and escrow
are answered by the stale-write properties of the passing runs (section 3).

Left: serial numbers, if their checks come to decide anything that is stored.
