---------------------------- MODULE CatalogCache -----------------------------
(***************************************************************************)
(* GET /catalog of the service and the cache in front of the listings       *)
(* table: Redis when it answered the first ping, and a copy in the memory   *)
(* of the process when a Redis call failed.  Requests run in threads; the   *)
(* start-up handler fills the cache before the first request.              *)
(***************************************************************************)
EXTENDS Integers

CONSTANTS
  Readers,     \* requests that may be in progress at once
  Startup,     \* the start-up handler, run like a request that missed
  TTL,         \* ttl_seconds (3600), in ticks of the clock
  MaxClock,    \* bound on the clock
  MaxEdits,    \* bound on the writes to the listings table
  MaxOutages   \* bound on failed calls and restarts

ASSUME CacheAssumption ==
  /\ Startup \notin Readers
  /\ TTL \in Nat \ {0} /\ MaxClock \in Nat /\ MaxEdits \in Nat /\ MaxOutages \in Nat

VARIABLES
  table,      \* version of the listings in DynamoDB, from 1
  client,     \* _redis_client: "unset", "redis" or "off" (False)
  redis,      \* the entry in Redis: [version, until], Missing when absent
  memory,     \* the entry of _memory_cache
  clock,
  reading,    \* [at, version] of a request: "idle", "load" or "store"
  unsure,     \* history: requests in progress that another one overlapped,
              \* or that read the table late or not at all
  latest,     \* history: version answered last
  unsettled,  \* history: time of the last failed call or unsure store
  outages     \* failed calls and restarts so far

catalogVars == <<table, client, redis, memory, clock, reading, unsure, latest, unsettled, outages>>

Missing == [version |-> 0, until |-> 0]
DemoVersion == 0
Rest == [at |-> "idle", version |-> 0]

CatalogInit ==
  /\ table = 1 /\ client = "unset"
  /\ redis = Missing /\ memory = Missing
  /\ clock = 0 /\ unsure = {} /\ latest = 0 /\ unsettled = 0 - TTL /\ outages = 0
  /\ reading = [r \in Readers \cup {Startup} |->
                  IF r = Startup THEN [at |-> "load", version |-> 0] ELSE Rest]

(* Any call to a store may fail, at most MaxOutages times in all.           *)
Note(failed) ==
  /\ failed => outages < MaxOutages
  /\ outages' = IF failed THEN outages + 1 ELSE outages

(* _get_redis: the first caller pings, the outcome is kept for good.        *)
Connections == IF client = "unset" THEN {"redis", "off"} ELSE {client}

(* The ping fails, or the call that follows it does.                        *)
CallFailed(link, ok) == IF link = "redis" THEN ~ok ELSE client = "unset"

Live(entry) == entry.until > clock

(* mutant: the copy in memory is served whatever its age *)
InMemoryForever == memory.until > 0

InMemory == Live(memory)

(* get_catalog of catalog_cache: Redis, then memory.                       *)
Cached(link, ok) ==
  IF link = "redis" /\ ok /\ Live(redis) THEN redis
  ELSE IF InMemory THEN memory ELSE Missing

InProgress == {r \in DOMAIN reading : reading[r] # Rest}

Ask(r) ==
  /\ reading[Startup] = Rest /\ r \in Readers /\ reading[r] = Rest
  /\ \E link \in Connections, ok \in BOOLEAN :
       /\ Note(CallFailed(link, ok))
       /\ client' = link
       /\ unsettled' = IF CallFailed(link, ok) THEN clock ELSE unsettled
       /\ IF Cached(link, ok) # Missing
          THEN latest' = Cached(link, ok).version /\ UNCHANGED <<reading, unsure>>
          ELSE /\ reading' = [reading EXCEPT ![r].at = "load"]
               /\ unsure' = IF InProgress = {} THEN unsure ELSE unsure \cup InProgress \cup {r}
               /\ UNCHANGED latest
  /\ UNCHANGED <<table, redis, memory, clock>>

(* _load_catalog_from_source: the scan is not a consistent read and may show *)
(* an older state; the demo list when the table cannot be read.            *)
Load(r) ==
  /\ reading[r].at = "load"
  /\ \E version \in {DemoVersion} \cup 1 .. table :
       /\ Note(version = DemoVersion)
       /\ reading' = [reading EXCEPT ![r] = [at |-> "store", version |-> version]]
       /\ unsure' = IF version = table THEN unsure ELSE unsure \cup {r}
  /\ UNCHANGED <<table, client, redis, memory, clock, latest, unsettled>>

(* set_catalog: Redis, or the memory when that fails; then the answer.      *)
Store(r) ==
  /\ reading[r].at = "store"
  /\ \E link \in Connections, ok \in BOOLEAN :
       LET entry == [version |-> reading[r].version, until |-> clock + TTL]
           inRedis == link = "redis" /\ ok
       IN /\ Note(CallFailed(link, ok))
          /\ client' = link
          /\ redis' = IF inRedis THEN entry ELSE redis
          /\ memory' = IF inRedis THEN memory ELSE entry
          /\ unsettled' = IF CallFailed(link, ok) \/ r \in unsure THEN clock ELSE unsettled
  /\ latest' = IF r = Startup THEN latest ELSE reading[r].version
  /\ reading' = [reading EXCEPT ![r] = Rest]
  /\ unsure' = unsure \ {r}
  /\ UNCHANGED <<table, clock>>

(* A listing is written; no handler tells the cache.                       *)
Edit ==
  /\ table <= MaxEdits /\ table' = table + 1
  /\ UNCHANGED <<client, redis, memory, clock, reading, unsure, latest, unsettled, outages>>

Tick ==
  /\ clock < MaxClock /\ clock' = clock + 1
  /\ UNCHANGED <<table, client, redis, memory, reading, unsure, latest, unsettled, outages>>

(* A restart of the process: what Redis holds survives.                    *)
Restart ==
  /\ outages < MaxOutages /\ outages' = outages + 1
  /\ client' = "unset" /\ memory' = Missing /\ unsure' = {}
  /\ reading' = [r \in Readers \cup {Startup} |->
                   IF r = Startup THEN [at |-> "load", version |-> 0] ELSE Rest]
  /\ UNCHANGED <<table, redis, clock, latest, unsettled>>

CatalogNext ==
  \/ \E r \in Readers \cup {Startup} : Ask(r) \/ Load(r) \/ Store(r)
  \/ Edit \/ Tick \/ Restart

CatalogSpec == CatalogInit /\ [][CatalogNext]_catalogVars

-----------------------------------------------------------------------------
(* The catalog goes back to an older state of the listings only while one   *)
(* lifetime of an entry has not passed since a call to Redis or the table   *)
(* failed, or since something was stored that lagged behind the table when  *)
(* it was read or that two overlapping requests had loaded: what a restart,  *)
(* an outage or a late read leaves in one of the two caches is not shown     *)
(* again later.                                                           *)
CatalogSettles == [][latest' < latest => clock - unsettled' < TTL]_catalogVars
=============================================================================
