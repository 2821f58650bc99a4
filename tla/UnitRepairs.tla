----------------------------- MODULE UnitRepairs -----------------------------
(***************************************************************************)
(* UnitInventoryEngine: the units, each with its own grade, and the repairs *)
(* of them, which run on several threads without a lock.                    *)
(***************************************************************************)
EXTENDS Naturals

CONSTANTS
  Repairers,   \* threads that serve repairs
  UnitIds,     \* keys of units_db
  Regrades     \* grades that repairs are entered with

VARIABLES
  units,     \* units_db
  repair,    \* repair[t]: the request of thread t and the field it writes next
  split      \* history: two repairs of the unit overlapped

unitVars == <<units, repair, split>>

Grades == {"A", "B", "C", "D"}

(* What a unit is worth, in percent of the price of a new one: the table     *)
(* that units are seeded from.                                             *)
SeedWorth(grade) ==
  CASE grade = "A" -> 95 [] grade = "B" -> 80 [] grade = "C" -> 60 [] grade = "D" -> 35

Seeded(grade, history) ==
  [grade |-> grade, status |-> IF grade = "D" THEN "In Repair" ELSE "Available",
   worth |-> SeedWorth(grade), history |-> history]

(* How many repairs a new unit may have behind it.                          *)
Histories(grade) == CASE grade = "A" -> {0} [] grade = "D" -> {1} [] OTHER -> {0, 1}

NoRepair == [next |-> "none"]

UnitInit ==
  /\ units \in [UnitIds -> UNION {{Seeded(grade, h) : h \in Histories(grade)} : grade \in Grades}]
  /\ repair = [t \in Repairers |-> NoRepair]
  /\ split = [u \in UnitIds |-> FALSE]

(* mutant: the lookup of a repaired grade misses its last entry *)
RepairWorthOfABC(grade) ==
  CASE grade = "A" -> 95 [] grade = "B" -> 80 [] grade = "C" -> 60 [] OTHER -> 50

(* depreciation_map: a grade that is none of the four halves the price.      *)
RepairWorth(grade) ==
  CASE grade = "A" -> 95 [] grade = "B" -> 80 [] grade = "C" -> 60 [] grade = "D" -> 35
    [] OTHER -> 50

(* A repair of a unit that is not there is refused, and no step.            *)
StartRepair(t) ==
  /\ repair[t].next = "none"
  /\ \E u \in UnitIds, grade \in Regrades,
        status \in {"Available", "In Repair"}, noted \in BOOLEAN :
       /\ repair' = [repair EXCEPT ![t] =
            [next |-> "grade", unit |-> u, grade |-> grade, status |-> status, noted |-> noted]]
       /\ split' = [split EXCEPT ![u] =
            @ \/ \E o \in Repairers : repair[o].next # "none" /\ repair[o].unit = u]
  /\ UNCHANGED units

(* The fields are assigned one by one.                                      *)
WriteUnit(t) ==
  LET r == repair[t]
  IN /\ r.next # "none"
     /\ units' = [units EXCEPT ![r.unit] =
          CASE r.next = "grade"  -> [@ EXCEPT !.grade = r.grade]
            [] r.next = "status" -> [@ EXCEPT !.status = r.status]
            [] r.next = "worth"  -> [@ EXCEPT !.worth = RepairWorth(r.grade)]
            [] r.next = "note"   -> [@ EXCEPT !.history = IF @ = 2 THEN 2 ELSE @ + 1]]
     /\ repair' = [repair EXCEPT ![t] =
          CASE r.next = "grade"  -> [r EXCEPT !.next = "status"]
            [] r.next = "status" -> [r EXCEPT !.next = "worth"]
            [] r.next = "worth" /\ r.noted -> [r EXCEPT !.next = "note"]
            [] OTHER -> NoRepair]
     /\ UNCHANGED split

UnitNext == \E t \in Repairers : StartRepair(t) \/ WriteUnit(t)

UnitSpec == UnitInit /\ [][UnitNext]_unitVars
-----------------------------------------------------------------------------
(* A unit that is not being repaired is worth what its grade is worth when   *)
(* units are seeded, unless two of its repairs overlapped: repairs and seeds *)
(* use two tables, and grade and worth are written apart.                  *)
RepairsAgree ==
  \A u \in UnitIds :
    (units[u].grade \in Grades /\ ~split[u]
       /\ ~ \E t \in Repairers : repair[t].next # "none" /\ repair[t].unit = u)
      => units[u].worth = SeedWorth(units[u].grade)
=============================================================================
