----------------------------- MODULE RouteSearch -----------------------------
(***************************************************************************)
(* One POST /api/v1/routing/optimize: NSGA2Router.optimize on a scenario.   *)
(* An individual assigns every delivery to a vehicle; it is judged by the   *)
(* number of vehicles and the cost, both to be small.  Kilometres are       *)
(* whole and cost is in tenths; the emissions are reported and never        *)
(* compared.  A mutation changes at most MaxMutated genes of a child.      *)
(***************************************************************************)
EXTENDS Integers, Sequences, FiniteSets, SequencesExt, FiniteSetsExt

CONSTANTS
  Points,              \* scenarios: [n, demand, dist], 0 is the depot
  Chromosomes,         \* outcomes of the random initial chromosomes
  Size,                \* pop_size
  AskedRounds,         \* generations that a request may ask for, 0 for none
  DefaultGenerations,  \* the router's own number of generations (100 in the code)
  MaxMutated           \* bound on the genes that one mutation changes

ASSUME SearchAssumption ==
  /\ Size \in Nat /\ Size >= 2 /\ DefaultGenerations \in Nat /\ MaxMutated \in Nat
  /\ AskedRounds \subseteq Nat /\ Chromosomes \subseteq Seq(Nat)
  /\ \A pt \in Points :
       /\ pt.n \in Nat /\ pt.demand \in [1 .. pt.n -> Nat]
       /\ pt.dist \in [(0 .. pt.n) \X (0 .. pt.n) -> Nat]

VARIABLES
  point,       \* the scenario searched
  asked,       \* generations of the request
  members,     \* population: [chromosome, rank, crowding] in order
  generation,  \* generations done
  front        \* pareto_front of the answer, << >> before it

searchVars == <<point, asked, members, generation, front>>

MaxVehicles == IF point.n \div 2 > 3 THEN point.n \div 2 ELSE 3

VehicleSpecs ==
  << [capacity |-> 2, fixed |-> 800, perKm |-> 35], [capacity |-> 4, fixed |-> 1200, perKm |-> 20],
     [capacity |-> 8, fixed |-> 2500, perKm |-> 65], [capacity |-> 16, fixed |-> 5000, perKm |-> 120] >>

(* The smallest type that carries the load, the truck when none does.      *)
TypeFor(load) ==
  LET carries == {t \in DOMAIN VehicleSpecs : VehicleSpecs[t].capacity >= load}
  IN IF carries = {} THEN 4 ELSE Min(carries)

(* Kilometres of a tour from the depot: always to the nearest stop that is  *)
(* left, the first of those that tie, and back.                           *)
Nearest(at, left) == CHOOSE x \in left : \A y \in left :
  \/ point.dist[at, x] < point.dist[at, y]
  \/ point.dist[at, x] = point.dist[at, y] /\ x <= y
Hop(acc) ==
  IF acc.left = {} THEN acc
  ELSE LET x == Nearest(acc.at, acc.left) IN
       [at |-> x, left |-> acc.left \ {x}, km |-> acc.km + point.dist[acc.at, x]]
Tour(stops) ==
  LET loop[i \in 0 .. Cardinality(stops)] ==
        IF i = 0 THEN [at |-> 0, left |-> stops, km |-> 0] ELSE Hop(loop[i - 1])
      end == loop[Cardinality(stops)]
  IN end.km + point.dist[end.at, 0]

(* _evaluate: the vehicles in use and what they cost.                      *)
UsedBy(c) == {c[i] : i \in DOMAIN c}
PlanCost(c) ==
  LET stops(v) == {i \in DOMAIN c : c[i] = v}
      spec(v) == VehicleSpecs[TypeFor(SumFunctionOnSet(point.demand, stops(v)))]
  IN SumFunction([v \in UsedBy(c) |-> spec(v).fixed + Tour(stops(v)) * spec(v).perKm])

Individual(c, rank, crowding) ==
  [chromosome |-> c, used |-> Cardinality(UsedBy(c)), cost |-> PlanCost(c),
   rank |-> rank, crowding |-> crowding]

Dominates(a, b) ==
  /\ a.used <= b.used /\ a.cost <= b.cost
  /\ a.used < b.used \/ a.cost < b.cost

(* s by rising key, those with the same key in their order: sorted().        *)
SortedBy(s, key) ==
  LET before(i) == {j \in DOMAIN s : key[j] < key[i] \/ (key[j] = key[i] /\ j < i)}
  IN [p \in DOMAIN s |-> s[CHOOSE i \in DOMAIN s : Cardinality(before(i)) = p - 1]]

(* mutant: a member joins the next front as soon as one dominator is gone *)
ReadyEarly(count) == count >= 0

Ready(count) == count = 0

(* The loop over dominated_set[p]: one dominator of each q is gone.         *)
Decrement(acc, q) ==
  LET left == acc.count[q] - 1 IN
  [count |-> [acc.count EXCEPT ![q] = left],
   next |-> IF Ready(left) THEN Append(acc.next, q) ELSE acc.next]
Visit(pairs, n, acc, p) ==
  LET loop[q \in 0 .. n] ==
        IF q = 0 THEN acc
        ELSE IF <<p, q>> \in pairs THEN Decrement(loop[q - 1], q) ELSE loop[q - 1]
  IN loop[n]

(* The loop over the front f: the counts left and the next front.           *)
Peel(pairs, n, count, f) ==
  LET loop[i \in 0 .. Len(f)] ==
        IF i = 0 THEN [count |-> count, next |-> << >>]
        ELSE Visit(pairs, n, loop[i - 1], f[i])
  IN loop[Len(f)]

DominatedPairs(pop) ==
  {pq \in (DOMAIN pop) \X (DOMAIN pop) : Dominates(pop[pq[1]], pop[pq[2]])}
Undominated(pairs, n) ==
  LET loop[q \in 0 .. n] ==
        IF q = 0 THEN << >>
        ELSE IF \E p \in 1 .. n : <<p, q>> \in pairs THEN loop[q - 1] ELSE Append(loop[q - 1], q)
  IN loop[n]
NextFront(pairs, n, acc) ==
  LET done == Peel(pairs, n, acc.count, Last(acc.fronts))
  IN IF done.next = << >> THEN acc
     ELSE [count |-> done.count, fronts |-> Append(acc.fronts, done.next)]

(* _non_dominated_sort: front by front until one is empty, which is not     *)
(* returned; there are never more fronts than members.                    *)
Fronts(pop) ==
  LET n == Len(pop)
      pairs == DominatedPairs(pop)
      count == [q \in 1 .. n |-> Cardinality({p \in 1 .. n : <<p, q>> \in pairs})]
      loop[i \in 0 .. n] ==
        IF i = 0 THEN [count |-> count, fronts |-> <<Undominated(pairs, n)>>]
        ELSE NextFront(pairs, n, loop[i - 1])
  IN loop[n].fronts

(* mutant: the ends of a front get no distance of their own *)
EndsDropped(f, x, sorted) == FALSE

AtEnd(f, x, sorted) == x = sorted[1] \/ x = sorted[Len(f)]

Span(low, high) == IF high = low THEN 1 ELSE high - low
PlaceOf(s, x) == CHOOSE i \in DOMAIN s : s[i] = x
Gap(s, value, x) ==
  IF PlaceOf(s, x) \in {1, Len(s)} THEN 0
  ELSE value[s[PlaceOf(s, x) + 1]] - value[s[PlaceOf(s, x) - 1]]

(* _crowding_distance, times the product of the two ranges of the front:    *)
(* the gaps add up to at most twice that, so one more stands for infinity.  *)
Crowding(pop, f) ==
  LET used == [x \in DOMAIN pop |-> pop[x].used]
      cost == [x \in DOMAIN pop |-> pop[x].cost]
      byUsed == SortedBy(f, [i \in DOMAIN f |-> used[f[i]]])
      byCost == SortedBy(f, [i \in DOMAIN f |-> cost[f[i]]])
      spanUsed == Span(used[byUsed[1]], used[Last(byUsed)])
      spanCost == Span(cost[byCost[1]], cost[Last(byCost)])
  IN [i \in DOMAIN f |->
        IF Len(f) <= 2 \/ AtEnd(f, f[i], byUsed) \/ AtEnd(f, f[i], byCost)
        THEN 2 * spanUsed * spanCost + 1
        ELSE spanCost * Gap(byUsed, used, f[i]) + spanUsed * Gap(byCost, cost, f[i])]

(* The next population: fronts in order, the last one by falling crowding.  *)
Ranked(pop, f, r) ==
  LET distance == Crowding(pop, f) IN
  [i \in DOMAIN f |-> [pop[f[i]] EXCEPT !.rank = r, !.crowding = distance[i]]]
Take(pop, acc, f) ==
  IF acc.full THEN acc
  ELSE LET new == Ranked(pop, f, acc.rank) IN
    IF Len(acc.next) + Len(f) <= Size
    THEN [next |-> acc.next \o new, rank |-> acc.rank + 1, full |-> FALSE]
    ELSE [next |-> acc.next \o SubSeq(SortedBy(new, [i \in DOMAIN new |-> -new[i].crowding]),
                                      1, Size - Len(acc.next)),
          rank |-> acc.rank + 1, full |-> TRUE]
Survivors(pop) ==
  LET fronts == Fronts(pop)
      loop[i \in 0 .. Len(fronts)] ==
        IF i = 0 THEN [next |-> << >>, rank |-> 0, full |-> FALSE]
        ELSE Take(pop, loop[i - 1], fronts[i])
  IN loop[Len(fronts)].next

(* _tournament_select: who may win against another member.                 *)
Beats(a, b) == a.rank < b.rank \/ (a.rank = b.rank /\ a.crowding > b.crowding)
Parents ==
  {members[x] : x \in {w \in DOMAIN members :
     \E o \in DOMAIN members \ {w} : ~Beats(members[o], members[w])}}

(* Vehicles numbered anew in the order of their first delivery.            *)
Compact(c) ==
  LET first(v) == CHOOSE i \in DOMAIN c : c[i] = v /\ \A j \in DOMAIN c : c[j] = v => i <= j
  IN [i \in DOMAIN c |-> Cardinality({v \in UsedBy(c) : first(v) < first(c[i])})]

Mutated(c) ==
  {Individual(Compact([i \in DOMAIN c |-> IF i \in genes THEN new[i] ELSE c[i]]), 0, 0) :
     genes \in {g \in SUBSET DOMAIN c : Cardinality(g) <= MaxMutated},
     new \in [DOMAIN c -> 0 .. MaxVehicles - 1]}

(* Two parents, genes swapped or not, both children mutated.               *)
Offspring ==
  UNION {LET p1 == pair[1].chromosome
             p2 == pair[2].chromosome
             cross(x, y, swap) == [i \in DOMAIN x |-> IF i \in swap THEN y[i] ELSE x[i]]
         IN UNION {Mutated(cross(p1, p2, swap)) \X Mutated(cross(p2, p1, swap)) :
                     swap \in SUBSET DOMAIN p1} :
         pair \in Parents \X Parents}

SearchInit ==
  /\ point \in Points /\ asked \in AskedRounds
  /\ members \in [1 .. Size -> {Individual(c, 0, 0) : c \in {d \in Chromosomes : Len(d) = point.n}}]
  /\ generation = 0 /\ front = << >>

Rounds == IF asked = 0 THEN DefaultGenerations ELSE asked

Evolve ==
  /\ front = << >> /\ generation < Rounds
  /\ \E pairs \in [1 .. (Size + 1) \div 2 -> Offspring] :
       LET child(i) == pairs[(i + 1) \div 2][2 - (i % 2)] IN
       members' = Survivors(members \o [i \in 1 .. Size |-> child(i)])
  /\ generation' = generation + 1
  /\ UNCHANGED <<point, asked, front>>

(* The front of the answer, by rising number of vehicles.                  *)
Answer ==
  /\ front = << >> /\ generation = Rounds
  /\ LET first == Fronts(members)[1] IN
     front' = SortedBy([i \in DOMAIN first |-> members[first[i]]],
                       [i \in DOMAIN first |-> members[first[i]].used])
  /\ UNCHANGED <<point, asked, members, generation>>

SearchNext == Evolve \/ Answer

SearchSpec == SearchInit /\ [][SearchNext]_searchVars

(* _find_knee: the inner member farthest from the line between the ends     *)
(* (all share one denominator), the first of those that tie.               *)
Knee(answer) ==
  LET a == answer[1]
      b == Last(answer)
      abs(x) == IF x < 0 THEN -x ELSE x
      off == [i \in DOMAIN answer |->
                abs((b.cost - a.cost) * answer[i].used - (b.used - a.used) * answer[i].cost
                    + b.used * a.cost - b.cost * a.used)]
      inner == 2 .. Len(answer) - 1
  IN IF Len(answer) < 3 THEN answer[Len(answer) \div 2 + 1]
     ELSE answer[CHOOSE i \in inner : \A j \in inner :
                   off[i] > off[j] \/ (off[i] = off[j] /\ i <= j)]

-----------------------------------------------------------------------------
(* The fronts that the counting sort peels off are those of the definition: *)
(* they share the members out, none of a front dominates another of it, and *)
(* each member of a later front is dominated by one of the front before     *)
(* (_non_dominated_sort decrements counts while it walks the front).       *)
FrontsAreLayers ==
  LET f == Fronts(members)
      of(k) == {f[k][i] : i \in DOMAIN f[k]}
  IN /\ \A p \in DOMAIN members : Cardinality({k \in DOMAIN f : p \in of(k)}) = 1
     /\ \A k \in DOMAIN f : /\ Cardinality(of(k)) = Len(f[k])
                            /\ \A p, q \in of(k) : ~Dominates(members[p], members[q])
     /\ \A k \in 2 .. Len(f) : \A q \in of(k) : \E p \in of(k - 1) :
          Dominates(members[p], members[q])

Least(S) == CHOOSE x \in S : \A y \in S : x <= y
BestCost(pop) == Least({pop[i].cost : i \in DOMAIN pop})
FewestUsed(pop) == Least({pop[i].used : i \in DOMAIN pop})

(* A generation never loses the cheapest plan nor the one with the fewest   *)
(* vehicles, also when the first front alone exceeds the population and     *)
(* optimize truncates it by crowding distance.  A population of two, which  *)
(* the code accepts too, may keep two copies of one end and lose the other. *)
ExtremesSurvive ==
  [][ Size > 2 /\ members # << >> =>
      /\ BestCost(members') <= BestCost(members)
      /\ FewestUsed(members') <= FewestUsed(members) ]_searchVars

(* The answer is a trade-off: along pareto_front more vehicles never cost   *)
(* more, and its last member is as cheap as the whole final population.     *)
FrontTradesOff ==
  front # << >> =>
    /\ \A i, j \in DOMAIN front : i < j => front[i].cost >= front[j].cost
    /\ Last(front).cost = BestCost(members)
    /\ \E i \in DOMAIN front : front[i] = Knee(front)
=============================================================================
