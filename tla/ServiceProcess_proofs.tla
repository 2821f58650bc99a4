------------------------- MODULE ServiceProcess_proofs -------------------------
(***************************************************************************)
(* What the parts of the service process keep, for every number of orders,   *)
(* threads, units, photos and deliveries.                                  *)
(***************************************************************************)
EXTENDS ServiceProcess, FiniteSetTheorems, WellFoundedInduction, TLAPS

(* A step of the process is a step of a part or leaves it as it is.          *)
LEMMA StepsOfParts ==
  ASSUME [Next]_vars
  PROVE  /\ [EngineNext]_engineVars
         /\ [UnitNext]_unitVars
         /\ [TriageNext]_decision
         /\ [FleetNext]_fleetVars
         /\ [TryOnNext]_tryOnVars
         /\ [CatalogNext]_catalogVars
         /\ [TrustNext]_trustVars
         /\ [VerifyGtin]_checkedGtin
         /\ [SearchNext]_searchVars
<1>1. CASE UNCHANGED vars
  BY <1>1 DEF vars
<1>2. CASE Next
  <2>1. [EngineNext]_engineVars
    BY <1>2, Zenon DEF Next
  <2>2. [UnitNext]_unitVars
    BY <1>2, Zenon DEF Next
  <2>3. [TriageNext]_decision
    BY <1>2, Zenon DEF Next
  <2>4. [FleetNext]_fleetVars
    BY <1>2, Zenon DEF Next
  <2>5. [TryOnNext]_tryOnVars
    BY <1>2, Zenon DEF Next
  <2>6. [CatalogNext]_catalogVars
    BY <1>2, Zenon DEF Next
  <2>7. [TrustNext]_trustVars
    BY <1>2, Zenon DEF Next
  <2>8. [VerifyGtin]_checkedGtin
    BY <1>2, Zenon DEF Next
  <2>9. [SearchNext]_searchVars
    BY <1>2, Zenon DEF Next
  <2> QED
    BY <2>1, <2>2, <2>3, <2>4, <2>5, <2>6, <2>7, <2>8, <2>9
<1> QED
  BY <1>1, <1>2
-----------------------------------------------------------------------------
(* Induction over finite sets: a set without a smallest member is empty.      *)
LEMMA LeastNatural ==
  ASSUME NEW T, T \subseteq Nat, T # {}
  PROVE  \E n \in T : \A m \in T : n <= m
<1>1. PICK n \in T : \A m \in T : ~(<<m, n>> \in OpToRel(<, Nat))
  BY NatLessThanWellFounded, WFMin
<1>2. \A m \in T : ~(m < n)
  BY <1>1 DEF OpToRel
<1> HIDE <1>1
<1> QED
  BY <1>2

(* A set of finite sets that is not empty has a smallest member.             *)
LEMMA SmallestSet ==
  ASSUME NEW C, C # {}, \A s \in C : IsFiniteSet(s)
  PROVE  \E s \in C : \A t \in C : Cardinality(s) <= Cardinality(t)
<1> DEFINE sizes == {Cardinality(s) : s \in C}
<1>1. sizes \subseteq Nat /\ sizes # {}
  BY FS_CardinalityType
<1> HIDE DEF sizes
<1>2. PICK n \in sizes : \A m \in sizes : n <= m
  BY <1>1, LeastNatural
<1> QED
  BY <1>2 DEF sizes

LEMMA LessOne ==
  ASSUME NEW s, IsFiniteSet(s), NEW x \in s
  PROVE  /\ IsFiniteSet(s \ {x}) /\ Cardinality(s \ {x}) \in Nat
         /\ Cardinality(s) = Cardinality(s \ {x}) + 1
<1>1. Cardinality(s) \in Nat
  BY FS_CardinalityType
<1>2. IsFiniteSet(s \ {x}) /\ Cardinality(s \ {x}) = Cardinality(s) - 1
  BY FS_RemoveElement
<1>3. Cardinality(s \ {x}) \in Nat
  BY <1>2, FS_CardinalityType
<1> QED
  BY <1>1, <1>2, <1>3

(* Recursion over the subsets of a finite set: base for the empty one, and   *)
(* G for a set, from the value without the element picked from it.         *)
Recurses(it, S, base, pick, G) ==
  /\ it[{}] = base
  /\ \A s \in SUBSET S : s # {} => it[s] = G[<<s, it[s \ {pick[s]}]>>]

LEMMA SubsetRecursion ==
  ASSUME NEW S, IsFiniteSet(S), NEW V, NEW base \in V, NEW pick,
         \A s \in SUBSET S : s # {} => pick[s] \in s,
         NEW G, \A s \in SUBSET S, v \in V : G[<<s, v>>] \in V
  PROVE  \E it \in [SUBSET S -> V] : Recurses(it, S, base, pick, G)
<1> DEFINE pairs == (SUBSET S) \X V
           Closed(Q) ==
             /\ <<{}, base>> \in Q
             /\ \A s \in SUBSET S, v \in V :
                  s # {} /\ <<s \ {pick[s]}, v>> \in Q => <<s, G[<<s, v>>]>> \in Q
           R == {p \in pairs : \A Q \in SUBSET pairs : Closed(Q) => p \in Q}
<1>1. Closed(R)
  <2>1. <<{}, base>> \in pairs
    OBVIOUS
  <2>2. ASSUME NEW s \in SUBSET S, NEW v \in V, s # {}, <<s \ {pick[s]}, v>> \in R
        PROVE  <<s, G[<<s, v>>]>> \in R
    <3>1. <<s, G[<<s, v>>]>> \in pairs
      OBVIOUS
    <3>2. ASSUME NEW Q \in SUBSET pairs, Closed(Q)
          PROVE  <<s, G[<<s, v>>]>> \in Q
      BY <2>2, <3>2
    <3> QED
      BY <3>1, <3>2
  <2> QED
    BY <2>1, <2>2
<1>2. \A Q \in SUBSET pairs : Closed(Q) => R \subseteq Q
  OBVIOUS
<1>3. R \subseteq pairs
  OBVIOUS
<1> HIDE DEF R
<1> DEFINE Value(s, v) == <<s, v>> \in R /\ \A w \in V : <<s, w>> \in R => w = v
           bad == {s \in SUBSET S : ~\E v \in V : Value(s, v)}
<1>4. bad = {}
  <2> SUFFICES ASSUME bad # {}
               PROVE  FALSE
    OBVIOUS
  <2>1. \A s \in bad : IsFiniteSet(s)
    BY FS_Subset
  <2>2. PICK s \in bad : \A t \in bad : Cardinality(s) <= Cardinality(t)
    BY <2>1, SmallestSet
  <2>3. ASSUME NEW v \in V, <<s, v>> \in R, Closed(R \ {<<s, w>> : w \in V \ {v}})
        PROVE  FALSE
    <3> DEFINE Q == R \ {<<s, w>> : w \in V \ {v}}
    <3>1. R \subseteq Q
      <4>1. Q \in SUBSET pairs
        BY <1>3
      <4>2. Closed(Q)
        BY <2>3
      <4> HIDE DEF Q, Closed, pairs
      <4> QED
        BY <1>2, <4>1, <4>2
    <3>2. Value(s, v)
      BY <2>3, <3>1
    <3> QED
      BY <3>2
  <2>4. CASE s = {}
    <3>1. Closed(R \ {<<s, w>> : w \in V \ {base}})
      BY <1>1, <2>4
    <3> QED
      BY <1>1, <2>3, <2>4, <3>1
  <2>5. CASE s # {}
    <3> DEFINE t == s \ {pick[s]}
    <3>1. t \in SUBSET S /\ t \notin bad
      <4>1. Cardinality(t) \in Nat /\ Cardinality(s) = Cardinality(t) + 1
        BY <2>1, <2>5, LessOne
      <4>2. t \in bad => Cardinality(s) <= Cardinality(t)
        BY <2>2
      <4>3. t \in SUBSET S
        OBVIOUS
      <4> HIDE DEF t, bad
      <4> QED
        BY <4>1, <4>2, <4>3
    <3>2. PICK u \in V : Value(t, u)
      BY <3>1
    <3>3. <<s, G[<<s, u>>]>> \in R /\ G[<<s, u>>] \in V
      BY <1>1, <2>5, <3>2
    <3> DEFINE Q == R \ {<<s, w>> : w \in V \ {G[<<s, u>>]}}
    <3>4. Closed(Q)
      <4>1. <<{}, base>> \in Q
        BY <1>1, <2>5
      <4>2. ASSUME NEW r \in SUBSET S, NEW v \in V, r # {}, <<r \ {pick[r]}, v>> \in Q
            PROVE  <<r, G[<<r, v>>]>> \in Q
        <5>1. <<r, G[<<r, v>>]>> \in R
          BY <1>1, <4>2
        <5>2. r = s => v = u
          BY <3>2, <4>2
        <5> QED
          BY <5>1, <5>2
      <4> QED
        BY <4>1, <4>2
    <3> QED
      BY <2>3, <3>3, <3>4
  <2> QED
    BY <2>4, <2>5
<1>5. PICK it \in [SUBSET S -> V] : \A s \in SUBSET S : Value(s, it[s])
  <2> DEFINE j == [s \in SUBSET S |-> CHOOSE v \in V : Value(s, v)]
  <2>1. \A s \in SUBSET S : j[s] \in V /\ Value(s, j[s])
    BY <1>4
  <2> QED
    BY <2>1
<1>6. \A s \in SUBSET S : it[s] = IF s = {} THEN base ELSE G[<<s, it[s \ {pick[s]}]>>]
  <2> SUFFICES ASSUME NEW s \in SUBSET S
               PROVE  it[s] = IF s = {} THEN base ELSE G[<<s, it[s \ {pick[s]}]>>]
    OBVIOUS
  <2>1. CASE s = {}
    BY <1>1, <1>5, <2>1
  <2>2. CASE s # {}
    <3>1. <<s \ {pick[s]}, it[s \ {pick[s]}]>> \in R /\ it[s \ {pick[s]}] \in V
      BY <1>5
    <3>2. <<s, G[<<s, it[s \ {pick[s]}]>>]>> \in R
      BY <1>1, <2>2, <3>1
    <3> QED
      BY <1>5, <2>2, <3>1, <3>2
  <2> QED
    BY <2>1, <2>2
<1>7. Recurses(it, S, base, pick, G)
  BY <1>6 DEF Recurses
<1> QED
  BY <1>5, <1>7

(* The recursive function behind a sum.                                      *)
Picked(s) == CHOOSE x \in s : TRUE

IsSum(it, f, S) ==
  it = [s \in SUBSET S |-> IF s = {} THEN 0 ELSE f[Picked(s)] + it[s \ {Picked(s)}]]

LEMMA SumsExist ==
  ASSUME NEW S, IsFiniteSet(S), NEW f, \A x \in S : f[x] \in Int
  PROVE  \E it \in [SUBSET S -> Int] : IsSum(it, f, S)
<1> DEFINE pick == [s \in SUBSET S |-> Picked(s)]
           G == [p \in (SUBSET S) \X Int |-> IF p[1] = {} THEN 0 ELSE f[Picked(p[1])] + p[2]]
<1>1. \A s \in SUBSET S : s # {} => Picked(s) \in s
  BY DEF Picked
<1>2. \A s \in SUBSET S, v \in Int :
        G[<<s, v>>] = IF s = {} THEN 0 ELSE f[Picked(s)] + v
  OBVIOUS
<1>3. \A s \in SUBSET S : pick[s] = Picked(s)
  OBVIOUS
<1> HIDE DEF pick, G
<1>4. ASSUME NEW s \in SUBSET S, NEW v \in Int
      PROVE  G[<<s, v>>] \in Int
  <2>1. CASE s = {}
    BY <1>2, <2>1
  <2>2. CASE s # {}
    <3>1. f[Picked(s)] \in Int
      BY <1>1, <2>2
    <3>2. G[<<s, v>>] = f[Picked(s)] + v
      BY <1>2, <2>2
    <3> QED
      BY <3>1, <3>2
  <2> QED
    BY <2>1, <2>2
<1>5. \A s \in SUBSET S : s # {} => pick[s] \in s
  BY <1>1, <1>3
<1>6. 0 \in Int
  OBVIOUS
<1>7. PICK it \in [SUBSET S -> Int] : Recurses(it, S, 0, pick, G)
  BY <1>4, <1>5, <1>6, SubsetRecursion
<1>8. ASSUME NEW s \in SUBSET S, s # {}
      PROVE  it[s] = f[Picked(s)] + it[s \ {Picked(s)}]
  <2>1. s \ {Picked(s)} \in SUBSET S
    OBVIOUS
  <2>2. it[s] = G[<<s, it[s \ {Picked(s)}]>>]
    BY <1>3, <1>7, <1>8 DEF Recurses
  <2> QED
    BY <1>2, <1>8, <2>1, <2>2
<1>9. it = [s \in SUBSET S |-> IF s = {} THEN 0 ELSE f[Picked(s)] + it[s \ {Picked(s)}]]
  BY <1>7, <1>8 DEF Recurses
<1> QED
  BY <1>9 DEF IsSum

(* The sum over each subset of a finite set, by one function.                *)
SumsUp(it, f, S) ==
  /\ it[{}] = 0
  /\ \A s \in SUBSET S : s # {} => \E x \in s : it[s] = f[x] + it[s \ {x}]
  /\ \A T \in SUBSET S : SumFunctionOnSet(f, T) = it[T]

LEMMA SumsOfSubsets ==
  ASSUME NEW S, IsFiniteSet(S), NEW f, \A x \in S : f[x] \in Int
  PROVE  \E it \in [SUBSET S -> Int] : SumsUp(it, f, S)
<1> DEFINE sum(T) == CHOOSE it : IsSum(it, f, T)
<1>1. PICK it \in [SUBSET S -> Int] : IsSum(it, f, S)
  BY SumsExist
<1>2. \A s \in SUBSET S : s # {} => Picked(s) \in s
  BY DEF Picked
<1>0. \A s \in SUBSET S : it[s] = IF s = {} THEN 0 ELSE f[Picked(s)] + it[s \ {Picked(s)}]
  BY <1>1 DEF IsSum
<1>3. ASSUME NEW T \in SUBSET S
      PROVE  SumFunctionOnSet(f, T) = it[T]
  <2>1. IsFiniteSet(T) /\ \A x \in T : f[x] \in Int
    BY FS_Subset
  <2>2. \E h : IsSum(h, f, T)
    BY <2>1, SumsExist
  <2>3. IsSum(sum(T), f, T)
    BY <2>2, Zenon
  <2>4. SumFunctionOnSet(f, T) = sum(T)[T]
    BY DEF SumFunctionOnSet, FoldFunctionOnSet, MapThenFoldSet, IsSum, Picked
  <2> HIDE DEF sum
  <2>6. \A s \in SUBSET T :
          sum(T)[s] = IF s = {} THEN 0 ELSE f[Picked(s)] + sum(T)[s \ {Picked(s)}]
    BY <2>3 DEF IsSum
  <2> DEFINE bad == {s \in SUBSET T : sum(T)[s] # it[s]}
  <2>5. bad = {}
    <3> SUFFICES ASSUME bad # {}
                 PROVE  FALSE
      OBVIOUS
    <3>1. \A s \in bad : IsFiniteSet(s)
      BY <2>1, FS_Subset
    <3>2. PICK s \in bad : \A t \in bad : Cardinality(s) <= Cardinality(t)
      BY <3>1, SmallestSet
    <3>3. s # {}
      BY <1>0, <2>6, <3>2
    <3> DEFINE t == s \ {Picked(s)}
    <3>4. t \in SUBSET T /\ Picked(s) \in s
      BY <1>2, <3>3
    <3>5. Cardinality(t) \in Nat /\ Cardinality(s) = Cardinality(t) + 1
      BY <3>1, <3>4, LessOne
    <3>6. t \in bad => Cardinality(s) <= Cardinality(t)
      BY <3>2
    <3>7. sum(T)[s] = f[Picked(s)] + sum(T)[t] /\ it[s] = f[Picked(s)] + it[t]
      BY <1>0, <2>6, <3>3, <3>4
    <3> HIDE DEF t
    <3>8. sum(T)[t] = it[t]
      BY <3>4, <3>5, <3>6
    <3> QED
      BY <3>2, <3>7, <3>8
  <2> QED
    BY <2>4, <2>5
<1>4. it[{}] = 0 /\ \A s \in SUBSET S : s # {} => \E x \in s : it[s] = f[x] + it[s \ {x}]
  BY <1>0, <1>2
<1> QED
  BY <1>3, <1>4 DEF SumsUp

(* A sum over a finite set is one of its terms and the sum over the rest,    *)
(* whichever term is taken first.                                          *)
LEMMA SumTakesAny ==
  ASSUME NEW S, IsFiniteSet(S), NEW f, \A x \in S : f[x] \in Int
  PROVE  /\ SumFunctionOnSet(f, {}) = 0
         /\ \A T \in SUBSET S : SumFunctionOnSet(f, T) \in Int
         /\ \A T \in SUBSET S : \A x \in T :
              SumFunctionOnSet(f, T) = f[x] + SumFunctionOnSet(f, T \ {x})
<1>0. PICK it \in [SUBSET S -> Int] : SumsUp(it, f, S)
  BY SumsOfSubsets
<1>1. /\ it[{}] = 0
      /\ \A s \in SUBSET S : s # {} => \E x \in s : it[s] = f[x] + it[s \ {x}]
      /\ \A T \in SUBSET S : SumFunctionOnSet(f, T) = it[T]
  BY <1>0 DEF SumsUp
<1> DEFINE bad == {s \in SUBSET S : \E x \in s : it[s] # f[x] + it[s \ {x}]}
<1>2. bad = {}
  <2> SUFFICES ASSUME bad # {}
               PROVE  FALSE
    OBVIOUS
  <2>1. \A s \in bad : IsFiniteSet(s)
    BY FS_Subset
  <2>2. PICK s \in bad : \A t \in bad : Cardinality(s) <= Cardinality(t)
    BY <2>1, SmallestSet
  <2>3. PICK x \in s : it[s] # f[x] + it[s \ {x}]
    OBVIOUS
  <2>4. PICK y \in s : it[s] = f[y] + it[s \ {y}]
    BY <1>1, <2>3
  <2>5. x # y /\ s \in SUBSET S
    BY <2>3, <2>4
  <2>6. \A z \in s : s \ {z} \notin bad
    <3> SUFFICES ASSUME NEW z \in s, s \ {z} \in bad
                 PROVE  FALSE
      OBVIOUS
    <3>1. Cardinality(s) <= Cardinality(s \ {z})
      BY <2>2
    <3>2. Cardinality(s \ {z}) \in Nat /\ Cardinality(s) = Cardinality(s \ {z}) + 1
      BY <2>1, LessOne
    <3> QED
      BY <3>1, <3>2
  <2> DEFINE rest == (s \ {x}) \ {y}
  <2>7. rest = (s \ {y}) \ {x} /\ x \in s \ {y} /\ y \in s \ {x}
    BY <2>5
  <2>8. it[s \ {y}] = f[x] + it[rest]
    BY <2>5, <2>6, <2>7
  <2>9. it[s \ {x}] = f[y] + it[rest]
    BY <2>5, <2>6, <2>7
  <2>10. f[x] \in Int /\ f[y] \in Int /\ it[rest] \in Int
    BY <1>1, <2>5
  <2> HIDE DEF rest
  <2> QED
    BY <2>3, <2>4, <2>8, <2>9, <2>10
<1>3. SumFunctionOnSet(f, {}) = 0
  BY <1>1
<1>4. \A T \in SUBSET S : SumFunctionOnSet(f, T) \in Int
  BY <1>1
<1>5. ASSUME NEW T \in SUBSET S, NEW x \in T
      PROVE  SumFunctionOnSet(f, T) = f[x] + SumFunctionOnSet(f, T \ {x})
  <2>1. it[T] = f[x] + it[T \ {x}]
    BY <1>2
  <2>2. T \ {x} \in SUBSET S
    OBVIOUS
  <2> QED
    BY <1>1, <2>1, <2>2
<1> QED
  BY <1>3, <1>4, <1>5

LEMMA SumSame ==
  ASSUME NEW S, IsFiniteSet(S), NEW f, NEW g, \A x \in S : f[x] \in Int /\ g[x] = f[x]
  PROVE  SumFunctionOnSet(g, S) = SumFunctionOnSet(f, S)
<1> DEFINE bad == {s \in SUBSET S : SumFunctionOnSet(g, s) # SumFunctionOnSet(f, s)}
<1>1. /\ SumFunctionOnSet(f, {}) = 0 /\ SumFunctionOnSet(g, {}) = 0
      /\ \A s \in SUBSET S : \A x \in s :
           /\ SumFunctionOnSet(f, s) = f[x] + SumFunctionOnSet(f, s \ {x})
           /\ SumFunctionOnSet(g, s) = g[x] + SumFunctionOnSet(g, s \ {x})
  BY SumTakesAny
<1> SUFFICES ASSUME bad # {}
             PROVE  FALSE
  OBVIOUS
<1>2. \A s \in bad : IsFiniteSet(s)
  BY FS_Subset
<1>3. PICK s \in bad : \A t \in bad : Cardinality(s) <= Cardinality(t)
  BY <1>2, SmallestSet
<1>4. PICK x \in s : TRUE
  BY <1>1, <1>3
<1>5. Cardinality(s \ {x}) \in Nat /\ Cardinality(s) = Cardinality(s \ {x}) + 1
  BY <1>2, <1>4, LessOne
<1>6. s \ {x} \in bad => Cardinality(s) <= Cardinality(s \ {x})
  BY <1>3
<1>7. s \ {x} \in SUBSET S /\ x \in S
  BY <1>3, <1>4
<1>8. SumFunctionOnSet(g, s \ {x}) = SumFunctionOnSet(f, s \ {x})
  BY <1>5, <1>6, <1>7
<1> QED
  BY <1>1, <1>3, <1>4, <1>7, <1>8

(* Sums of terms that are not negative grow with the set.                    *)
LEMMA SumGrows ==
  ASSUME NEW S, IsFiniteSet(S), NEW f, \A x \in S : f[x] \in Nat, NEW T \in SUBSET S
  PROVE  /\ SumFunctionOnSet(f, T) \in Nat
         /\ SumFunctionOnSet(f, T) <= SumFunctionOnSet(f, S)
         /\ (\E x \in S \ T : f[x] > 0) => SumFunctionOnSet(f, T) < SumFunctionOnSet(f, S)
<1> DEFINE sum(s) == SumFunctionOnSet(f, s)
<1>1. /\ sum({}) = 0
      /\ \A s \in SUBSET S : sum(s) \in Int
      /\ \A s \in SUBSET S : \A x \in s : sum(s) = f[x] + sum(s \ {x})
  BY SumTakesAny
<1> HIDE DEF sum
<1>2. ASSUME NEW A \in SUBSET S, sum(A) >= 0
      PROVE  \A s \in SUBSET S : A \subseteq s => sum(A) <= sum(s)
  <2> DEFINE bad == {s \in SUBSET S : A \subseteq s /\ ~(sum(A) <= sum(s))}
  <2> SUFFICES ASSUME bad # {}
               PROVE  FALSE
    OBVIOUS
  <2>1. \A s \in bad : IsFiniteSet(s)
    BY FS_Subset
  <2>2. PICK s \in bad : \A t \in bad : Cardinality(s) <= Cardinality(t)
    BY <2>1, SmallestSet
  <2>3. PICK x \in s : x \notin A
    <3>1. s # A
      BY <1>1, <2>2
    <3> QED
      BY <2>2, <3>1
  <2>4. Cardinality(s \ {x}) \in Nat /\ Cardinality(s) = Cardinality(s \ {x}) + 1
    BY <2>1, <2>3, LessOne
  <2>5. s \ {x} \in bad => Cardinality(s) <= Cardinality(s \ {x})
    BY <2>2
  <2>6. s \ {x} \in SUBSET S /\ A \subseteq s \ {x} /\ f[x] \in Nat /\ s \in SUBSET S
    BY <2>2, <2>3
  <2>7. sum(A) <= sum(s \ {x})
    BY <2>4, <2>5, <2>6
  <2>8. sum(s) = f[x] + sum(s \ {x}) /\ sum(s \ {x}) \in Int /\ sum(A) \in Int
    BY <1>1, <2>3, <2>6
  <2>9. sum(A) <= sum(s)
    BY <2>6, <2>7, <2>8
  <2> QED
    BY <2>2, <2>9
<1>3. \A s \in SUBSET S : sum(s) \in Nat
  BY <1>1, <1>2
<1>4. \A A \in SUBSET S, s \in SUBSET S : A \subseteq s => sum(A) <= sum(s)
  BY <1>2, <1>3
<1>5. ASSUME NEW x \in S \ T, f[x] > 0
      PROVE  sum(T) < sum(S)
  <2>1. sum(T) <= sum(S \ {x}) /\ sum(S) = f[x] + sum(S \ {x})
    BY <1>1, <1>4, <1>5
  <2>2. sum(T) \in Nat /\ sum(S \ {x}) \in Nat /\ f[x] \in Nat
    BY <1>3
  <2> QED
    BY <1>5, <2>1, <2>2
<1> QED
  BY <1>3, <1>4, <1>5 DEF sum

(* A sum over two sets that share nothing, and a sum over the image of a     *)
(* set: renaming the terms of a sum one to one does not change it.         *)
LEMMA SumDisjoint ==
  ASSUME NEW S, IsFiniteSet(S), NEW f, \A x \in S : f[x] \in Int,
         NEW T \in SUBSET S, NEW U \in SUBSET S, T \cap U = {}
  PROVE  SumFunctionOnSet(f, T \cup U) = SumFunctionOnSet(f, T) + SumFunctionOnSet(f, U)
<1> DEFINE sum(s) == SumFunctionOnSet(f, s)
           bad == {s \in SUBSET T : sum(s \cup U) # sum(s) + sum(U)}
<1>1. /\ sum({}) = 0 /\ \A s \in SUBSET S : sum(s) \in Int
      /\ \A s \in SUBSET S : \A x \in s : sum(s) = f[x] + sum(s \ {x})
  BY SumTakesAny
<1> HIDE DEF sum
<1> SUFFICES ASSUME bad # {}
             PROVE  FALSE
  BY DEF sum
<1>2. \A s \in bad : IsFiniteSet(s)
  BY FS_Subset
<1>3. PICK s \in bad : \A t \in bad : Cardinality(s) <= Cardinality(t)
  BY <1>2, SmallestSet
<1>4. s # {}
  <2>1. {} \cup U = U
    OBVIOUS
  <2>2. sum(U) \in Int /\ sum({}) = 0
    BY <1>1
  <2>3. sum({} \cup U) = sum({}) + sum(U)
    BY <2>1, <2>2
  <2> QED
    BY <1>3, <2>3
<1>5. PICK x \in s : TRUE
  BY <1>4
<1>6. Cardinality(s \ {x}) \in Nat /\ Cardinality(s) = Cardinality(s \ {x}) + 1
  BY <1>2, <1>5, LessOne
<1>7. s \ {x} \in bad => Cardinality(s) <= Cardinality(s \ {x})
  BY <1>3
<1>8. /\ s \ {x} \in SUBSET T /\ s \in SUBSET S /\ s \cup U \in SUBSET S /\ s \ {x} \in SUBSET S
      /\ (s \ {x}) \cup U \in SUBSET S
      /\ (s \cup U) \ {x} = (s \ {x}) \cup U
  BY <1>3, <1>5
<1>9. sum((s \ {x}) \cup U) = sum(s \ {x}) + sum(U)
  BY <1>6, <1>7, <1>8
<1>10. x \in s \cup U /\ f[x] \in Int
  BY <1>5, <1>8
<1>11. sum(s \cup U) = f[x] + sum((s \ {x}) \cup U) /\ sum(s) = f[x] + sum(s \ {x})
  BY <1>1, <1>5, <1>8, <1>10
<1>12. sum(s \ {x}) \in Int /\ sum(U) \in Int
  BY <1>1, <1>8
<1> HIDE DEF bad
<1>13. sum(s \cup U) = sum(s) + sum(U)
  BY <1>9, <1>10, <1>11, <1>12
<1> QED
  BY <1>3, <1>13 DEF bad

LEMMA SumMapped ==
  ASSUME NEW S, IsFiniteSet(S), NEW p, \A x \in S, y \in S : p[x] = p[y] => x = y,
         NEW f, NEW g, \A x \in S : g[p[x]] \in Int /\ f[x] = g[p[x]],
         NEW T, T = {p[x] : x \in S}
  PROVE  IsFiniteSet(T) /\ SumFunctionOnSet(f, S) = SumFunctionOnSet(g, T)
<1> DEFINE img(s) == {p[x] : x \in s}
           bad == {s \in SUBSET S : SumFunctionOnSet(f, s) # SumFunctionOnSet(g, img(s))}
<1>0. IsFiniteSet(T)
  <2> DEFINE q == [x \in S |-> p[x]]
  <2>1. q \in Surjection(S, T)
    BY DEF Surjection
  <2> QED
    BY <2>1, FS_Surjection
<1>1. /\ SumFunctionOnSet(f, {}) = 0
      /\ \A s \in SUBSET S : \A x \in s : SumFunctionOnSet(f, s) = f[x] + SumFunctionOnSet(f, s \ {x})
  <2>1. \A x \in S : f[x] \in Int
    OBVIOUS
  <2> QED
    BY <2>1, SumTakesAny
<1>2. /\ SumFunctionOnSet(g, {}) = 0
      /\ \A s \in SUBSET T : \A x \in s : SumFunctionOnSet(g, s) = g[x] + SumFunctionOnSet(g, s \ {x})
  <2>1. \A x \in T : g[x] \in Int
    OBVIOUS
  <2> QED
    BY <1>0, <2>1, SumTakesAny
<1>3. bad = {}
  <2> SUFFICES ASSUME bad # {}
               PROVE  FALSE
    OBVIOUS
  <2>1. \A s \in bad : IsFiniteSet(s)
    BY FS_Subset
  <2>2. PICK s \in bad : \A t \in bad : Cardinality(s) <= Cardinality(t)
    BY <2>1, SmallestSet
  <2>3. PICK x \in s : TRUE
    <3>1. s # {}
      <4>1. img({}) = {}
        OBVIOUS
      <4> QED
        BY <1>1, <1>2, <2>2, <4>1
    <3> QED
      BY <3>1
  <2>4. Cardinality(s \ {x}) \in Nat /\ Cardinality(s) = Cardinality(s \ {x}) + 1
    BY <2>1, <2>3, LessOne
  <2>5. s \ {x} \in bad => Cardinality(s) <= Cardinality(s \ {x})
    BY <2>2
  <2>6. s \in SUBSET S /\ s \ {x} \in SUBSET S /\ x \in S
    BY <2>2, <2>3
  <2>7. /\ img(s) \in SUBSET T /\ p[x] \in img(s)
        /\ img(s) \ {p[x]} = img(s \ {x})
    BY <2>3, <2>6
  <2>8. SumFunctionOnSet(f, s \ {x}) = SumFunctionOnSet(g, img(s \ {x}))
    BY <2>4, <2>5, <2>6
  <2> HIDE DEF img
  <2>9. SumFunctionOnSet(f, s) = f[x] + SumFunctionOnSet(f, s \ {x})
    BY <1>1, <2>3, <2>6
  <2>10. SumFunctionOnSet(g, img(s)) = g[p[x]] + SumFunctionOnSet(g, img(s \ {x}))
    BY <1>2, <2>7
  <2>11. f[x] = g[p[x]]
    BY <2>6
  <2> QED
    BY <2>2, <2>8, <2>9, <2>10, <2>11
<1>4. S \in SUBSET S /\ img(S) = T
  OBVIOUS
<1> QED
  BY <1>0, <1>3, <1>4

(* A fold from the left goes through the prefixes 1 .. i of the domain.      *)
LEMMA PrefixSets ==
  ASSUME NEW n \in Nat
  PROVE  /\ \A i \in 1 .. n : Max(1 .. i) = i /\ (1 .. i) \ {i} = 1 .. (i - 1) /\ 1 .. i # {}
         /\ 1 .. 0 = {}
         /\ \A s \in SUBSET (1 .. n) : s # {} => Max(s) \in s
<1>1. ASSUME NEW i \in 1 .. n
      PROVE  Max(1 .. i) = i /\ (1 .. i) \ {i} = 1 .. (i - 1) /\ 1 .. i # {}
  <2>1. i \in 1 .. i /\ \A y \in 1 .. i : i >= y
    OBVIOUS
  <2>2. Max(1 .. i) \in 1 .. i /\ \A y \in 1 .. i : Max(1 .. i) >= y
    BY <2>1 DEF Max
  <2> QED
    BY <2>1, <2>2
<1>2. ASSUME NEW s \in SUBSET (1 .. n), s # {}
      PROVE  Max(s) \in s
  <2> DEFINE gaps == {n - x : x \in s}
  <2>1. gaps \subseteq Nat /\ gaps # {}
    <3>1. \A x \in s : n - x \in Nat
      OBVIOUS
    <3> QED
      BY <1>2, <3>1
  <2> HIDE DEF gaps
  <2>2. PICK m \in gaps : \A k \in gaps : m <= k
    BY <2>1, LeastNatural
  <2>3. PICK x \in s : m = n - x
    BY <2>2 DEF gaps
  <2>4. \A y \in s : n - y \in gaps
    BY DEF gaps
  <2>5. \A y \in s : x >= y
    BY <2>2, <2>3, <2>4
  <2> QED
    BY <2>5 DEF Max
<1> QED
  <2>1. \A i \in 1 .. n : Max(1 .. i) = i /\ (1 .. i) \ {i} = 1 .. (i - 1) /\ 1 .. i # {}
    BY <1>1
  <2>2. 1 .. 0 = {}
    OBVIOUS
  <2>3. \A s \in SUBSET (1 .. n) : s # {} => Max(s) \in s
    BY <1>2
  <2> QED
    BY <2>1, <2>2, <2>3

Follows(it, n, base, G) ==
  /\ it[{}] = base
  /\ \A s \in SUBSET (1 .. n) : s # {} => it[s] = G[<<Max(s), it[s \ {Max(s)}]>>]

LEMMA FoldsExist ==
  ASSUME NEW n \in Nat, NEW V, NEW base \in V,
         NEW G, \A i \in 1 .. n, v \in V : G[<<i, v>>] \in V
  PROVE  \E it \in [SUBSET (1 .. n) -> V] : Follows(it, n, base, G)
<1> DEFINE pick == [s \in SUBSET (1 .. n) |-> Max(s)]
           H == [p \in (SUBSET (1 .. n)) \X V |-> IF p[1] = {} THEN base ELSE G[<<Max(p[1]), p[2]>>]]
<1>1. \A s \in SUBSET (1 .. n) : s # {} => pick[s] \in s /\ Max(s) \in 1 .. n
  <2>1. \A s \in SUBSET (1 .. n) : s # {} => Max(s) \in s
    BY PrefixSets
  <2> QED
    BY <2>1
<1>2. \A s \in SUBSET (1 .. n) : pick[s] = Max(s)
  OBVIOUS
<1>3. \A s \in SUBSET (1 .. n), v \in V : H[<<s, v>>] = IF s = {} THEN base ELSE G[<<Max(s), v>>]
  OBVIOUS
<1> HIDE DEF pick, H
<1>4. \A s \in SUBSET (1 .. n), v \in V : H[<<s, v>>] \in V
  BY <1>1, <1>3
<1>5. IsFiniteSet(1 .. n)
  BY FS_Interval
<1>6. PICK it \in [SUBSET (1 .. n) -> V] : Recurses(it, 1 .. n, base, pick, H)
  <2>1. PICK S : S = 1 .. n
    OBVIOUS
  <2>2. \E it \in [SUBSET S -> V] : Recurses(it, S, base, pick, H)
    <3>1. /\ IsFiniteSet(S) /\ \A s \in SUBSET S : s # {} => pick[s] \in s
          /\ \A s \in SUBSET S, v \in V : H[<<s, v>>] \in V
      BY <1>1, <1>4, <1>5, <2>1
    <3> QED
      BY <3>1, SubsetRecursion
  <2> QED
    BY <2>1, <2>2
<1>7. ASSUME NEW s \in SUBSET (1 .. n), s # {}
      PROVE  it[s] = G[<<Max(s), it[s \ {Max(s)}]>>]
  <2>1. it[s] = H[<<s, it[s \ {Max(s)}]>>]
    BY <1>2, <1>6, <1>7 DEF Recurses
  <2>2. s \ {Max(s)} \in SUBSET (1 .. n)
    OBVIOUS
  <2>3. it[s \ {Max(s)}] \in V
    BY <2>2
  <2> QED
    BY <1>3, <1>7, <2>1, <2>3
<1> QED
  BY <1>6, <1>7 DEF Recurses, Follows
-----------------------------------------------------------------------------
(* GTIN verification.                                                        *)
(* What a verification was asked.                                            *)
GtinInv ==
  checkedGtin.source # "none" =>
    \E i \in DOMAIN checkedGtin.meant, digit \in 0 .. 9, dashed \in BOOLEAN, api \in BOOLEAN :
      /\ checkedGtin.meant \in TypedGtins
      /\ checkedGtin.typed = [checkedGtin.meant EXCEPT ![i] = digit]
      /\ checkedGtin.source = Source(checkedGtin.typed, dashed, api)

(* The weighted sum of the digits before the last one, from the right.       *)
WeightedDigits(code) == [k \in 1 .. (Len(code) - 1) |-> code[Len(code) - k] * Weight(k)]

LEMMA CheckedDigits ==
  ASSUME NEW code \in Seq(0 .. 9), Len(code) >= 2
  PROVE  /\ CheckDigitHolds(code) <=>
              (10 - (SumFunctionOnSet(WeightedDigits(code), 1 .. (Len(code) - 1)) % 10)) % 10
                = code[Len(code)]
         /\ IsFiniteSet(1 .. (Len(code) - 1))
         /\ \A k \in 1 .. (Len(code) - 1) : WeightedDigits(code)[k] \in Int
<1> DEFINE n == Len(code) - 1
           digits == Reverse(Front(code))
<1>1. n \in Nat /\ n >= 1 /\ code \in [1 .. (n + 1) -> 0 .. 9] /\ Len(code) = n + 1
  OBVIOUS
<1>2. Front(code) \in Seq(0 .. 9) /\ Len(Front(code)) = n /\ \A k \in 1 .. n : Front(code)[k] = code[k]
  BY DEF Front
<1>3. DOMAIN digits = 1 .. n /\ \A k \in 1 .. n : digits[k] = code[n + 1 - k]
  BY <1>1, <1>2 DEF Reverse
<1> HIDE DEF digits, n
<1>4. [k \in DOMAIN digits |-> digits[k] * Weight(k)] = WeightedDigits(code)
  BY <1>1, <1>3 DEF WeightedDigits, n
<1>5. SumFunction([k \in DOMAIN digits |-> digits[k] * Weight(k)])
        = SumFunctionOnSet(WeightedDigits(code), 1 .. n)
  BY <1>3, <1>4 DEF SumFunction
<1>6. \A k \in 1 .. n : WeightedDigits(code)[k] \in Int
  BY <1>1 DEF WeightedDigits, Weight, n
<1>7. IsFiniteSet(1 .. n)
  BY <1>1, FS_Interval
<1> QED
  BY <1>5, <1>6, <1>7 DEF CheckDigitHolds, Last, digits, n

LEMMA WrongDigitShows ==
  ASSUME NEW code \in Seq(0 .. 9), Len(code) >= 2, NEW i \in DOMAIN code, NEW digit \in 0 .. 9,
         digit # code[i], CheckDigitHolds(code)
  PROVE  ~CheckDigitHolds([code EXCEPT ![i] = digit])
<1> DEFINE typed == [code EXCEPT ![i] = digit]
           n == Len(code) - 1
           f == WeightedDigits(code)
           g == WeightedDigits(typed)
           sum(h, S) == SumFunctionOnSet(h, S)
<1>1. /\ typed \in Seq(0 .. 9) /\ Len(typed) = Len(code) /\ typed[i] = digit
      /\ \A k \in DOMAIN code : k # i => typed[k] = code[k]
      /\ n \in Nat /\ Len(code) = n + 1 /\ DOMAIN code = 1 .. (n + 1)
      /\ \A k \in 1 .. (n + 1) : code[k] \in 0 .. 9 /\ typed[k] \in 0 .. 9
  OBVIOUS
<1> HIDE DEF typed, n
<1>2. /\ (10 - (sum(f, 1 .. n) % 10)) % 10 = code[n + 1]
      /\ CheckDigitHolds(typed) <=> (10 - (sum(g, 1 .. n) % 10)) % 10 = typed[n + 1]
      /\ IsFiniteSet(1 .. n) /\ \A k \in 1 .. n : f[k] \in Int /\ g[k] \in Int
  BY <1>1, CheckedDigits DEF n
<1>3. \A k \in 1 .. n : f[k] = code[n + 1 - k] * Weight(k) /\ g[k] = typed[n + 1 - k] * Weight(k)
  BY <1>1 DEF WeightedDigits
<1> HIDE DEF f, g, sum
<1>6. ASSUME NEW h, \A x \in 1 .. n : h[x] \in Int
      PROVE  /\ sum(h, 1 .. n) \in Int
             /\ \A x \in 1 .. n :
                  /\ sum(h, (1 .. n) \ {x}) \in Int
                  /\ sum(h, 1 .. n) = h[x] + sum(h, (1 .. n) \ {x})
  <2>1. PICK S : S = 1 .. n
    OBVIOUS
  <2>2. /\ \A T \in SUBSET S : SumFunctionOnSet(h, T) \in Int
        /\ \A T \in SUBSET S : \A x \in T :
             SumFunctionOnSet(h, T) = h[x] + SumFunctionOnSet(h, T \ {x})
    <3>1. IsFiniteSet(S) /\ \A x \in S : h[x] \in Int
      BY <1>2, <1>6, <2>1
    <3> QED
      BY <3>1, SumTakesAny, SMTT(60)
  <2> QED
    BY <2>1, <2>2 DEF sum
<1>4. CASE i = n + 1
  <2>1. \A k \in 1 .. n : g[k] = f[k]
    BY <1>1, <1>3, <1>4
  <2>2. sum(g, 1 .. n) = sum(f, 1 .. n)
    BY <1>2, <2>1, SumSame DEF sum
  <2> QED
    BY <1>1, <1>2, <1>4, <2>2 DEF typed
<1>5. CASE i # n + 1
  <2>0. PICK j \in 1 .. n : n + 1 - j = i
    <3>1. i \in 1 .. (n + 1)
      BY <1>1
    <3>2. n + 1 - i \in 1 .. n /\ n + 1 - (n + 1 - i) = i
      BY <3>1, <1>1, <1>5
    <3> QED
      BY <3>2
  <2> DEFINE rest == (1 .. n) \ {j}
  <2>1. typed[n + 1] = code[n + 1]
    <3>1. n + 1 \in DOMAIN code
      BY <1>1
    <3> QED
      BY <1>1, <1>5, <3>1
  <2>2. \A k \in rest : g[k] = f[k] /\ f[k] \in Int
    <3> SUFFICES ASSUME NEW k \in 1 .. n, k # j
                 PROVE  g[k] = f[k] /\ f[k] \in Int
      OBVIOUS
    <3>1. n + 1 - k \in DOMAIN code /\ n + 1 - k # i
      BY <1>1, <2>0
    <3>2. typed[n + 1 - k] = code[n + 1 - k]
      BY <1>1, <3>1
    <3> QED
      BY <1>2, <1>3, <3>2
  <2>3. IsFiniteSet(rest) /\ rest \in SUBSET (1 .. n)
    BY <1>2, FS_RemoveElement
  <2>4. sum(g, rest) = sum(f, rest)
    BY <2>2, <2>3, SumSame DEF sum
  <2>5. sum(f, 1 .. n) = f[j] + sum(f, rest) /\ sum(f, rest) \in Int
    BY <1>2, <1>6, <2>0
  <2>6. sum(g, 1 .. n) = g[j] + sum(g, rest)
    BY <1>2, <1>6, <2>0
  <2>7. f[j] = code[i] * Weight(j) /\ g[j] = digit * Weight(j) /\ Weight(j) \in {1, 3}
    BY <1>1, <1>3, <2>0 DEF Weight
  <2>8. code[i] \in 0 .. 9 /\ digit \in 0 .. 9 /\ digit # code[i]
    BY <1>1
  <2>9. ASSUME NEW s \in Int, NEW a \in 0 .. 9, NEW b \in 0 .. 9, a # b, NEW w \in {1, 3},
               (10 - ((a * w + s) % 10)) % 10 = (10 - ((b * w + s) % 10)) % 10
        PROVE  FALSE
    BY <2>9
  <2>10. SUFFICES ASSUME CheckDigitHolds(typed)
                  PROVE  FALSE
    BY DEF typed
  <2>11. (10 - (sum(f, 1 .. n) % 10)) % 10 = (10 - (sum(g, 1 .. n) % 10)) % 10
    BY <1>2, <2>1, <2>10
  <2> HIDE DEF rest
  <2>12. /\ sum(f, 1 .. n) = code[i] * Weight(j) + sum(f, rest)
         /\ sum(g, 1 .. n) = digit * Weight(j) + sum(f, rest)
    BY <2>4, <2>5, <2>6, <2>7
  <2>13. (10 - ((code[i] * Weight(j) + sum(f, rest)) % 10)) % 10
           = (10 - ((digit * Weight(j) + sum(f, rest)) % 10)) % 10
    BY <2>11, <2>12
  <2> QED
    <3>1. PICK a \in 0 .. 9 : a = code[i]
      BY <2>8
    <3>2. PICK b \in 0 .. 9 : b = digit
      BY <2>8
    <3>3. PICK w \in {1, 3} : w = Weight(j)
      BY <2>7
    <3>4. PICK s \in Int : s = sum(f, rest)
      BY <2>5
    <3>5. a # b /\ (10 - ((a * w + s) % 10)) % 10 = (10 - ((b * w + s) % 10)) % 10
      BY <2>8, <2>13, <3>1, <3>2, <3>3, <3>4
    <3> QED
      BY <2>9, <3>5
<1> QED
  BY <1>4, <1>5

LEMMA GtinStart == GtinInit => GtinInv
  BY DEF GtinInit, GtinInv

LEMMA GtinStep ==
  ASSUME GtinInv, [VerifyGtin]_checkedGtin
  PROVE  GtinInv'
<1>1. CASE UNCHANGED checkedGtin
  BY <1>1, Zenon DEF GtinInv
<1>2. CASE VerifyGtin
  <2>1. PICK meant \in TypedGtins, dashed \in BOOLEAN, api \in BOOLEAN :
          \E i \in DOMAIN meant, digit \in 0 .. 9 :
            checkedGtin' = [typed |-> [meant EXCEPT ![i] = digit], meant |-> meant,
                            source |-> Source([meant EXCEPT ![i] = digit], dashed, api)]
    BY <1>2, Zenon DEF VerifyGtin
  <2>2. PICK i \in DOMAIN meant, digit \in 0 .. 9 :
          checkedGtin' = [typed |-> [meant EXCEPT ![i] = digit], meant |-> meant,
                          source |-> Source([meant EXCEPT ![i] = digit], dashed, api)]
    BY <2>1, Zenon
  <2>3. /\ checkedGtin'.meant = meant /\ checkedGtin'.typed = [meant EXCEPT ![i] = digit]
        /\ checkedGtin'.source = Source(checkedGtin'.typed, dashed, api)
    BY <2>2
  <2> HIDE <2>1, <2>2
  <2> QED
    BY <2>3 DEF GtinInv
<1> QED
  BY <1>1, <1>2

LEMMA SlipsShow == GtinInv => SlipsAreNoCounterfeits
<1> SUFFICES ASSUME GtinInv, checkedGtin.source # "none", ValidFormat(checkedGtin.meant),
                    checkedGtin.typed # checkedGtin.meant
             PROVE  checkedGtin.source = "validation-failed"
  BY DEF SlipsAreNoCounterfeits
<1> DEFINE meant == checkedGtin.meant
           typed == checkedGtin.typed
<1>1. PICK i \in DOMAIN meant, digit \in 0 .. 9, dashed \in BOOLEAN, api \in BOOLEAN :
        /\ meant \in TypedGtins
        /\ typed = [meant EXCEPT ![i] = digit]
        /\ checkedGtin.source = Source(typed, dashed, api)
  BY DEF GtinInv
<1>2. meant \in Seq(0 .. 9) /\ Len(meant) >= 2 /\ CheckDigitHolds(meant)
  BY <1>1, GtinAssumption DEF ValidFormat
<1> HIDE DEF meant, typed
<1>3. digit # meant[i]
  <2>1. meant = [k \in DOMAIN meant |-> meant[k]]
    BY <1>2
  <2>2. typed # meant
    BY DEF meant, typed
  <2> QED
    BY <1>1, <2>1, <2>2
<1>4. ~CheckDigitHolds(typed)
  BY <1>1, <1>2, <1>3, WrongDigitShows
<1> QED
  BY <1>1, <1>4 DEF Source, ValidFormat

LEMMA GtinBegin == Init => GtinInv
  BY GtinStart DEF Init

(* A wrong digit in a valid code is always found, whatever digit of whatever *)
(* code it is: the answer is a wrong format, never a counterfeit warning.  *)
THEOREM SlipsAlwaysShow == Spec => []SlipsAreNoCounterfeits
<1>1. GtinInv /\ [Next]_vars => GtinInv'
  BY GtinStep, StepsOfParts
<1> QED
  BY GtinBegin, SlipsShow, <1>1, PTL DEF Spec
-----------------------------------------------------------------------------
(* The scan of the returns, row by row.                                      *)
WithRow(u, g, row) ==
  IF row.user = u \/ row.device = NoMark \/ row.device \notin g.nodes THEN g
  ELSE [Linked(g, row.user, {row.device}) EXCEPT
          !.typed = @ \cup {row.user}, !.score[row.user] = row.score]

IsScan(it, u, g) ==
  it = [s \in SUBSET (DOMAIN Page) |->
          IF s = {} THEN g ELSE WithRow(u, it[s \ {Max(s)}], Page[Max(s)])]

LEMMA ScanIsFold ==
  ASSUME NEW t \in Threads, OtherReturns(t)
  PROVE  graph' = (CHOOSE it : IsScan(it, asking[t].user, graph))[DOMAIN Page]
  BY DEF OtherReturns, FoldLeft, MapThenFoldSet, IsScan, WithRow, Page

LEMMA PageRows ==
  ASSUME returns \in Tables
  PROVE  /\ PageSize \in Nat /\ DOMAIN Page = 1 .. PageSize /\ 1 .. PageSize \subseteq DOMAIN returns
         /\ \A i \in 1 .. PageSize : Page[i] = returns[i]
<1>1. /\ Len(returns) \in Nat /\ DOMAIN returns = 1 .. Len(returns)
      /\ ScanLimit \in Nat
  BY TrustAssumption
<1>2. PageSize \in Nat /\ PageSize <= Len(returns)
  BY <1>1 DEF PageSize
<1> QED
  BY <1>1, <1>2 DEF Page

(* The rows of the first i returns that join the graph of a user with these  *)
(* marks, and the graph with them.                                         *)
JoinedRows(u, i) == {k \in 1 .. i : returns[k].user # u /\ returns[k].device \in OwnMarks(u)}

LastOf(k, rows) == \A m \in rows : returns[m].user = returns[k].user => m <= k

ScoreOf(g, v, rows) ==
  /\ (\A k \in rows : returns[k].user # v) => g.score[v] = 100
  /\ \A k \in rows : returns[k].user = v /\ LastOf(k, rows) => g.score[v] = returns[k].score

Scanned(g, u, i) ==
  /\ g.nodes = {u} \cup OwnMarks(u) \cup {returns[k].user : k \in JoinedRows(u, i)}
  /\ g.typed = {u} \cup {returns[k].user : k \in JoinedRows(u, i)}
  /\ g.edges = {<<u, m>> : m \in OwnMarks(u)}
                 \cup {<<returns[k].user, returns[k].device>> : k \in JoinedRows(u, i)}
  /\ \A v \in Users : ScoreOf(g, v, JoinedRows(u, i))

Marks == {returns[i].device : i \in DOMAIN returns} \cup {returns[i].ip : i \in DOMAIN returns}

TrustGraphs ==
  [nodes : SUBSET (Users \cup Marks), typed : SUBSET Users, score : [Users -> Int],
   edges : SUBSET ((Users \cup Marks) \X (Users \cup Marks))]

LEMMA LinkedMarks ==
  ASSUME NEW g \in TrustGraphs, NEW v \in Users, NEW marks \in SUBSET Marks
  PROVE  /\ Linked(g, v, marks) \in TrustGraphs
         /\ Linked(g, v, marks).nodes = g.nodes \cup marks \cup (IF marks = {} THEN {} ELSE {v})
         /\ Linked(g, v, marks).edges = g.edges \cup {<<v, m>> : m \in marks}
         /\ Linked(g, v, marks).typed = g.typed /\ Linked(g, v, marks).score = g.score
<1>1. PICK nodes \in SUBSET (Users \cup Marks) :
        nodes = g.nodes \cup marks \cup (IF marks = {} THEN {} ELSE {v})
  BY DEF TrustGraphs
<1>2. PICK edges \in SUBSET ((Users \cup Marks) \X (Users \cup Marks)) :
        edges = g.edges \cup {<<v, m>> : m \in marks}
  <2>1. \A m \in marks : <<v, m>> \in (Users \cup Marks) \X (Users \cup Marks)
    OBVIOUS
  <2>2. {<<v, m>> : m \in marks} \subseteq (Users \cup Marks) \X (Users \cup Marks)
    BY <2>1
  <2>3. g.edges \subseteq (Users \cup Marks) \X (Users \cup Marks)
    BY DEF TrustGraphs
  <2> QED
    BY <2>2, <2>3
<1>3. Linked(g, v, marks) = [g EXCEPT !.nodes = nodes, !.edges = edges]
  BY <1>1, <1>2 DEF Linked
<1>4. /\ [g EXCEPT !.nodes = nodes, !.edges = edges] \in TrustGraphs
      /\ [g EXCEPT !.nodes = nodes, !.edges = edges].nodes = nodes
      /\ [g EXCEPT !.nodes = nodes, !.edges = edges].edges = edges
      /\ [g EXCEPT !.nodes = nodes, !.edges = edges].typed = g.typed
      /\ [g EXCEPT !.nodes = nodes, !.edges = edges].score = g.score
  BY DEF TrustGraphs
<1> QED
  BY <1>1, <1>2, <1>3, <1>4

LEMMA RowGraph ==
  ASSUME NEW g \in TrustGraphs, returns \in Tables, NEW i \in DOMAIN returns, NEW u \in Users
  PROVE  /\ WithRow(u, g, returns[i]) \in TrustGraphs
         /\ returns[i].user = u \/ returns[i].device = NoMark \/ returns[i].device \notin g.nodes =>
              WithRow(u, g, returns[i]) = g
         /\ ~(returns[i].user = u \/ returns[i].device = NoMark \/ returns[i].device \notin g.nodes) =>
              /\ WithRow(u, g, returns[i]).nodes = g.nodes \cup {returns[i].user}
              /\ WithRow(u, g, returns[i]).typed = g.typed \cup {returns[i].user}
              /\ WithRow(u, g, returns[i]).edges = g.edges \cup {<<returns[i].user, returns[i].device>>}
              /\ WithRow(u, g, returns[i]).score = [g.score EXCEPT ![returns[i].user] = returns[i].score]
<1> DEFINE row == returns[i]
           v == row.user
           d == row.device
           x == row.score
<1>1. v \in Users /\ x \in Int /\ d \in Marks
  <2>1. returns[i].user \in Users /\ returns[i].score \in 0 .. 100
    BY TrustAssumption, Zenon
  <2>2. returns[i].device \in Marks
    BY DEF Marks
  <2> QED
    BY <2>1, <2>2
<1>2. CASE v = u \/ d = NoMark \/ d \notin g.nodes
  BY <1>2 DEF WithRow
<1>3. CASE ~(v = u \/ d = NoMark \/ d \notin g.nodes)
  <2>1. PICK h : h = Linked(g, v, {d})
    OBVIOUS
  <2>2. WithRow(u, g, row) = [h EXCEPT !.typed = @ \cup {v}, !.score[v] = x]
    BY <1>3, <2>1 DEF WithRow
  <2>3. /\ h \in TrustGraphs
        /\ h.nodes = g.nodes \cup {d} \cup {v} /\ h.edges = g.edges \cup {<<v, d>>}
        /\ h.typed = g.typed /\ h.score = g.score
    BY <1>1, <2>1, LinkedMarks
  <2> HIDE DEF row, v, d, x
  <2>4. /\ WithRow(u, g, row) \in TrustGraphs
        /\ WithRow(u, g, row).nodes = h.nodes /\ WithRow(u, g, row).edges = h.edges
        /\ WithRow(u, g, row).typed = h.typed \cup {v}
        /\ WithRow(u, g, row).score = [h.score EXCEPT ![v] = x]
    <3>1. PICK typed \in SUBSET Users : typed = h.typed \cup {v}
      BY <1>1, <2>3 DEF TrustGraphs
    <3>2. PICK score \in [Users -> Int] : score = [h.score EXCEPT ![v] = x]
      BY <1>1, <2>3 DEF TrustGraphs
    <3>3. WithRow(u, g, row) = [h EXCEPT !.typed = typed, !.score = score]
      BY <2>2, <3>1, <3>2
    <3> QED
      BY <2>3, <3>1, <3>2, <3>3 DEF TrustGraphs
  <2> QED
    BY <1>3, <2>3, <2>4 DEF row, v, d, x
<1> QED
  BY <1>2, <1>3

LEMMA ScanRow ==
  ASSUME returns \in Tables, NEW u \in Users, NEW i \in DOMAIN returns,
         NEW g \in TrustGraphs, Scanned(g, u, i - 1)
  PROVE  Scanned(WithRow(u, g, returns[i]), u, i)
<1> DEFINE before == JoinedRows(u, i - 1)
           after == JoinedRows(u, i)
           v == returns[i].user
           d == returns[i].device
           D == OwnMarks(u)
           h == WithRow(u, g, returns[i])
<1>1. /\ i \in Nat /\ i >= 1
      /\ \A k \in 1 .. i : returns[k].user \in Users /\ returns[k].device \notin Users
      /\ v \in Users /\ d \notin Users
  BY TrustAssumption
<1>2. NoMark \notin D
  <2>1. PICK S : D = S \ {NoMark}
    BY Zenon DEF OwnMarks
  <2> QED
    BY <2>1
<1>3. d \in g.nodes <=> d \in D
  <2>1. g.nodes = {u} \cup D \cup {returns[k].user : k \in before}
    BY DEF Scanned
  <2>2. \A k \in before : returns[k].user \in Users
    BY <1>1 DEF JoinedRows
  <2> HIDE DEF before, d, D
  <2> QED
    BY <1>1, <2>1, <2>2
<1>4. CASE v = u \/ d \notin D
  <2>1. h = g
    <3>1. v = u \/ d = NoMark \/ d \notin g.nodes
      BY <1>3, <1>4
    <3> QED
      BY <3>1, RowGraph
  <2>2. after = before
    <3>1. i \notin after
      BY <1>4 DEF JoinedRows
    <3> QED
      BY <1>1, <3>1 DEF JoinedRows
  <2> QED
    BY <2>1, <2>2 DEF Scanned
<1>5. CASE ~(v = u \/ d \notin D)
  <2>1. /\ h.nodes = g.nodes \cup {v} /\ h.typed = g.typed \cup {v}
        /\ h.edges = g.edges \cup {<<v, d>>}
        /\ h.score = [g.score EXCEPT ![v] = returns[i].score]
    <3>1. ~(v = u \/ d = NoMark \/ d \notin g.nodes)
      BY <1>2, <1>3, <1>5
    <3> QED
      BY <3>1, RowGraph
  <2>2. after = before \cup {i} /\ \A k \in before : k < i /\ k \in Int
    BY <1>1, <1>5 DEF JoinedRows
  <2>3. /\ g.nodes = {u} \cup D \cup {returns[k].user : k \in before}
        /\ g.typed = {u} \cup {returns[k].user : k \in before}
        /\ g.edges = {<<u, m>> : m \in D}
                       \cup {<<returns[k].user, returns[k].device>> : k \in before}
        /\ \A w \in Users : ScoreOf(g, w, before)
    BY DEF Scanned
  <2> HIDE DEF before, after, D, h
  <2>4. h.nodes = {u} \cup D \cup {returns[k].user : k \in after}
    BY <2>1, <2>2, <2>3
  <2>5. h.typed = {u} \cup {returns[k].user : k \in after}
    BY <2>1, <2>2, <2>3
  <2>6. h.edges = {<<u, m>> : m \in D} \cup {<<returns[k].user, returns[k].device>> : k \in after}
    BY <2>1, <2>2, <2>3
  <2>7. ASSUME NEW w \in Users
        PROVE  ScoreOf(h, w, after)
    <3>1. DOMAIN g.score = Users
      BY DEF TrustGraphs
    <3>2. h.score[w] = IF w = v THEN returns[i].score ELSE g.score[w]
      BY <2>1, <3>1
    <3>3. ScoreOf(g, w, before)
      BY <2>3
    <3>4. CASE w = v
      <4>1. i \in after /\ \A k \in after : returns[k].user = v /\ LastOf(k, after) => k = i
        BY <1>1, <2>2 DEF LastOf
      <4> QED
        BY <3>2, <3>4, <4>1 DEF ScoreOf
    <3>5. CASE w # v
      <4>1. \A k \in after : returns[k].user = w => k \in before
        BY <2>2, <3>5
      <4>2. \A k \in before : LastOf(k, after) => LastOf(k, before)
        BY <2>2 DEF LastOf
      <4>3. before \subseteq after
        BY <2>2
      <4> HIDE DEF v
      <4> QED
        BY <3>2, <3>3, <3>5, <4>1, <4>2, <4>3 DEF ScoreOf
    <3> QED
      BY <3>4, <3>5
  <2> QED
    BY <2>4, <2>5, <2>6, <2>7 DEF Scanned, after, D, h
<1> QED
  BY <1>4, <1>5

(* The graphs that the scan goes through.                                    *)
ScanOf(scan, u, g) ==
  /\ scan \in [0 .. PageSize -> TrustGraphs] /\ scan[0] = g
  /\ \A i \in 1 .. PageSize : scan[i] = WithRow(u, scan[i - 1], returns[i])

LEMMA ScanSteps ==
  ASSUME returns \in Tables, NEW u \in Users, NEW g \in TrustGraphs
  PROVE  \E scan : /\ ScanOf(scan, u, g)
                   /\ scan[PageSize] = (CHOOSE it : IsScan(it, u, g))[DOMAIN Page]
<1>1. PICK n \in Nat : /\ n = PageSize /\ DOMAIN Page = 1 .. n /\ 1 .. n \subseteq DOMAIN returns
                       /\ \A i \in 1 .. n : Page[i] = returns[i]
  BY PageRows
<1> DEFINE G == [p \in (1 .. n) \X TrustGraphs |-> WithRow(u, p[2], Page[p[1]])]
<1>2. \A i \in 1 .. n, h \in TrustGraphs :
        G[<<i, h>>] = WithRow(u, h, Page[i]) /\ G[<<i, h>>] \in TrustGraphs
  BY <1>1, RowGraph
<1> HIDE DEF G
<1>3. PICK it \in [SUBSET (1 .. n) -> TrustGraphs] : Follows(it, n, g, G)
  <2>1. \A i \in 1 .. n, h \in TrustGraphs : G[<<i, h>>] \in TrustGraphs
    BY <1>2
  <2> QED
    BY <2>1, FoldsExist
<1>4. ASSUME NEW s \in SUBSET (1 .. n), s # {}
      PROVE  it[s] = WithRow(u, it[s \ {Max(s)}], Page[Max(s)])
  <2>1. Max(s) \in 1 .. n
    BY <1>4, PrefixSets
  <2>2. s \ {Max(s)} \in SUBSET (1 .. n)
    OBVIOUS
  <2>3. it[s \ {Max(s)}] \in TrustGraphs
    BY <2>2
  <2> QED
    BY <1>2, <1>3, <1>4, <2>1, <2>3 DEF Follows
<1>5. IsScan(it, u, g)
  <2>1. it = [s \in SUBSET (1 .. n) |->
                IF s = {} THEN g ELSE WithRow(u, it[s \ {Max(s)}], Page[Max(s)])]
    BY <1>3, <1>4 DEF Follows
  <2> QED
    BY <1>1, <2>1 DEF IsScan
<1> DEFINE fold == CHOOSE h : IsScan(h, u, g)
<1>6. IsScan(fold, u, g)
  BY <1>5, Zenon
<1> HIDE DEF fold
<1>7. /\ fold[1 .. 0] = g
      /\ \A i \in 1 .. n : fold[1 .. i] = WithRow(u, fold[1 .. (i - 1)], Page[i])
  <2>1. fold = [s \in SUBSET (1 .. n) |->
                IF s = {} THEN g ELSE WithRow(u, fold[s \ {Max(s)}], Page[Max(s)])]
    BY <1>1, <1>6 DEF IsScan
  <2>2. {} \in SUBSET (1 .. n) /\ 1 .. 0 = {}
    BY PrefixSets
  <2>3. fold[1 .. 0] = g
    BY <2>1, <2>2
  <2>4. ASSUME NEW i \in 1 .. n
        PROVE  fold[1 .. i] = WithRow(u, fold[1 .. (i - 1)], Page[i])
    <3>1. 1 .. i \in SUBSET (1 .. n)
      OBVIOUS
    <3>2. Max(1 .. i) = i /\ (1 .. i) \ {i} = 1 .. (i - 1) /\ 1 .. i # {}
      BY PrefixSets
    <3>3. \A s \in SUBSET (1 .. n) : s # {} =>
            fold[s] = WithRow(u, fold[s \ {Max(s)}], Page[Max(s)])
      BY <2>1
    <3> QED
      BY <3>1, <3>2, <3>3
  <2> QED
    BY <2>3, <2>4
<1> DEFINE scan == [i \in 0 .. n |-> fold[1 .. i]]
           bad == {i \in 0 .. n : fold[1 .. i] \notin TrustGraphs}
<1>8. bad = {}
  <2> SUFFICES ASSUME bad # {}
               PROVE  FALSE
    OBVIOUS
  <2>1. PICK i \in bad : \A m \in bad : i <= m
    <3>1. bad \subseteq Nat
      OBVIOUS
    <3> HIDE DEF bad
    <3> QED
      BY <3>1, LeastNatural
  <2>2. i \in 1 .. n /\ i - 1 \in 0 .. n
    <3>1. i \in 0 .. n /\ i # 0
      BY <1>7, <2>1
    <3> QED
      BY <3>1
  <2>3. fold[1 .. (i - 1)] \in TrustGraphs
    <3>1. i - 1 \notin bad
      BY <2>1, <2>2
    <3> QED
      BY <2>2, <3>1
  <2>4. WithRow(u, fold[1 .. (i - 1)], returns[i]) \in TrustGraphs
    BY <1>1, <2>2, <2>3, RowGraph
  <2>5. fold[1 .. i] \in TrustGraphs
    BY <1>1, <1>7, <2>2, <2>4
  <2> QED
    BY <2>1, <2>5
<1>9. scan \in [0 .. n -> TrustGraphs]
  BY <1>8
<1>10. \A i \in 0 .. n : scan[i] = fold[1 .. i]
  OBVIOUS
<1>11. 0 \in 0 .. n /\ n \in 0 .. n /\ \A i \in 1 .. n : i \in 0 .. n /\ i - 1 \in 0 .. n
  OBVIOUS
<1> HIDE DEF scan
<1>12. ScanOf(scan, u, g)
  <2>1. \A i \in 1 .. n : scan[i] = WithRow(u, scan[i - 1], returns[i])
    BY <1>1, <1>7, <1>10, <1>11
  <2> QED
    BY <1>1, <1>7, <1>9, <1>10, <1>11, <2>1 DEF ScanOf
<1>13. scan[PageSize] = fold[DOMAIN Page]
  BY <1>1, <1>10, <1>11
<1> QED
  BY <1>12, <1>13 DEF fold

LEMMA ScanAll ==
  ASSUME returns \in Tables, NEW u \in Users, NEW g \in TrustGraphs, Scanned(g, u, 0)
  PROVE  Scanned((CHOOSE it : IsScan(it, u, g))[DOMAIN Page], u, PageSize)
<1>1. PICK scan : /\ ScanOf(scan, u, g)
                  /\ scan[PageSize] = (CHOOSE it : IsScan(it, u, g))[DOMAIN Page]
  BY ScanSteps
<1>2. PICK n \in Nat : n = PageSize /\ 1 .. n \subseteq DOMAIN returns
  BY PageRows
<1> DEFINE bad == {i \in 0 .. n : ~Scanned(scan[i], u, i)}
<1>3. bad = {}
  <2> SUFFICES ASSUME bad # {}
               PROVE  FALSE
    OBVIOUS
  <2>1. PICK i \in bad : \A m \in bad : i <= m
    <3>1. bad \subseteq Nat
      OBVIOUS
    <3> HIDE DEF bad
    <3> QED
      BY <3>1, LeastNatural
  <2>2. i \in 1 .. n /\ i - 1 \in 0 .. n
    <3>1. i # 0
      BY <1>1, <2>1 DEF ScanOf
    <3> QED
      BY <2>1, <3>1
  <2>3. Scanned(scan[i - 1], u, i - 1)
    <3>1. i - 1 \notin bad
      BY <2>1, <2>2
    <3> QED
      BY <2>2, <3>1
  <2>4. scan[i - 1] \in TrustGraphs /\ scan[i] = WithRow(u, scan[i - 1], returns[i])
    BY <1>1, <1>2, <2>2 DEF ScanOf
  <2>5. Scanned(scan[i], u, i)
    BY <1>2, <2>2, <2>3, <2>4, ScanRow
  <2> QED
    BY <2>1, <2>5
<1>4. n \in 0 .. n
  OBVIOUS
<1> QED
  BY <1>1, <1>2, <1>3, <1>4
-----------------------------------------------------------------------------
(* A graph that the whole page was read into gives the verdict of the rows.   *)
LowJoiners(u) ==
  {s \in (Users \ {u}) \X OwnMarks(u) :
     /\ \E i \in DOMAIN Page : Page[i].user = s[1] /\ Page[i].device = s[2]
     /\ LastScore(s[1], OwnMarks(u)) < 50}

LEMMA LastScoreNoted ==
  ASSUME returns \in Tables, NEW u \in Users, NEW g, Scanned(g, u, PageSize),
         NEW k \in JoinedRows(u, PageSize)
  PROVE  g.score[returns[k].user] = LastScore(returns[k].user, OwnMarks(u))
<1>1. PICK n \in Nat : /\ n = PageSize /\ DOMAIN Page = 1 .. n
                       /\ \A i \in 1 .. n : i \in DOMAIN returns /\ Page[i] = returns[i]
  BY PageRows
<1> DEFINE v == returns[k].user
           D == OwnMarks(u)
           rows == {i \in DOMAIN Page : Page[i].user = v /\ Page[i].device \in D}
           joined == JoinedRows(u, n)
<1>2. k \in joined /\ k \in rows /\ v # u /\ v \in Users
  BY <1>1, TrustAssumption DEF JoinedRows
<1>3. \A m : m \in rows <=> m \in joined /\ returns[m].user = v
  BY <1>1, <1>2 DEF JoinedRows
<1>4. PICK last \in rows : \A j \in rows : j <= last
  <2> DEFINE gaps == {n - x : x \in rows}
  <2> HIDE DEF rows
  <2>1. rows \subseteq 1 .. n
    BY <1>1 DEF rows
  <2>2. \A x \in rows : n - x \in Nat /\ n - x \in gaps
    BY <2>1
  <2>3. gaps \subseteq Nat /\ gaps # {}
    BY <1>2, <2>2
  <2>4. PICK m \in gaps : \A j \in gaps : m <= j
    BY <2>3, LeastNatural
  <2>5. PICK x \in rows : m = n - x
    BY <2>4
  <2> HIDE DEF gaps
  <2>6. \A j \in rows : n - x <= n - j
    BY <2>2, <2>4, <2>5
  <2> QED
    BY <2>1, <2>6
<1>5. LastScore(v, D) = Page[CHOOSE i \in rows : \A j \in rows : j <= i].score
  BY DEF LastScore
<1> DEFINE top == CHOOSE i \in rows : \A j \in rows : j <= i
<1>6. top \in rows /\ \A j \in rows : j <= top
  BY <1>4
<1>7. LastScore(v, D) = returns[top].score
  BY <1>1, <1>5, <1>6
<1> HIDE DEF top, rows, joined
<1>8. top \in joined /\ returns[top].user = v /\ LastOf(top, joined)
  BY <1>3, <1>6 DEF LastOf
<1>9. ScoreOf(g, v, joined)
  BY <1>1, <1>2 DEF Scanned, joined
<1> QED
  BY <1>7, <1>8, <1>9 DEF ScoreOf

LEMMA SuspectsAreLow ==
  ASSUME returns \in Tables, NEW u \in Users, Scanned(graph, u, PageSize)
  PROVE  Suspects(u) = LowJoiners(u) /\ IsFiniteSet(LowJoiners(u))
<1>1. PICK n \in Nat : /\ n = PageSize /\ DOMAIN Page = 1 .. n
                       /\ \A i \in 1 .. n : i \in DOMAIN returns /\ Page[i] = returns[i]
  BY PageRows
<1> DEFINE D == OwnMarks(u)
           joined == JoinedRows(u, n)
           pair(k) == <<returns[k].user, returns[k].device>>
           low == {k \in joined : LastScore(returns[k].user, D) < 50}
<1>2. /\ graph.typed = {u} \cup {returns[k].user : k \in joined}
      /\ graph.edges = {<<u, m>> : m \in D} \cup {pair(k) : k \in joined}
  BY <1>1 DEF Scanned
<1>3. \A k \in joined : /\ returns[k].user # u /\ returns[k].device \in D /\ returns[k].user \in Users
                        /\ k \in DOMAIN Page /\ Page[k] = returns[k]
  BY <1>1, TrustAssumption DEF JoinedRows
<1>4. \A k \in joined : graph.score[returns[k].user] = LastScore(returns[k].user, D)
  BY <1>1, LastScoreNoted
<1>5. \A k \in DOMAIN Page : returns[k].user # u /\ returns[k].device \in D => k \in joined
  BY <1>1 DEF JoinedRows
<1>6. LowJoiners(u) = {pair(k) : k \in low}
  <2> HIDE DEF joined, D
  <2>1. ASSUME NEW s \in LowJoiners(u)
        PROVE  s \in {pair(k) : k \in low}
    <3>1. PICK k \in DOMAIN Page : returns[k].user = s[1] /\ returns[k].device = s[2]
      BY <1>1 DEF LowJoiners
    <3>2. s = <<s[1], s[2]>> /\ s[1] # u /\ s[2] \in D /\ LastScore(s[1], D) < 50
      BY DEF LowJoiners, D
    <3>3. k \in low /\ s = pair(k)
      BY <1>5, <3>1, <3>2
    <3> QED
      BY <3>3
  <2>2. ASSUME NEW k \in low
        PROVE  pair(k) \in LowJoiners(u)
    BY <1>3 DEF LowJoiners, D
  <2> QED
    BY <2>1, <2>2
<1> HIDE DEF joined, D
<1>7. Suspects(u) = {pair(k) : k \in low}
  <2>1. ASSUME NEW e \in Suspects(u)
        PROVE  e \in {pair(k) : k \in low}
    <3>1. e \in graph.edges /\ e[1] # u /\ graph.score[e[1]] < 50
      BY DEF Suspects
    <3>2. PICK k \in joined : e = pair(k)
      BY <1>2, <3>1
    <3>3. e[1] = returns[k].user
      BY <3>2
    <3>4. k \in low
      BY <1>4, <3>1, <3>3
    <3> QED
      BY <3>2, <3>4
  <2>2. ASSUME NEW k \in low
        PROVE  pair(k) \in Suspects(u)
    <3>1. /\ pair(k) \in graph.edges /\ <<u, returns[k].device>> \in graph.edges
          /\ returns[k].user \in graph.typed
      BY <1>2, <1>3
    <3>2. returns[k].user # u /\ graph.score[returns[k].user] < 50
      BY <1>3, <1>4
    <3> QED
      BY <3>1, <3>2 DEF Suspects
  <2> QED
    BY <2>1, <2>2
<1>8. IsFiniteSet(low)
  <2>1. low \subseteq 1 .. n
    BY <1>1, <1>3
  <2>2. IsFiniteSet(1 .. n)
    BY FS_Interval
  <2> HIDE DEF low
  <2> QED
    BY <2>1, <2>2, FS_Subset
<1>9. IsFiniteSet({pair(k) : k \in low})
  <2> HIDE DEF low
  <2>1. PICK f : f = [k \in low |-> pair(k)]
    OBVIOUS
  <2>2. PICK T : T = {pair(k) : k \in low}
    OBVIOUS
  <2>3. f \in Surjection(low, T)
    BY <2>1, <2>2 DEF Surjection
  <2> QED
    BY <1>8, <2>2, <2>3, FS_Surjection
<1> QED
  BY <1>6, <1>7, <1>9

LEMMA VerdictByRows ==
  ASSUME returns \in Tables, NEW u \in Users, Scanned(graph, u, PageSize)
  PROVE  /\ Verdict(u).record
         /\ Verdict(u).final = ScoreByRows(u)
         /\ Advice(Verdict(u)) = "hold refund" <=> Verdict(u).flagged
<1>1. PICK n \in Nat : /\ n = PageSize /\ DOMAIN Page = 1 .. n
                       /\ \A i \in 1 .. n : i \in DOMAIN returns /\ Page[i] = returns[i]
  BY PageRows
<1>2. u \in graph.nodes /\ graph.score[u] = 100
  <2>1. \A k \in JoinedRows(u, n) : returns[k].user # u
    BY DEF JoinedRows
  <2> QED
    BY <1>1, <2>1 DEF Scanned, ScoreOf
<1>3. PICK c \in Nat : c = Cardinality(Suspects(u)) /\ c = Cardinality(LowJoiners(u))
  BY SuspectsAreLow, FS_CardinalityType
<1>4. ScoreByRows(u) = IF 20 * c > 100 THEN 0 ELSE 100 - 20 * c
  <2>1. LowJoiners(u) =
          {s \in {s \in (Users \ {u}) \X OwnMarks(u) :
                    \E i \in DOMAIN Page : Page[i].user = s[1] /\ Page[i].device = s[2]} :
             LastScore(s[1], OwnMarks(u)) < 50}
    BY DEF LowJoiners
  <2> QED
    BY <1>3, <2>1, Zenon DEF ScoreByRows
<1>5. PICK final \in Int : final = IF 100 - 20 * c < 0 THEN 0 ELSE 100 - 20 * c
  OBVIOUS
<1>6. Verdict(u) = [record |-> TRUE, final |-> final, revoked |-> final < 70, flagged |-> final < 30]
  BY <1>2, <1>3, <1>5 DEF Verdict
<1>7. Verdict(u).record /\ Verdict(u).final = final /\ Verdict(u).flagged = (final < 30)
  BY <1>6
<1>8. Advice(Verdict(u)) = "hold refund" <=> final < 30
  BY <1>7 DEF Advice
<1>9. final = ScoreByRows(u)
  BY <1>4, <1>5
<1> QED
  BY <1>7, <1>8, <1>9
-----------------------------------------------------------------------------
(* The requests for trust scores.  A clean request is the only one, so the   *)
(* graph is the one that it has built so far.                              *)
TrustRequests ==
  [at : {"own", "scan", "score"}, user : Users, complete : BOOLEAN, clean : BOOLEAN]

BuiltSoFar(r) ==
  /\ r.at = "own" => graph = Fresh(r.user)
  /\ r.at = "scan" => graph = Linked(Fresh(r.user), r.user, OwnMarks(r.user))
  /\ r.at = "score" /\ r.complete => Scanned(graph, r.user, PageSize)

Answered(r) ==
  /\ r.verdict.record
  /\ r.verdict.final = ScoreByRows(r.user)
  /\ r.advice = "hold refund" <=> r.verdict.flagged

TrustInv ==
  /\ returns \in Tables
  /\ asking = [t \in Threads |-> asking[t]]
  /\ \A t \in Threads :
       /\ Asking(t) => asking[t] \in TrustRequests
       /\ Asking(t) /\ asking[t].clean =>
            BuiltSoFar(asking[t]) /\ \A o \in Threads : Asking(o) => o = t
       /\ ~Asking(t) /\ asking[t].clean => Answered(asking[t])

LEMMA TrustFreshMarks ==
  ASSUME returns \in Tables, NEW u \in Users
  PROVE  /\ Linked(Fresh(u), u, OwnMarks(u)) \in TrustGraphs
         /\ Scanned(Linked(Fresh(u), u, OwnMarks(u)), u, 0)
<1>1. Fresh(u) \in TrustGraphs
  BY DEF Fresh, TrustGraphs
<1>2. OwnMarks(u) \in SUBSET Marks
  BY DEF OwnMarks, Marks
<1>3. JoinedRows(u, 0) = {}
  BY DEF JoinedRows
<1> DEFINE g == Linked(Fresh(u), u, OwnMarks(u))
<1>4. /\ g \in TrustGraphs
      /\ g.nodes = {u} \cup OwnMarks(u) /\ g.edges = {<<u, m>> : m \in OwnMarks(u)}
      /\ g.typed = {u} /\ g.score = [v \in Users |-> 100]
  <2>1. /\ Fresh(u).nodes = {u} /\ Fresh(u).edges = {} /\ Fresh(u).typed = {u}
        /\ Fresh(u).score = [v \in Users |-> 100]
    BY DEF Fresh
  <2>2. /\ g \in TrustGraphs
        /\ g.nodes = Fresh(u).nodes \cup OwnMarks(u) \cup (IF OwnMarks(u) = {} THEN {} ELSE {u})
        /\ g.edges = Fresh(u).edges \cup {<<u, m>> : m \in OwnMarks(u)}
        /\ g.typed = Fresh(u).typed /\ g.score = Fresh(u).score
    BY <1>1, <1>2, LinkedMarks
  <2> HIDE DEF g
  <2> QED
    BY <2>1, <2>2
<1> HIDE DEF g
<1> QED
  BY <1>3, <1>4 DEF Scanned, ScoreOf, g

LEMMA TrustBegin ==
  ASSUME TrustInv, NEW t \in Threads, Begin(t)
  PROVE  TrustInv'
<1>1. PICK u \in Users, clean \in BOOLEAN :
        /\ graph' = Fresh(u)
        /\ clean = (\A o \in Threads : ~Asking(o))
        /\ asking' = [q \in Threads |->
             IF q = t THEN [at |-> "own", user |-> u, complete |-> TRUE, clean |-> clean]
             ELSE IF Asking(q) THEN [asking[q] EXCEPT !.clean = FALSE] ELSE asking[q]]
  <2>1. PICK u \in Users :
        /\ graph' = Fresh(u)
        /\ asking' = [q \in Threads |->
             IF q = t THEN [at |-> "own", user |-> u, complete |-> TRUE,
                            clean |-> \A o \in Threads : ~Asking(o)]
             ELSE IF Asking(q) THEN [asking[q] EXCEPT !.clean = FALSE] ELSE asking[q]]
    BY Zenon DEF Begin
  <2>2. CASE \A o \in Threads : ~Asking(o)
    <3>1. (\A o \in Threads : ~Asking(o)) = TRUE
      BY <2>2
    <3> QED
      BY <2>1, <3>1
  <2>3. CASE ~\A o \in Threads : ~Asking(o)
    <3>1. (\A o \in Threads : ~Asking(o)) = FALSE
      BY <2>3
    <3> QED
      BY <2>1, <3>1
  <2> QED
    BY <2>2, <2>3
<1>2. returns' = returns
  BY DEF Begin
<1>3. asking'[t] = [at |-> "own", user |-> u, complete |-> TRUE, clean |-> clean]
  BY <1>1
<1>4. \A q \in Threads \ {t} :
        /\ ~Asking(q) => asking'[q] = asking[q]
        /\ Asking(q) => /\ asking'[q] \in TrustRequests /\ ~asking'[q].clean
  <2> SUFFICES ASSUME NEW q \in Threads \ {t}
               PROVE  /\ ~Asking(q) => asking'[q] = asking[q]
                      /\ Asking(q) => /\ asking'[q] \in TrustRequests /\ ~asking'[q].clean
    OBVIOUS
  <2>1. asking'[q] = IF Asking(q) THEN [asking[q] EXCEPT !.clean = FALSE] ELSE asking[q]
    BY <1>1, Zenon
  <2>2. Asking(q) => asking[q] \in TrustRequests
    BY DEF TrustInv
  <2> QED
    BY <2>1, <2>2 DEF TrustRequests
<1>5. Asking(t)' /\ asking'[t] \in TrustRequests /\ BuiltSoFar(asking[t])'
  BY <1>1, <1>3 DEF Asking, TrustRequests, BuiltSoFar
<1>6. \A q \in Threads \ {t} : Asking(q)' <=> Asking(q)
  BY <1>4 DEF Asking, TrustRequests
<1>7. asking' = [q \in Threads |-> asking'[q]]
  BY <1>1
<1>8. \A r : Answered(r)' <=> Answered(r)
  BY <1>2 DEF Answered, ScoreByRows, LastScore, OwnMarks, Page, PageSize
<1>9. asking'[t].clean => \A o \in Threads : Asking(o)' => o = t
  BY <1>1, <1>3, <1>6
<1>10. \A q \in Threads : ~Asking(q) /\ asking[q].clean => Answered(asking[q])
  BY DEF TrustInv
<1> QED
  <2>1. \A q \in Threads \ {t} :
          /\ Asking(q)' => asking'[q] \in TrustRequests /\ ~asking'[q].clean
          /\ ~Asking(q)' /\ asking'[q].clean => Answered(asking[q])'
    BY <1>4, <1>6, <1>8, <1>10
  <2>2. (returns \in Tables)'
    BY <1>2 DEF TrustInv
  <2> QED
    BY <1>5, <1>7, <1>9, <2>1, <2>2 DEF TrustInv

LEMMA AnswersStay ==
  ASSUME returns' = returns
  PROVE  \A r : Answered(r)' <=> Answered(r)
  BY DEF Answered, ScoreByRows, LastScore, OwnMarks, Page, PageSize

(* A step of a request that does not begin it.                               *)
LEMMA TrustGoesOn ==
  ASSUME TrustInv, NEW t \in Threads, NEW r,
         Asking(t), asking' = [asking EXCEPT ![t] = r], returns' = returns,
         r.at # "done" => r \in TrustRequests,
         r.clean => asking[t].clean,
         r.at # "done" /\ r.clean => BuiltSoFar(r)',
         r.at = "done" /\ r.clean => Answered(r),
         (\E o \in Threads \ {t} : Asking(o) /\ asking[o].clean) => graph' = graph
  PROVE  TrustInv'
<1>1. asking'[t] = r /\ (\A q \in Threads \ {t} : asking'[q] = asking[q])
        /\ asking' = [q \in Threads |-> asking'[q]]
  <2>1. asking = [q \in Threads |-> asking[q]]
    BY DEF TrustInv
  <2>2. DOMAIN asking = Threads
    BY <2>1
  <2> QED
    BY <2>2
<1>2. \A q \in Threads : Asking(q)' <=> IF q = t THEN r.at # "done" ELSE Asking(q)
  BY <1>1 DEF Asking
<1>3. \A x : Answered(x)' <=> Answered(x)
  BY AnswersStay
<1>4. ASSUME NEW q \in Threads \ {t}, Asking(q), asking[q].clean
      PROVE  FALSE
  BY <1>4 DEF TrustInv
<1>5. asking[t].clean => \A o \in Threads : Asking(o) => o = t
  BY DEF TrustInv
<1>6. (returns \in Tables)'
  BY DEF TrustInv
<1>7. \A q \in Threads :
        /\ Asking(q) => asking[q] \in TrustRequests
        /\ ~Asking(q) /\ asking[q].clean => Answered(asking[q])
  BY DEF TrustInv
<1>8. ASSUME NEW q \in Threads
      PROVE  /\ Asking(q)' => asking'[q] \in TrustRequests
             /\ Asking(q)' /\ asking'[q].clean =>
                  BuiltSoFar(asking[q])' /\ \A o \in Threads : Asking(o)' => o = q
             /\ ~Asking(q)' /\ asking'[q].clean => Answered(asking[q])'
  <2>1. CASE q = t
    <3>1. BuiltSoFar(r)' => BuiltSoFar(asking[q])'
      BY <1>1, <2>1
    <3> QED
      BY <1>1, <1>2, <1>3, <1>5, <2>1
  <2>2. CASE q # t
    BY <1>1, <1>2, <1>3, <1>4, <1>7, <2>2
  <2> QED
    BY <2>1, <2>2
<1> QED
  BY <1>1, <1>6, <1>8 DEF TrustInv

LEMMA TrustStart == TrustInit => TrustInv
<1> SUFFICES ASSUME TrustInit
             PROVE  TrustInv
  OBVIOUS
<1>1. \A t \in Threads : asking[t].at = "done" /\ ~asking[t].clean
  BY DEF TrustInit
<1> QED
  BY <1>1 DEF TrustInit, TrustInv, Asking

LEMMA TrustStep ==
  ASSUME TrustInv, [TrustNext]_trustVars
  PROVE  TrustInv'
<1>1. CASE UNCHANGED trustVars
  <2>1. returns' = returns /\ graph' = graph /\ asking' = asking
    BY <1>1 DEF trustVars
  <2>2. \A r : /\ Answered(r)' <=> Answered(r)
               /\ BuiltSoFar(r)' <=> BuiltSoFar(r)
    BY <2>1 DEF Answered, ScoreByRows, LastScore, OwnMarks, Page, PageSize, BuiltSoFar, Scanned, ScoreOf,
                JoinedRows, LastOf
  <2>3. \A t \in Threads : /\ Answered(asking[t])' <=> Answered(asking[t])
                           /\ BuiltSoFar(asking[t])' <=> BuiltSoFar(asking[t])
    BY <2>1, <2>2
  <2> QED
    BY <2>1, <2>3 DEF TrustInv, Asking
<1>2. ASSUME NEW t \in Threads, Begin(t)
      PROVE  TrustInv'
  BY <1>2, TrustBegin
<1>3. ASSUME NEW t \in Threads, Asking(t)
      PROVE  /\ asking[t] \in TrustRequests
             /\ asking[t].clean => BuiltSoFar(asking[t])
             /\ ~\E o \in Threads \ {t} : asking[t].clean /\ Asking(o)
             /\ ~\E o \in Threads \ {t} : Asking(o) /\ asking[o].clean
  BY <1>3 DEF TrustInv
<1>4. ASSUME NEW t \in Threads, Fails(t)
      PROVE  TrustInv'
  <2>1. Asking(t) /\ returns' = returns
    BY <1>4 DEF Fails, Asking
  <2>2. PICK r : r = [asking[t] EXCEPT !.at = "score", !.complete = FALSE]
    OBVIOUS
  <2>3. asking' = [asking EXCEPT ![t] = r]
    BY <1>4, <2>2 DEF Fails
  <2>4. r \in TrustRequests /\ r.at = "score" /\ ~r.complete /\ r.clean = asking[t].clean
    BY <1>3, <2>1, <2>2 DEF TrustRequests
  <2>5. BuiltSoFar(r)'
    BY <2>4 DEF BuiltSoFar
  <2> QED
    BY <1>3, <2>1, <2>3, <2>4, <2>5, TrustGoesOn
<1>5. ASSUME NEW t \in Threads, OwnReturns(t)
      PROVE  TrustInv'
  <2>1. Asking(t) /\ asking[t].at = "own" /\ returns' = returns
    BY <1>5 DEF OwnReturns, Asking
  <2>2. PICK r : r = [asking[t] EXCEPT !.at = "scan"]
    OBVIOUS
  <2>3. /\ asking' = [asking EXCEPT ![t] = r]
        /\ graph' = Linked(graph, asking[t].user, OwnMarks(asking[t].user))
    BY <1>5, <2>2 DEF OwnReturns
  <2>4. /\ r \in TrustRequests /\ r.at = "scan" /\ r.clean = asking[t].clean
        /\ r.user = asking[t].user
    BY <1>3, <2>1, <2>2 DEF TrustRequests
  <2>5. ASSUME r.clean
        PROVE  BuiltSoFar(r)'
    <3>1. graph = Fresh(r.user)
      BY <1>3, <2>1, <2>4, <2>5 DEF BuiltSoFar
    <3>2. OwnMarks(r.user)' = OwnMarks(r.user)
      BY <2>1 DEF OwnMarks
    <3>3. graph' = Linked(Fresh(r.user), r.user, OwnMarks(r.user))'
      BY <2>3, <2>4, <3>1, <3>2 DEF Linked, Fresh
    <3> QED
      BY <2>4, <3>3 DEF BuiltSoFar
  <2> QED
    BY <1>3, <2>1, <2>3, <2>4, <2>5, TrustGoesOn
<1>6. ASSUME NEW t \in Threads, OtherReturns(t)
      PROVE  TrustInv'
  <2>1. Asking(t) /\ asking[t].at = "scan" /\ returns' = returns
    BY <1>6 DEF OtherReturns, Asking
  <2>2. PICK r : r = [asking[t] EXCEPT !.at = "score"]
    OBVIOUS
  <2>3. /\ asking' = [asking EXCEPT ![t] = r]
        /\ graph' = (CHOOSE it : IsScan(it, asking[t].user, graph))[DOMAIN Page]
    <3>1. asking' = [asking EXCEPT ![t].at = "score"]
      BY <1>6 DEF OtherReturns
    <3> QED
      BY <1>6, <2>2, <3>1, ScanIsFold
  <2>4. /\ r \in TrustRequests /\ r.at = "score" /\ r.clean = asking[t].clean
        /\ r.user = asking[t].user /\ r.user \in Users
    BY <1>3, <2>1, <2>2 DEF TrustRequests
  <2>5. ASSUME r.clean
        PROVE  BuiltSoFar(r)'
    <3>1. graph = Linked(Fresh(r.user), r.user, OwnMarks(r.user)) /\ returns \in Tables
      BY <1>3, <2>1, <2>4, <2>5 DEF BuiltSoFar, TrustInv
    <3>2. graph \in TrustGraphs /\ Scanned(graph, r.user, 0)
      BY <2>4, <3>1, TrustFreshMarks
    <3>3. Scanned((CHOOSE it : IsScan(it, r.user, graph))[DOMAIN Page], r.user, PageSize)
      BY <2>4, <3>1, <3>2, ScanAll
    <3>4. PICK g : g = graph'
      OBVIOUS
    <3>5. Scanned(g, r.user, PageSize)
      BY <2>3, <2>4, <3>3, <3>4
    <3>6. Scanned(g, r.user, PageSize)'
      BY <2>1, <3>5 DEF Scanned, ScoreOf, JoinedRows, LastOf, OwnMarks, PageSize
    <3>7. Scanned(graph, r.user, PageSize)'
      BY <3>4, <3>6
    <3> QED
      BY <2>4, <3>7 DEF BuiltSoFar
  <2> QED
    BY <1>3, <2>1, <2>3, <2>4, <2>5, TrustGoesOn
<1>7. ASSUME NEW t \in Threads, Evaluate(t)
      PROVE  TrustInv'
  <2>1. Asking(t) /\ asking[t].at = "score" /\ returns' = returns /\ graph' = graph
    BY <1>7 DEF Evaluate, Asking
  <2>2. PICK u \in Users : u = asking[t].user
    BY <1>3, <2>1 DEF TrustRequests
  <2>3. PICK r : r = [at |-> "done", user |-> u, clean |-> asking[t].clean /\ asking[t].complete,
                      verdict |-> Verdict(u), advice |-> Advice(Verdict(u))]
    OBVIOUS
  <2>4. asking' = [asking EXCEPT ![t] = r]
    BY <1>7, <2>2, <2>3 DEF Evaluate
  <2>5. /\ r.at = "done" /\ r.user = u /\ r.clean = (asking[t].clean /\ asking[t].complete)
        /\ r.verdict = Verdict(u) /\ r.advice = Advice(Verdict(u))
    BY <2>3
  <2>6. ASSUME r.clean
        PROVE  Answered(r)
    <3>1. asking[t].clean /\ asking[t].complete
      BY <2>5, <2>6
    <3>2. Scanned(graph, u, PageSize) /\ returns \in Tables
      BY <1>3, <2>1, <2>2, <3>1 DEF BuiltSoFar, TrustInv
    <3> QED
      BY <2>5, <3>2, VerdictByRows DEF Answered
  <2> QED
    BY <1>3, <2>1, <2>4, <2>5, <2>6, TrustGoesOn
<1> QED
  BY <1>1, <1>2, <1>4, <1>5, <1>6, <1>7 DEF TrustNext

LEMMA CleanAnswers == TrustInv => OnlyOverlapsMisjudge
  BY DEF TrustInv, OnlyOverlapsMisjudge, Answered

LEMMA TrustAtRest == Init => TrustInv
  BY TrustStart DEF Init

(* A score that differs from what the rows it reads say is that of a request  *)
(* whose graph another one replaced or whose reads failed, for every table   *)
(* of returns and every limit of the scan.                                *)
THEOREM CleanScoresAreRight == Spec => []OnlyOverlapsMisjudge
<1>1. TrustInv /\ [Next]_vars => TrustInv'
  BY TrustStep, StepsOfParts
<1> QED
  BY TrustAtRest, CleanAnswers, <1>1, PTL DEF Spec
-----------------------------------------------------------------------------
(* What every graph shows, whoever built it: edges that returns show and      *)
(* scores that returns note.                                               *)
Noted(v) == {100} \cup {returns[i].score : i \in {j \in DOMAIN returns : returns[j].user = v}}

RealEdge(e) == \E i \in DOMAIN returns : UsedMark(i, e[1], e[2])

RealGraph(g) ==
  /\ g \in TrustGraphs
  /\ \A e \in g.edges : RealEdge(e)
  /\ \A v \in Users : g.score[v] \in Noted(v)

Charged(r) ==
  \E base \in Noted(r.user) : r.verdict.final >= base - 20 * Cardinality(Ties(r.user))

RealInv ==
  /\ RealGraph(graph)
  /\ \A t \in Threads : "verdict" \in DOMAIN asking[t] => Charged(asking[t])

LEMMA FreshIsReal ==
  ASSUME NEW u \in Users
  PROVE  RealGraph(Fresh(u))
<1>1. /\ Fresh(u) \in TrustGraphs /\ Fresh(u).edges = {}
      /\ \A v \in Users : Fresh(u).score[v] = 100
  BY DEF Fresh, TrustGraphs
<1> QED
  BY <1>1 DEF RealGraph, Noted

LEMMA LinkedIsReal ==
  ASSUME NEW u \in Users, NEW g, RealGraph(g)
  PROVE  RealGraph(Linked(g, u, OwnMarks(u)))
<1>1. OwnMarks(u) \in SUBSET Marks
  BY DEF OwnMarks, Marks
<1>2. \A m \in OwnMarks(u) : \E i \in DOMAIN returns : UsedMark(i, u, m)
  BY DEF OwnMarks, UsedMark
<1> DEFINE h == Linked(g, u, OwnMarks(u))
<1>3. /\ h \in TrustGraphs /\ h.edges = g.edges \cup {<<u, m>> : m \in OwnMarks(u)}
      /\ h.score = g.score
  BY <1>1, LinkedMarks DEF RealGraph
<1>4. \A m \in OwnMarks(u) : RealEdge(<<u, m>>)
  BY <1>2 DEF RealEdge
<1> HIDE DEF h
<1>5. \A e \in h.edges : RealEdge(e)
  BY <1>3, <1>4 DEF RealGraph
<1> QED
  BY <1>3, <1>5 DEF RealGraph, h

LEMMA RowIsReal ==
  ASSUME returns \in Tables, NEW u \in Users, NEW i \in DOMAIN returns, NEW g, RealGraph(g)
  PROVE  RealGraph(WithRow(u, g, returns[i]))
<1> DEFINE h == WithRow(u, g, returns[i])
           v == returns[i].user
           d == returns[i].device
<1>1. v \in Users /\ returns[i].score \in Noted(v)
  BY TrustAssumption DEF Noted
<1>2. CASE v = u \/ d = NoMark \/ d \notin g.nodes
  <2>1. h = g
    BY <1>2, RowGraph DEF RealGraph
  <2> QED
    BY <2>1
<1>3. CASE ~(v = u \/ d = NoMark \/ d \notin g.nodes)
  <2>1. /\ h \in TrustGraphs /\ h.edges = g.edges \cup {<<v, d>>}
        /\ h.score = [g.score EXCEPT ![v] = returns[i].score]
    BY <1>3, RowGraph DEF RealGraph
  <2>2. RealEdge(<<v, d>>)
    BY <1>3 DEF RealEdge, UsedMark
  <2> HIDE DEF h, v, d
  <2>3. \A e \in h.edges : RealEdge(e)
    BY <2>1, <2>2 DEF RealGraph
  <2>4. \A w \in Users : h.score[w] \in Noted(w)
    <3>1. DOMAIN g.score = Users /\ \A w \in Users : g.score[w] \in Noted(w)
      BY DEF RealGraph, TrustGraphs
    <3>2. \A w \in Users : h.score[w] = IF w = v THEN returns[i].score ELSE g.score[w]
      BY <2>1, <3>1
    <3> QED
      BY <1>1, <3>1, <3>2
  <2> QED
    BY <2>1, <2>3, <2>4 DEF RealGraph, h
<1> QED
  BY <1>2, <1>3

LEMMA ScanIsReal ==
  ASSUME returns \in Tables, NEW u \in Users, NEW g, RealGraph(g)
  PROVE  RealGraph((CHOOSE it : IsScan(it, u, g))[DOMAIN Page])
<1>1. PICK scan : /\ ScanOf(scan, u, g)
                  /\ scan[PageSize] = (CHOOSE it : IsScan(it, u, g))[DOMAIN Page]
  BY ScanSteps DEF RealGraph
<1>2. PICK n \in Nat : n = PageSize /\ 1 .. n \subseteq DOMAIN returns
  BY PageRows
<1> DEFINE bad == {i \in 0 .. n : ~RealGraph(scan[i])}
<1>3. bad = {}
  <2> SUFFICES ASSUME bad # {}
               PROVE  FALSE
    OBVIOUS
  <2>1. PICK i \in bad : \A m \in bad : i <= m
    <3>1. bad \subseteq Nat
      OBVIOUS
    <3> HIDE DEF bad
    <3> QED
      BY <3>1, LeastNatural
  <2>2. i \in 1 .. n /\ i - 1 \in 0 .. n
    <3>1. i # 0
      BY <1>1, <2>1 DEF ScanOf
    <3> QED
      BY <2>1, <3>1
  <2>3. RealGraph(scan[i - 1])
    <3>1. i - 1 \notin bad
      BY <2>1, <2>2
    <3> QED
      BY <2>2, <3>1
  <2>4. scan[i] = WithRow(u, scan[i - 1], returns[i])
    BY <1>1, <1>2, <2>2 DEF ScanOf
  <2>5. RealGraph(scan[i])
    BY <1>2, <2>2, <2>3, <2>4, RowIsReal
  <2> QED
    BY <2>1, <2>5
<1>4. n \in 0 .. n
  OBVIOUS
<1> QED
  BY <1>1, <1>2, <1>3, <1>4

LEMMA TiesFinite ==
  ASSUME returns \in Tables, NEW u
  PROVE  IsFiniteSet(Ties(u))
<1> DEFINE devices == {<<returns[i].user, returns[i].device>> : i \in DOMAIN returns}
           ips == {<<returns[i].user, returns[i].ip>> : i \in DOMAIN returns}
<1>1. IsFiniteSet(DOMAIN returns)
  BY TrustAssumption, FS_Interval
<1>2. IsFiniteSet(devices)
  <2>1. PICK f : f = [i \in DOMAIN returns |-> <<returns[i].user, returns[i].device>>]
    OBVIOUS
  <2>2. f \in Surjection(DOMAIN returns, devices)
    BY <2>1 DEF Surjection
  <2> QED
    BY <1>1, <2>2, FS_Surjection
<1>3. IsFiniteSet(ips)
  <2>1. PICK f : f = [i \in DOMAIN returns |-> <<returns[i].user, returns[i].ip>>]
    OBVIOUS
  <2>2. f \in Surjection(DOMAIN returns, ips)
    BY <2>1 DEF Surjection
  <2> QED
    BY <1>1, <2>2, FS_Surjection
<1>4. Ties(u) \subseteq devices \cup ips
  <2> SUFFICES ASSUME NEW s \in Ties(u)
               PROVE  s \in devices \cup ips
    OBVIOUS
  <2>1. s = <<s[1], s[2]>> /\ \E i \in DOMAIN returns : UsedMark(i, s[1], s[2])
    BY DEF Ties
  <2> QED
    BY <2>1 DEF UsedMark
<1> HIDE DEF devices, ips
<1>5. IsFiniteSet(devices \cup ips)
  BY <1>2, <1>3, FS_Union
<1> QED
  BY <1>4, <1>5, FS_Subset

LEMMA SuspectsAreTies ==
  ASSUME RealGraph(graph), NEW u \in Users
  PROVE  Suspects(u) \subseteq Ties(u)
<1> SUFFICES ASSUME NEW e \in Suspects(u)
             PROVE  e \in Ties(u)
  OBVIOUS
<1>1. /\ e \in graph.edges /\ <<u, e[2]>> \in graph.edges
      /\ e[1] # u /\ e[1] \in graph.typed /\ graph.score[e[1]] < 50
  BY DEF Suspects
<1>2. e = <<e[1], e[2]>> /\ e[1] \in Users
  BY <1>1 DEF RealGraph, TrustGraphs
<1>3. RealEdge(e) /\ RealEdge(<<u, e[2]>>)
  BY <1>1 DEF RealGraph
<1>4. /\ \E i \in DOMAIN returns : UsedMark(i, e[1], e[2])
      /\ \E i \in DOMAIN returns : UsedMark(i, u, e[2])
  BY <1>3 DEF RealEdge
<1>5. \E i \in DOMAIN returns : returns[i].user = e[1] /\ returns[i].score < 50
  <2>1. graph.score[e[1]] \in Noted(e[1])
    BY <1>2 DEF RealGraph
  <2> QED
    BY <1>1, <2>1 DEF Noted
<1>6. e[2] \in UNION {{returns[i].device, returns[i].ip} : i \in DOMAIN returns}
  BY <1>4 DEF UsedMark
<1> QED
  BY <1>1, <1>2, <1>4, <1>5, <1>6 DEF Ties

LEMMA VerdictIsFair ==
  ASSUME returns \in Tables, RealGraph(graph), NEW u \in Users
  PROVE  \E base \in Noted(u) : Verdict(u).final >= base - 20 * Cardinality(Ties(u))
<1>1. PICK c \in Nat, k \in Nat : c = Cardinality(Suspects(u)) /\ k = Cardinality(Ties(u)) /\ c <= k
  BY SuspectsAreTies, TiesFinite, FS_Subset, FS_CardinalityType
<1>2. PICK base \in Noted(u) : base = graph.score[u] /\ base \in Int
  BY DEF RealGraph, TrustGraphs
<1>3. CASE u \notin graph.nodes
  <2>1. Verdict(u).final = 100
    BY <1>3 DEF Verdict
  <2>2. 100 \in Noted(u) /\ 100 >= 100 - 20 * k
    BY DEF Noted
  <2> QED
    BY <1>1, <2>1, <2>2
<1>4. CASE u \in graph.nodes
  <2>1. PICK final \in Int : final = IF base - 20 * c < 0 THEN 0 ELSE base - 20 * c
    BY <1>2
  <2>2. Verdict(u) = [record |-> TRUE, final |-> final, revoked |-> final < 70, flagged |-> final < 30]
    BY <1>1, <1>2, <1>4, <2>1 DEF Verdict
  <2>3. Verdict(u).final = final
    BY <2>2
  <2>4. final >= base - 20 * k
    BY <1>1, <1>2, <2>1
  <2> QED
    BY <1>1, <2>3, <2>4
<1> QED
  BY <1>3, <1>4

LEMMA RealStart == Init => RealInv
<1> SUFFICES ASSUME Init
             PROVE  RealInv
  OBVIOUS
<1>1. TrustInit
  BY DEF Init
<1>2. /\ graph \in TrustGraphs /\ graph.edges = {} /\ \A v \in Users : graph.score[v] = 100
  BY <1>1 DEF TrustInit, TrustGraphs
<1>3. \A t \in Threads : "verdict" \notin DOMAIN asking[t]
  BY <1>1 DEF TrustInit
<1> QED
  BY <1>2, <1>3 DEF RealInv, RealGraph, Noted

(* The returns stay, so a verdict that was fair is fair after any step.      *)
LEMMA RealKept ==
  ASSUME RealInv, returns' = returns, RealGraph(graph'),
         \A t \in Threads : \/ asking'[t] = asking[t]
                            \/ "verdict" \notin DOMAIN asking'[t]
                            \/ Charged(asking'[t])
  PROVE  RealInv'
<1>1. \A r : Charged(r)' <=> Charged(r)
  BY DEF Charged, Noted, Ties, UsedMark
<1>2. RealGraph(graph)'
  <2>1. PICK g : g = graph'
    OBVIOUS
  <2>2. RealGraph(g)
    BY <2>1
  <2>3. Marks' = Marks
    BY DEF Marks
  <2>4. (g \in TrustGraphs)'
    BY <2>2, <2>3 DEF RealGraph, TrustGraphs
  <2>5. \A e : RealEdge(e)' <=> RealEdge(e)
    BY DEF RealEdge, UsedMark
  <2>6. \A v : Noted(v)' = Noted(v)
    BY DEF Noted
  <2>7. RealGraph(g)'
    BY <2>2, <2>4, <2>5, <2>6 DEF RealGraph
  <2> QED
    BY <2>1, <2>7
<1>3. \A t \in Threads : "verdict" \in DOMAIN asking'[t] => Charged(asking'[t])
  BY DEF RealInv
<1>4. \A t \in Threads : ("verdict" \in DOMAIN asking[t] => Charged(asking[t]))'
  BY <1>1, <1>3
<1> QED
  BY <1>2, <1>4 DEF RealInv

LEMMA RealStep ==
  ASSUME TrustInv, RealInv, [TrustNext]_trustVars
  PROVE  RealInv'
<1>1. CASE UNCHANGED trustVars
  BY <1>1, RealKept DEF trustVars, RealInv
<1>2. returns \in Tables /\ RealGraph(graph) /\ DOMAIN asking = Threads
  <2>1. asking = [t \in Threads |-> asking[t]]
    BY DEF TrustInv
  <2> QED
    BY <2>1 DEF TrustInv, RealInv
<1>3. \A r \in TrustRequests : "verdict" \notin DOMAIN r
  BY DEF TrustRequests
<1>4. \A t \in Threads : Asking(t) => asking[t] \in TrustRequests
  BY DEF TrustInv
<1>5. ASSUME NEW t \in Threads, Begin(t)
      PROVE  RealInv'
  <2>1. PICK u \in Users :
          /\ graph' = Fresh(u)
          /\ asking' = [q \in Threads |->
               IF q = t THEN [at |-> "own", user |-> u, complete |-> TRUE,
                              clean |-> \A o \in Threads : ~Asking(o)]
               ELSE IF Asking(q) THEN [asking[q] EXCEPT !.clean = FALSE] ELSE asking[q]]
    BY <1>5, Zenon DEF Begin
  <2>2. ASSUME NEW q \in Threads
        PROVE  asking'[q] = asking[q] \/ "verdict" \notin DOMAIN asking'[q]
    <3>1. CASE q = t
      BY <2>1, <3>1
    <3>2. CASE q # t /\ Asking(q)
      <4>1. asking'[q] = [asking[q] EXCEPT !.clean = FALSE]
        BY <2>1, <3>2
      <4> QED
        BY <1>3, <1>4, <3>2, <4>1
    <3>3. CASE q # t /\ ~Asking(q)
      BY <2>1, <3>3
    <3> QED
      BY <3>1, <3>2, <3>3
  <2>3. returns' = returns
    BY <1>5 DEF Begin
  <2> QED
    BY <2>1, <2>2, <2>3, FreshIsReal, RealKept
<1>6. ASSUME NEW t \in Threads, Fails(t) \/ OwnReturns(t) \/ OtherReturns(t)
      PROVE  RealInv'
  <2>1. Asking(t) /\ asking[t] \in TrustRequests /\ asking[t].user \in Users /\ returns' = returns
    <3>1. Asking(t) /\ returns' = returns
      BY <1>6 DEF Fails, OwnReturns, OtherReturns, Asking
    <3> QED
      BY <1>4, <3>1 DEF TrustRequests
  <2>2. \A q \in Threads : asking'[q] = asking[q] \/ "verdict" \notin DOMAIN asking'[q]
    <3>1. PICK r : asking' = [asking EXCEPT ![t] = r] /\ "verdict" \notin DOMAIN r
      <4>1. asking' = [asking EXCEPT ![t] = [asking[t] EXCEPT !.at = "score", !.complete = FALSE]]
              \/ asking' = [asking EXCEPT ![t] = [asking[t] EXCEPT !.at = "scan"]]
              \/ asking' = [asking EXCEPT ![t] = [asking[t] EXCEPT !.at = "score"]]
        BY <1>6 DEF Fails, OwnReturns, OtherReturns
      <4>2. /\ DOMAIN [asking[t] EXCEPT !.at = "score", !.complete = FALSE] = DOMAIN asking[t]
            /\ DOMAIN [asking[t] EXCEPT !.at = "scan"] = DOMAIN asking[t]
            /\ DOMAIN [asking[t] EXCEPT !.at = "score"] = DOMAIN asking[t]
        OBVIOUS
      <4>3. "verdict" \notin DOMAIN asking[t]
        BY <1>3, <2>1
      <4> QED
        BY <4>1, <4>2, <4>3
    <3> QED
      BY <1>2, <3>1
  <2>3. RealGraph(graph')
    <3>1. CASE Fails(t)
      BY <1>2, <3>1 DEF Fails
    <3>2. CASE OwnReturns(t)
      <4>1. graph' = Linked(graph, asking[t].user, OwnMarks(asking[t].user))
        BY <3>2 DEF OwnReturns
      <4> QED
        BY <1>2, <2>1, <4>1, LinkedIsReal
    <3>3. CASE OtherReturns(t)
      <4>1. graph' = (CHOOSE it : IsScan(it, asking[t].user, graph))[DOMAIN Page]
        BY <3>3, ScanIsFold
      <4> QED
        BY <1>2, <2>1, <4>1, ScanIsReal
    <3> QED
      BY <1>6, <3>1, <3>2, <3>3
  <2> QED
    BY <2>1, <2>2, <2>3, RealKept
<1>7. ASSUME NEW t \in Threads, Evaluate(t)
      PROVE  RealInv'
  <2>1. Asking(t) /\ returns' = returns /\ graph' = graph
    BY <1>7 DEF Evaluate, Asking
  <2>2. PICK u \in Users : u = asking[t].user
    BY <1>4, <2>1 DEF TrustRequests
  <2>3. PICK r : r = [at |-> "done", user |-> u, clean |-> asking[t].clean /\ asking[t].complete,
                      verdict |-> Verdict(u), advice |-> Advice(Verdict(u))]
    OBVIOUS
  <2>4. asking' = [asking EXCEPT ![t] = r]
    BY <1>7, <2>2, <2>3 DEF Evaluate
  <2>5. r.user = u /\ r.verdict = Verdict(u)
    BY <2>3
  <2>6. Charged(r)
    BY <1>2, <2>5, VerdictIsFair DEF Charged
  <2>7. \A q \in Threads : asking'[q] = asking[q] \/ Charged(asking'[q])
    BY <1>2, <2>4, <2>6
  <2> QED
    BY <1>2, <2>1, <2>7, RealKept
<1> QED
  BY <1>1, <1>5, <1>6, <1>7 DEF TrustNext

(* No user is charged for a tie that no return shows, for every table and in  *)
(* every interleaving: a foreign or mixed graph only holds real ties.       *)
THEOREM RealTiesAlwaysCount == Spec => []OnlyRealTiesCount
<1>1. TrustInv /\ RealInv /\ [Next]_vars => TrustInv' /\ RealInv'
  BY TrustStep, RealStep, StepsOfParts
<1>2. RealInv => OnlyRealTiesCount
  BY Zenon DEF RealInv, OnlyRealTiesCount, Charged, Noted
<1> QED
  BY TrustAtRest, RealStart, <1>1, <1>2, PTL DEF Spec
-----------------------------------------------------------------------------
(* The repairs of a unit.  A unit whose repairs never overlapped has at most *)
(* one; while that one has its worth still to write the grade is its grade,  *)
(* otherwise grade and worth agree.                                        *)
Repairs ==
  [next : {"grade", "status", "worth", "note"}, unit : UnitIds, grade : Regrades,
   status : {"Available", "In Repair"}, noted : BOOLEAN]

RepairStates == {NoRepair} \cup Repairs

UnitStates ==
  [grade : Grades \cup Regrades, status : {"Available", "In Repair"}, worth : Nat, history : Nat]

UnitTypes ==
  /\ units \in [UnitIds -> UnitStates]
  /\ repair \in [Repairers -> RepairStates]
  /\ split \in [UnitIds -> BOOLEAN]

On(t, u) == repair[t].next # "none" /\ repair[t].unit = u
Between(t, u) == On(t, u) /\ repair[t].next \in {"status", "worth"}
Agrees(u) == units[u].grade \in Grades => units[u].worth = SeedWorth(units[u].grade)

UnitInv ==
  /\ UnitTypes
  /\ \A u \in UnitIds : ~split[u] =>
       /\ \A t1, t2 \in Repairers : On(t1, u) /\ On(t2, u) => t1 = t2
       /\ \A t \in Repairers : Between(t, u) => units[u].grade = repair[t].grade
       /\ Agrees(u) \/ \E t \in Repairers : Between(t, u)

LEMMA SeededUnits ==
  ASSUME NEW grade \in Grades, NEW h \in Histories(grade)
  PROVE  /\ Seeded(grade, h) \in UnitStates
         /\ Seeded(grade, h).grade = grade /\ Seeded(grade, h).worth = SeedWorth(grade)
         /\ SeedWorth(grade) \in Nat
  BY DEF Seeded, Histories, UnitStates, SeedWorth, Grades

LEMMA WorthOfRepair ==
  ASSUME NEW grade
  PROVE  /\ RepairWorth(grade) \in Nat
         /\ grade \in Grades => RepairWorth(grade) = SeedWorth(grade)
  BY DEF RepairWorth, SeedWorth, Grades

LEMMA UnitsInit == Init => UnitInv
<1> SUFFICES ASSUME Init PROVE UnitInv
  OBVIOUS
<1> DEFINE Seeds == UNION {{Seeded(grade, h) : h \in Histories(grade)} : grade \in Grades}
<1>0. units \in [UnitIds -> Seeds]
  BY DEF Init, UnitInit
<1>1. \A u \in UnitIds : \E grade \in Grades : \E h \in Histories(grade) : units[u] = Seeded(grade, h)
  BY <1>0
<1>2. units \in [UnitIds -> UnitStates] /\ \A u \in UnitIds : Agrees(u)
  <2>1. \A u \in UnitIds : units[u] \in UnitStates /\ Agrees(u)
    BY <1>1, SeededUnits DEF Agrees
  <2> HIDE DEF Seeds
  <2> QED
    BY <1>0, <2>1
<1>3. /\ repair = [t \in Repairers |-> NoRepair] /\ split = [u \in UnitIds |-> FALSE]
  BY DEF Init, UnitInit
<1>4. \A t \in Repairers, u \in UnitIds : ~On(t, u)
  BY <1>3 DEF On, NoRepair
<1>5. UnitTypes
  BY <1>2, <1>3 DEF UnitTypes, RepairStates
<1> QED
  BY <1>2, <1>4, <1>5 DEF UnitInv, Between

LEMMA UnitsStart ==
  ASSUME UnitInv, NEW t \in Repairers, StartRepair(t)
  PROVE  UnitInv'
<1>1. PICK u \in UnitIds, grade \in Regrades, status \in {"Available", "In Repair"},
           noted \in BOOLEAN :
        /\ repair' = [repair EXCEPT ![t] =
             [next |-> "grade", unit |-> u, grade |-> grade, status |-> status, noted |-> noted]]
        /\ split' = [split EXCEPT ![u] =
             @ \/ \E o \in Repairers : repair[o].next # "none" /\ repair[o].unit = u]
  BY Zenon DEF StartRepair
<1>2. units' = units /\ repair[t].next = "none"
  BY DEF StartRepair
<1> DEFINE r == [next |-> "grade", unit |-> u, grade |-> grade, status |-> status, noted |-> noted]
<1>3. r \in RepairStates /\ r.next = "grade" /\ r.unit = u
  BY DEF RepairStates, Repairs
<1>4. repair' = [repair EXCEPT ![t] = r]
  BY <1>1
<1> HIDE DEF r
<1>5. UnitTypes'
  <2>1. repair' \in [Repairers -> RepairStates]
    BY <1>3, <1>4 DEF UnitInv, UnitTypes
  <2>2. split' \in [UnitIds -> BOOLEAN]
    BY <1>1, Zenon DEF UnitInv, UnitTypes
  <2> QED
    BY <1>2, <2>1, <2>2 DEF UnitInv, UnitTypes
<1>6. \A q \in Repairers, v \in UnitIds : On(q, v)' <=> IF q = t THEN v = u ELSE On(q, v)
  BY <1>3, <1>4 DEF UnitInv, UnitTypes, On
<1>7. \A q \in Repairers, v \in UnitIds :
        /\ Between(q, v)' <=> Between(q, v)
        /\ Between(q, v) => repair'[q] = repair[q]
  BY <1>2, <1>3, <1>4 DEF UnitInv, UnitTypes, On, Between
<1>8. \A v \in UnitIds : Agrees(v)' <=> Agrees(v)
  BY <1>2 DEF Agrees
<1>9. \A v \in UnitIds : ~split'[v] => ~split[v] /\ (v = u => \A q \in Repairers : ~On(q, v))
  BY <1>1, Zenon DEF UnitInv, UnitTypes, On
<1> QED
  BY <1>2, <1>5, <1>6, <1>7, <1>8, <1>9, Zenon DEF UnitInv
(* What one assignment of a repair makes of the unit and of the repair.       *)
Unit(r, old) ==
  CASE r.next = "grade"  -> [old EXCEPT !.grade = r.grade]
    [] r.next = "status" -> [old EXCEPT !.status = r.status]
    [] r.next = "worth"  -> [old EXCEPT !.worth = RepairWorth(r.grade)]
    [] r.next = "note"   -> [old EXCEPT !.history = IF @ = 2 THEN 2 ELSE @ + 1]

Following(r) ==
  CASE r.next = "grade"  -> [r EXCEPT !.next = "status"]
    [] r.next = "status" -> [r EXCEPT !.next = "worth"]
    [] r.next = "worth" /\ r.noted -> [r EXCEPT !.next = "note"]
    [] OTHER -> NoRepair

LEMMA UnitOfRepair ==
  ASSUME NEW r \in Repairs, NEW old \in UnitStates
  PROVE  /\ Unit(r, old) \in UnitStates
         /\ Unit(r, old).grade = IF r.next = "grade" THEN r.grade ELSE old.grade
         /\ Unit(r, old).worth = IF r.next = "worth" THEN RepairWorth(r.grade) ELSE old.worth
<1>1. /\ r.next \in {"grade", "status", "worth", "note"} /\ r.grade \in Regrades
      /\ r.status \in {"Available", "In Repair"} /\ RepairWorth(r.grade) \in Nat
  BY WorthOfRepair DEF Repairs
<1>2. CASE r.next = "grade"
  BY <1>1, <1>2 DEF Unit, UnitStates
<1>3. CASE r.next = "status"
  BY <1>1, <1>3 DEF Unit, UnitStates
<1>4. CASE r.next = "worth"
  BY <1>1, <1>4 DEF Unit, UnitStates
<1>5. CASE r.next = "note"
  <2>1. PICK n \in Nat : n = IF old.history = 2 THEN 2 ELSE old.history + 1
    <3>1. old.history \in Nat
      BY DEF UnitStates
    <3>2. CASE old.history = 2
      BY <3>2
    <3>3. CASE old.history # 2
      BY <3>1, <3>3
    <3> QED
      BY <3>2, <3>3
  <2>2. Unit(r, old) = [old EXCEPT !.history = n]
    BY <1>5, <2>1 DEF Unit
  <2> QED
    BY <1>5, <2>2 DEF UnitStates
<1> QED
  BY <1>1, <1>2, <1>3, <1>4, <1>5

LEMMA FollowingRepair ==
  ASSUME NEW r \in Repairs
  PROVE  /\ r.next \in {"grade", "status", "worth", "note"} /\ r.unit \in UnitIds
         /\ Following(r) \in RepairStates
         /\ r.next \in {"grade", "status"} <=>
              Following(r).next \in {"status", "worth"}
         /\ Following(r).next # "none" => Following(r).unit = r.unit /\ Following(r).grade = r.grade
<1>1. r.next \in {"grade", "status", "worth", "note"} /\ r.unit \in UnitIds /\ r.noted \in BOOLEAN
  BY DEF Repairs
<1>2. CASE r.next = "grade"
  <2>1. Following(r) = [r EXCEPT !.next = "status"]
    BY <1>2 DEF Following
  <2> QED
    BY <1>1, <1>2, <2>1 DEF RepairStates, Repairs
<1>3. CASE r.next = "status"
  <2>1. Following(r) = [r EXCEPT !.next = "worth"]
    BY <1>3 DEF Following
  <2> QED
    BY <1>1, <1>3, <2>1 DEF RepairStates, Repairs
<1>4. CASE r.next = "worth" /\ r.noted
  <2>1. Following(r) = [r EXCEPT !.next = "note"]
    BY <1>4 DEF Following
  <2> QED
    BY <1>1, <1>4, <2>1 DEF RepairStates, Repairs
<1>5. CASE r.next = "note"
  <2>1. Following(r) = NoRepair
    BY <1>5 DEF Following
  <2> QED
    BY <1>1, <1>5, <2>1 DEF RepairStates, NoRepair
<1>6. CASE r.next = "worth" /\ ~r.noted
  <2>1. Following(r) = NoRepair
    BY <1>6 DEF Following
  <2> QED
    BY <1>1, <1>6, <2>1 DEF RepairStates, NoRepair
<1>7. r.next = "grade" \/ r.next = "status" \/ r.next = "worth" \/ r.next = "note"
  BY <1>1
<1> QED
  BY <1>2, <1>3, <1>4, <1>5, <1>6, <1>7, Zenon

LEMMA UnitsWrite ==
  ASSUME UnitInv, NEW t \in Repairers, WriteUnit(t)
  PROVE  UnitInv'
<1>1. PICK r \in Repairs : r = repair[t] /\ r.next # "none"
  <2>1. repair[t] \in RepairStates /\ repair[t].next # "none"
    BY Zenon DEF WriteUnit, UnitInv, UnitTypes
  <2> QED
    BY <2>1 DEF RepairStates, NoRepair
<1>2. PICK u \in UnitIds : u = r.unit
  BY <1>1, FollowingRepair
<1>3. PICK unit : unit = Unit(r, units[u])
  OBVIOUS
<1>4. PICK next : next = Following(r)
  OBVIOUS
<1>5. /\ units' = [units EXCEPT ![u] = unit] /\ repair' = [repair EXCEPT ![t] = next]
      /\ split' = split
  <2>1. /\ units' = [units EXCEPT ![repair[t].unit] = Unit(repair[t], units[repair[t].unit])]
        /\ repair' = [repair EXCEPT ![t] = Following(repair[t])]
        /\ split' = split
    BY DEF WriteUnit, Unit, Following
  <2> QED
    BY <1>1, <1>2, <1>3, <1>4, <2>1
<1>6. /\ units[u] \in UnitStates /\ unit \in UnitStates
      /\ unit.grade = IF r.next = "grade" THEN r.grade ELSE units[u].grade
      /\ unit.worth = IF r.next = "worth" THEN RepairWorth(r.grade) ELSE units[u].worth
  BY <1>1, <1>3, UnitOfRepair DEF UnitInv, UnitTypes
<1>20. /\ next \in RepairStates /\ r.next \in {"grade", "status", "worth", "note"}
       /\ r.next \in {"grade", "status"} <=> next.next \in {"status", "worth"}
       /\ next.next # "none" => next.unit = u /\ next.grade = r.grade
  BY <1>1, <1>2, <1>4, FollowingRepair
<1>7. UnitTypes'
  BY <1>5, <1>6, <1>20 DEF UnitInv, UnitTypes
<1>8. repair'[t] = next /\ \A q \in Repairers \ {t} : repair'[q] = repair[q]
  BY <1>5 DEF UnitInv, UnitTypes
<1>9. units'[u] = unit /\ \A v \in UnitIds \ {u} : units'[v] = units[v]
  BY <1>5 DEF UnitInv, UnitTypes
<1>10. /\ On(t, u)
       /\ \A v \in UnitIds : On(t, v)' => v = u
       /\ \A q \in Repairers \ {t}, v \in UnitIds : On(q, v)' <=> On(q, v)
  BY <1>1, <1>2, <1>8, <1>20 DEF On
<1>11. \A q \in Repairers \ {t}, v \in UnitIds : Between(q, v)' <=> Between(q, v)
  BY <1>8, <1>10 DEF Between
<1>12. Between(t, u)' <=> r.next \in {"grade", "status"}
  BY <1>8, <1>20 DEF Between, On
<1>13. Between(t, u) <=> r.next \in {"status", "worth"}
  BY <1>1, <1>10 DEF Between
<1>14. ASSUME NEW v \in UnitIds, ~split'[v], v # u
       PROVE  /\ \A t1, t2 \in Repairers : On(t1, v)' /\ On(t2, v)' => t1 = t2
              /\ \A q \in Repairers : Between(q, v)' => units'[v].grade = repair'[q].grade
              /\ Agrees(v)' \/ \E q \in Repairers : Between(q, v)'
  <2>1. /\ \A t1, t2 \in Repairers : On(t1, v) /\ On(t2, v) => t1 = t2
        /\ \A q \in Repairers : Between(q, v) => units[v].grade = repair[q].grade
        /\ Agrees(v) \/ \E q \in Repairers : Between(q, v)
    BY <1>5, <1>14, Zenon DEF UnitInv
  <2>2. ~On(t, v)' /\ ~Between(t, v)' /\ ~On(t, v) /\ ~Between(t, v)
    BY <1>1, <1>2, <1>10, <1>14 DEF Between, On
  <2>3. units'[v] = units[v] /\ (Agrees(v)' <=> Agrees(v))
    BY <1>9, <1>14 DEF Agrees
  <2> QED
    BY <1>8, <1>10, <1>11, <2>1, <2>2, <2>3, Zenon
<1>15. ASSUME ~split'[u]
       PROVE  /\ \A t1, t2 \in Repairers : On(t1, u)' /\ On(t2, u)' => t1 = t2
              /\ \A q \in Repairers : Between(q, u)' => units'[u].grade = repair'[q].grade
              /\ Agrees(u)' \/ \E q \in Repairers : Between(q, u)'
  <2>1. /\ \A t1, t2 \in Repairers : On(t1, u) /\ On(t2, u) => t1 = t2
        /\ \A q \in Repairers : Between(q, u) => units[u].grade = repair[q].grade
        /\ Agrees(u) \/ \E q \in Repairers : Between(q, u)
    BY <1>5, <1>15, Zenon DEF UnitInv
  <2>2. \A q \in Repairers \ {t} : ~On(q, u) /\ ~On(q, u)' /\ ~Between(q, u) /\ ~Between(q, u)'
    BY <1>10, <1>11, <2>1 DEF Between
  <2>3. CASE r.next \in {"grade", "status"}
    <3>1. unit.grade = r.grade
      BY <1>1, <1>6, <1>13, <2>1, <2>3
    <3> QED
      BY <1>8, <1>9, <1>12, <1>20, <2>2, <2>3, <3>1
  <2>4. CASE r.next = "worth"
    <3>1. unit.grade = r.grade
      BY <1>1, <1>6, <1>13, <2>1, <2>4
    <3>2. Agrees(u)'
      BY <1>6, <1>9, <2>4, <3>1, WorthOfRepair DEF Agrees
    <3> QED
      BY <1>12, <2>2, <2>4, <3>2
  <2>5. CASE r.next = "note"
    <3>1. Agrees(u)
      BY <1>13, <2>1, <2>2, <2>5
    <3>2. Agrees(u)'
      BY <1>6, <1>9, <2>5, <3>1 DEF Agrees
    <3> QED
      BY <1>12, <2>2, <2>5, <3>2
  <2> QED
    BY <1>20, <2>3, <2>4, <2>5
<1> QED
  BY <1>7, <1>14, <1>15, Zenon DEF UnitInv

(* A unit at rest whose repairs never overlapped is worth what its grade is  *)
(* worth when units are seeded, whatever its repairs were entered with.     *)
THEOREM RepairsKeepWorth == Spec => []RepairsAgree
<1>1. UnitInv /\ [UnitNext]_unitVars => UnitInv'
  <2>1. UnitInv /\ UNCHANGED unitVars => UnitInv'
    BY DEF UnitInv, UnitTypes, On, Between, Agrees, unitVars
  <2> QED
    BY <2>1, UnitsStart, UnitsWrite, Zenon DEF UnitNext
<1>2. UnitInv /\ [Next]_vars => UnitInv'
  BY <1>1, StepsOfParts
<1>3. UnitInv => RepairsAgree
  BY Zenon DEF UnitInv, RepairsAgree, Agrees, Between, On
<1> QED
  BY UnitsInit, <1>2, <1>3, PTL DEF Spec
-----------------------------------------------------------------------------
(* The ticks of the telemetry engine.  An order has a vehicle, or a tick     *)
(* that put it in transit is about to give it one.                         *)
Getting(t, o) ==
  tick[t] # Idle /\ tick[t].at = "progress" /\ tick[t].order = o /\ tick[t].next = "in-transit"
Sending(t, o) ==
  tick[t] # Idle /\ tick[t].at = "status" /\ tick[t].order = o
    /\ tick[t].next = "out-for-delivery"
Has(o) == orders[o].vehicle = TRUE \/ \E t \in Tickers : Getting(t, o)
OnWay(s) == s \in {"in-transit", "out-for-delivery"}

(* What a tick is about to write follows from what it has read, and it has   *)
(* not read a delivered order.                                             *)
Sound(w) ==
  /\ w.at \in {"status", "progress", "creep"} => w.base.status # "delivered"
  /\ w.at \in {"status", "progress"} => w.next = NextStatus(w.base.status)

TickTypes ==
  /\ orders \in [Orders -> OrderStates]
  /\ tick \in [Tickers -> Ticks \cup {Idle}]
  /\ \A t \in Tickers : tick[t] # Idle => Sound(tick[t])

TickInv ==
  /\ TickTypes
  /\ \A o \in Orders : OnWay(orders[o].status) => Has(o)
  /\ \A t \in Tickers, o \in Orders : Sending(t, o) => Has(o)

LEMMA NextRank ==
  ASSUME NEW s \in Statuses, s # "delivered"
  PROVE  /\ NextStatus(s) \in Statuses
         /\ Rank[NextStatus(s)] = Rank[s] + 1
         /\ NextStatus(s) = "out-for-delivery" => s = "in-transit"
<1>1. \E n \in Statuses : Rank[n] = Rank[s] + 1
  BY DEF Statuses, Rank
<1>2. NextStatus(s) \in Statuses /\ Rank[NextStatus(s)] = Rank[s] + 1
  BY <1>1, Zenon DEF NextStatus
<1>3. NextStatus(s) = "out-for-delivery" => s = "in-transit"
  BY <1>2 DEF Statuses, Rank
<1> QED
  BY <1>2, <1>3

LEMMA TicksInit == Init => TickInv
<1> SUFFICES ASSUME Init PROVE TickInv
  OBVIOUS
<1>1. \E s \in InitOrders : s.status = "pending"
  <2> DEFINE s == [status |-> "pending", progress |-> 0, vehicle |-> FALSE, eta |-> FALSE]
  <2>1. s \in OrderStates
    BY EngineAssumption DEF OrderStates, Statuses
  <2>2. s.progress = ProgressMap[s.status]
    BY DEF ProgressMap, Statuses
  <2>3. (s.vehicle <=> s.status \in {"in-transit", "out-for-delivery"})
        /\ (s.eta <=> s.status \notin {"delivered", "pending"})
    OBVIOUS
  <2>4. s \in InitOrders /\ s.status = "pending"
    BY <2>1, <2>2, <2>3 DEF InitOrders
  <2> QED
    BY <2>4
<1>2. orders \in [Orders -> InitOrders] /\ tick = [t \in Tickers |-> Idle]
  <2>1. CASE EngineInit
    BY <2>1 DEF EngineInit
  <2>2. CASE EngineRest
    BY <1>1, <2>2 DEF EngineRest
  <2> QED
    BY <2>1, <2>2 DEF Init
<1>3. \A s \in InitOrders : s \in OrderStates /\ (OnWay(s.status) => s.vehicle = TRUE)
  BY DEF InitOrders, OnWay, OrderStates
<1> QED
  BY <1>2, <1>3 DEF TickInv, TickTypes, Has, Sending
LEMMA TickChange ==
  ASSUME TickTypes, NEW t \in Tickers, NEW w \in Ticks \cup {Idle}, w # Idle => Sound(w),
         tick' = [tick EXCEPT ![t] = w], orders' \in [Orders -> OrderStates]
  PROVE  /\ TickTypes' /\ tick'[t] = w
         /\ \A q \in Tickers \ {t} : tick'[q] = tick[q]
  BY DEF TickTypes, Sound

(* A step that writes to no order and chooses no status.                     *)
LEMMA QuietTick ==
  ASSUME TickInv, NEW t \in Tickers, NEW w \in Ticks \cup {Idle}, w # Idle => Sound(w),
         tick' = [tick EXCEPT ![t] = w], orders' = orders,
         tick[t] = Idle \/ tick[t].at # "progress",
         w = Idle \/ w.at \notin {"status", "progress"}
  PROVE  TickInv'
<1>1. /\ TickTypes' /\ tick'[t] = w
      /\ \A q \in Tickers \ {t} : tick'[q] = tick[q]
  BY TickChange, Zenon DEF TickInv, TickTypes
<1>2. \A o \in Orders : Has(o) => Has(o)'
  BY <1>1 DEF Has, Getting
<1>3. \A o \in Orders : OnWay(orders'[o].status) => Has(o)'
  BY <1>2 DEF TickInv
<1>4. \A q \in Tickers, o \in Orders : Sending(q, o)' => Sending(q, o)
  BY <1>1 DEF Sending
<1> QED
  BY <1>1, <1>2, <1>3, <1>4 DEF TickInv
LEMMA QuietSteps ==
  ASSUME TickInv, NEW t \in Tickers,
         StartTick(t) \/ MoveVehicles(t) \/ RaiseAlert(t) \/ EndTick(t)
  PROVE  TickInv'
<1>1. CASE StartTick(t)
  <2> DEFINE w == [at |-> "fleet", left |-> Orders]
  <2>1. w \in Ticks /\ w.at = "fleet" /\ Sound(w)
    BY DEF Ticks, Sound
  <2>2. tick' = [tick EXCEPT ![t] = w] /\ orders' = orders /\ tick[t] = Idle
    BY <1>1 DEF StartTick
  <2> HIDE DEF w
  <2> QED
    BY <2>1, <2>2, QuietTick
<1>2. CASE MoveVehicles(t)
  <2>1. PICK w : w = [tick[t] EXCEPT !.at = "orders"]
    OBVIOUS
  <2>2. /\ tick' = [tick EXCEPT ![t] = w] /\ orders' = orders
        /\ tick[t] \in Ticks /\ tick[t].at = "fleet"
    BY <1>2, <2>1 DEF MoveVehicles, TickInv, TickTypes
  <2>3. w \in Ticks /\ w.at = "orders" /\ Sound(w)
    BY <2>1, <2>2 DEF Ticks, Sound
  <2> QED
    BY <2>2, <2>3, QuietTick
<1>3. CASE RaiseAlert(t)
  <2> DEFINE w == [at |-> "cut", left |-> {}]
  <2>1. w \in Ticks /\ w.at = "cut" /\ Sound(w)
    BY DEF Ticks, Sound
  <2>2. tick' = [tick EXCEPT ![t] = w] /\ orders' = orders /\ tick[t].at = "orders"
    BY <1>3 DEF RaiseAlert
  <2> HIDE DEF w
  <2> QED
    BY <2>1, <2>2, QuietTick
<1>4. CASE EndTick(t)
  <2>1. /\ tick' = [tick EXCEPT ![t] = Idle] /\ orders' = orders
        /\ tick[t].at # "progress"
    BY <1>4 DEF EndTick
  <2> QED
    BY <2>1, QuietTick
<1> QED
  BY <1>1, <1>2, <1>3, <1>4

LEMMA ReadStep ==
  ASSUME TickInv, NEW t \in Tickers, ReadOrder(t)
  PROVE  TickInv'
<1>1. /\ tick[t] \in Ticks /\ tick[t].at = "orders" /\ orders' = orders
      /\ tick[t].left \subseteq Orders
  BY DEF ReadOrder, TickInv, TickTypes, Ticks
<1>2. PICK o \in tick[t].left :
        \/ tick' = [tick EXCEPT ![t] = [at |-> "orders", left |-> tick[t].left \ {o}]]
        \/ /\ orders[o].status # "delivered"
           /\ tick' = [tick EXCEPT ![t] =
                [at |-> "status", left |-> tick[t].left \ {o}, order |-> o,
                 base |-> orders[o], next |-> NextStatus(orders[o].status)]]
        \/ /\ orders[o].status # "delivered"
           /\ tick' = [tick EXCEPT ![t] =
                [at |-> "creep", left |-> tick[t].left \ {o}, order |-> o, base |-> orders[o]]]
  BY Zenon DEF ReadOrder, Progresses
<1>3. /\ o \in Orders /\ orders[o] \in OrderStates /\ tick[t].left \ {o} \in SUBSET Orders
      /\ orders[o].status \in Statuses
  BY <1>1, <1>2 DEF TickInv, TickTypes, OrderStates
<1>4. PICK left \in SUBSET Orders : left = tick[t].left \ {o}
  BY <1>3
<1>5. PICK base \in OrderStates : base = orders[o]
  BY <1>3
<1>6. CASE tick' = [tick EXCEPT ![t] = [at |-> "orders", left |-> left]]
  <2> DEFINE w == [at |-> "orders", left |-> left]
  <2>1. w \in Ticks /\ w.at = "orders" /\ Sound(w)
    BY DEF Ticks, Sound
  <2> HIDE DEF w
  <2> QED
    BY <1>1, <1>6, <2>1, QuietTick DEF w
<1>7. CASE /\ base.status # "delivered"
           /\ tick' = [tick EXCEPT ![t] =
                [at |-> "creep", left |-> left, order |-> o, base |-> base]]
  <2> DEFINE w == [at |-> "creep", left |-> left, order |-> o, base |-> base]
  <2>1. w \in Ticks /\ w.at = "creep" /\ Sound(w)
    BY <1>3, <1>7 DEF Ticks, Sound
  <2>2. tick' = [tick EXCEPT ![t] = w]
    BY <1>7
  <2> HIDE DEF w
  <2> QED
    BY <1>1, <2>1, <2>2, QuietTick
<1>8. CASE /\ base.status # "delivered"
           /\ tick' = [tick EXCEPT ![t] =
                [at |-> "status", left |-> left, order |-> o, base |-> base,
                 next |-> NextStatus(base.status)]]
  <2> DEFINE w == [at |-> "status", left |-> left, order |-> o, base |-> base,
                   next |-> NextStatus(base.status)]
  <2>1. w \in Ticks /\ Sound(w) /\ w.at = "status" /\ w.order = o
        /\ (w.next = "out-for-delivery" => base.status = "in-transit")
    BY <1>3, <1>5, <1>8, NextRank DEF Ticks, Sound
  <2>2. tick' = [tick EXCEPT ![t] = w]
    BY <1>8
  <2> HIDE DEF w
  <2>3. /\ TickTypes' /\ tick'[t] = w
        /\ \A q \in Tickers \ {t} : tick'[q] = tick[q]
    BY <1>1, <2>1, <2>2, TickChange, Zenon DEF TickInv, TickTypes
  <2>4. \A p \in Orders : Has(p) => Has(p)'
    BY <1>1, <2>3 DEF Has, Getting
  <2>5. \A p \in Orders : OnWay(orders'[p].status) => Has(p)'
    BY <1>1, <2>4 DEF TickInv
  <2>6. \A q \in Tickers \ {t}, p \in Orders : Sending(q, p)' => Sending(q, p)
    BY <2>3 DEF Sending
  <2>7. \A p \in Orders : Sending(t, p)' => p = o /\ base.status = "in-transit"
    BY <2>1, <2>3 DEF Sending
  <2>8. base.status = "in-transit" => Has(o)
    BY <1>3, <1>5 DEF TickInv, OnWay
  <2> QED
    BY <2>3, <2>4, <2>5, <2>6, <2>7, <2>8 DEF TickInv
<1> QED
  BY <1>2, <1>4, <1>5, <1>6, <1>7, <1>8
LEMMA OrderWrites ==
  ASSUME NEW old \in OrderStates, NEW s \in Statuses
  PROVE  /\ [old EXCEPT !.status = s] \in OrderStates
         /\ [old EXCEPT !.status = s].status = s
         /\ [old EXCEPT !.status = s].vehicle = old.vehicle
         /\ [old EXCEPT !.status = s].progress = old.progress
  BY DEF OrderStates

(* The progress that goes with a status; a raised progress is a level.       *)
LEMMA ProgressLevels ==
  /\ \A s \in Statuses : ProgressMap[s] \in Levels /\ (s = "delivered" => ProgressMap[s] = 100)
  /\ \A p \in Levels : Creep(p) \subseteq Levels /\ p \in 0 .. 100
<1>1. {0, 15, 50, 85, 99, 100} \subseteq Levels /\ Levels \subseteq 0 .. 100
  BY EngineAssumption
<1>2. \A s \in Statuses : ProgressMap[s] \in {0, 15, 50, 85, 100}
  BY DEF Statuses, ProgressMap
<1>3. ProgressMap["delivered"] = 100
  BY DEF Statuses, ProgressMap
<1>4. \A p \in Levels : Creep(p) \subseteq Levels
  BY <1>1 DEF Creep
<1> QED
  BY <1>1, <1>2, <1>3, <1>4

LEMMA WriteStatusStep ==
  ASSUME TickInv, NEW t \in Tickers, WriteStatus(t)
  PROVE  TickInv'
<1>1. PICK r \in Ticks :
        /\ r = tick[t] /\ r # Idle /\ r.at = "status" /\ Sound(r)
        /\ r.order \in Orders /\ r.next \in Statuses
  BY DEF WriteStatus, TickInv, TickTypes, Ticks
<1>2. PICK w : w = [r EXCEPT !.at = "progress"]
  OBVIOUS
<1>3. w \in Ticks /\ Sound(w) /\ w.at = "progress" /\ w.order = r.order /\ w.next = r.next
  BY <1>1, <1>2 DEF Ticks, Sound
<1>4. PICK new : new = [orders[r.order] EXCEPT !.status = r.next]
  OBVIOUS
<1>5. /\ tick' = [tick EXCEPT ![t] = w]
      /\ orders' = [orders EXCEPT ![r.order] = new]
  BY <1>1, <1>2, <1>4 DEF WriteStatus
<1>6. new \in OrderStates /\ new.status = r.next /\ new.vehicle = orders[r.order].vehicle
  BY <1>1, <1>4, OrderWrites DEF TickInv, TickTypes
<1>7. /\ orders' \in [Orders -> OrderStates] /\ orders'[r.order] = new
      /\ \A o \in Orders \ {r.order} : orders'[o] = orders[o]
  BY <1>1, <1>5, <1>6 DEF TickInv, TickTypes
<1>8. /\ TickTypes' /\ tick'[t] = w
      /\ \A q \in Tickers \ {t} : tick'[q] = tick[q]
  BY <1>3, <1>5, <1>7, TickChange, Zenon DEF TickInv
<1>9. \A o \in Orders : Has(o) => Has(o)'
  BY <1>1, <1>6, <1>7, <1>8 DEF Has, Getting
<1>10. w # Idle
  BY <1>3, EngineAssumption
<1>11. \A o \in Orders : OnWay(orders'[o].status) => Has(o)'
  <2>1. CASE r.next = "in-transit"
    <3>1. Getting(t, r.order)'
      BY <1>3, <1>8, <1>10, <2>1 DEF Getting
    <3> QED
      BY <1>7, <1>9, <3>1 DEF TickInv, Has
  <2>2. CASE r.next = "out-for-delivery"
    <3>1. Sending(t, r.order)
      BY <1>1, <2>2 DEF Sending
    <3> QED
      BY <1>1, <1>7, <1>9, <3>1 DEF TickInv
  <2>3. CASE ~OnWay(r.next)
    BY <1>6, <1>7, <1>9, <2>3 DEF TickInv
  <2> QED
    BY <2>1, <2>2, <2>3 DEF OnWay
<1>12. \A q \in Tickers, o \in Orders : Sending(q, o)' => Sending(q, o)
  BY <1>3, <1>8 DEF Sending
<1> QED
  BY <1>8, <1>9, <1>11, <1>12 DEF TickInv

(* A write that leaves the status: vehicles are kept and a tick at            *)
(* "progress" with the order in transit gives the vehicle.                 *)
LEMMA OtherWrite ==
  ASSUME TickInv, NEW t \in Tickers, NEW o \in Orders, NEW new \in OrderStates,
         NEW left \in SUBSET Orders,
         tick[t] # Idle, tick[t].at # "progress" \/ tick[t].order = o,
         tick' = [tick EXCEPT ![t] = [at |-> "orders", left |-> left]],
         orders' = [orders EXCEPT ![o] = new],
         new.status = orders[o].status,
         orders[o].vehicle = TRUE \/ Getting(t, o) => new.vehicle = TRUE
  PROVE  TickInv'
<1> DEFINE w == [at |-> "orders", left |-> left]
<1>1. w \in Ticks /\ w.at = "orders" /\ Sound(w)
  BY DEF Ticks, Sound
<1>2. tick' = [tick EXCEPT ![t] = w]
  OBVIOUS
<1> HIDE DEF w
<1>3. /\ orders' \in [Orders -> OrderStates] /\ orders'[o] = new
      /\ \A p \in Orders \ {o} : orders'[p] = orders[p]
  BY DEF TickInv, TickTypes
<1>4. /\ TickTypes' /\ tick'[t] = w
      /\ \A q \in Tickers \ {t} : tick'[q] = tick[q]
  BY <1>1, <1>2, <1>3, TickChange, Zenon DEF TickInv
<1>5. \A p \in Orders : Has(p) => Has(p)'
  BY <1>3, <1>4 DEF Has, Getting
<1>6. \A p \in Orders : OnWay(orders'[p].status) => Has(p)'
  BY <1>3, <1>5 DEF TickInv
<1>7. \A q \in Tickers, p \in Orders : Sending(q, p)' => Sending(q, p)
  BY <1>1, <1>4 DEF Sending
<1> QED
  BY <1>4, <1>5, <1>6, <1>7 DEF TickInv
(* What goes with the status that a tick has written.                        *)
LEMMA Accompanying ==
  ASSUME NEW old \in OrderStates, NEW next \in Statuses
  PROVE  LET new == Accompanied(old, next)
         IN /\ new \in OrderStates /\ new.status = old.status
            /\ new.progress = ProgressMap[next]
            /\ old.vehicle = TRUE \/ next = "in-transit" => new.vehicle = TRUE
<1>1. PICK vehicle \in BOOLEAN : vehicle = Carried(old, next)
  BY Zenon DEF Carried
<1>2. PICK eta \in BOOLEAN : eta = (old.eta /\ next # "delivered")
  BY Zenon
<1>3. old.vehicle = TRUE \/ next = "in-transit" => vehicle = TRUE
  BY <1>1, Zenon DEF Carried
<1>4. PICK new : new = [old EXCEPT !.progress = ProgressMap[next], !.vehicle = vehicle,
                                   !.eta = eta]
  OBVIOUS
<1>5. /\ new \in OrderStates /\ new.status = old.status /\ new.vehicle = vehicle
      /\ new.progress = ProgressMap[next]
  BY <1>4, ProgressLevels DEF OrderStates
<1>6. new = Accompanied(old, next)
  BY <1>1, <1>2, <1>4, Zenon DEF Accompanied
<1> QED
  BY <1>3, <1>5, <1>6, Zenon

LEMMA WriteProgressStep ==
  ASSUME TickInv, NEW t \in Tickers, WriteProgress(t)
  PROVE  TickInv'
<1>1. PICK r \in Ticks :
        /\ r = tick[t] /\ r # Idle /\ r.at = "progress"
        /\ r.order \in Orders /\ r.next \in Statuses /\ r.left \in SUBSET Orders
  BY DEF WriteProgress, TickInv, TickTypes, Ticks
<1>2. PICK new : new = Accompanied(orders[r.order], r.next)
  OBVIOUS
<1>3. /\ new \in OrderStates /\ new.status = orders[r.order].status
      /\ orders[r.order].vehicle = TRUE \/ r.next = "in-transit" => new.vehicle = TRUE
  <2>1. orders[r.order] \in OrderStates
    BY <1>1 DEF TickInv, TickTypes
  <2> QED
    BY <1>1, <1>2, <2>1, Accompanying, Zenon
<1>4. /\ orders' = [orders EXCEPT ![r.order] = new]
      /\ tick' = [tick EXCEPT ![t] = [at |-> "orders", left |-> r.left]]
  BY <1>1, <1>2 DEF WriteProgress
<1>5. Getting(t, r.order) => r.next = "in-transit"
  BY <1>1 DEF Getting
<1> QED
  BY <1>1, <1>3, <1>4, <1>5, OtherWrite

LEMMA CreepStep ==
  ASSUME TickInv, NEW t \in Tickers, CreepProgress(t)
  PROVE  TickInv'
<1>1. PICK r \in Ticks :
        /\ r = tick[t] /\ r # Idle /\ r.at = "creep"
        /\ r.order \in Orders /\ r.left \in SUBSET Orders /\ r.base \in OrderStates
  BY DEF CreepProgress, TickInv, TickTypes, Ticks
<1>2. PICK p \in Creep(r.base.progress) \cup Creep(orders[r.order].progress),
           eta \in {FALSE, r.base.eta} :
        orders' = [orders EXCEPT ![r.order] = [@ EXCEPT !.progress = p, !.eta = eta]]
  BY <1>1 DEF CreepProgress
<1>3. orders[r.order] \in OrderStates /\ p \in Levels /\ eta \in BOOLEAN
  <2>1. orders[r.order] \in OrderStates
    BY <1>1 DEF TickInv, TickTypes
  <2>2. r.base.progress \in Levels /\ orders[r.order].progress \in Levels
    BY <1>1, <2>1 DEF OrderStates
  <2>3. r.base.eta \in BOOLEAN
    BY <1>1 DEF OrderStates
  <2>4. p \in Levels
    BY <1>2, <2>2, ProgressLevels
  <2>5. eta \in BOOLEAN
    BY <1>2, <2>3, Zenon
  <2> QED
    BY <2>1, <2>4, <2>5
<1>4. PICK new : new = [orders[r.order] EXCEPT !.progress = p, !.eta = eta]
  OBVIOUS
<1>5. new \in OrderStates /\ new.status = orders[r.order].status
        /\ new.vehicle = orders[r.order].vehicle
  BY <1>3, <1>4 DEF OrderStates
<1>6. /\ orders' = [orders EXCEPT ![r.order] = new]
      /\ tick' = [tick EXCEPT ![t] = [at |-> "orders", left |-> r.left]]
  BY <1>1, <1>2, <1>4 DEF CreepProgress
<1>7. ~Getting(t, r.order) /\ tick[t] # Idle /\ tick[t].at # "progress"
  BY <1>1 DEF Getting
<1> QED
  BY <1>1, <1>5, <1>6, <1>7, OtherWrite

LEMMA TickStep == TickInv /\ [Next]_vars => TickInv'
<1>1. TickInv /\ UNCHANGED engineVars => TickInv'
  BY DEF TickInv, TickTypes, Has, Getting, Sending, Sound, engineVars
<1>2. TickInv /\ [EngineNext]_engineVars => TickInv'
  BY <1>1, QuietSteps, ReadStep, WriteStatusStep, WriteProgressStep, CreepStep, Zenon
     DEF EngineNext
<1> QED
  BY <1>2, StepsOfParts

(* An order on its way has a vehicle, however ticks overlap, except while    *)
(* the tick that put it in transit is about to give it one.                *)
THEOREM VehicleOnTheWay == Spec => []OnTheWayHasVehicle
<1>1. TickInv => OnTheWayHasVehicle
  BY DEF TickInv, OnTheWayHasVehicle, OnWay, Has, Getting
<1> QED
  BY TicksInit, TickStep, <1>1, PTL DEF Spec
(* A step of the engine that takes an order back is the write of a tick that *)
(* has read the order in another state.                                    *)
Undone(o) ==
  \/ Rank[orders'[o].status] < Rank[orders[o].status]
  \/ orders[o].status = "delivered" /\ orders'[o].progress < orders[o].progress

Stale(t, o) ==
  /\ tick[t] # Idle /\ tick[t].at \in {"status", "progress", "creep"}
  /\ tick'[t] # tick[t] /\ tick[t].order = o
  /\ tick[t].base.status # orders[o].status
  /\ tick[t].at = "progress" => tick[t].next # orders[o].status

LEMMA UndoneByChange ==
  ASSUME TickTypes, NEW o \in Orders, Undone(o)
  PROVE  orders'[o] # orders[o]
<1>1. orders[o].status \in Statuses /\ orders[o].progress \in 0 .. 100
  <2>1. orders[o] \in OrderStates
    BY DEF TickTypes
  <2> QED
    BY <2>1, ProgressLevels DEF OrderStates
<1>2. Rank[orders[o].status] \in 0 .. 4
  BY <1>1 DEF Statuses, Rank
<1> QED
  BY <1>1, <1>2 DEF Undone

LEMMA UndoneByStale ==
  ASSUME TickInv, NEW t \in Tickers, NEW o \in Orders, Undone(o),
         WriteStatus(t) \/ WriteProgress(t) \/ CreepProgress(t)
  PROVE  Stale(t, o)
<1>1. PICK r \in Ticks :
        /\ r = tick[t] /\ r # Idle /\ r.at \in {"status", "progress", "creep"} /\ Sound(r)
        /\ r.order \in Orders
  BY DEF WriteStatus, WriteProgress, CreepProgress, TickInv, TickTypes, Ticks
<1>2. orders[o] # orders'[o] /\ orders[o] \in OrderStates
  BY UndoneByChange DEF TickInv, TickTypes
<1>3. orders[o].status \in Statuses /\ orders[o].progress \in 0 .. 100
  BY <1>2, ProgressLevels DEF OrderStates
<1>4. r.order = o /\ tick'[t] # tick[t]
  <2>1. CASE WriteStatus(t)
    BY <1>1, <1>2, <2>1 DEF WriteStatus, TickInv, TickTypes, Ticks
  <2>2. CASE WriteProgress(t)
    <3>1. r.order = o
      BY <1>1, <1>2, <2>2 DEF WriteProgress, TickInv, TickTypes
    <3>2. tick'[t].at = "orders" /\ tick[t].at = "progress"
      BY <2>2 DEF WriteProgress, TickInv, TickTypes
    <3> QED
      BY <3>1, <3>2
  <2>3. CASE CreepProgress(t)
    <3>1. r.order = o
      BY <1>1, <1>2, <2>3 DEF CreepProgress, TickInv, TickTypes
    <3>2. tick'[t].at = "orders" /\ tick[t].at = "creep"
      BY <2>3 DEF CreepProgress, TickInv, TickTypes
    <3> QED
      BY <3>1, <3>2
  <2> QED
    BY <2>1, <2>2, <2>3
<1>5. CASE WriteStatus(t)
  <2>1. r.at = "status" /\ r.base.status \in Statuses /\ r.next = NextStatus(r.base.status)
        /\ r.base.status # "delivered"
    BY <1>1, <1>5 DEF WriteStatus, Ticks, OrderStates, Sound
  <2>2. orders'[o] = [orders[o] EXCEPT !.status = r.next] /\ r.next \in Statuses
    BY <1>1, <1>4, <1>5, <2>1, NextRank DEF WriteStatus, TickInv, TickTypes
  <2>3. orders'[o].status = r.next /\ orders'[o].progress = orders[o].progress
    BY <1>2, <2>2, OrderWrites
  <2>4. Rank[r.next] < Rank[orders[o].status]
    BY <1>3, <2>3 DEF Undone
  <2>5. Rank[r.next] = Rank[r.base.status] + 1 /\ Rank[r.base.status] \in 0 .. 4
    BY <2>1, NextRank DEF Rank, Statuses
  <2>6. r.base.status # orders[o].status
    BY <2>4, <2>5
  <2> QED
    BY <1>1, <1>4, <2>1, <2>6 DEF Stale
<1>6. CASE WriteProgress(t)
  <2>1. r.at = "progress" /\ r.base.status # "delivered" /\ r.next \in Statuses
    BY <1>1, <1>6 DEF WriteProgress, Ticks, Sound
  <2>2. orders'[o] = Accompanied(orders[o], r.next)
    BY <1>1, <1>4, <1>6 DEF WriteProgress, TickInv, TickTypes
  <2>3. orders'[o].status = orders[o].status /\ orders'[o].progress = ProgressMap[r.next]
    <3>1. /\ Accompanied(orders[o], r.next).status = orders[o].status
          /\ Accompanied(orders[o], r.next).progress = ProgressMap[r.next]
      BY <1>2, <2>1, Accompanying, Zenon
    <3> QED
      BY <2>2, <3>1
  <2>4. orders[o].status = "delivered" /\ ProgressMap[r.next] < orders[o].progress
    <3>1. Rank[orders[o].status] \in 0 .. 4
      BY <1>3 DEF Statuses, Rank
    <3> QED
      BY <2>3, <3>1 DEF Undone
  <2>5. r.next # "delivered"
    BY <1>3, <2>1, <2>4, ProgressLevels
  <2> QED
    BY <1>1, <1>4, <2>1, <2>4, <2>5 DEF Stale
<1>7. CASE CreepProgress(t)
  <2>1. r.at = "creep" /\ r.base.status # "delivered"
    BY <1>1, <1>7 DEF CreepProgress, Sound
  <2>2. orders'[o].status = orders[o].status
    <3>1. PICK p \in Creep(r.base.progress) \cup Creep(orders[r.order].progress) :
            \E eta \in {FALSE, r.base.eta} :
              orders' = [orders EXCEPT ![r.order] = [@ EXCEPT !.progress = p, !.eta = eta]]
      BY <1>1, <1>7, Zenon DEF CreepProgress
    <3>2. PICK eta \in {FALSE, r.base.eta} :
            orders' = [orders EXCEPT ![o] = [orders[o] EXCEPT !.progress = p, !.eta = eta]]
      BY <1>4, <3>1
    <3>3. orders \in [Orders -> OrderStates]
      BY DEF TickInv, TickTypes
    <3>4. orders'[o] = [orders[o] EXCEPT !.progress = p, !.eta = eta]
      BY <3>2, <3>3
    <3>5. DOMAIN orders[o] = {"status", "progress", "vehicle", "eta"}
      BY <1>2 DEF OrderStates
    <3> QED
      BY <3>4, <3>5
  <2>3. orders[o].status = "delivered"
    <3>1. Rank[orders[o].status] \in 0 .. 4
      BY <1>3 DEF Statuses, Rank
    <3> QED
      BY <2>2, <3>1 DEF Undone
  <2> QED
    BY <1>1, <1>4, <2>1, <2>3 DEF Stale
<1> QED
  BY <1>5, <1>6, <1>7

(* Ticks that do not overlap never take an order back: whatever undoes the   *)
(* progress of an order is the write of a tick that had read it earlier.    *)
THEOREM OnlyOverlappingTicksUndo == Spec => OnlyOverlapsUndo
<1>1. TickInv /\ [Next]_vars =>
        [\A o \in Orders :
           \/ Rank[orders'[o].status] < Rank[orders[o].status]
           \/ orders[o].status = "delivered" /\ orders'[o].progress < orders[o].progress
           => \E t \in Tickers :
                /\ tick[t] # Idle /\ tick[t].at \in {"status", "progress", "creep"}
                /\ tick'[t] # tick[t] /\ tick[t].order = o
                /\ tick[t].base.status # orders[o].status
                /\ tick[t].at = "progress" => tick[t].next # orders[o].status]_engineVars
  <2> SUFFICES ASSUME TickInv, [Next]_vars, ~UNCHANGED engineVars, NEW o \in Orders, Undone(o)
               PROVE  \E t \in Tickers : Stale(t, o)
    BY Zenon DEF Undone, Stale
  <2>1. orders'[o] # orders[o]
    BY UndoneByChange DEF TickInv
  <2>2. PICK t \in Tickers :
          \/ StartTick(t) \/ MoveVehicles(t) \/ ReadOrder(t) \/ WriteStatus(t)
          \/ WriteProgress(t) \/ CreepProgress(t) \/ RaiseAlert(t) \/ EndTick(t)
    BY StepsOfParts, Zenon DEF EngineNext
  <2>3. WriteStatus(t) \/ WriteProgress(t) \/ CreepProgress(t)
    BY <2>1, <2>2 DEF StartTick, MoveVehicles, ReadOrder, RaiseAlert, EndTick
  <2> QED
    BY <2>3, UndoneByStale
<1> QED
  BY TicksInit, TickStep, <1>1, PTL DEF Spec, OnlyOverlapsUndo
-----------------------------------------------------------------------------
(* The routes of a fleet request.  A route of deliveries of D that visits    *)
(* those of S, each once.                                                  *)
Visits(r, D, S) ==
  /\ r \in Seq(D) /\ r # << >>
  /\ {r[x] : x \in DOMAIN r} = S
  /\ \A x, y \in DOMAIN r : r[x] = r[y] => x = y

LEMMA OneStop ==
  ASSUME NEW D, NEW i \in D
  PROVE  Visits(<<i>>, D, {i})
  BY DEF Visits

LEMMA Appended ==
  ASSUME NEW D, NEW S, NEW T, NEW a, NEW b, Visits(a, D, S), Visits(b, D, T), S \cap T = {}
  PROVE  Visits(a \o b, D, S \cup T)
<1> DEFINE c == a \o b
<1>1. /\ a \in Seq(D) /\ b \in Seq(D) /\ c \in Seq(D)
      /\ Len(c) = Len(a) + Len(b) /\ Len(a) \in Nat /\ Len(b) \in Nat
      /\ Len(a) > 0
      /\ DOMAIN a = 1 .. Len(a) /\ DOMAIN b = 1 .. Len(b) /\ DOMAIN c = 1 .. Len(c)
  BY DEF Visits
<1>2. \A x \in 1 .. Len(a) : c[x] = a[x]
  BY <1>1
<1>3. \A x \in (Len(a) + 1) .. Len(c) : x - Len(a) \in 1 .. Len(b) /\ c[x] = b[x - Len(a)]
  BY <1>1
<1>4. \A y \in 1 .. Len(b) : Len(a) + y \in 1 .. Len(c) /\ c[Len(a) + y] = b[y]
  BY <1>1
<1>5. \A x \in 1 .. Len(c) : x \in 1 .. Len(a) \/ x \in (Len(a) + 1) .. Len(c)
  BY <1>1
<1> HIDE DEF c
<1>6. {c[x] : x \in DOMAIN c} = S \cup T
  <2>1. \A x \in DOMAIN c : c[x] \in S \cup T
    <3>1. (\A x \in 1 .. Len(a) : a[x] \in S) /\ (\A y \in 1 .. Len(b) : b[y] \in T)
      BY <1>1 DEF Visits
    <3> QED
      BY <1>1, <1>2, <1>3, <1>5, <3>1
  <2>2. \A s \in S : \E x \in DOMAIN c : c[x] = s
    <3>1. \A s \in S : \E x \in 1 .. Len(a) : a[x] = s
      BY <1>1 DEF Visits
    <3>2. 1 .. Len(a) \subseteq 1 .. Len(c)
      BY <1>1
    <3> QED
      BY <1>1, <1>2, <3>1, <3>2
  <2>3. \A s \in T : \E x \in DOMAIN c : c[x] = s
    <3>1. \A s \in T : \E y \in 1 .. Len(b) : b[y] = s
      BY <1>1 DEF Visits
    <3> QED
      BY <1>1, <1>4, <3>1
  <2> QED
    BY <2>1, <2>2, <2>3
<1>7. ASSUME NEW x \in DOMAIN c, NEW y \in DOMAIN c, c[x] = c[y]
      PROVE  x = y
  <2>1. \A z \in 1 .. Len(a) : c[z] \in S
    BY <1>1, <1>2 DEF Visits
  <2>2. \A z \in (Len(a) + 1) .. Len(c) : c[z] \in T
    BY <1>1, <1>3 DEF Visits
  <2>3. CASE x \in 1 .. Len(a) /\ y \in 1 .. Len(a)
    BY <1>1, <1>2, <1>7, <2>3 DEF Visits
  <2>4. CASE x \in (Len(a) + 1) .. Len(c) /\ y \in (Len(a) + 1) .. Len(c)
    <3>1. b[x - Len(a)] = b[y - Len(a)]
      BY <1>3, <1>7, <2>4
    <3>2. x - Len(a) = y - Len(a)
      BY <1>1, <1>3, <2>4, <3>1 DEF Visits
    <3> QED
      BY <1>1, <2>4, <3>2
  <2> QED
    BY <1>1, <1>5, <1>7, <2>1, <2>2, <2>3, <2>4
<1>8. c # << >>
  BY <1>1
<1> QED
  BY <1>1, <1>6, <1>7, <1>8 DEF Visits, c

LEMMA Turned ==
  ASSUME NEW D, NEW S, NEW a, Visits(a, D, S)
  PROVE  Visits(Reverse(a), D, S)
<1> DEFINE c == Reverse(a)
<1>1. /\ a \in Seq(D) /\ a # << >> /\ Len(a) \in Nat /\ Len(a) > 0 /\ DOMAIN a = 1 .. Len(a)
  BY DEF Visits
<1>2. /\ DOMAIN c = 1 .. Len(a)
      /\ \A x \in 1 .. Len(a) : c[x] = a[(Len(a) - x) + 1] /\ (Len(a) - x) + 1 \in 1 .. Len(a)
  BY <1>1 DEF Reverse
<1>3. \A x \in 1 .. Len(a) : c[x] \in D
  BY <1>1, <1>2
<1>4. c \in Seq(D) /\ Len(c) = Len(a)
  <2>1. c = [x \in 1 .. Len(a) |-> a[(Len(a) - x) + 1]]
    BY DEF Reverse
  <2>2. c \in [1 .. Len(a) -> D]
    BY <1>3, <2>1
  <2> QED
    BY <1>1, <2>2
<1> HIDE DEF c
<1>5. {c[x] : x \in DOMAIN c} = S
  <2>1. \A x \in 1 .. Len(a) : a[x] = c[(Len(a) - x) + 1]
    <3> SUFFICES ASSUME NEW x \in 1 .. Len(a) PROVE a[x] = c[(Len(a) - x) + 1]
      OBVIOUS
    <3>1. (Len(a) - ((Len(a) - x) + 1)) + 1 = x /\ (Len(a) - x) + 1 \in 1 .. Len(a)
      BY <1>1
    <3> QED
      BY <1>2, <3>1
  <2> QED
    BY <1>1, <1>2, <2>1 DEF Visits
<1>6. ASSUME NEW x \in DOMAIN c, NEW y \in DOMAIN c, c[x] = c[y]
      PROVE  x = y
  <2>1. (Len(a) - x) + 1 = (Len(a) - y) + 1
    BY <1>1, <1>2, <1>6 DEF Visits
  <2> QED
    BY <1>1, <1>2, <2>1
<1>7. c # << >>
  BY <1>1, <1>4
<1> QED
  BY <1>4, <1>5, <1>6, <1>7 DEF Visits, c
(* Two routes that share no delivery are joined to a route of the deliveries *)
(* of both, whichever way they are turned.                                 *)
LEMMA JoinedVisits ==
  ASSUME NEW D, NEW S, NEW T, NEW a, NEW b, Visits(a, D, S), Visits(b, D, T), S \cap T = {},
         NEW i, NEW j, Joined(a, b, i, j) # << >>
  PROVE  Visits(Joined(a, b, i, j), D, S \cup T)
<1>1. \/ Joined(a, b, i, j) = a \o b \/ Joined(a, b, i, j) = b \o a
      \/ Joined(a, b, i, j) = a \o Reverse(b) \/ Joined(a, b, i, j) = Reverse(a) \o b
  <2> DEFINE P == a[Len(a)] = i /\ b[1] = j
             Q == a[1] = i /\ b[Len(b)] = j
             R == a[Len(a)] = i /\ b[Len(b)] = j
             F == a[1] = i /\ b[1] = j
  <2>1. Joined(a, b, i, j) = IF P THEN a \o b ELSE IF Q THEN b \o a
          ELSE IF R THEN a \o Reverse(b) ELSE IF F THEN Reverse(a) \o b ELSE << >>
    BY DEF Joined, Reverse
  <2> HIDE DEF P, Q, R, F
  <2> QED
    BY <2>1, Zenon
<1>2. T \cap S = {} /\ T \cup S = S \cup T
  OBVIOUS
<1>3. Visits(a \o b, D, S \cup T) /\ Visits(b \o a, D, S \cup T)
  BY <1>2, Appended
<1>4. Visits(a \o Reverse(b), D, S \cup T) /\ Visits(Reverse(a) \o b, D, S \cup T)
  BY Appended, Turned
<1> QED
  BY <1>1, <1>3, <1>4, Zenon

(* The deliveries that are filed under a key, and the routes of a request.   *)
Filed(k) == {i \in DOMAIN routeOf : routeOf[i] = k}

RoutesInv ==
  /\ scenario \in Scenarios /\ todo \subseteq Pairs(scenario)
  /\ DOMAIN routes = DOMAIN demands
  /\ routeOf \in [Deliveries(scenario) -> DOMAIN routes]
  /\ \A k \in DOMAIN routes : Visits(routes[k], Deliveries(scenario), Filed(k))
  /\ RoutesFit

LEMMA RoutesInit == SolveInit => RoutesInv
<1> SUFFICES ASSUME SolveInit PROVE RoutesInv
  OBVIOUS
<1>1. /\ scenario \in Scenarios /\ todo \subseteq Pairs(scenario)
      /\ routeOf = [i \in Deliveries(scenario) |-> i]
      /\ routes = [i \in Deliveries(scenario) |-> <<i>>]
      /\ demands = scenario.demand
  BY DEF SolveInit
<1>2. /\ DOMAIN demands = Deliveries(scenario)
      /\ \A i \in Deliveries(scenario) : demands[i] <= MaxCapacity
  BY <1>1, ScenariosAssumption
<1>3. \A k \in Deliveries(scenario) : Filed(k) = {k}
  BY <1>1 DEF Filed
<1>4. \A k \in DOMAIN routes : Visits(routes[k], Deliveries(scenario), Filed(k))
  <2>1. \A k \in Deliveries(scenario) : Visits(<<k>>, Deliveries(scenario), {k})
    BY OneStop, Zenon
  <2>2. /\ DOMAIN routes = Deliveries(scenario)
        /\ \A k \in Deliveries(scenario) : routes[k] = <<k>>
    BY <1>1
  <2> QED
    BY <1>3, <2>1, <2>2
<1> QED
  BY <1>1, <1>2, <1>4 DEF RoutesInv, RoutesFit

LEMMA MergeStep ==
  ASSUME RoutesInv, NEW p \in todo, MergeNext(p)
  PROVE  RoutesInv'
<1> DEFINE D == Deliveries(scenario)
<1>1. /\ scenario' = scenario /\ todo' \subseteq todo /\ Join(p)
      /\ p[1] \in D /\ p[2] \in D
  BY DEF MergeNext, RoutesInv, Pairs
<1>2. Deliveries(scenario)' = D /\ Pairs(scenario)' = Pairs(scenario)
  BY <1>1
<1>3. CASE UNCHANGED <<routeOf, routes, demands>>
  <2>1. \A k : Filed(k)' = Filed(k)
    BY <1>3 DEF Filed
  <2> QED
    BY <1>1, <1>2, <1>3, <2>1 DEF RoutesInv, RoutesFit
<1>4. CASE ~UNCHANGED <<routeOf, routes, demands>>
  <2>1. PICK ri \in DOMAIN routes, rj \in DOMAIN routes :
          ri = routeOf[p[1]] /\ rj = routeOf[p[2]]
    BY <1>1 DEF RoutesInv
  <2>2. PICK new : new = Joined(routes[ri], routes[rj], p[1], p[2])
    OBVIOUS
  <2>3. PICK left : left = DOMAIN routes \ {rj}
    OBVIOUS
  <2>4. /\ ri # rj /\ demands[ri] + demands[rj] <= MaxCapacity /\ new # << >>
        /\ routeOf' = [x \in DOMAIN routeOf |-> IF routeOf[x] = rj THEN ri ELSE routeOf[x]]
        /\ routes' = [k \in left |-> IF k = ri THEN new ELSE routes[k]]
        /\ demands' = [k \in left |->
                         IF k = ri THEN demands[ri] + demands[rj] ELSE demands[k]]
    BY <1>1, <1>4, <2>1, <2>2, <2>3 DEF Join, Fits, Refiled
  <2>5. DOMAIN routes' = left /\ DOMAIN demands' = left /\ ri \in left
    BY <2>3, <2>4
  <2>6. routeOf' \in [D -> left]
    BY <2>3, <2>4, <2>5 DEF RoutesInv
  <2>7. Filed(ri)' = Filed(ri) \cup Filed(rj)
    BY <2>1, <2>4 DEF Filed
  <2>8. \A k \in left \ {ri} : Filed(k)' = Filed(k)
    BY <2>3, <2>4 DEF Filed
  <2>9. Filed(ri) \cap Filed(rj) = {}
    BY <2>4 DEF Filed
  <2>10. Visits(new, D, Filed(ri) \cup Filed(rj))
    BY <2>1, <2>2, <2>4, <2>9, JoinedVisits DEF RoutesInv
  <2>11. \A k \in left : Visits(routes'[k], D, Filed(k)')
    BY <2>3, <2>4, <2>7, <2>8, <2>10 DEF RoutesInv
  <2>12. \A k \in left : demands'[k] <= MaxCapacity
    BY <2>3, <2>4 DEF RoutesInv, RoutesFit
  <2> QED
    BY <1>1, <1>2, <2>5, <2>6, <2>11, <2>12 DEF RoutesInv, RoutesFit
<1> QED
  BY <1>3, <1>4

(* Whatever scenario a fleet request brings, its routes visit every delivery *)
(* once and carry no more than the limit, after every join.                *)
THEOREM RoutesStaySound == Spec => []RoutesSound
<1> DEFINE Inv == part = "fleet" => RoutesInv
<1>1. Init => Inv
  BY RoutesInit DEF Init, FleetInit
<1>2. RoutesInv /\ [FleetNext]_fleetVars => RoutesInv'
  <2> SUFFICES ASSUME RoutesInv, [FleetNext]_fleetVars PROVE RoutesInv'
    OBVIOUS
  <2>1. CASE UNCHANGED routeVars
    <3>1. \A k : Filed(k)' = Filed(k)
      BY <2>1 DEF Filed, routeVars
    <3> QED
      BY <2>1, <3>1 DEF RoutesInv, RoutesFit, routeVars
  <2>2. ~UNCHANGED routeVars => \E p \in todo : MergeNext(p)
    BY Zenon DEF FleetNext, fleetVars, Solve, SetGenerations, OtherRequest,
                 StartEvolve, Generation, Finish
  <2> QED
    BY <2>1, <2>2, MergeStep
<1>3. Inv /\ [Next]_vars => Inv'
  <2>1. [Next]_vars => part' = part
    BY Zenon DEF Next, vars
  <2> QED
    BY <1>2, <2>1, StepsOfParts
<1>4. Inv => RoutesSound
  BY DEF RoutesInv, RoutesSound, RoutesPartition, Visits, Filed
<1> HIDE DEF Inv
<1> QED
  BY <1>1, <1>3, <1>4, PTL DEF Spec
-----------------------------------------------------------------------------
(* What the demands of the routes are sums of, and what the keys are.        *)
LoadsInv ==
  /\ DOMAIN routes \subseteq Deliveries(scenario)
  /\ \A k \in DOMAIN routes : demands[k] = SumFunctionOnSet(scenario.demand, Filed(k))

(* The deliveries of a scenario, and those that a key stands for.           *)
LEMMA FiledFinite ==
  ASSUME RoutesInv
  PROVE  /\ scenario.n \in Nat /\ Deliveries(scenario) = 1 .. scenario.n
         /\ IsFiniteSet(Deliveries(scenario))
         /\ \A i \in Deliveries(scenario) : scenario.demand[i] \in Nat
         /\ \A k : Filed(k) \in SUBSET Deliveries(scenario)
<1>1. scenario.n \in Nat /\ Deliveries(scenario) = 1 .. scenario.n
  BY ScenariosAssumption DEF RoutesInv, Deliveries
<1>2. IsFiniteSet(Deliveries(scenario))
  BY <1>1, FS_Interval
<1>3. \A i \in Deliveries(scenario) : scenario.demand[i] \in Nat
  BY ScenariosAssumption DEF RoutesInv
<1>4. \A k : Filed(k) \in SUBSET Deliveries(scenario)
  BY DEF RoutesInv, Filed
<1> QED
  BY <1>1, <1>2, <1>3, <1>4

(* At first every delivery is its own load.                                *)
LEMMA LoadsInit == SolveInit => LoadsInv
<1> SUFFICES ASSUME SolveInit
             PROVE  LoadsInv
  OBVIOUS
<1>1. RoutesInv
  BY RoutesInit
<1>2. /\ routeOf = [i \in Deliveries(scenario) |-> i] /\ DOMAIN routes = Deliveries(scenario)
      /\ demands = scenario.demand
  BY DEF SolveInit
<1>3. ASSUME NEW k \in Deliveries(scenario)
      PROVE  demands[k] = SumFunctionOnSet(scenario.demand, Filed(k))
  <2>1. Filed(k) = {k}
    BY <1>2 DEF Filed
  <2>2. PICK D : D = Deliveries(scenario)
    OBVIOUS
  <2>3. PICK f : f = scenario.demand
    OBVIOUS
  <2>4. IsFiniteSet(D) /\ \A x \in D : f[x] \in Int
    BY <1>1, <2>2, <2>3, FiledFinite
  <2>5. /\ SumFunctionOnSet(f, {}) = 0
        /\ \A T \in SUBSET D : \A x \in T : SumFunctionOnSet(f, T) = f[x] + SumFunctionOnSet(f, T \ {x})
    BY <2>4, SumTakesAny
  <2>6. {k} \in SUBSET D /\ {k} \ {k} = {} /\ f[k] \in Int
    BY <2>2, <2>4
  <2>7. SumFunctionOnSet(f, {k}) = f[k] + SumFunctionOnSet(f, {})
    BY <2>5, <2>6
  <2> QED
    BY <1>2, <2>1, <2>3, <2>5, <2>6, <2>7
<1> QED
  BY <1>2, <1>3 DEF LoadsInv

(* Two routes are joined: their deliveries are distinct, so loads add up.    *)
LEMMA LoadsStep ==
  ASSUME RoutesInv, LoadsInv, NEW p \in todo, MergeNext(p)
  PROVE  LoadsInv'
<1> DEFINE D == Deliveries(scenario)
<1>1. /\ scenario' = scenario /\ Join(p) /\ p[1] \in D /\ p[2] \in D
  BY DEF MergeNext, RoutesInv, Pairs
<1>2. Deliveries(scenario)' = D
  BY <1>1
<1>3. CASE UNCHANGED <<routeOf, routes, demands>>
  <2>1. \A k : Filed(k)' = Filed(k)
    BY <1>3 DEF Filed
  <2> QED
    BY <1>1, <1>2, <1>3, <2>1 DEF LoadsInv
<1>4. CASE ~UNCHANGED <<routeOf, routes, demands>>
  <2>1. PICK ri \in DOMAIN routes, rj \in DOMAIN routes :
          ri = routeOf[p[1]] /\ rj = routeOf[p[2]]
    BY <1>1 DEF RoutesInv
  <2>3. PICK left : left = DOMAIN routes \ {rj}
    OBVIOUS
  <2>4. /\ ri # rj
        /\ routeOf' = [x \in DOMAIN routeOf |-> IF routeOf[x] = rj THEN ri ELSE routeOf[x]]
        /\ DOMAIN routes' = left
        /\ demands' = [k \in left |->
                         IF k = ri THEN demands[ri] + demands[rj] ELSE demands[k]]
    BY <1>1, <1>4, <2>1, <2>3 DEF Join, Refiled
  <2>5. left \subseteq D
    BY <2>3 DEF LoadsInv
  <2>7. Filed(ri)' = Filed(ri) \cup Filed(rj)
    BY <2>1, <2>4 DEF Filed
  <2>8. \A k \in left \ {ri} : Filed(k)' = Filed(k)
    BY <2>3, <2>4 DEF Filed
  <2>9. Filed(ri) \cap Filed(rj) = {}
    BY <2>4 DEF Filed
  <2>10. PICK f : f = scenario.demand
    OBVIOUS
  <2>11. SumFunctionOnSet(f, Filed(ri) \cup Filed(rj))
           = SumFunctionOnSet(f, Filed(ri)) + SumFunctionOnSet(f, Filed(rj))
    <3>1. IsFiniteSet(D) /\ \A x \in D : f[x] \in Int
      BY <2>10, FiledFinite
    <3>2. PICK S : S = D
      OBVIOUS
    <3>3. PICK A \in SUBSET S : A = Filed(ri)
      BY <3>2, FiledFinite
    <3>4. PICK B \in SUBSET S : B = Filed(rj)
      BY <3>2, FiledFinite
    <3>5. IsFiniteSet(S) /\ (\A x \in S : f[x] \in Int) /\ A \cap B = {}
      BY <2>9, <3>1, <3>2, <3>3, <3>4
    <3>6. SumFunctionOnSet(f, A \cup B) = SumFunctionOnSet(f, A) + SumFunctionOnSet(f, B)
      BY <3>5, SumDisjoint
    <3> QED
      BY <3>3, <3>4, <3>6
  <2>12. \A k \in DOMAIN routes : demands[k] = SumFunctionOnSet(f, Filed(k))
    BY <2>10 DEF LoadsInv
  <2>13. ASSUME NEW k \in left
         PROVE  demands'[k] = SumFunctionOnSet(f, Filed(k)')
    <3>1. CASE k = ri
      BY <2>1, <2>4, <2>7, <2>11, <2>12, <3>1
    <3>2. CASE k # ri
      BY <2>3, <2>4, <2>8, <2>12, <3>2
    <3> QED
      BY <3>1, <3>2
  <2>14. scenario'.demand = f
    BY <1>1, <2>10
  <2> QED
    BY <1>2, <2>4, <2>5, <2>13, <2>14 DEF LoadsInv
<1> QED
  BY <1>3, <1>4

(* Lengths, loads and costs of routes are natural numbers.                   *)
(* The demand that Route sums up along a route is the one on file for it,    *)
(* and its length is a number.                                             *)
LEMMA RouteNumbers ==
  ASSUME RoutesInv, LoadsInv, NEW k \in DOMAIN routes
  PROVE  /\ Route(k).km \in Nat /\ Route(k).demand = demands[k]
<1> DEFINE r == routes[k]
           D == Deliveries(scenario)
<1>1. /\ r \in Seq(D) /\ r # << >> /\ Len(r) \in Nat /\ Len(r) >= 1 /\ DOMAIN r = 1 .. Len(r)
      /\ \A x \in 1 .. Len(r) : r[x] \in D
      /\ {r[x] : x \in DOMAIN r} = Filed(k)
      /\ \A x, y \in DOMAIN r : r[x] = r[y] => x = y
  BY DEF RoutesInv, Visits
<1>2. IsFiniteSet(DOMAIN r)
  BY <1>1, FS_Interval
<1>3. Route(k) = [demand |-> SumFunction([x \in DOMAIN r |-> scenario.demand[r[x]]]),
                  km |-> TourLength(r),
                  green |-> \E x \in DOMAIN r : r[x] \in scenario.green]
  BY Zenon DEF Route
<1> HIDE DEF r
<1>4. SumFunction([x \in DOMAIN r |-> scenario.demand[r[x]]]) = demands[k]
  <2>1. PICK f : f = [x \in DOMAIN r |-> scenario.demand[r[x]]]
    OBVIOUS
  <2>2. PICK g : g = scenario.demand
    OBVIOUS
  <2>3. PICK S : S = DOMAIN r
    OBVIOUS
  <2>4. PICK T : T = {r[x] : x \in S}
    OBVIOUS
  <2>5. \A x \in S : g[r[x]] \in Int /\ f[x] = g[r[x]]
    BY <1>1, <2>1, <2>2, <2>3, FiledFinite
  <2>6. \A x \in S, y \in S : r[x] = r[y] => x = y
    BY <1>1, <2>3
  <2>7. SumFunctionOnSet(f, S) = SumFunctionOnSet(g, T)
    BY <1>2, <2>3, <2>4, <2>5, <2>6, SumMapped
  <2>8. SumFunction(f) = SumFunctionOnSet(f, S)
    BY <2>1, <2>3 DEF SumFunction
  <2>9. T = Filed(k)
    BY <1>1, <2>3, <2>4
  <2> QED
    BY <2>1, <2>2, <2>7, <2>8, <2>9 DEF LoadsInv
<1>5. TourLength(r) \in Nat
  <2>1. PICK leg : leg = [x \in DOMAIN r |-> IF x = Len(r) THEN scenario.dist[r[x], 0]
                                            ELSE scenario.dist[r[x], r[x + 1]]]
    OBVIOUS
  <2>2. TourLength(r) = scenario.dist[0, r[1]] + SumFunctionOnSet(leg, DOMAIN r)
    BY <2>1 DEF TourLength, SumFunction
  <2>3. /\ scenario.n \in Nat /\ D = 1 .. scenario.n
        /\ scenario.dist \in [(0 .. scenario.n) \X (0 .. scenario.n) -> Nat]
    BY FiledFinite, ScenariosAssumption DEF RoutesInv
  <2>4. \A i, j \in 0 .. scenario.n : scenario.dist[i, j] \in Nat
    BY <2>3
  <2>5. \A x \in DOMAIN r : leg[x] \in Nat
    <3> SUFFICES ASSUME NEW x \in 1 .. Len(r)
                 PROVE  leg[x] \in Nat
      BY <1>1
    <3>1. r[x] \in 0 .. scenario.n /\ 0 \in 0 .. scenario.n
      BY <1>1, <2>3
    <3>2. CASE x = Len(r)
      BY <1>1, <2>1, <2>4, <3>1, <3>2
    <3>3. CASE x # Len(r)
      <4>1. x + 1 \in 1 .. Len(r)
        <5>1. PICK n \in Nat : n = Len(r)
          BY <1>1
        <5>2. x \in 1 .. n /\ x # n
          BY <3>3, <5>1
        <5>3. x + 1 \in 1 .. n
          BY <5>2
        <5> QED
          BY <5>1, <5>3
      <4>2. r[x + 1] \in 0 .. scenario.n
        BY <1>1, <2>3, <4>1
      <4> QED
        BY <1>1, <2>1, <2>4, <3>1, <3>3, <4>2
    <3> QED
      BY <3>2, <3>3
  <2>6. SumFunctionOnSet(leg, DOMAIN r) \in Nat
    <3>1. PICK S : S = DOMAIN r
      OBVIOUS
    <3>2. IsFiniteSet(S) /\ (\A x \in S : leg[x] \in Nat) /\ S \in SUBSET S
      BY <1>2, <2>5, <3>1
    <3>3. SumFunctionOnSet(leg, S) \in Nat
      BY <3>2, SumGrows
    <3> QED
      BY <3>1, <3>3
  <2>7. scenario.dist[0, r[1]] \in Nat
    <3>1. r[1] \in 0 .. scenario.n /\ 0 \in 0 .. scenario.n
      BY <1>1, <2>3
    <3> QED
      BY <2>4, <3>1
  <2>8. PICK a \in Nat : a = scenario.dist[0, r[1]]
    BY <2>7
  <2>9. PICK b \in Nat : b = SumFunctionOnSet(leg, DOMAIN r)
    BY <2>6
  <2>10. TourLength(r) = a + b
    BY <2>2, <2>8, <2>9
  <2> QED
    BY <2>10
<1> QED
  BY <1>3, <1>4, <1>5

(* Of finitely many things, ordered by a number and ties by another one,     *)
(* there is a first.                                                       *)
LEMMA FirstOfAll ==
  ASSUME NEW S, IsFiniteSet(S), S # {}, NEW f, NEW q,
         \A x \in S : f[x] \in Int /\ q[x] \in Int,
         \A x \in S, y \in S : q[x] = q[y] => x = y
  PROVE  \E x \in S : \A y \in S \ {x} : f[x] < f[y] \/ (f[x] = f[y] /\ q[x] < q[y])
<1> DEFINE before(x, y) == f[x] < f[y] \/ (f[x] = f[y] /\ q[x] < q[y])
           first(s) == \E x \in s : \A y \in s \ {x} : before(x, y)
           bad == {s \in SUBSET S : s # {} /\ ~first(s)}
<1>1. /\ \A x \in S, y \in S : x # y => before(x, y) \/ before(y, x)
      /\ \A x \in S, y \in S, z \in S : before(x, y) /\ before(y, z) => before(x, z)
  OBVIOUS
<1> HIDE DEF before
<1> SUFFICES ASSUME bad # {}
             PROVE  FALSE
  BY DEF before
<1>2. \A s \in bad : IsFiniteSet(s)
  BY FS_Subset
<1>3. PICK s \in bad : \A t \in bad : Cardinality(s) <= Cardinality(t)
  BY <1>2, SmallestSet
<1>4. PICK x \in s : TRUE
  BY <1>3
<1>5. Cardinality(s \ {x}) \in Nat /\ Cardinality(s) = Cardinality(s \ {x}) + 1
  BY <1>2, <1>4, LessOne
<1>6. s \ {x} \in bad => Cardinality(s) <= Cardinality(s \ {x})
  BY <1>3
<1>7. s \ {x} \in SUBSET S /\ s \in SUBSET S /\ ~first(s)
  BY <1>3
<1>8. s \ {x} = {} \/ first(s \ {x})
  BY <1>5, <1>6, <1>7
<1> HIDE DEF bad
<1>9. CASE s \ {x} = {}
  BY <1>4, <1>7, <1>9
<1>10. CASE first(s \ {x})
  <2>1. PICK y \in s \ {x} : \A z \in (s \ {x}) \ {y} : before(y, z)
    BY <1>10
  <2>2. CASE before(y, x)
    <3>1. \A z \in s \ {y} : before(y, z)
      BY <2>1, <2>2
    <3> QED
      BY <1>7, <2>1, <3>1
  <2>3. CASE before(x, y)
    <3>1. \A z \in s \ {x} : before(x, z)
      BY <1>1, <1>4, <1>7, <2>1, <2>3
    <3> QED
      BY <1>4, <1>7, <3>1
  <2> QED
    BY <1>1, <1>4, <1>7, <2>1, <2>2, <2>3
<1> QED
  BY <1>8, <1>9, <1>10
-----------------------------------------------------------------------------
(* The table of vehicle types: numbers, a fixed cost above zero, an order.   *)
LEMMA VehicleNumbers ==
  ASSUME NEW v \in VTypes
  PROVE  /\ FleetTypes[v].capacity \in Nat /\ FleetTypes[v].range \in Nat
         /\ FleetTypes[v].fixed \in Nat /\ FleetTypes[v].fixed > 0
         /\ FleetTypes[v].perKm \in Nat /\ FleetTypes[v].co2 \in Nat
         /\ Position[v] \in 1 .. 4
         /\ \A w \in VTypes : Position[v] = Position[w] => v = w
         /\ v # "unassigned"
  BY DEF VTypes, FleetTypes, Position

(* Every vehicle costs something on every route.                           *)
LEMMA PricesOfRoutes ==
  ASSUME NEW v \in VTypes, NEW route, route.km \in Nat
  PROVE  Cost(v, route) \in Nat /\ Cost(v, route) > 0 /\ CO2(v, route) \in Nat
<1>1. PICK a \in Nat : a = FleetTypes[v].fixed /\ a > 0
  BY VehicleNumbers
<1>2. PICK b \in Nat : b = FleetTypes[v].perKm
  BY VehicleNumbers
<1>3. PICK c \in Nat : c = FleetTypes[v].co2
  BY VehicleNumbers
<1>4. PICK km \in Nat : km = route.km
  OBVIOUS
<1>5. km * b \in Nat /\ km * c \in Nat
  OBVIOUS
<1>6. Cost(v, route) = a + km * b /\ CO2(v, route) = km * c
  BY <1>1, <1>2, <1>3, <1>4 DEF Cost, CO2
<1> QED
  BY <1>1, <1>5, <1>6

Genomes == [counts : [VTypes -> Nat], alpha : Int, beta : Int]

(* The vehicle that a route gets is one that may serve it.                   *)
LEMMA BestMayServe ==
  ASSUME NEW route, route.km \in Nat, NEW counts, NEW g \in Genomes
  PROVE  \/ Best(route, counts, g) = "unassigned"
         \/ Best(route, counts, g) \in VTypes /\ Usable(Best(route, counts, g), route, counts)
<1> DEFINE usable == {v \in VTypes : Usable(v, route, counts)}
           before(v, w) == \/ Score(v, route, g) < Score(w, route, g)
                           \/ Score(v, route, g) = Score(w, route, g) /\ Position[v] < Position[w]
<1>1. Best(route, counts, g) =
        IF usable = {} THEN "unassigned"
        ELSE CHOOSE v \in usable : \A w \in usable \ {v} : before(v, w)
  BY Zenon DEF Best
<1>2. \A v \in VTypes : Score(v, route, g) \in Int
  <2> SUFFICES ASSUME NEW v \in VTypes
               PROVE  Score(v, route, g) \in Int
    OBVIOUS
  <2>1. PICK c \in Nat : c = Cost(v, route)
    BY PricesOfRoutes
  <2>2. PICK e \in Nat : e = CO2(v, route)
    BY PricesOfRoutes
  <2>3. PICK a \in Int : a = g.alpha
    BY DEF Genomes
  <2>4. PICK b \in Int : b = g.beta
    BY DEF Genomes
  <2>5. 5 * a * c \in Int /\ b * e \in Int
    OBVIOUS
  <2>6. Score(v, route, g) = 5 * a * c + b * e
    BY <2>1, <2>2, <2>3, <2>4 DEF Score
  <2> QED
    BY <2>5, <2>6
<1>3. usable # {} => \E v \in usable : \A w \in usable \ {v} : before(v, w)
  <2> SUFFICES ASSUME usable # {}
               PROVE  \E v \in usable : \A w \in usable \ {v} : before(v, w)
    OBVIOUS
  <2>1. PICK S \in SUBSET VTypes : S = usable
    OBVIOUS
  <2>2. PICK f : f = [v \in VTypes |-> Score(v, route, g)]
    OBVIOUS
  <2>3. IsFiniteSet(S)
    <3>1. IsFiniteSet(VTypes)
      <4>1. PICK A : A = {"cargo-bike"} /\ IsFiniteSet(A)
        BY FS_Singleton
      <4>2. PICK B : B = A \cup {"ev-pod"} /\ IsFiniteSet(B)
        <5>1. IsFiniteSet(A \cup {"ev-pod"})
          BY <4>1, FS_AddElement
        <5> QED
          BY <5>1, Zenon
      <4>3. PICK C : C = B \cup {"hybrid-van"} /\ IsFiniteSet(C)
        <5>1. IsFiniteSet(B \cup {"hybrid-van"})
          BY <4>2, FS_AddElement
        <5> QED
          BY <5>1, Zenon
      <4>4. PICK D : D = C \cup {"diesel-truck"} /\ IsFiniteSet(D)
        <5>1. IsFiniteSet(C \cup {"diesel-truck"})
          BY <4>3, FS_AddElement
        <5> QED
          BY <5>1, Zenon
      <4>5. VTypes = D
        BY <4>1, <4>2, <4>3, <4>4 DEF VTypes
      <4> QED
        BY <4>4, <4>5
    <3> QED
      BY <3>1, FS_Subset
  <2>4. \A x \in S : f[x] \in Int /\ Position[x] \in Int
    BY <1>2, <2>2, VehicleNumbers
  <2>5. \A x \in S, y \in S : Position[x] = Position[y] => x = y
    BY VehicleNumbers
  <2>6. \E x \in S : \A y \in S \ {x} : f[x] < f[y] \/ (f[x] = f[y] /\ Position[x] < Position[y])
    BY <2>1, <2>3, <2>4, <2>5, FirstOfAll
  <2>7. \A v \in S : f[v] = Score(v, route, g)
    BY <2>2
  <2> HIDE DEF usable
  <2> QED
    BY <2>1, <2>6, <2>7
<1> HIDE DEF before
<1>4. CASE usable = {}
  BY <1>1, <1>4
<1>5. CASE usable # {}
  <2>1. Best(route, counts, g) = CHOOSE v \in usable : \A w \in usable \ {v} : before(v, w)
    BY <1>1, <1>5
  <2> HIDE DEF usable
  <2>2. Best(route, counts, g) \in usable
    BY <1>3, <1>5, <2>1
  <2> QED
    BY <2>2 DEF usable
<1> QED
  BY <1>4, <1>5
-----------------------------------------------------------------------------
(* The assignment, route by route.                                           *)
Shortest(S) ==
  CHOOSE k \in S : \A m \in S \ {k} :
    \/ Route(m).km > Route(k).km
    \/ Route(m).km = Route(k).km /\ m < k

Taking(k, acc, g) ==
  [counts |-> IF Best(Route(k), acc.counts, g) = "unassigned" THEN acc.counts
              ELSE [acc.counts EXCEPT ![Best(Route(k), acc.counts, g)] = @ - 1],
   vehicle |-> [acc.vehicle EXCEPT ![k] = Best(Route(k), acc.counts, g)]]

NoneTaken(g) == [counts |-> g.counts, vehicle |-> [k \in DOMAIN routes |-> "unassigned"]]

IsAssignment(it, g) ==
  it = [s \in SUBSET DOMAIN routes |->
          IF s = {} THEN NoneTaken(g) ELSE Taking(Shortest(s), it[s \ {Shortest(s)}], g)]

(* Assign is that recursion over the sets of routes still to be served.      *)
LEMMA AssignFolds ==
  ASSUME NEW g
  PROVE  Assign(g) = (CHOOSE it : IsAssignment(it, g))[DOMAIN routes].vehicle
  BY DEF Assign, MapThenFoldSet, IsAssignment, Shortest, Taking, NoneTaken

(* A set of routes has one that is served last.                            *)
LEMMA ShortestIn ==
  ASSUME RoutesInv, LoadsInv, NEW S \in SUBSET DOMAIN routes, S # {}
  PROVE  Shortest(S) \in S
<1>1. PICK f : f = [k \in DOMAIN routes |-> Route(k).km]
  OBVIOUS
<1>2. PICK q : q = [k \in DOMAIN routes |-> -k]
  OBVIOUS
<1>3. /\ DOMAIN routes \subseteq Deliveries(scenario) /\ IsFiniteSet(Deliveries(scenario))
      /\ Deliveries(scenario) \subseteq Int
  <2>1. DOMAIN routes \subseteq Deliveries(scenario)
    BY DEF LoadsInv
  <2> QED
    BY <2>1, FiledFinite
<1>4. IsFiniteSet(S)
  <2>1. S \subseteq Deliveries(scenario)
    BY <1>3
  <2> QED
    BY <1>3, <2>1, FS_Subset
<1>5. \A k \in DOMAIN routes : Route(k).km \in Nat
  BY RouteNumbers
<1>6. \A k \in S : f[k] = Route(k).km /\ q[k] = -k /\ k \in Int
  BY <1>1, <1>2, <1>3
<1>7. \A k \in S : f[k] \in Int /\ q[k] \in Int
  BY <1>5, <1>6
<1>8. \A x \in S, y \in S : q[x] = q[y] => x = y
  BY <1>6
<1>9. \E x \in S : \A y \in S \ {x} : f[x] < f[y] \/ (f[x] = f[y] /\ q[x] < q[y])
  BY <1>4, <1>7, <1>8, FirstOfAll
<1>10. \E k \in S : \A m \in S \ {k} :
         Route(m).km > Route(k).km \/ (Route(m).km = Route(k).km /\ m < k)
  <2>1. PICK k \in S : \A y \in S \ {k} : f[k] < f[y] \/ (f[k] = f[y] /\ q[k] < q[y])
    BY <1>9
  <2>2. ASSUME NEW m \in S \ {k}
        PROVE  Route(m).km > Route(k).km \/ (Route(m).km = Route(k).km /\ m < k)
    <3>1. PICK a \in Nat : a = Route(m).km /\ a = f[m]
      BY <1>5, <1>6
    <3>2. PICK b \in Nat : b = Route(k).km /\ b = f[k]
      BY <1>5, <1>6
    <3>3. m \in Int /\ k \in Int /\ q[m] = -m /\ q[k] = -k
      BY <1>6
    <3>4. b < a \/ (b = a /\ -k < -m)
      BY <2>1, <3>1, <3>2, <3>3
    <3>5. a > b \/ (a = b /\ m < k)
      BY <3>3, <3>4
    <3> QED
      BY <3>1, <3>2, <3>5
  <2> QED
    BY <2>2
<1> QED
  BY <1>10, Zenon DEF Shortest
-----------------------------------------------------------------------------
Serves(v, k) ==
  /\ v \in VTypes
  /\ Route(k).demand <= FleetTypes[v].capacity
  /\ Route(k).km <= FleetTypes[v].range
  /\ Route(k).green => FleetTypes[v].zero

Accounts == [counts : [VTypes -> Nat], vehicle : [DOMAIN routes -> VTypes \cup {"unassigned"}]]

DrivenBy(v, a) == {k \in DOMAIN routes : a.vehicle[k] = v}

(* What is handed out when the routes of s are served.                      *)
Handed(a, s, g) ==
  /\ a \in Accounts
  /\ \A k \in DOMAIN routes \ s : a.vehicle[k] = "unassigned"
  /\ \A v \in VTypes : Cardinality(DrivenBy(v, a)) + a.counts[v] = g.counts[v]
  /\ \A k \in DOMAIN routes : a.vehicle[k] # "unassigned" => Serves(a.vehicle[k], k)

(* There are finitely many routes.                                         *)
LEMMA RoutesFinite ==
  ASSUME RoutesInv, LoadsInv
  PROVE  IsFiniteSet(DOMAIN routes)
<1>1. DOMAIN routes \subseteq Deliveries(scenario)
  BY DEF LoadsInv
<1> QED
  BY <1>1, FiledFinite, FS_Subset

(* Serving one more route keeps counts natural: a vehicle is taken only     *)
(* where there is one.                                                     *)
LEMMA TakingTyped ==
  ASSUME RoutesInv, LoadsInv, NEW g \in Genomes, NEW k \in DOMAIN routes, NEW a \in Accounts
  PROVE  Taking(k, a, g) \in Accounts
<1>1. PICK v : v = Best(Route(k), a.counts, g)
  OBVIOUS
<1>2. v = "unassigned" \/ (v \in VTypes /\ Usable(v, Route(k), a.counts))
  BY <1>1, RouteNumbers, BestMayServe
<1>3. Taking(k, a, g) =
        [counts |-> IF v = "unassigned" THEN a.counts ELSE [a.counts EXCEPT ![v] = @ - 1],
         vehicle |-> [a.vehicle EXCEPT ![k] = v]]
  BY <1>1 DEF Taking
<1>4. a.counts \in [VTypes -> Nat] /\ a.vehicle \in [DOMAIN routes -> VTypes \cup {"unassigned"}]
  BY DEF Accounts
<1>5. v # "unassigned" => a.counts[v] > 0 /\ [a.counts EXCEPT ![v] = @ - 1] \in [VTypes -> Nat]
  BY <1>2, <1>4 DEF Usable
<1>6. [a.vehicle EXCEPT ![k] = v] \in [DOMAIN routes -> VTypes \cup {"unassigned"}]
  BY <1>2, <1>4
<1> QED
  BY <1>3, <1>4, <1>5, <1>6 DEF Accounts

(* Serving one more route keeps the account of what is handed out.           *)
LEMMA TakingHands ==
  ASSUME RoutesInv, LoadsInv, NEW g \in Genomes, NEW s \in SUBSET DOMAIN routes,
         NEW k \in s, NEW a, Handed(a, s \ {k}, g)
  PROVE  Handed(Taking(k, a, g), s, g)
<1>1. PICK v : v = Best(Route(k), a.counts, g)
  OBVIOUS
<1>2. v = "unassigned" \/ (v \in VTypes /\ Usable(v, Route(k), a.counts))
  <2>1. Route(k).km \in Nat
    BY RouteNumbers
  <2> QED
    BY <1>1, <2>1, BestMayServe
<1>3. PICK b : /\ b = Taking(k, a, g)
               /\ b.counts = (IF v = "unassigned" THEN a.counts
                              ELSE [a.counts EXCEPT ![v] = @ - 1])
               /\ b.vehicle = [a.vehicle EXCEPT ![k] = v]
  <2>1. Taking(k, a, g) =
          [counts |-> IF v = "unassigned" THEN a.counts ELSE [a.counts EXCEPT ![v] = @ - 1],
           vehicle |-> [a.vehicle EXCEPT ![k] = v]]
    BY <1>1 DEF Taking
  <2> QED
    BY <2>1
<1>4. /\ a.counts \in [VTypes -> Nat]
      /\ a.vehicle \in [DOMAIN routes -> VTypes \cup {"unassigned"}]
      /\ a.vehicle[k] = "unassigned"
      /\ a \in Accounts
  BY DEF Handed, Accounts
<1>5. b \in Accounts
  BY <1>3, <1>4, TakingTyped
<1>6. \A m \in DOMAIN routes \ s : b.vehicle[m] = "unassigned"
  BY <1>3, <1>4 DEF Handed
<1>7. ASSUME NEW w \in VTypes
      PROVE  Cardinality(DrivenBy(w, b)) + b.counts[w] = g.counts[w]
  <2>1. w # "unassigned"
    BY VehicleNumbers
  <2>2. IsFiniteSet(DrivenBy(w, a)) /\ Cardinality(DrivenBy(w, a)) \in Nat
    <3>1. IsFiniteSet(DrivenBy(w, a))
      BY RoutesFinite, FS_Subset DEF DrivenBy
    <3> QED
      BY <3>1, FS_CardinalityType
  <2>3. Cardinality(DrivenBy(w, a)) + a.counts[w] = g.counts[w] /\ a.counts[w] \in Nat
    BY <1>4 DEF Handed
  <2>4. CASE v = w
    <3>1. DrivenBy(w, b) = DrivenBy(w, a) \cup {k} /\ k \notin DrivenBy(w, a)
      <4>1. \A m \in DOMAIN routes : b.vehicle[m] = IF m = k THEN w ELSE a.vehicle[m]
        BY <1>3, <1>4, <2>4
      <4> QED
        BY <1>4, <2>1, <4>1 DEF DrivenBy
    <3>2. Cardinality(DrivenBy(w, b)) = Cardinality(DrivenBy(w, a)) + 1
      BY <2>2, <3>1, FS_AddElement
    <3>3. b.counts[w] = a.counts[w] - 1
      BY <1>3, <1>4, <2>1, <2>4
    <3> QED
      BY <2>2, <2>3, <3>2, <3>3
  <2>5. CASE v # w
    <3>1. DrivenBy(w, b) = DrivenBy(w, a)
      BY <1>3, <1>4, <2>1, <2>5 DEF DrivenBy
    <3>2. b.counts[w] = a.counts[w]
      BY <1>3, <1>4, <2>5
    <3> QED
      BY <2>3, <3>1, <3>2
  <2> QED
    BY <2>4, <2>5
<1>8. ASSUME NEW m \in DOMAIN routes, b.vehicle[m] # "unassigned"
      PROVE  Serves(b.vehicle[m], m)
  <2>1. CASE m = k
    <3>1. b.vehicle[m] = v
      BY <1>3, <1>4, <2>1
    <3>2. v \in VTypes /\ Usable(v, Route(k), a.counts)
      BY <1>2, <1>8, <3>1
    <3> QED
      BY <2>1, <3>1, <3>2, Zenon DEF Serves, Usable
  <2>2. CASE m # k
    <3>1. b.vehicle[m] = a.vehicle[m]
      BY <1>3, <1>4, <2>2
    <3> QED
      BY <1>8, <3>1 DEF Handed
  <2> QED
    BY <2>1, <2>2
<1>9. Handed(b, s, g)
  BY <1>5, <1>6, <1>7, <1>8 DEF Handed
<1> QED
  BY <1>3, <1>9
-----------------------------------------------------------------------------
(* The recursion has a solution.                                           *)
LEMMA AssignmentExists ==
  ASSUME RoutesInv, LoadsInv, NEW g \in Genomes
  PROVE  \E it : IsAssignment(it, g)
<1>1. PICK D : D = DOMAIN routes
  OBVIOUS
<1>2. IsFiniteSet(D)
  BY <1>1, RoutesFinite
<1>3. PICK V : V = Accounts
  OBVIOUS
<1>4. PICK base : base = NoneTaken(g)
  OBVIOUS
<1>5. PICK pick : pick = [s \in SUBSET D |-> Shortest(s)]
  OBVIOUS
<1>6. PICK G : G = [p \in (SUBSET D) \X V |->
                      IF p[1] = {} THEN base ELSE Taking(Shortest(p[1]), p[2], g)]
  OBVIOUS
<1>7. base \in V
  BY <1>3, <1>4 DEF NoneTaken, Accounts, Genomes
<1>8. \A s \in SUBSET D : s # {} => pick[s] \in s
  BY <1>1, <1>5, ShortestIn
<1>9. \A s \in SUBSET D, v \in V :
        G[<<s, v>>] = IF s = {} THEN base ELSE Taking(Shortest(s), v, g)
  BY <1>6
<1>10. ASSUME NEW s \in SUBSET D, NEW v \in V
       PROVE  G[<<s, v>>] \in V
  <2>1. CASE s = {}
    BY <1>7, <1>9, <2>1
  <2>2. CASE s # {}
    <3>1. Shortest(s) \in DOMAIN routes
      BY <1>1, <2>2, ShortestIn
    <3>2. Taking(Shortest(s), v, g) \in V
      BY <1>3, <3>1, TakingTyped
    <3> QED
      BY <1>9, <2>2, <3>2
  <2> QED
    BY <2>1, <2>2
<1>11. PICK it \in [SUBSET D -> V] : Recurses(it, D, base, pick, G)
  <2>1. \A s \in SUBSET D, v \in V : G[<<s, v>>] \in V
    BY <1>10
  <2> QED
    BY <1>2, <1>7, <1>8, <2>1, SubsetRecursion
<1>12. ASSUME NEW s \in SUBSET D
       PROVE  it[s] = IF s = {} THEN NoneTaken(g)
                      ELSE Taking(Shortest(s), it[s \ {Shortest(s)}], g)
  <2>1. CASE s = {}
    BY <1>4, <1>11, <2>1 DEF Recurses
  <2>2. CASE s # {}
    <3>1. it[s] = G[<<s, it[s \ {pick[s]}]>>]
      BY <1>11, <2>2 DEF Recurses
    <3>2. pick[s] = Shortest(s)
      BY <1>5
    <3>3. it[s \ {pick[s]}] \in V
      BY <1>11
    <3> QED
      BY <1>9, <2>2, <3>1, <3>2, <3>3
  <2> QED
    BY <2>1, <2>2
<1>13. it = [s \in SUBSET D |-> IF s = {} THEN NoneTaken(g)
                                ELSE Taking(Shortest(s), it[s \ {Shortest(s)}], g)]
  BY <1>12
<1> QED
  BY <1>1, <1>13 DEF IsAssignment

(* The plan of a genome: what it hands out and what is left make up its      *)
(* counts, and every vehicle can serve its route.                          *)
LEMMA PlanIsHanded ==
  ASSUME RoutesInv, LoadsInv, NEW g \in Genomes
  PROVE  \E a : Handed(a, DOMAIN routes, g) /\ Assign(g) = a.vehicle
<1>1. PICK it : it = CHOOSE i : IsAssignment(i, g)
  OBVIOUS
<1>2. IsAssignment(it, g)
  BY <1>1, AssignmentExists
<1>3. Assign(g) = it[DOMAIN routes].vehicle
  BY <1>1, AssignFolds
<1>4. it[{}] = NoneTaken(g)
  BY <1>2 DEF IsAssignment
<1>5. \A s \in SUBSET DOMAIN routes :
        s # {} => it[s] = Taking(Shortest(s), it[s \ {Shortest(s)}], g)
  BY <1>2 DEF IsAssignment
<1> DEFINE bad == {s \in SUBSET DOMAIN routes : ~Handed(it[s], s, g)}
<1>6. ASSUME bad # {}
      PROVE  FALSE
  <2>1. \A s \in bad : IsFiniteSet(s)
    BY RoutesFinite, FS_Subset
  <2>2. PICK s \in bad : \A t \in bad : Cardinality(s) <= Cardinality(t)
    BY <1>6, <2>1, SmallestSet
  <2>3. s \in SUBSET DOMAIN routes /\ ~Handed(it[s], s, g)
    BY <2>2
  <2>4. CASE s = {}
    <3>1. Handed(NoneTaken(g), {}, g)
      <4>1. NoneTaken(g) \in Accounts
        BY DEF NoneTaken, Accounts, Genomes
      <4>2. \A v \in VTypes : DrivenBy(v, NoneTaken(g)) = {}
        BY VehicleNumbers DEF DrivenBy, NoneTaken
      <4>3. Cardinality({}) = 0
        BY FS_EmptySet
      <4>4. \A v \in VTypes : Cardinality(DrivenBy(v, NoneTaken(g))) + NoneTaken(g).counts[v] = g.counts[v]
        BY <4>2, <4>3 DEF NoneTaken, Genomes
      <4>5. \A k \in DOMAIN routes : NoneTaken(g).vehicle[k] = "unassigned"
        BY DEF NoneTaken
      <4> QED
        BY <4>1, <4>4, <4>5 DEF Handed
    <3> QED
      BY <1>4, <2>3, <2>4, <3>1
  <2>5. CASE s # {}
    <3>1. Shortest(s) \in s
      BY <2>3, <2>5, ShortestIn
    <3>2. Cardinality(s \ {Shortest(s)}) \in Nat
          /\ Cardinality(s) = Cardinality(s \ {Shortest(s)}) + 1
      BY <2>1, <3>1, LessOne
    <3>3. s \ {Shortest(s)} \notin bad
      <4> HIDE DEF bad
      <4>1. PICK r : r = s \ {Shortest(s)}
        OBVIOUS
      <4>2. r \in bad => Cardinality(s) <= Cardinality(r)
        BY <2>2
      <4>3. Cardinality(r) \in Nat /\ Cardinality(s) = Cardinality(r) + 1
        BY <3>2, <4>1
      <4>4. r \notin bad
        BY <4>2, <4>3
      <4> QED
        BY <4>1, <4>4
    <3>4. Handed(it[s \ {Shortest(s)}], s \ {Shortest(s)}, g)
      BY <2>3, <3>3
    <3> HIDE DEF bad
    <3>5. Handed(Taking(Shortest(s), it[s \ {Shortest(s)}], g), s, g)
      BY <2>3, <3>1, <3>4, TakingHands
    <3> QED
      BY <1>5, <2>3, <2>5, <3>5
  <2> QED
    BY <2>4, <2>5
<1>7. Handed(it[DOMAIN routes], DOMAIN routes, g)
  BY <1>6
<1> QED
  BY <1>3, <1>7

(* A route without a vehicle is priced as a van and vans are not free: the   *)
(* two costs agree just when no route is without one.                      *)
LEMMA PricesTell ==
  ASSUME RoutesInv, LoadsInv, NEW vehicle \in [DOMAIN routes -> VTypes \cup {"unassigned"}]
  PROVE  (KpiCost(vehicle) = TotalCost(vehicle)) <=> Optimal(vehicle)
<1>1. PICK D : D = DOMAIN routes /\ IsFiniteSet(D)
  BY RoutesFinite
<1>2. PICK A \in SUBSET D : A = Assigned(vehicle)
  BY <1>1 DEF Assigned
<1>3. PICK f : f = [k \in D |-> Cost(Reported(vehicle[k]), Route(k))]
  OBVIOUS
<1>4. PICK h : h = [k \in A |-> Cost(vehicle[k], Route(k))]
  OBVIOUS
<1>5. KpiCost(vehicle) = SumFunctionOnSet(f, D)
  <2>1. KpiCost(vehicle) = SumFunction(f)
    BY <1>1, <1>3 DEF KpiCost
  <2>2. DOMAIN f = D
    BY <1>3
  <2> QED
    BY <2>1, <2>2 DEF SumFunction
<1>6. TotalCost(vehicle) = SumFunctionOnSet(h, A)
  <2>1. TotalCost(vehicle) = SumFunction(h)
    BY <1>2, <1>4 DEF TotalCost
  <2>2. DOMAIN h = A
    BY <1>4
  <2> QED
    BY <2>1, <2>2 DEF SumFunction
<1>7. ASSUME NEW k \in D
      PROVE  f[k] \in Nat /\ f[k] > 0
  <2>1. Reported(vehicle[k]) \in VTypes
    BY <1>1 DEF Reported, VTypes
  <2>2. Route(k).km \in Nat
    BY <1>1, RouteNumbers
  <2>3. Cost(Reported(vehicle[k]), Route(k)) \in Nat /\ Cost(Reported(vehicle[k]), Route(k)) > 0
    BY <2>1, <2>2, PricesOfRoutes
  <2> QED
    BY <1>3, <2>3
<1>8. \A k \in A : h[k] = f[k]
  <2> SUFFICES ASSUME NEW k \in A
               PROVE  h[k] = f[k]
    OBVIOUS
  <2>1. Reported(vehicle[k]) = vehicle[k]
    BY <1>2 DEF Assigned, Reported
  <2> QED
    BY <1>2, <1>3, <1>4, <2>1
<1>9. SumFunctionOnSet(h, A) = SumFunctionOnSet(f, A)
  <2>1. IsFiniteSet(A) /\ \A k \in A : f[k] \in Int /\ h[k] = f[k]
    BY <1>1, <1>2, <1>7, <1>8, FS_Subset
  <2> QED
    BY <2>1, SumSame
<1>10. /\ SumFunctionOnSet(f, A) \in Nat
       /\ (\E k \in D \ A : f[k] > 0) => SumFunctionOnSet(f, A) < SumFunctionOnSet(f, D)
  <2>1. \A k \in D : f[k] \in Nat
    BY <1>7
  <2> QED
    BY <1>1, <1>2, <2>1, SumGrows
<1>11. CASE A = D
  BY <1>1, <1>2, <1>5, <1>6, <1>9, <1>11 DEF Optimal
<1>12. CASE A # D
  <2>1. PICK k \in D \ A : TRUE
    BY <1>12
  <2>2. SumFunctionOnSet(f, D) \in Nat
    <3>1. \A m \in D : f[m] \in Nat
      BY <1>7
    <3> QED
      BY <1>1, <3>1, SumGrows
  <2>3. SumFunctionOnSet(f, A) < SumFunctionOnSet(f, D)
    BY <1>7, <1>10, <2>1
  <2>4. PICK p \in Nat : p = SumFunctionOnSet(f, A)
    BY <1>10
  <2>5. PICK q \in Nat : q = SumFunctionOnSet(f, D)
    BY <2>2
  <2>6. p # q
    BY <2>3, <2>4, <2>5
  <2>7. KpiCost(vehicle) # TotalCost(vehicle)
    BY <1>5, <1>6, <1>9, <2>4, <2>5, <2>6
  <2> QED
    BY <1>1, <1>2, <1>12, <2>7 DEF Optimal
<1> QED
  BY <1>11, <1>12

(* So the plans of a population of genomes are honest.                     *)
LEMMA PlansAreHonest ==
  ASSUME RoutesInv, LoadsInv, \A x \in DOMAIN population : population[x] \in Genomes
  PROVE  PlanHonest
<1> SUFFICES ASSUME NEW x \in DOMAIN population, NEW g, g = population[x],
                    NEW vehicle, vehicle = Assign(g)
             PROVE  /\ \A v \in VTypes : Cardinality({k \in DOMAIN routes : vehicle[k] = v}) <= g.counts[v]
                    /\ \A k \in Assigned(vehicle) :
                         LET type == FleetTypes[vehicle[k]] IN
                         /\ demands[k] <= type.capacity /\ Route(k).km <= type.range
                         /\ Route(k).green => type.zero
                    /\ GreenViolations(vehicle) \cap Assigned(vehicle) = {}
                    /\ (KpiCost(vehicle) = TotalCost(vehicle)) <=> Optimal(vehicle)
  BY Zenon DEF PlanHonest
<1>1. g \in Genomes
  OBVIOUS
<1>2. PICK a : Handed(a, DOMAIN routes, g) /\ vehicle = a.vehicle
  BY <1>1, PlanIsHanded
<1>3. vehicle \in [DOMAIN routes -> VTypes \cup {"unassigned"}] /\ a.counts \in [VTypes -> Nat]
  BY <1>2 DEF Handed, Accounts
<1>4. ASSUME NEW v \in VTypes
      PROVE  Cardinality({k \in DOMAIN routes : vehicle[k] = v}) <= g.counts[v]
  <2>1. PICK S : S = {k \in DOMAIN routes : vehicle[k] = v}
    OBVIOUS
  <2>2. Cardinality(S) \in Nat
    BY <2>1, RoutesFinite, FS_Subset, FS_CardinalityType
  <2>3. Cardinality(S) + a.counts[v] = g.counts[v]
    BY <1>2, <2>1 DEF Handed, DrivenBy
  <2>4. PICK n \in Nat : n = a.counts[v]
    BY <1>3
  <2>5. Cardinality(S) <= g.counts[v]
    BY <2>2, <2>3, <2>4
  <2> QED
    BY <2>1, <2>5
<1>5. \A k \in Assigned(vehicle) : k \in DOMAIN routes /\ Serves(vehicle[k], k)
  BY <1>2 DEF Assigned, Handed
<1>6. ASSUME NEW k \in Assigned(vehicle)
      PROVE  /\ demands[k] <= FleetTypes[vehicle[k]].capacity
             /\ Route(k).km <= FleetTypes[vehicle[k]].range
             /\ Route(k).green => FleetTypes[vehicle[k]].zero
  <2>1. Serves(vehicle[k], k) /\ k \in DOMAIN routes
    BY <1>5
  <2>2. Route(k).demand = demands[k]
    BY <2>1, RouteNumbers
  <2> QED
    BY <2>1, <2>2 DEF Serves
<1>7. GreenViolations(vehicle) \cap Assigned(vehicle) = {}
  <2>1. \A k \in Assigned(vehicle) : Reported(vehicle[k]) = vehicle[k]
    BY DEF Assigned, Reported
  <2> QED
    BY <1>6, <2>1 DEF GreenViolations
<1>8. (KpiCost(vehicle) = TotalCost(vehicle)) <=> Optimal(vehicle)
  BY <1>3, PricesTell
<1> QED
  BY <1>4, <1>6, <1>7, <1>8

(* Fitness looks at the routes and the scenario only: steps that leave them  *)
(* alone leave the fitness of every genome as it was.                      *)
LEMMA SameRoute ==
  ASSUME UNCHANGED <<routes, scenario>>, NEW k
  PROVE  Route(k)' = Route(k)
  BY DEF Route, TourLength, SumFunction

LEMMA SameShortest ==
  ASSUME UNCHANGED <<routes, scenario>>, NEW s
  PROVE  Shortest(s)' = Shortest(s)
<1>1. \A k \in s : Route(k)' = Route(k)
  BY SameRoute
<1> QED
  BY <1>1 DEF Shortest

LEMMA SameTaking ==
  ASSUME UNCHANGED <<routes, scenario>>, NEW k, NEW a, NEW g
  PROVE  Taking(k, a, g)' = Taking(k, a, g)
  BY SameRoute DEF Taking

LEMMA SameAssign ==
  ASSUME UNCHANGED <<routes, scenario>>, NEW g
  PROVE  Assign(g)' = Assign(g)
<1>1. \A it : IsAssignment(it, g)' <=> IsAssignment(it, g)
  <2> SUFFICES ASSUME NEW it PROVE IsAssignment(it, g)' <=> IsAssignment(it, g)
    OBVIOUS
  <2>1. \A s : Shortest(s)' = Shortest(s)
    BY SameShortest
  <2>2. \A k, a : Taking(k, a, g)' = Taking(k, a, g)
    BY SameTaking
  <2>3. NoneTaken(g)' = NoneTaken(g)
    BY DEF NoneTaken
  <2>4. \A s \in SUBSET DOMAIN routes :
          (IF s = {} THEN NoneTaken(g) ELSE Taking(Shortest(s), it[s \ {Shortest(s)}], g))' =
          (IF s = {} THEN NoneTaken(g) ELSE Taking(Shortest(s), it[s \ {Shortest(s)}], g))
    BY <2>1, <2>2, <2>3
  <2> QED
    BY <2>4 DEF IsAssignment
<1>2. (CHOOSE it : IsAssignment(it, g))' = (CHOOSE it : IsAssignment(it, g))
  BY <1>1
<1>3. Assign(g)' = ((CHOOSE it : IsAssignment(it, g))[DOMAIN routes].vehicle)'
  BY DEF Assign, MapThenFoldSet, IsAssignment, Shortest, Taking, NoneTaken
<1> QED
  BY <1>2, <1>3, AssignFolds

LEMMA SameTotals ==
  ASSUME UNCHANGED <<routes, scenario>>, NEW vehicle
  PROVE  /\ TotalCost(vehicle)' = TotalCost(vehicle)
         /\ TotalCO2(vehicle)' = TotalCO2(vehicle)
<1>1. Assigned(vehicle)' = Assigned(vehicle)
  BY DEF Assigned
<1>2. [k \in Assigned(vehicle) |-> Cost(vehicle[k], Route(k))]' =
      [k \in Assigned(vehicle) |-> Cost(vehicle[k], Route(k))]
  BY <1>1, SameRoute
<1>3. [k \in Assigned(vehicle) |-> CO2(vehicle[k], Route(k))]' =
      [k \in Assigned(vehicle) |-> CO2(vehicle[k], Route(k))]
  BY <1>1, SameRoute
<1> QED
  BY <1>2, <1>3 DEF TotalCost, TotalCO2

LEMMA SameFitness ==
  ASSUME UNCHANGED <<routes, scenario>>, NEW g
  PROVE  Fitness(g)' = Fitness(g)
<1>1. PICK vehicle : vehicle = Assign(g)
  OBVIOUS
<1>2. vehicle = Assign(g)'
  BY <1>1, SameAssign
<1>3. Fitness(g)' = TotalCost(vehicle)' + 10 * TotalCO2(vehicle)'
  BY <1>2 DEF Fitness
<1>4. Fitness(g) = TotalCost(vehicle) + 10 * TotalCO2(vehicle)
  BY <1>1 DEF Fitness
<1> QED
  BY <1>3, <1>4, SameTotals

LEMMA SameSeeds ==
  ASSUME UNCHANGED <<routes, scenario>>
  PROVE  /\ Fitness(CostGenome)' = Fitness(CostGenome)
         /\ Fitness(GreenGenome)' = Fitness(GreenGenome)
<1>1. PICK c : c = CostGenome
  OBVIOUS
<1>2. PICK e : e = GreenGenome
  OBVIOUS
<1>3. c = CostGenome' /\ e = GreenGenome'
  BY <1>1, <1>2 DEF CostGenome, GreenGenome
<1>4. Fitness(CostGenome)' = Fitness(c)' /\ Fitness(GreenGenome)' = Fitness(e)'
  BY <1>3
<1> QED
  BY <1>1, <1>2, <1>4, SameFitness

(* Fitness is a number.                                                    *)
LEMMA FitnessIsNatural ==
  ASSUME RoutesInv, LoadsInv, NEW g \in Genomes
  PROVE  Fitness(g) \in Nat
<1>1. PICK a : Handed(a, DOMAIN routes, g) /\ Assign(g) = a.vehicle
  BY PlanIsHanded
<1>2. PICK vehicle : vehicle = Assign(g)
  OBVIOUS
<1>3. PICK A : A = Assigned(vehicle)
  OBVIOUS
<1>4. IsFiniteSet(A)
  BY <1>3, RoutesFinite, FS_Subset DEF Assigned
<1>5. ASSUME NEW k \in A
      PROVE  Cost(vehicle[k], Route(k)) \in Nat /\ CO2(vehicle[k], Route(k)) \in Nat
  <2>1. k \in DOMAIN routes /\ vehicle[k] \in VTypes
    BY <1>1, <1>2, <1>3 DEF Assigned, Handed, Serves
  <2>2. Route(k).km \in Nat
    BY <2>1, RouteNumbers
  <2> QED
    BY <2>1, <2>2, PricesOfRoutes
<1>6. TotalCost(vehicle) \in Nat
  <2>1. PICK f : f = [k \in A |-> Cost(vehicle[k], Route(k))]
    OBVIOUS
  <2>2. DOMAIN f = A /\ \A k \in A : f[k] \in Nat
    BY <1>5, <2>1
  <2>3. SumFunctionOnSet(f, A) \in Nat
    BY <1>4, <2>2, SumGrows
  <2>4. TotalCost(vehicle) = SumFunction(f)
    BY <1>3, <2>1 DEF TotalCost
  <2> QED
    BY <2>2, <2>3, <2>4 DEF SumFunction
<1>7. TotalCO2(vehicle) \in Nat
  <2>1. PICK f : f = [k \in A |-> CO2(vehicle[k], Route(k))]
    OBVIOUS
  <2>2. DOMAIN f = A /\ \A k \in A : f[k] \in Nat
    BY <1>5, <2>1
  <2>3. SumFunctionOnSet(f, A) \in Nat
    BY <1>4, <2>2, SumGrows
  <2>4. TotalCO2(vehicle) = SumFunction(f)
    BY <1>3, <2>1 DEF TotalCO2
  <2> QED
    BY <2>2, <2>3, <2>4 DEF SumFunction
<1>8. Fitness(g) = TotalCost(vehicle) + 10 * TotalCO2(vehicle)
  BY <1>2 DEF Fitness
<1> QED
  BY <1>6, <1>7, <1>8
-----------------------------------------------------------------------------
(* Numbered things, ranked by a value and ties by their number, have the     *)
(* ranks 1 to the number of them.                                          *)
LEMMA RankNumbers ==
  ASSUME NEW N \in Nat, NEW f, \A x \in 1 .. N : f[x] \in Int,
         NEW below, \A x \in 1 .. N :
           below[x] = {y \in 1 .. N : f[y] < f[x] \/ (f[y] = f[x] /\ y < x)}
  PROVE  /\ \A p \in 1 .. N : \E x \in 1 .. N : Cardinality(below[x]) = p - 1
         /\ \A x \in 1 .. N : Cardinality(below[x]) \in Nat /\ Cardinality(below[x]) + 1 \in 1 .. N
         /\ \A x, y \in 1 .. N : y \in below[x] => Cardinality(below[y]) < Cardinality(below[x])
<1>1. PICK S : S = 1 .. N
  OBVIOUS
<1>2. IsFiniteSet(S) /\ Cardinality(S) = N
  <2>1. IsFiniteSet(1 .. N) /\ Cardinality(1 .. N) = IF 1 > N THEN 0 ELSE N - 1 + 1
    BY FS_Interval
  <2>2. (IF 1 > N THEN 0 ELSE N - 1 + 1) = N
    OBVIOUS
  <2> QED
    BY <1>1, <2>1, <2>2
<1>3. \A x \in S : below[x] \in SUBSET S /\ x \notin below[x]
  BY <1>1
<1>4. \A x \in S : IsFiniteSet(below[x]) /\ Cardinality(below[x]) \in Nat
  BY <1>2, <1>3, FS_Subset, FS_CardinalityType
<1>5. ASSUME NEW x \in S
      PROVE  Cardinality(below[x]) + 1 \in S
  <2>1. IsFiniteSet(S \ {x}) /\ Cardinality(S \ {x}) \in Nat
        /\ Cardinality(S) = Cardinality(S \ {x}) + 1
    BY <1>2, LessOne
  <2>2. below[x] \in SUBSET (S \ {x})
    BY <1>3
  <2>3. Cardinality(below[x]) <= Cardinality(S \ {x})
    BY <2>1, <2>2, FS_Subset
  <2>4. PICK c \in Nat : c = Cardinality(below[x])
    BY <1>4
  <2>5. PICK d \in Nat : d = Cardinality(S \ {x})
    BY <2>1
  <2>6. c <= d /\ N = d + 1
    BY <1>2, <2>1, <2>3, <2>4, <2>5
  <2>7. c + 1 \in 1 .. N
    BY <2>6
  <2> QED
    BY <1>1, <2>4, <2>7
<1>6. ASSUME NEW x \in S, NEW y \in S, y \in below[x]
      PROVE  Cardinality(below[y]) < Cardinality(below[x])
  <2>1. below[y] \in SUBSET (below[x] \ {y})
    <3>1. y \notin below[y] /\ below[y] \in SUBSET S
      BY <1>3, <1>6
    <3>2. f[y] < f[x] \/ (f[y] = f[x] /\ y < x)
      BY <1>1, <1>6
    <3>3. f[x] \in Int /\ f[y] \in Int /\ x \in Nat /\ y \in Nat
      BY <1>1, <1>6
    <3> SUFFICES ASSUME NEW z \in below[y]
                 PROVE  z \in below[x] /\ z # y
      OBVIOUS
    <3>4. z \in S /\ (f[z] < f[y] \/ (f[z] = f[y] /\ z < y))
      BY <1>1, <1>6, <3>1
    <3>5. f[z] \in Int /\ z \in Nat
      BY <1>1, <3>4
    <3>6. f[z] < f[x] \/ (f[z] = f[x] /\ z < x)
      BY <3>2, <3>3, <3>4, <3>5
    <3> QED
      BY <1>1, <1>6, <3>1, <3>4, <3>6
  <2>2. IsFiniteSet(below[x] \ {y}) /\ Cardinality(below[x] \ {y}) \in Nat
        /\ Cardinality(below[x]) = Cardinality(below[x] \ {y}) + 1
    BY <1>4, <1>6, LessOne
  <2>3. Cardinality(below[y]) <= Cardinality(below[x] \ {y})
    BY <2>1, <2>2, FS_Subset
  <2> QED
    BY <1>4, <2>2, <2>3
<1>7. \A x \in S, y \in S : x = y \/ y \in below[x] \/ x \in below[y]
  BY <1>1
<1>8. PICK r : r = [x \in S |-> Cardinality(below[x]) + 1]
  OBVIOUS
<1>9. r \in [S -> S]
  BY <1>5, <1>8
<1>10. \A x \in S, y \in S : r[x] = r[y] => x = y
  BY <1>4, <1>6, <1>7, <1>8
<1>11. r \in Injection(S, S)
  BY <1>9, <1>10 DEF Injection, IsInjective
<1>12. r \in Surjection(S, S)
  BY <1>2, <1>11, FS_Injection
<1>13. \A p \in S : \E x \in S : r[x] = p
  BY <1>12 DEF Surjection
<1>14. ASSUME NEW p \in S
       PROVE  \E x \in S : Cardinality(below[x]) = p - 1
  <2>1. PICK x \in S : r[x] = p
    BY <1>13
  <2>2. Cardinality(below[x]) + 1 = p
    BY <1>8, <2>1
  <2> QED
    BY <1>1, <1>4, <2>2
<1>15. \A x \in S : Cardinality(below[x]) \in Nat /\ Cardinality(below[x]) + 1 \in S
  BY <1>4, <1>5
<1>16. \A x, y \in S : y \in below[x] => Cardinality(below[y]) < Cardinality(below[x])
  BY <1>6
<1> QED
  BY <1>1, <1>14, <1>15, <1>16

LEMMA Ranks ==
  ASSUME NEW N \in Nat, NEW f, \A x \in 1 .. N : f[x] \in Nat,
         NEW below, \A x \in 1 .. N :
           below[x] = {y \in 1 .. N : f[y] < f[x] \/ (f[y] = f[x] /\ y < x)}
  PROVE  \A p \in 1 .. N : \E x \in 1 .. N : Cardinality(below[x]) = p - 1
<1>1. \A x \in 1 .. N : f[x] \in Int
  OBVIOUS
<1> QED
  BY <1>1, RankNumbers

(* So sorting by fitness puts no genome before the fittest.                 *)
LEMMA FittestFirst ==
  ASSUME FleetAssumption, NEW G, population \in [1 .. PopSize -> G],
         NEW fitness, \A x \in 1 .. PopSize : fitness[x] \in Nat
  PROVE  /\ ByFitness(fitness) \in [1 .. PopSize -> G]
         /\ \E x \in 1 .. PopSize :
              /\ ByFitness(fitness)[1] = population[x]
              /\ \A y \in 1 .. PopSize : fitness[x] <= fitness[y]
<1>1. PICK below : below = [x \in 1 .. PopSize |->
        {y \in 1 .. PopSize : fitness[y] < fitness[x] \/ (fitness[y] = fitness[x] /\ y < x)}]
  OBVIOUS
<1>2. \A x \in 1 .. PopSize :
        below[x] = {y \in 1 .. PopSize :
                      fitness[y] < fitness[x] \/ (fitness[y] = fitness[x] /\ y < x)}
  BY <1>1
<1>3. PopSize \in Nat /\ PopSize >= 2
  BY DEF FleetAssumption
<1>4. \A p \in 1 .. PopSize : \E x \in 1 .. PopSize : Cardinality(below[x]) = p - 1
  <2>1. PICK N \in Nat : N = PopSize
    BY <1>3
  <2>2. \A x \in 1 .. N :
          below[x] = {y \in 1 .. N : fitness[y] < fitness[x] \/ (fitness[y] = fitness[x] /\ y < x)}
    BY <1>2, <2>1
  <2>3. \A x \in 1 .. N : fitness[x] \in Nat
    BY <2>1
  <2>4. \A p \in 1 .. N : \E x \in 1 .. N : Cardinality(below[x]) = p - 1
    BY <2>2, <2>3, Ranks, SMTT(60)
  <2> QED
    BY <2>1, <2>4
<1>5. PICK at : at = [p \in 1 .. PopSize |->
                        CHOOSE x \in 1 .. PopSize : Cardinality(below[x]) = p - 1]
  OBVIOUS
<1>6. \A p \in 1 .. PopSize : at[p] \in 1 .. PopSize /\ Cardinality(below[at[p]]) = p - 1
  BY <1>4, <1>5
<1>7. ByFitness(fitness) = [p \in 1 .. PopSize |-> population[at[p]]]
  <2>1. ASSUME NEW p \in 1 .. PopSize
        PROVE  at[p] = CHOOSE x \in 1 .. PopSize :
                 Cardinality({y \in 1 .. PopSize :
                   fitness[y] < fitness[x] \/ (fitness[y] = fitness[x] /\ y < x)}) = p - 1
    BY <1>2, <1>5
  <2>2. ByFitness(fitness) =
          [p \in 1 .. PopSize |->
             population[CHOOSE x \in 1 .. PopSize :
               Cardinality({y \in 1 .. PopSize :
                 fitness[y] < fitness[x] \/ (fitness[y] = fitness[x] /\ y < x)}) = p - 1]]
    BY Zenon DEF ByFitness
  <2> QED
    BY <2>1, <2>2, Zenon
<1>8. ByFitness(fitness) \in [1 .. PopSize -> G]
  BY <1>6, <1>7
<1>9. ByFitness(fitness)[1] = population[at[1]] /\ at[1] \in 1 .. PopSize
      /\ Cardinality(below[at[1]]) = 0
  <2>1. 1 \in 1 .. PopSize /\ 1 - 1 = 0
    BY <1>3
  <2> QED
    BY <1>6, <1>7, <2>1
<1>10. below[at[1]] = {}
  <2>1. IsFiniteSet(1 .. PopSize)
    BY <1>3, FS_Interval
  <2>2. below[at[1]] \in SUBSET (1 .. PopSize)
    BY <1>2, <1>9
  <2>3. IsFiniteSet(below[at[1]])
    BY <2>1, <2>2, FS_Subset
  <2> QED
    BY <1>9, <2>3, FS_EmptySet
<1>11. \A y \in 1 .. PopSize : fitness[at[1]] <= fitness[y]
  <2>1. PICK x \in 1 .. PopSize : x = at[1]
    BY <1>9
  <2>2. \A y \in 1 .. PopSize : ~(fitness[y] < fitness[x])
    BY <1>2, <1>10, <2>1
  <2>3. \A y \in 1 .. PopSize : fitness[x] <= fitness[y]
    BY <2>2
  <2> QED
    BY <2>1, <2>3
<1> QED
  BY <1>8, <1>9, <1>11

Shared == {g \in Genomes : g.alpha + g.beta = 100}

(* A genome that carries what a genome of the elite carries.               *)
LEMMA ChildrenShare ==
  ASSUME FleetAssumption, NEW a \in Genomes, NEW b \in Genomes, NEW child \in Children(a, b)
  PROVE  child \in Shared
<1>1. PICK c \in {f \in [VTypes -> {a.counts[v] : v \in VTypes} \cup {b.counts[v] : v \in VTypes}] :
                    \A v \in VTypes : f[v] \in {a.counts[v], b.counts[v]}},
           w \in VTypes, m \in Mutations \cup {0}, d \in Drifts :
        child = [counts |-> [v \in VTypes |-> IF v = w THEN Changed(c[v], m) ELSE c[v]],
                 alpha |-> Clamp((a.alpha + b.alpha) \div 2 + d, 5, 95),
                 beta |-> 100 - Clamp((a.alpha + b.alpha) \div 2 + d, 5, 95)]
  BY DEF Children
<1>2. a.counts \in [VTypes -> Nat] /\ b.counts \in [VTypes -> Nat]
  BY DEF Genomes
<1>3. \A v \in VTypes : c[v] \in Nat
  BY <1>1, <1>2
<1>4. m \in Int /\ d \in Int
  BY DEF FleetAssumption
<1>5. \A v \in VTypes : Changed(c[v], m) \in Nat
  BY <1>3, <1>4 DEF Changed
<1>6. PICK alpha : alpha = Clamp((a.alpha + b.alpha) \div 2 + d, 5, 95)
  OBVIOUS
<1>7. alpha \in Int
  <2>1. PICK p \in Int : p = a.alpha
    BY DEF Genomes
  <2>2. PICK q \in Int : q = b.alpha
    BY DEF Genomes
  <2>3. PICK h \in Int : h = (p + q) \div 2
    OBVIOUS
  <2>4. alpha = Clamp(h + d, 5, 95)
    BY <1>6, <2>1, <2>2, <2>3
  <2> QED
    BY <1>4, <2>4 DEF Clamp
<1>8. child.counts \in [VTypes -> Nat]
  <2>1. child.counts = [v \in VTypes |-> IF v = w THEN Changed(c[v], m) ELSE c[v]]
    BY <1>1
  <2> QED
    BY <1>3, <1>5, <2>1
<1>9. child = [counts |-> child.counts, alpha |-> alpha, beta |-> 100 - alpha]
  BY <1>1, <1>6
<1>10. alpha + (100 - alpha) = 100 /\ 100 - alpha \in Int
  BY <1>7
<1>11. child.alpha = alpha /\ child.beta = 100 - alpha
  BY <1>9
<1>12. child \in [counts : [VTypes -> Nat], alpha : Int, beta : Int]
  BY <1>7, <1>8, <1>9, <1>10
<1> QED
  BY <1>10, <1>11, <1>12 DEF Genomes, Shared

(* The two seeds are genomes.                                              *)
LEMMA SeedsShare ==
  ASSUME RoutesInv, LoadsInv
  PROVE  CostGenome \in Shared /\ GreenGenome \in Shared
<1>1. PICK n \in Nat : n = Cardinality(DOMAIN routes)
  BY RoutesFinite, FS_CardinalityType
<1>2. PICK c : c = [v \in VTypes |-> n]
  OBVIOUS
<1>3. PICK e : e = [v \in VTypes |-> IF FleetTypes[v].zero THEN n ELSE 0]
  OBVIOUS
<1>4. c \in [VTypes -> Nat] /\ e \in [VTypes -> Nat]
  BY <1>2, <1>3
<1>5. CostGenome = [counts |-> c, alpha |-> 100, beta |-> 0]
  BY <1>1, <1>2 DEF CostGenome
<1>6. GreenGenome = [counts |-> e, alpha |-> 0, beta |-> 100]
  BY <1>1, <1>3 DEF GreenGenome
<1> QED
  BY <1>4, <1>5, <1>6 DEF Shared, Genomes

(* What the next generation is made of: the best of this one comes first.    *)
LEMMA NextPopulation ==
  ASSUME FleetAssumption, NEW G \in SUBSET Shared, NEW ranked \in [1 .. PopSize -> G],
         NEW elite, elite = Elite(ranked),
         NEW S \in SUBSET Shared, NEW child \in [1 .. PopSize - Len(elite) -> S]
  PROVE  elite \o child \in [1 .. PopSize -> Shared] /\ (elite \o child)[1] = ranked[1]
<1>1. PopSize \in Nat /\ PopSize >= 2
  BY DEF FleetAssumption
<1>2. PICK n \in Nat : n = IF PopSize \div 4 > 2 THEN PopSize \div 4 ELSE 2
  BY <1>1
<1>3. n >= 2 /\ n <= PopSize
  BY <1>1, <1>2
<1>4. elite = SubSeq(ranked, 1, n)
  BY <1>2 DEF Elite
<1>5. ranked \in Seq(G) /\ Len(ranked) = PopSize
  BY <1>1
<1>6. elite \in Seq(G) /\ Len(elite) = n /\ \A x \in 1 .. n : elite[x] = ranked[x]
  BY <1>1, <1>3, <1>4, <1>5
<1>7. PICK m \in Nat : m = PopSize - n
  BY <1>1, <1>3
<1>8. child \in Seq(S) /\ Len(child) = m
  BY <1>6, <1>7
<1>9. elite \in Seq(Shared) /\ child \in Seq(Shared)
  BY <1>6, <1>8
<1>10. PICK all : all = elite \o child
  OBVIOUS
<1>11. all \in Seq(Shared)
  BY <1>9, <1>10
<1>12. Len(all) = n + m
  <2>1. Len(elite \o child) = Len(elite) + Len(child)
    BY <1>9
  <2> QED
    BY <1>6, <1>8, <1>10, <2>1
<1>13. n + m = PopSize
  BY <1>1, <1>3, <1>7
<1>14. all \in [1 .. PopSize -> Shared]
  BY <1>11, <1>12, <1>13
<1>15. all[1] = elite[1]
  BY <1>3, <1>6, <1>8, <1>9, <1>10
<1>16. elite[1] = ranked[1]
  BY <1>3, <1>6
<1> QED
  BY <1>10, <1>14, <1>15, <1>16

(* The evolution: what the population holds, and how good its first genome is.*)
EvolveInv ==
  /\ phase \in {"merge", "tune", "evolve", "done"} /\ own \in Asked
  /\ generations \in Nat /\ rounds \in Nat /\ history \in Nat /\ history <= rounds
  /\ population = << >> \/ population \in [1 .. PopSize -> Shared]
  /\ population # << >> => phase \in {"evolve", "done"}
  /\ population = << >> => history = 0
  /\ population # << >> /\ history = 0 =>
       population[1] = CostGenome /\ population[2] = GreenGenome
  /\ SeedsNeverBeaten

LEMMA EvolveInit == FleetInit => EvolveInv
  BY FleetAssumption DEF FleetInit, SolveInit, EvolveInv, SeedsNeverBeaten

(* There is room for both seeds, so a population is not empty.               *)
LEMMA SeedsKeptApart ==
  PopSize \in Nat /\ PopSize >= 2 /\ 1 \in 1 .. PopSize /\ 2 \in 1 .. PopSize
  /\ (\A p \in [1 .. PopSize -> Shared] : p # << >>)
<1>1. PopSize \in Nat /\ PopSize >= 2 /\ 1 \in 1 .. PopSize /\ 2 \in 1 .. PopSize
  BY FleetAssumption
<1>2. ASSUME NEW p \in [1 .. PopSize -> Shared]
      PROVE  p # << >>
  <2>1. 1 \in DOMAIN p
    BY <1>1
  <2>2. 1 \notin DOMAIN << >>
    OBVIOUS
  <2> QED
    BY <2>1, <2>2, Zenon
<1> QED
  BY <1>1, <1>2

(* Steps that leave population and routes alone.                           *)
LEMMA PopulationKept ==
  ASSUME EvolveInv, UNCHANGED <<scenario, routes, own, rounds, population, history>>,
         generations' \in Nat,
         phase' \in {"merge", "tune", "evolve", "done"},
         population # << >> => phase' \in {"evolve", "done"}
  PROVE  EvolveInv'
<1>1. CostGenome' = CostGenome /\ GreenGenome' = GreenGenome
  BY DEF CostGenome, GreenGenome
<1>2. SeedsNeverBeaten'
  <2>1. PICK p : p = population[1]
    OBVIOUS
  <2>2. Fitness(population[1])' = Fitness(p)' /\ Fitness(population[1]) = Fitness(p)
    BY <2>1
  <2>3. Fitness(p)' = Fitness(p)
    BY SameFitness
  <2> QED
    BY <2>2, <2>3, SameSeeds DEF EvolveInv, SeedsNeverBeaten
<1> QED
  BY <1>1, <1>2 DEF EvolveInv

(* A new population begins with the two seeds.                             *)
LEMMA EvolveStarts ==
  ASSUME RoutesInv, LoadsInv, EvolveInv, StartEvolve
  PROVE  EvolveInv'
<1>1. PICK random \in [3 .. PopSize -> RandomGenomes] :
        population' = [x \in 1 .. PopSize |->
          CASE x = 1 -> CostGenome [] x = 2 -> GreenGenome
            [] x >= 3 -> [counts |-> random[x].counts, alpha |-> random[x].alpha,
                          beta |-> 100 - random[x].alpha]]
  BY DEF StartEvolve
<1>2. /\ phase = "evolve" /\ population = << >> /\ history = 0
      /\ rounds' = generations /\ generations \in Nat
      /\ UNCHANGED <<routeVars, phase, own, generations, history>>
  BY DEF StartEvolve, EvolveInv
<1>3. population'[1] = CostGenome /\ population'[2] = GreenGenome
  BY <1>1, SeedsKeptApart
<1>4. ASSUME NEW x \in 1 .. PopSize
      PROVE  population'[x] \in Shared
  <2>1. CASE x = 1
    BY <1>3, <2>1, SeedsShare
  <2>2. CASE x = 2
    BY <1>3, <2>2, SeedsShare
  <2>3. CASE x # 1 /\ x # 2
    <3>1. x \in 3 .. PopSize /\ x >= 3
      BY <2>3, SeedsKeptApart
    <3>2. PICK g \in RandomGenomes : g = random[x]
      BY <1>1, <3>1
    <3>3. population'[x] = [counts |-> g.counts, alpha |-> g.alpha, beta |-> 100 - g.alpha]
      BY <1>1, <2>3, <3>1, <3>2
    <3>4. g.counts \in [VTypes -> Nat] /\ g.alpha \in 20 .. 90
      BY FleetAssumption
    <3>5. PICK n \in 20 .. 90 : n = g.alpha
      BY <3>4
    <3>6. n \in Int /\ 100 - n \in Int /\ n + (100 - n) = 100
      OBVIOUS
    <3> QED
      BY <3>3, <3>4, <3>5, <3>6 DEF Shared, Genomes
  <2> QED
    BY <2>1, <2>2, <2>3
<1>5. population' \in [1 .. PopSize -> Shared]
  BY <1>1, <1>4
<1>6. CostGenome' = CostGenome /\ GreenGenome' = GreenGenome
  BY <1>2 DEF CostGenome, GreenGenome, routeVars
<1>7. SeedsNeverBeaten'
  BY <1>2 DEF SeedsNeverBeaten
<1>8. phase' = "evolve" /\ history' = 0 /\ rounds' \in Nat /\ generations' \in Nat
      /\ own' \in Asked
  BY <1>2 DEF EvolveInv
<1>9. history' \in Nat /\ history' <= rounds'
  BY <1>8
<1> QED
  BY <1>3, <1>5, <1>6, <1>7, <1>8, <1>9 DEF EvolveInv

(* A generation keeps the fittest genome in front.                         *)
LEMMA EvolveOn ==
  ASSUME RoutesInv, LoadsInv, EvolveInv, Generation
  PROVE  EvolveInv'
<1>1. PICK fitness \in {[x \in 1 .. PopSize |-> Fitness(population[x])]} :
        \E e \in {Elite(ByFitness(fitness))} :
          \E c \in [1 .. PopSize - Len(e) ->
                   UNION {Children(e[xy[1]], e[xy[2]]) :
                     xy \in {ab \in (DOMAIN e) \X (DOMAIN e) : ab[1] # ab[2]}}] :
            population' = e \o c
  BY Zenon DEF Generation
<1>2. PICK ranked : ranked = ByFitness(fitness)
  OBVIOUS
<1>3. PICK elite \in {Elite(ByFitness(fitness))} :
        \E c \in [1 .. PopSize - Len(elite) ->
                 UNION {Children(elite[xy[1]], elite[xy[2]]) :
                   xy \in {ab \in (DOMAIN elite) \X (DOMAIN elite) : ab[1] # ab[2]}}] :
          population' = elite \o c
  BY <1>1, Zenon
<1>4. PICK S : S = UNION {Children(elite[xy[1]], elite[xy[2]]) :
                 xy \in {ab \in (DOMAIN elite) \X (DOMAIN elite) : ab[1] # ab[2]}}
  OBVIOUS
<1>5. /\ \E child \in [1 .. PopSize - Len(elite) -> S] : population' = elite \o child
      /\ elite = Elite(ranked)
  BY <1>2, <1>3, <1>4, Zenon
<1>next. PICK child \in [1 .. PopSize - Len(elite) -> S] : population' = elite \o child
  BY <1>5
<1>6. /\ phase = "evolve" /\ population # << >> /\ history < rounds /\ history' = history + 1
      /\ UNCHANGED <<routeVars, phase, own, generations, rounds>>
  BY DEF Generation
<1>7. population \in [1 .. PopSize -> Shared]
  BY <1>6 DEF EvolveInv
<1>8. \A x \in 1 .. PopSize : fitness[x] \in Nat /\ fitness[x] = Fitness(population[x])
  <2>1. fitness = [x \in 1 .. PopSize |-> Fitness(population[x])]
    BY <1>1
  <2> SUFFICES ASSUME NEW x \in 1 .. PopSize
               PROVE  fitness[x] \in Nat /\ fitness[x] = Fitness(population[x])
    OBVIOUS
  <2>2. fitness[x] = Fitness(population[x])
    BY <2>1
  <2>3. population[x] \in Shared
    BY <1>7
  <2>4. PICK g : g = population[x]
    OBVIOUS
  <2>5. g \in Genomes
    BY <2>3, <2>4 DEF Shared
  <2>6. Fitness(g) \in Nat
    BY <2>5, FitnessIsNatural, Zenon
  <2> QED
    BY <2>2, <2>4, <2>6
<1>9. /\ ranked \in [1 .. PopSize -> Shared]
      /\ \E x \in 1 .. PopSize :
           /\ ranked[1] = population[x]
           /\ \A y \in 1 .. PopSize : fitness[x] <= fitness[y]
  BY <1>2, <1>7, <1>8, FittestFirst, FleetAssumption
<1>10. \A x \in DOMAIN elite : elite[x] \in Shared
  <2>1. PICK n \in Nat : n = IF PopSize \div 4 > 2 THEN PopSize \div 4 ELSE 2
    BY SeedsKeptApart
  <2>2. n <= PopSize
    BY <2>1, SeedsKeptApart
  <2>3. elite = SubSeq(ranked, 1, n)
    BY <1>5, <2>1 DEF Elite
  <2>4. ranked \in Seq(Shared) /\ Len(ranked) = PopSize
    BY <1>9, SeedsKeptApart
  <2>5. elite \in Seq(Shared)
    BY <2>2, <2>3, <2>4, SeedsKeptApart
  <2> QED
    BY <2>5
<1>11. S \in SUBSET Shared
  <2> SUFFICES ASSUME NEW c \in S
               PROVE  c \in Shared
    OBVIOUS
  <2>1. PICK x \in DOMAIN elite, y \in DOMAIN elite : c \in Children(elite[x], elite[y])
    BY <1>4
  <2>2. elite[x] \in Genomes /\ elite[y] \in Genomes
    BY <1>10 DEF Shared
  <2> QED
    BY <2>1, <2>2, ChildrenShare, FleetAssumption
<1>12. population' \in [1 .. PopSize -> Shared] /\ population'[1] = ranked[1]
  <2>1. PICK G \in SUBSET Shared : G = Shared
    OBVIOUS
  <2>2. ranked \in [1 .. PopSize -> G]
    BY <1>9, <2>1
  <2>3. elite = Elite(ranked) /\ S \in SUBSET Shared /\ child \in [1 .. PopSize - Len(elite) -> S]
    BY <1>5, <1>next, <1>11
  <2>4. /\ elite \o child \in [1 .. PopSize -> Shared]
        /\ (elite \o child)[1] = ranked[1]
    BY <2>1, <2>2, <2>3, NextPopulation, FleetAssumption
  <2> QED
    BY <1>next, <2>4
<1>13. PICK x \in 1 .. PopSize :
         ranked[1] = population[x] /\ \A y \in 1 .. PopSize : fitness[x] <= fitness[y]
  BY <1>9
<1>14. /\ fitness[x] <= Fitness(CostGenome) /\ fitness[x] <= Fitness(GreenGenome)
  <2>1. CASE history = 0
    <3>1. population[1] = CostGenome /\ population[2] = GreenGenome
      BY <1>6, <2>1 DEF EvolveInv
    <3> QED
      BY <1>8, <1>13, <3>1, SeedsKeptApart
  <2>2. CASE history > 0
    <3>1. fitness[x] <= fitness[1] /\ fitness[1] = Fitness(population[1])
      BY <1>8, <1>13, SeedsKeptApart
    <3>2. Fitness(population[1]) <= Fitness(CostGenome) /\ Fitness(population[1]) <= Fitness(GreenGenome)
      BY <2>2 DEF EvolveInv, SeedsNeverBeaten
    <3>3. Fitness(CostGenome) \in Nat /\ Fitness(GreenGenome) \in Nat
      BY SeedsShare, FitnessIsNatural DEF Shared
    <3>4. PICK a \in Nat, b \in Nat, c \in Nat, d \in Nat :
            a = fitness[x] /\ b = fitness[1] /\ c = Fitness(CostGenome) /\ d = Fitness(GreenGenome)
      BY <1>8, <3>3, SeedsKeptApart
    <3>5. a <= b /\ b <= c /\ b <= d
      BY <3>1, <3>2, <3>4
    <3>6. a <= c /\ a <= d
      BY <3>5
    <3> QED
      BY <3>4, <3>6
  <2> QED
    BY <2>1, <2>2 DEF EvolveInv
<1>15. SeedsNeverBeaten'
  <2>1. UNCHANGED <<routes, scenario>>
    BY <1>6 DEF routeVars
  <2>2. PICK p : p = population[x]
    OBVIOUS
  <2>3. Fitness(population[1])' = Fitness(p)'
    BY <1>12, <1>13, <2>2
  <2>4. Fitness(p)' = Fitness(p)
    BY <2>1, SameFitness
  <2>5. Fitness(p) = fitness[x]
    BY <1>8, <1>13, <2>2
  <2>6. Fitness(population[1])' = fitness[x]
    BY <2>3, <2>4, <2>5
  <2> QED
    BY <1>14, <2>1, <2>6, SameSeeds DEF SeedsNeverBeaten
<1>16. history' \in Nat /\ history' # 0 /\ history' <= rounds' /\ rounds' \in Nat
  BY <1>6 DEF EvolveInv
<1>17. /\ phase' = "evolve" /\ own' \in Asked /\ generations' \in Nat
  BY <1>6 DEF EvolveInv
<1>18. population' # << >>
  BY <1>12, SeedsKeptApart
<1> QED
  BY <1>12, <1>15, <1>16, <1>17, <1>18 DEF EvolveInv

(* Every step of the fleet part keeps the invariant of the evolution.        *)
LEMMA EvolveStep ==
  ASSUME RoutesInv, LoadsInv, EvolveInv, [FleetNext]_fleetVars
  PROVE  EvolveInv'
<1>1. CASE UNCHANGED fleetVars
  BY <1>1, PopulationKept DEF EvolveInv, fleetVars, routeVars, planVars
<1>2. CASE Solve
  <2>1. phase = "merge" /\ population = << >> /\ history = 0
    BY <1>2 DEF Solve, EvolveInv
  <2>2. /\ phase' \in {"merge", "tune"} /\ population' = << >> /\ history' = 0
        /\ UNCHANGED <<own, generations, rounds>>
    BY <1>2, <2>1 DEF Solve
  <2> QED
    BY <2>2 DEF EvolveInv, SeedsNeverBeaten
<1>3. CASE SetGenerations
  <2>1. phase = "tune" /\ population = << >> /\ own \in Nat
    BY <1>3, FleetAssumption DEF SetGenerations, EvolveInv
  <2>2. /\ phase' = "evolve" /\ generations' \in Nat
        /\ UNCHANGED <<scenario, routes, own, rounds, population, history>>
    BY <1>3, <2>1 DEF SetGenerations, routeVars
  <2> QED
    BY <2>1, <2>2, PopulationKept DEF EvolveInv
<1>4. CASE OtherRequest
  <2>1. population = << >>
    BY <1>4 DEF OtherRequest
  <2>2. /\ generations' \in Nat
        /\ UNCHANGED <<scenario, routes, own, phase, rounds, population, history>>
    BY <1>4, FleetAssumption DEF OtherRequest, routeVars, EvolveInv
  <2> QED
    BY <2>1, <2>2, PopulationKept DEF EvolveInv
<1>5. CASE StartEvolve
  BY <1>5, EvolveStarts
<1>6. CASE Generation
  BY <1>6, EvolveOn
<1>7. CASE Finish
  <2>1. /\ phase' = "done"
        /\ UNCHANGED <<scenario, routes, own, generations, rounds, population, history>>
    BY <1>7 DEF Finish, routeVars
  <2> QED
    BY <2>1, PopulationKept DEF EvolveInv
<1> QED
  BY <1>1, <1>2, <1>3, <1>4, <1>5, <1>6, <1>7, Zenon DEF FleetNext
-----------------------------------------------------------------------------
(* The whole invariant of the fleet part: another part leaves it at rest.    *)
FleetInv ==
  /\ part = "fleet" => RoutesInv /\ LoadsInv /\ EvolveInv
  /\ part # "fleet" => population = << >> /\ history = 0

LEMMA FleetBegins == Init => FleetInv
<1> SUFFICES ASSUME Init
             PROVE  FleetInv
  OBVIOUS
<1>1. part = "fleet" => FleetInit
  BY DEF Init
<1>2. part # "fleet" => population = << >> /\ history = 0
  BY DEF Init, FleetRest
<1>3. FleetInit => SolveInit
  BY DEF FleetInit
<1> QED
  BY <1>1, <1>2, <1>3, RoutesInit, LoadsInit, EvolveInit DEF FleetInv

(* A step of the fleet part merges two routes or leaves the routes alone.    *)
LEMMA RoutesOrMerge ==
  ASSUME [FleetNext]_fleetVars
  PROVE  UNCHANGED routeVars \/ \E p \in todo : MergeNext(p)
  BY Zenon DEF FleetNext, fleetVars, Solve, SetGenerations, OtherRequest,
               StartEvolve, Generation, Finish

LEMMA RoutesAndLoadsKept ==
  ASSUME RoutesInv, LoadsInv, UNCHANGED routeVars
  PROVE  RoutesInv' /\ LoadsInv'
<1>1. \A k : Filed(k)' = Filed(k)
  BY DEF Filed, routeVars
<1>2. RoutesInv'
  BY <1>1 DEF RoutesInv, RoutesFit, routeVars
<1>3. LoadsInv'
  BY <1>1 DEF LoadsInv, Deliveries, routeVars
<1> QED
  BY <1>2, <1>3

LEMMA FleetStep ==
  ASSUME FleetInv, [Next]_vars
  PROVE  FleetInv'
<1>1. part' = part /\ [FleetNext]_fleetVars
  <2>1. part' = part
    BY Zenon DEF Next, vars
  <2> QED
    BY <2>1, StepsOfParts
<1>2. CASE part = "fleet"
  <2>1. RoutesInv /\ LoadsInv /\ EvolveInv
    BY <1>2 DEF FleetInv
  <2>2. RoutesInv' /\ LoadsInv'
    <3>1. CASE UNCHANGED routeVars
      BY <2>1, <3>1, RoutesAndLoadsKept
    <3>2. CASE \E p \in todo : MergeNext(p)
      BY <2>1, <3>2, MergeStep, LoadsStep
    <3> QED
      BY <1>1, <3>1, <3>2, RoutesOrMerge
  <2>3. EvolveInv'
    BY <1>1, <2>1, EvolveStep
  <2> QED
    BY <1>1, <1>2, <2>2, <2>3 DEF FleetInv
<1>3. CASE part # "fleet"
  <2>1. UNCHANGED fleetVars
    BY <1>3, Zenon DEF Next, vars
  <2>2. population' = population /\ history' = history
    BY <2>1 DEF fleetVars, planVars
  <2> QED
    BY <1>1, <1>3, <2>2 DEF FleetInv
<1> QED
  BY <1>2, <1>3

LEMMA FleetStays == Spec => []FleetInv
<1>1. FleetInv /\ [Next]_vars => FleetInv'
  BY FleetStep
<1> QED
  BY <1>1, FleetBegins, PTL DEF Spec

(* Whatever genome wins the search of POST /api/v1/fleet/optimize, the      *)
(* vehicles it hands out exist, carry the load of their route, reach its     *)
(* end and keep out of green zones unless they are free of emissions, and    *)
(* the reported cost is that of the plan just when every route has a vehicle.*)
THEOREM PlansStayHonest == Spec => []PlanHonest
<1>1. FleetInv => PlanHonest
  <2> SUFFICES ASSUME FleetInv
               PROVE  PlanHonest
    OBVIOUS
  <2>1. CASE population = << >>
    <3>1. DOMAIN population = {}
      BY <2>1
    <3> QED
      BY <3>1, Zenon DEF PlanHonest
  <2>2. CASE population # << >>
    <3>1. RoutesInv /\ LoadsInv /\ population \in [1 .. PopSize -> Shared]
      BY <2>2 DEF FleetInv, EvolveInv
    <3>2. \A x \in DOMAIN population : population[x] \in Genomes
      BY <3>1 DEF Shared
    <3> QED
      BY <3>1, <3>2, PlansAreHonest
  <2> QED
    BY <2>1, <2>2
<1> QED
  BY <1>1, FleetStays, PTL

(* However the genetic search selects, crosses and mutates, the genome in    *)
(* front of the population is at least as fit as the two plans that the      *)
(* search was seeded with.                                                 *)
THEOREM SeedsStayUnbeaten == Spec => []SeedsNeverBeaten
<1>1. FleetInv => SeedsNeverBeaten
  <2> SUFFICES ASSUME FleetInv, part # "fleet"
               PROVE  SeedsNeverBeaten
    BY DEF FleetInv, EvolveInv
  <2>1. history = 0
    BY DEF FleetInv
  <2> QED
    BY <2>1 DEF SeedsNeverBeaten
<1> QED
  BY <1>1, FleetStays, PTL

(* The fields of a request to the fleet optimiser keep their types: a         *)
(* population is empty or of the configured size, no count of a genome is     *)
(* negative, its weights share one hundred, and no more generations are noted *)
(* than were to be run.                                                      *)
THEOREM FleetTyped == Spec => [](part = "fleet" => FleetTypeOK)
<1>1. FleetInv => (part = "fleet" => FleetTypeOK)
  <2> SUFFICES ASSUME FleetInv, part = "fleet"
               PROVE  FleetTypeOK
    OBVIOUS
  <2>1. EvolveInv
    BY DEF FleetInv
  <2>2. CASE population = << >>
    BY <2>1, <2>2 DEF EvolveInv, FleetTypeOK
  <2>3. CASE population # << >>
    <3>1. population \in [1 .. PopSize -> Shared]
      BY <2>1, <2>3 DEF EvolveInv
    <3>2. Len(population) = PopSize
      BY <3>1, SeedsKeptApart
    <3>3. \A x \in DOMAIN population :
            population[x].counts \in [VTypes -> Nat] /\ population[x].alpha + population[x].beta = 100
      BY <3>1 DEF Shared, Genomes
    <3> QED
      BY <2>1, <3>2, <3>3 DEF EvolveInv, FleetTypeOK
  <2> QED
    BY <2>2, <2>3
<1> QED
  BY <1>1, FleetStays, PTL
-----------------------------------------------------------------------------
(* The try-ons.  The file that an answer names shows its picture, unless     *)
(* another picture was saved in the same second.                           *)
OnFile(path, image) ==
  \E file \in results : file.second = path /\ (file.alone => file.image = image)

Shows(image, request) == image.photo = request.photo /\ image.garment = request.garment

(* A response is good for a request or for the key that it is stored under.  *)
Good(answer, request) ==
  answer.status = "ok" =>
    /\ Shows(answer.image, request)
    /\ answer.fits = [photo |-> request.photo, garment |-> request.garment, size |-> request.size]
    /\ OnFile(answer.path, answer.image)

Moving == {"download", "kolors", "idm", "local"}
Requests == [photo : Photos, garment : Garments, legacy : BOOLEAN, size : Sizes]

FitOK(f) ==
  /\ f.at \in Moving => f \in [at : Moving, request : Requests]
  /\ f.at \in {"save", "store"} => Shows(f.image, f.request)
  /\ f.at = "store" => OnFile(f.path, f.image)
  /\ f.at = "done" => Good(f.answer, f.request)

TryInv ==
  /\ fittings = [t \in Fitters |-> fittings[t]]
  /\ \A t \in Fitters : FitOK(fittings[t])
  /\ \A pair \in drapes : Good(pair[2], pair[1])

LEMMA TryInit == Init => TryInv
  BY DEF Init, TryOnInit, NotFitting, TryInv, FitOK, Good, Moving

LEMMA GoodKept ==
  ASSUME \A path, image : OnFile(path, image) => OnFile(path, image)'
  PROVE  /\ \A answer, request : Good(answer, request) => Good(answer, request)'
         /\ \A f : FitOK(f) => FitOK(f)'
<1>1. \A answer, request : Good(answer, request) => Good(answer, request)'
  BY Zenon DEF Good, Shows
<1> QED
  BY <1>1, Zenon DEF FitOK, Shows

LEMMA FitChange ==
  ASSUME TryInv, NEW t \in Fitters, NEW f, fittings' = [fittings EXCEPT ![t] = f], FitOK(f)',
         \A path, image : OnFile(path, image) => OnFile(path, image)',
         \A pair \in drapes' : pair \in drapes \/ Good(pair[2], pair[1])'
  PROVE  TryInv'
<1>1. \A q \in Fitters : fittings'[q] = IF q = t THEN f ELSE fittings[q]
  BY DEF TryInv
<1>2. fittings' = [q \in Fitters |-> fittings'[q]]
  BY DEF TryInv
<1>3. \A q \in Fitters : FitOK(fittings[q])'
  <2> SUFFICES ASSUME NEW q \in Fitters PROVE FitOK(fittings[q])'
    OBVIOUS
  <2>1. PICK g : g = fittings'[q]
    OBVIOUS
  <2>2. q # t => FitOK(g)'
    BY <1>1, <2>1, GoodKept, Zenon DEF TryInv
  <2>3. FitOK(g)'
    BY <1>1, <2>1, <2>2, Zenon
  <2> QED
    BY <2>1, <2>3
<1>4. \A pair \in drapes' : Good(pair[2], pair[1])'
  BY GoodKept, Zenon DEF TryInv
<1> QED
  BY <1>2, <1>3, <1>4, Zenon DEF TryInv
(* A step that leaves the files and the cache.                               *)
LEMMA QuietFit ==
  ASSUME TryInv, NEW t \in Fitters, NEW f, fittings' = [fittings EXCEPT ![t] = f], FitOK(f),
         results' = results, drapes' = drapes
  PROVE  TryInv'
<1>1. \A path, image : OnFile(path, image) => OnFile(path, image)'
  BY DEF OnFile
<1>2. FitOK(f)'
  BY <1>1, GoodKept, Zenon
<1> QED
  BY <1>1, <1>2, FitChange

(* A request that failed has no response, or one that names no file.         *)
LEMMA FailedIsGood == \A request, key : Good(Failed(request), key)
<1>1. \A request : Failed(request).status # "ok"
  BY DEF Failed
<1> QED
  BY <1>1, Zenon DEF Good

LEMMA AskFitStep ==
  ASSUME TryInv, NEW t \in Fitters, AskFit(t)
  PROVE  TryInv'
<1>1. PICK request \in Requests :
        LET hits == {pair \in drapes : pair[1] = CacheKey(request)}
        IN fittings' = [fittings EXCEPT ![t] =
             IF hits # {}
             THEN [at |-> "done", request |-> request, answer |-> (CHOOSE pair \in hits : TRUE)[2]]
             ELSE IF request.photo \in BadPhotos
             THEN [at |-> "done", request |-> request, answer |-> Failed(request)]
             ELSE [at |-> "download", request |-> request]]
  <2>1. PICK photo \in Photos, garment \in Garments, size \in Sizes, legacy \in BOOLEAN :
          LET request == [photo |-> photo, garment |-> garment, legacy |-> legacy,
                          size |-> IF legacy THEN "M" ELSE size]
              hits == {pair \in drapes : pair[1] = CacheKey(request)}
          IN /\ hits # {} \/ Cardinality(drapes) < MaxDrapes
             /\ fittings' = [fittings EXCEPT ![t] =
                  IF hits # {}
                  THEN [at |-> "done", request |-> request,
                        answer |-> (CHOOSE pair \in hits : TRUE)[2]]
                  ELSE IF photo \in BadPhotos
                  THEN [at |-> "done", request |-> request, answer |-> Failed(request)]
                  ELSE [at |-> "download", request |-> request]]
    BY Zenon DEF AskFit
  <2>2. PICK wanted \in Sizes : wanted = IF legacy THEN "M" ELSE size
    BY TryOnAssumption
  <2>3. PICK request : request = [photo |-> photo, garment |-> garment, legacy |-> legacy,
                                  size |-> wanted]
    OBVIOUS
  <2>4. request \in Requests /\ request.photo = photo
    BY <2>3 DEF Requests
  <2>5. request = [photo |-> photo, garment |-> garment, legacy |-> legacy,
                   size |-> IF legacy THEN "M" ELSE size]
    BY <2>2, <2>3, Zenon
  <2> QED
    BY <2>1, <2>4, <2>5, Zenon
<1>2. results' = results /\ drapes' = drapes
  BY DEF AskFit
<1>3. PICK hits : hits = {pair \in drapes : pair[1] = CacheKey(request)}
  OBVIOUS
<1>4. CASE hits # {}
  <2>1. PICK pair \in hits : pair = CHOOSE p \in hits : TRUE
    BY <1>4, Zenon
  <2>2. /\ Good(pair[2], pair[1])
        /\ pair[1] = [photo |-> request.photo, garment |-> request.garment,
                      size |-> request.size]
    BY <1>3, Zenon DEF TryInv, CacheKey
  <2>3. Good(pair[2], request)
    BY <2>2 DEF Good, Shows
  <2>4. PICK f : f = [at |-> "done", request |-> request, answer |-> pair[2]]
    OBVIOUS
  <2>5. f.at = "done" /\ f.request = request /\ f.answer = pair[2]
    BY <2>4
  <2>6. FitOK(f)
    BY <2>3, <2>5 DEF FitOK, Moving
  <2>7. fittings' = [fittings EXCEPT ![t] = f]
    BY <1>1, <1>3, <1>4, <2>1, <2>4, Zenon
  <2> QED
    BY <1>2, <2>6, <2>7, QuietFit
<1>5. CASE hits = {} /\ request.photo \in BadPhotos
  <2>1. PICK f : f = [at |-> "done", request |-> request, answer |-> Failed(request)]
    OBVIOUS
  <2>2. f.at = "done" /\ f.request = request /\ f.answer = Failed(request)
    BY <2>1
  <2>3. FitOK(f)
    BY <2>2, FailedIsGood DEF FitOK, Moving
  <2>4. fittings' = [fittings EXCEPT ![t] = f]
    BY <1>1, <1>3, <1>5, <2>1, Zenon
  <2> QED
    BY <1>2, <2>3, <2>4, QuietFit
<1>6. CASE hits = {} /\ request.photo \notin BadPhotos
  <2>1. PICK f : f = [at |-> "download", request |-> request]
    OBVIOUS
  <2>2. FitOK(f)
    BY <2>1 DEF FitOK, Moving
  <2>3. fittings' = [fittings EXCEPT ![t] = f]
    BY <1>1, <1>3, <1>6, <2>1, Zenon
  <2> QED
    BY <1>2, <2>2, <2>3, QuietFit
<1> QED
  BY <1>4, <1>5, <1>6

LEMMA MovingSteps ==
  ASSUME TryInv, NEW t \in Fitters, Download(t) \/ Kolors(t) \/ Idm(t) \/ DrapeLocally(t)
  PROVE  TryInv'
<1>1. PICK r \in Requests : fittings[t].request = r
  <2>1. fittings[t].at \in Moving
    BY DEF Download, Kolors, Idm, DrapeLocally, Moving
  <2>2. fittings[t] \in [at : Moving, request : Requests]
    BY <2>1, Zenon DEF TryInv, FitOK
  <2> QED
    BY <2>2
<1>2. PICK old \in [at : Moving, request : Requests] : fittings[t] = old
  BY Zenon DEF Download, Kolors, Idm, DrapeLocally, Moving, TryInv, FitOK
<1>3. results' = results /\ drapes' = drapes
  BY DEF Download, Kolors, Idm, DrapeLocally
<1>4. ASSUME fittings' = Ends(t, Failed(r))
      PROVE  TryInv'
  <2>1. PICK f : f = [at |-> "done", request |-> r, answer |-> Failed(r)]
    OBVIOUS
  <2>2. f.at = "done" /\ f.request = r /\ f.answer = Failed(r)
    BY <2>1
  <2>3. FitOK(f)
    BY <2>2, FailedIsGood DEF FitOK, Moving
  <2>4. fittings' = [fittings EXCEPT ![t] = f]
    BY <1>1, <1>4, <2>1 DEF Ends
  <2> QED
    BY <1>3, <2>3, <2>4, QuietFit
<1>5. ASSUME NEW at \in Moving, fittings' = [fittings EXCEPT ![t].at = at]
      PROVE  TryInv'
  <2>1. PICK f : f = [old EXCEPT !.at = at]
    OBVIOUS
  <2>2. f \in [at : Moving, request : Requests] /\ f.at = at
    BY <2>1
  <2>3. FitOK(f)
    BY <2>2 DEF FitOK, Moving
  <2>4. fittings' = [fittings EXCEPT ![t] = f]
    BY <1>2, <1>5, <2>1
  <2> QED
    BY <1>3, <2>3, <2>4, QuietFit
<1>6. ASSUME NEW by, Drawn(t, by)
      PROVE  TryInv'
  <2>1. PICK f : f = [at |-> "save", request |-> r, image |-> Picture(r, by)]
    OBVIOUS
  <2>2. /\ f.at = "save" /\ f.request = r
        /\ f.image = [photo |-> r.photo, garment |-> r.garment, by |-> by]
    BY <2>1 DEF Picture
  <2>3. FitOK(f)
    BY <2>2 DEF FitOK, Moving, Shows
  <2>4. fittings' = [fittings EXCEPT ![t] = f]
    BY <1>1, <1>6, <2>1 DEF Drawn
  <2> QED
    BY <1>3, <2>3, <2>4, QuietFit
<1>7. CASE Download(t)
  <2>1. \/ fittings' = Ends(t, Failed(r))
        \/ fittings' = [fittings EXCEPT ![t].at = "kolors"]
        \/ fittings' = [fittings EXCEPT ![t].at = "local"]
    BY <1>1, <1>7 DEF Download
  <2> QED
    BY <1>4, <1>5, <2>1, Zenon DEF Moving
<1>8. CASE Kolors(t)
  <2>1. \/ \E by : Drawn(t, by)
        \/ fittings' = [fittings EXCEPT ![t].at = "idm"]
        \/ fittings' = [fittings EXCEPT ![t].at = "local"]
    BY <1>8, Zenon DEF Kolors
  <2> QED
    BY <1>5, <1>6, <2>1, Zenon DEF Moving
<1>9. CASE Idm(t)
  BY <1>5, <1>6, <1>9, Zenon DEF Idm, Moving
<1>10. CASE DrapeLocally(t)
  <2>1. Drawn(t, "local") \/ fittings' = Ends(t, Failed(r))
    BY <1>1, <1>10, Zenon DEF DrapeLocally
  <2> QED
    BY <1>4, <1>6, <2>1
<1> QED
  BY <1>7, <1>8, <1>9, <1>10
(* A picture that is saved shows under its second, and one of the same       *)
(* second that it overwrites is not claimed to be alone any more.          *)
LEMMA SavedKeeps ==
  ASSUME NEW image, NEW replaced, replaced = {file \in results : file.second = second},
         results' = (results \ replaced) \cup
           {[second |-> second, image |-> image, alone |-> replaced = {}]}
  PROVE  /\ \A path, i : OnFile(path, i) => OnFile(path, i)'
         /\ \A path : path = second => OnFile(path, image)'
<1>1. PICK new : new = [second |-> second, image |-> image, alone |-> replaced = {}]
  OBVIOUS
<1>2. new.second = second /\ new.image = image
  BY <1>1
<1>3. new.alone = (replaced = {})
  BY <1>1
<1>4. new \in results' /\ \A file \in results : file \in results' \/ file.second = second
  BY <1>1
<1>5. ASSUME NEW path, NEW i, OnFile(path, i)
      PROVE  OnFile(path, i)'
  <2>1. PICK file \in results : file.second = path /\ (file.alone => file.image = i)
    BY <1>5, Zenon DEF OnFile
  <2>2. CASE path = second
    <3>1. replaced # {}
      BY <2>1, <2>2
    <3>2. ~new.alone
      BY <1>3, <3>1, Zenon
    <3> QED
      BY <1>2, <1>4, <2>2, <3>2, Zenon DEF OnFile
  <2>3. CASE path # second
    BY <1>4, <2>1, <2>3, Zenon DEF OnFile
  <2> QED
    BY <2>2, <2>3
<1>6. \A path : path = second => OnFile(path, image)'
  BY <1>2, <1>4, Zenon DEF OnFile
<1> QED
  BY <1>5, <1>6

LEMMA SaveStep ==
  ASSUME TryInv, NEW t \in Fitters, Save(t)
  PROVE  TryInv'
<1>1. PICK r, image, path : r = fittings[t].request /\ image = fittings[t].image /\ path = second
  OBVIOUS
<1>2. Shows(image, r)
  BY <1>1, Zenon DEF Save, TryInv, FitOK
<1>3. drapes' = drapes
  BY DEF Save
<1>4. PICK replaced : replaced = {file \in results : file.second = second}
  OBVIOUS
<1>5. CASE /\ results' = (results \ replaced) \cup
                {[second |-> second, image |-> image, alone |-> replaced = {}]}
           /\ fittings' = [fittings EXCEPT ![t] =
                [at |-> "store", request |-> r, image |-> image, path |-> path]]
  <2>1. PICK f : f = [at |-> "store", request |-> r, image |-> image, path |-> path]
    OBVIOUS
  <2>2. f.at = "store" /\ f.request = r /\ f.image = image /\ f.path = path
    BY <2>1
  <2>3. /\ \A p, i : OnFile(p, i) => OnFile(p, i)'
        /\ OnFile(path, image)'
    BY <1>1, <1>4, <1>5, SavedKeeps, Zenon
  <2>4. f.at \notin Moving /\ f.at \in {"save", "store"} /\ f.at # "done"
    BY <2>2 DEF Moving
  <2>5. FitOK(f)'
    BY <1>2, <2>2, <2>3, <2>4, Zenon DEF FitOK, Moving, Shows
  <2>6. fittings' = [fittings EXCEPT ![t] = f]
    BY <1>5, <2>1
  <2> QED
    BY <1>3, <2>3, <2>5, <2>6, FitChange, Zenon
<1>6. CASE results' = results /\ fittings' = Ends(t, Failed(r))
  <2>1. PICK f : f = [at |-> "done", request |-> r, answer |-> Failed(r)]
    OBVIOUS
  <2>2. f.at = "done" /\ f.request = r /\ f.answer = Failed(r)
    BY <2>1
  <2>3. FitOK(f)
    BY <2>2, FailedIsGood DEF FitOK, Moving
  <2>4. fittings' = [fittings EXCEPT ![t] = f]
    BY <1>1, <1>6, <2>1 DEF Ends
  <2> QED
    BY <1>3, <1>6, <2>3, <2>4, QuietFit
<1>7. \/ /\ results' = (results \ replaced) \cup
              {[second |-> second, image |-> image, alone |-> replaced = {}]}
         /\ fittings' = [fittings EXCEPT ![t] =
              [at |-> "store", request |-> r, image |-> image, path |-> path]]
      \/ results' = results /\ fittings' = Ends(t, Failed(r))
  <2>1. \/ /\ results' = (results \ {file \in results : file.second = second}) \cup
                {[second |-> second, image |-> fittings[t].image,
                  alone |-> {file \in results : file.second = second} = {}]}
           /\ fittings' = [fittings EXCEPT ![t] =
                [at |-> "store", request |-> fittings[t].request, image |-> fittings[t].image,
                 path |-> second]]
        \/ results' = results /\ fittings' = Ends(t, Failed(fittings[t].request))
    BY Zenon DEF Save
  <2> QED
    BY <1>1, <1>4, <2>1, Zenon
<1> QED
  BY <1>5, <1>6, <1>7

LEMMA StoreStep ==
  ASSUME TryInv, NEW t \in Fitters, StoreDrape(t)
  PROVE  TryInv'
<1>1. PICK r, image, path :
        r = fittings[t].request /\ image = fittings[t].image /\ path = fittings[t].path
  OBVIOUS
<1>2. Shows(image, r) /\ OnFile(path, image)
  BY <1>1, Zenon DEF StoreDrape, TryInv, FitOK
<1>3. PICK response :
        response = [status |-> "ok", image |-> image, path |-> path,
                    fits |-> [photo |-> r.photo, garment |-> r.garment, size |-> r.size]]
  OBVIOUS
<1>4. PICK key : key = [photo |-> r.photo, garment |-> r.garment, size |-> r.size]
  OBVIOUS
<1>5. /\ results' = results
      /\ drapes' = {pair \in drapes : pair[1] # key} \cup {<<key, response>>}
      /\ fittings' = [fittings EXCEPT ![t] =
           [at |-> "done", request |-> r, answer |-> response]]
  BY <1>1, <1>3, <1>4 DEF StoreDrape, Response, CacheKey, Ends
<1>6. \A p, i : OnFile(p, i) => OnFile(p, i)'
  BY <1>5 DEF OnFile
<1>7. Good(response, r) /\ Good(response, key)
  BY <1>2, <1>3, <1>4 DEF Good, Shows
<1>8. PICK f : f = [at |-> "done", request |-> r, answer |-> response]
  OBVIOUS
<1>9. f.at = "done" /\ f.request = r /\ f.answer = response
  BY <1>8
<1>10. FitOK(f)
  BY <1>7, <1>9 DEF FitOK, Moving
<1>11. \A pair \in drapes' : pair \in drapes \/ Good(pair[2], pair[1])'
  <2>1. \A pair \in drapes' : pair \in drapes \/ pair = <<key, response>>
    BY <1>5
  <2>2. Good(response, key)'
    BY <1>6, <1>7, GoodKept, Zenon
  <2> SUFFICES ASSUME NEW pair, pair = <<key, response>> PROVE Good(pair[2], pair[1])'
    BY <2>1
  <2>3. pair[1] = key /\ pair[2] = response
    OBVIOUS
  <2> QED
    BY <2>2, <2>3
<1>12. FitOK(f)' /\ fittings' = [fittings EXCEPT ![t] = f]
  BY <1>5, <1>6, <1>8, <1>10, GoodKept, Zenon
<1> QED
  BY <1>6, <1>11, <1>12, FitChange, Zenon

(* Whoever asks sees the own photo in the garment asked for, and the file    *)
(* that the answer names shows the same unless two pictures were saved in   *)
(* one second, however requests, cached answers and fallbacks interleave.   *)
THEOREM TryOnsShowTheAsker == Spec => []TryOnsOwn
<1>1. TryInv /\ [TryOnNext]_tryOnVars => TryInv'
  <2>1. ASSUME TryInv, UNCHANGED <<fittings, drapes, results>>
        PROVE  TryInv'
    BY <2>1 DEF TryInv, FitOK, Good, OnFile, Shows
  <2>2. UNCHANGED tryOnVars \/ NextSecond => UNCHANGED <<fittings, drapes, results>>
    BY DEF tryOnVars, NextSecond
  <2> QED
    BY <2>1, <2>2, AskFitStep, MovingSteps, SaveStep, StoreStep, Zenon DEF TryOnNext
<1>2. TryInv /\ [Next]_vars => TryInv'
  BY <1>1, StepsOfParts
<1>3. TryInv => TryOnsOwn
  BY Zenon DEF TryInv, TryOnsOwn, FitOK, Good, Shows, OnFile
<1> QED
  BY TryInit, <1>2, <1>3, PTL DEF Spec
-----------------------------------------------------------------------------
(* The cached catalog.  An entry is fresh when it was stored after the last  *)
(* failed call or unsure store; an entry that is not lives no longer        *)
(* than one lifetime from there.  Fresh entries are only where the service  *)
(* looks, and no older than what it answered last.                         *)
CacheUsers == Readers \cup {Startup}
StoredSince(entry) == entry.until > unsettled + TTL
Entries == [version : Nat, until : Nat]

CacheTypes ==
  /\ table \in Nat /\ latest \in Nat /\ clock \in Nat /\ unsettled \in Int
  /\ client \in {"unset", "redis", "off"}
  /\ redis \in Entries /\ memory \in Entries
  /\ reading \in [CacheUsers -> [at : {"idle", "load", "store"}, version : Nat]]

CacheBounds ==
  /\ 0 - TTL <= unsettled /\ unsettled <= clock
  /\ redis.until <= clock + TTL /\ memory.until <= clock + TTL
  /\ redis.version <= table /\ memory.version <= table /\ latest <= table

(* A request that no other one overlapped and that read the table as it was   *)
(* stores nothing older than what is cached or was answered.               *)
Newest(r) ==
  /\ reading[r].version >= latest
  /\ reading[r].version >= redis.version /\ reading[r].version >= memory.version

CacheInv ==
  /\ CacheTypes /\ CacheBounds
  /\ \A r \in CacheUsers : reading[r].version <= table
  /\ StoredSince(redis) => client # "off" /\ redis.version >= latest
  /\ StoredSince(memory) => client = "off" /\ memory.version >= latest
  /\ \A r, q \in CacheUsers : r # q /\ reading[r] # Rest /\ reading[q] # Rest => r \in unsure
  /\ \A r \in CacheUsers :
       reading[r].at = "store" /\ r \notin unsure => Newest(r)

LEMMA TTLType == TTL \in Nat /\ TTL > 0 /\ Startup \notin Readers
  BY CacheAssumption

LEMMA CacheInit == Init => CacheInv
<1> SUFFICES ASSUME Init PROVE CacheInv
  OBVIOUS
<1>1. CatalogInit
  BY Zenon DEF Init
<1>2. \A r \in CacheUsers :
        reading[r] = IF r = Startup THEN [at |-> "load", version |-> 0] ELSE Rest
  BY <1>1 DEF CatalogInit, CacheUsers
<1>3. reading \in [CacheUsers -> [at : {"idle", "load", "store"}, version : Nat]]
  BY <1>1 DEF CatalogInit, CacheUsers, Rest
<1>4. CacheTypes /\ CacheBounds
  BY <1>1, <1>3, TTLType DEF CatalogInit, CacheTypes, CacheBounds, Entries, Missing
<1>5. ~StoredSince(redis) /\ ~StoredSince(memory)
  BY <1>1, TTLType DEF CatalogInit, StoredSince, Missing
<1>6. \A r \in CacheUsers : reading[r].version <= table /\ reading[r].at # "store"
  BY <1>1, <1>2 DEF CatalogInit, Rest
<1> QED
  BY <1>2, <1>4, <1>5, <1>6 DEF CacheInv

LEMMA CacheLoad ==
  ASSUME CacheInv, NEW r \in CacheUsers, Load(r)
  PROVE  CacheInv'
<1>1. PICK version \in Nat :
        /\ reading' = [reading EXCEPT ![r] = [at |-> "store", version |-> version]]
        /\ unsure' = IF version = table THEN unsure ELSE unsure \cup {r}
        /\ version <= table
  <2>1. PICK version \in {DemoVersion} \cup 1 .. table :
          /\ reading' = [reading EXCEPT ![r] = [at |-> "store", version |-> version]]
          /\ unsure' = IF version = table THEN unsure ELSE unsure \cup {r}
    BY Zenon DEF Load
  <2>2. version \in Nat /\ version <= table
    BY DEF CacheInv, CacheTypes, DemoVersion
  <2> QED
    BY <2>1, <2>2
<1>2. /\ UNCHANGED <<table, client, redis, memory, clock, latest, unsettled>>
      /\ reading[r].at = "load"
  BY Zenon DEF Load
<1>3. /\ reading'[r] = [at |-> "store", version |-> version]
      /\ \A q \in CacheUsers \ {r} : reading'[q] = reading[q]
      /\ reading' \in [CacheUsers -> [at : {"idle", "load", "store"}, version : Nat]]
  BY <1>1 DEF CacheInv, CacheTypes
<1>4. reading[r] # Rest
  BY <1>2 DEF Rest
<1>5. CacheTypes' /\ CacheBounds'
  BY <1>2, <1>3 DEF CacheInv, CacheTypes, CacheBounds
<1>6. \A q \in CacheUsers : (reading[q].version <= table)'
  BY <1>1, <1>2, <1>3 DEF CacheInv, CacheTypes
<1>7. /\ (StoredSince(redis) => client # "off" /\ redis.version >= latest)'
      /\ (StoredSince(memory) => client = "off" /\ memory.version >= latest)'
  BY <1>2 DEF CacheInv, StoredSince
<1>8. \A q, s \in CacheUsers : q # s /\ reading'[q] # Rest /\ reading'[s] # Rest => q \in unsure'
  <2>1. unsure \subseteq unsure'
    BY <1>1
  <2> QED
    BY <1>3, <1>4, <2>1 DEF CacheInv
<1>9. \A q \in CacheUsers \ {r} : Newest(q)' <=> Newest(q)
  BY <1>2, <1>3 DEF Newest
<1>10. r \notin unsure' => Newest(r)'
  BY <1>1, <1>2, <1>3 DEF Newest, CacheInv, CacheBounds
<1>11. \A q \in CacheUsers :
         reading'[q].at = "store" /\ q \notin unsure' => Newest(q)'
  BY <1>1, <1>3, <1>9, <1>10 DEF CacheInv
<1> QED
  BY <1>5, <1>6, <1>7, <1>8, <1>11 DEF CacheInv
(* The entry that a request finds, and what is known of it.                   *)
LEMMA FoundEntry ==
  ASSUME CacheInv, NEW link \in Connections, NEW ok \in BOOLEAN, ~CallFailed(link, ok),
         NEW found, found = Cached(link, ok), found # Missing
  PROVE  /\ found \in {redis, memory} /\ found.until > clock
         /\ StoredSince(redis) => found.version = redis.version
         /\ StoredSince(memory) => found.version = memory.version
<1>1. found = IF link = "redis" /\ ok /\ Live(redis) THEN redis
              ELSE IF Live(memory) THEN memory ELSE Missing
  BY Zenon DEF Cached, InMemory
<1>2. /\ link = "redis" => ok /\ client # "off"
      /\ link # "redis" => client = "off"
  BY DEF Connections, CallFailed, CacheInv, CacheTypes
<1>3. CASE link = "redis" /\ Live(redis)
  <2>1. found = redis
    BY <1>1, <1>2, <1>3, Zenon
  <2>2. ~StoredSince(memory)
    BY <1>2, <1>3 DEF CacheInv
  <2> QED
    BY <1>3, <2>1, <2>2 DEF Live
<1>4. CASE ~(link = "redis" /\ Live(redis)) /\ Live(memory)
  <2>1. found = memory
    BY <1>1, <1>4, Zenon
  <2>2. ~StoredSince(redis)
    <3>1. SUFFICES ASSUME StoredSince(redis) PROVE FALSE
      OBVIOUS
    <3>2. client # "off" /\ ~Live(redis) /\ ~StoredSince(memory)
      BY <1>2, <1>4, <3>1 DEF CacheInv
    <3>3. redis.until <= clock /\ memory.until > clock
      BY <1>4, <3>2 DEF Live, CacheInv, CacheTypes, Entries
    <3>4. redis.until > unsettled + TTL /\ memory.until <= unsettled + TTL
      BY <3>1, <3>2, TTLType DEF StoredSince, CacheInv, CacheTypes, Entries
    <3> QED
      BY <3>3, <3>4, TTLType DEF CacheInv, CacheTypes, Entries
  <2> QED
    BY <1>4, <2>1, <2>2 DEF Live
<1>5. CASE ~(link = "redis" /\ Live(redis)) /\ ~Live(memory)
  BY <1>1, <1>5, Zenon
<1> QED
  BY <1>3, <1>4, <1>5, Zenon

LEMMA CacheAsk ==
  ASSUME CacheInv, NEW r \in CacheUsers, Ask(r)
  PROVE  CacheInv' /\ (latest' < latest => clock - unsettled' < TTL)
<1>1. PICK link \in Connections, ok \in BOOLEAN :
        /\ client' = link
        /\ unsettled' = IF CallFailed(link, ok) THEN clock ELSE unsettled
        /\ IF Cached(link, ok) # Missing
           THEN latest' = Cached(link, ok).version /\ UNCHANGED <<reading, unsure>>
           ELSE /\ reading' = [reading EXCEPT ![r].at = "load"]
                /\ unsure' = IF InProgress = {} THEN unsure ELSE unsure \cup InProgress \cup {r}
                /\ UNCHANGED latest
  BY Zenon DEF Ask
<1>2. UNCHANGED <<table, redis, memory, clock>> /\ reading[r] = Rest
  BY Zenon DEF Ask
<1>3. /\ link \in {"unset", "redis", "off"}
      /\ ~CallFailed(link, ok) =>
           /\ client = "off" => link = "off"
           /\ client # "off" => link = "redis" /\ ok
  BY DEF Connections, CallFailed, CacheInv, CacheTypes
<1>4. Cached(link, ok) \in {redis, memory, Missing}
  BY Zenon DEF Cached
<1>5. /\ latest' \in Nat /\ latest' <= table
      /\ reading' \in [CacheUsers -> [at : {"idle", "load", "store"}, version : Nat]]
      /\ \A q \in CacheUsers : reading'[q].version <= table
  <2>1. CASE Cached(link, ok) # Missing
    BY <1>1, <1>4, <2>1 DEF CacheInv, CacheTypes, CacheBounds, Entries
  <2>2. CASE Cached(link, ok) = Missing
    BY <1>1, <2>2 DEF CacheInv, CacheTypes, CacheBounds
  <2> QED
    BY <2>1, <2>2
<1>6. unsettled' = unsettled \/ unsettled' = clock
  BY <1>1, Zenon
<1>7. CacheTypes' /\ CacheBounds'
  BY <1>1, <1>2, <1>3, <1>5, <1>6, TTLType DEF CacheInv, CacheTypes, CacheBounds
<1>8. \A q, s \in CacheUsers : q # s /\ reading'[q] # Rest /\ reading'[s] # Rest => q \in unsure'
  <2>1. CASE Cached(link, ok) # Missing
    BY <1>1, <2>1 DEF CacheInv
  <2>2. CASE Cached(link, ok) = Missing
    <3>1. \A q \in CacheUsers \ {r} : reading'[q] = reading[q]
      BY <1>1, <2>2 DEF CacheInv, CacheTypes
    <3>2. \A q \in CacheUsers : reading[q] # Rest => q \in InProgress
      BY DEF InProgress, CacheInv, CacheTypes
    <3>3. unsure \subseteq unsure' /\ (InProgress # {} => InProgress \cup {r} \subseteq unsure')
      BY <1>1, <2>2
    <3> QED
      BY <3>1, <3>2, <3>3 DEF CacheInv
  <2> QED
    BY <2>1, <2>2
<1>9. \A q \in CacheUsers :
        reading'[q].at = "store" /\ q \notin unsure' =>
          reading'[q] = reading[q] /\ q \notin unsure
  <2>1. CASE Cached(link, ok) # Missing
    BY <1>1, <2>1
  <2>2. CASE Cached(link, ok) = Missing
    BY <1>1, <2>2 DEF CacheInv, CacheTypes
  <2> QED
    BY <2>1, <2>2
<1>10. latest' = latest \/ latest' = redis.version \/ latest' = memory.version
  <2>1. CASE Cached(link, ok) # Missing
    BY <1>1, <1>4, <2>1
  <2>2. CASE Cached(link, ok) = Missing
    BY <1>1, <2>2
  <2> QED
    BY <2>1, <2>2
<1>11. \A q \in CacheUsers :
         reading'[q].at = "store" /\ q \notin unsure'
           => Newest(q)'
  BY <1>2, <1>9, <1>10 DEF CacheInv, Newest
<1>12. CASE CallFailed(link, ok)
  <2>1. unsettled' = clock
    BY <1>1, <1>12
  <2>2. ~StoredSince(redis)' /\ ~StoredSince(memory)'
    BY <1>2, <2>1, TTLType DEF StoredSince, CacheInv, CacheBounds, CacheTypes, Entries
  <2>3. clock - unsettled' < TTL
    BY <2>1, TTLType DEF CacheInv, CacheTypes
  <2> QED
    BY <1>5, <1>2, <1>7, <1>8, <1>11, <2>2, <2>3 DEF CacheInv
<1>13. CASE ~CallFailed(link, ok)
  <2>1. unsettled' = unsettled
    BY <1>1, <1>13
  <2>2. (StoredSince(redis)' <=> StoredSince(redis)) /\ (StoredSince(memory)' <=> StoredSince(memory))
    BY <1>2, <2>1 DEF StoredSince
  <2>3. CASE Cached(link, ok) = Missing
    <3>1. latest' = latest
      BY <1>1, <2>3
    <3>2. /\ StoredSince(redis) => client' # "off" /\ redis.version >= latest'
          /\ StoredSince(memory) => client' = "off" /\ memory.version >= latest'
      BY <1>1, <1>3, <1>13, <3>1 DEF CacheInv, CacheTypes
    <3>3. /\ (StoredSince(redis) => client # "off" /\ redis.version >= latest)'
          /\ (StoredSince(memory) => client = "off" /\ memory.version >= latest)'
      BY <1>2, <2>2, <3>2
    <3>4. latest \in Nat
      BY DEF CacheInv, CacheTypes
    <3> QED
      BY <1>2, <1>5, <1>7, <1>8, <1>11, <3>1, <3>3, <3>4 DEF CacheInv
  <2>4. CASE Cached(link, ok) # Missing
    <3>1. PICK found : found = Cached(link, ok) /\ found # Missing /\ latest' = found.version
      BY <1>1, <2>4
    <3>2. /\ found \in {redis, memory} /\ found.until > clock
          /\ StoredSince(redis) => latest' = redis.version
          /\ StoredSince(memory) => latest' = memory.version
      BY <1>13, <3>1, FoundEntry
    <3>5. redis.version \in Nat /\ memory.version \in Nat
      BY DEF CacheInv, CacheTypes, Entries
    <3>6. /\ StoredSince(redis) => client' # "off" /\ redis.version >= latest'
          /\ StoredSince(memory) => client' = "off" /\ memory.version >= latest'
      <4>1. client' = link
        BY <1>1
      <4>2. StoredSince(redis) => client' # "off"
        BY <1>3, <1>13, <4>1 DEF CacheInv
      <4>3. StoredSince(memory) => client' = "off"
        BY <1>3, <1>13, <4>1 DEF CacheInv
      <4> QED
        BY <3>2, <3>5, <4>2, <4>3
    <3>7. /\ (StoredSince(redis) => client # "off" /\ redis.version >= latest)'
          /\ (StoredSince(memory) => client = "off" /\ memory.version >= latest)'
      BY <1>2, <2>2, <3>6
    <3>3. CacheInv'
      BY <1>2, <1>5, <1>7, <1>8, <1>11, <3>7 DEF CacheInv
    <3>4. ASSUME clock - unsettled' >= TTL
          PROVE  ~(latest' < latest)
      <4>1. unsettled + TTL <= clock
        BY <2>1, <3>4, TTLType DEF CacheInv, CacheTypes
      <4>2. StoredSince(redis) \/ StoredSince(memory)
        <5>1. redis.until > clock \/ memory.until > clock
          BY <3>2
        <5>2. /\ clock \in Nat /\ unsettled \in Int /\ redis.until \in Nat /\ memory.until \in Nat
              /\ TTL \in Nat
          BY TTLType DEF CacheInv, CacheTypes, Entries
        <5> QED
          BY <4>1, <5>1, <5>2 DEF StoredSince
      <4> QED
        BY <3>2, <4>2 DEF CacheInv, CacheTypes, Entries
    <3> QED
      BY <2>1, <3>3, <3>4, TTLType DEF CacheInv, CacheTypes
  <2> QED
    BY <2>3, <2>4
<1> QED
  BY <1>12, <1>13
LEMMA CacheStore ==
  ASSUME CacheInv, NEW r \in CacheUsers, Store(r)
  PROVE  CacheInv' /\ (latest' < latest => clock - unsettled' < TTL)
<1>1. PICK link \in Connections, ok \in BOOLEAN, version \in Nat, entry \in Entries :
        /\ version = reading[r].version /\ version <= table
        /\ entry = [version |-> version, until |-> clock + TTL]
        /\ client' = link
        /\ LET inRedis == link = "redis" /\ ok
           IN /\ redis' = IF inRedis THEN entry ELSE redis
              /\ memory' = IF inRedis THEN memory ELSE entry
        /\ unsettled' = IF CallFailed(link, ok) \/ r \in unsure THEN clock ELSE unsettled
  <2>1. PICK link \in Connections, ok \in BOOLEAN :
          LET entry == [version |-> reading[r].version, until |-> clock + TTL]
              inRedis == link = "redis" /\ ok
          IN /\ Note(CallFailed(link, ok))
             /\ client' = link
             /\ redis' = IF inRedis THEN entry ELSE redis
             /\ memory' = IF inRedis THEN memory ELSE entry
             /\ unsettled' = IF CallFailed(link, ok) \/ r \in unsure THEN clock ELSE unsettled
    BY Zenon DEF Store
  <2>2. PICK version \in Nat : version = reading[r].version /\ version <= table
    BY DEF CacheInv, CacheTypes
  <2>3. PICK entry \in Entries : entry = [version |-> version, until |-> clock + TTL]
    <3>1. clock + TTL \in Nat
      BY TTLType DEF CacheInv, CacheTypes
    <3> QED
      BY <3>1 DEF Entries
  <2> QED
    BY <2>1, <2>2, <2>3, Zenon
<1>2. /\ latest' = IF r = Startup THEN latest ELSE version
      /\ reading' = [reading EXCEPT ![r] = Rest] /\ unsure' = unsure \ {r}
      /\ UNCHANGED <<table, clock>> /\ reading[r].at = "store"
  BY <1>1 DEF Store
<1>3. /\ link \in {"unset", "redis", "off"}
      /\ ~CallFailed(link, ok) =>
           /\ client = "off" => link = "off"
           /\ client # "off" => link = "redis" /\ ok
  BY DEF Connections, CallFailed, CacheInv, CacheTypes
<1>4. /\ reading'[r] = Rest /\ \A q \in CacheUsers \ {r} : reading'[q] = reading[q]
      /\ reading' \in [CacheUsers -> [at : {"idle", "load", "store"}, version : Nat]]
  BY <1>2 DEF CacheInv, CacheTypes, Rest
<1>5. redis' \in {redis, entry} /\ memory' \in {memory, entry}
      /\ (unsettled' = unsettled \/ unsettled' = clock)
      /\ (latest' = latest \/ latest' = version)
  BY <1>1, <1>2, Zenon
<1>6. entry.version = version /\ entry.until = clock + TTL
  BY <1>1
<1>7. CacheTypes' /\ CacheBounds'
  BY <1>1, <1>2, <1>3, <1>4, <1>5, <1>6, TTLType
     DEF CacheInv, CacheTypes, CacheBounds, Entries
<1>8. \A q \in CacheUsers : (reading[q].version <= table)'
  BY <1>2, <1>4 DEF CacheInv, CacheTypes, Rest
<1>9. \A q, s \in CacheUsers : q # s /\ reading'[q] # Rest /\ reading'[s] # Rest => q \in unsure'
  BY <1>2, <1>4 DEF CacheInv
<1>10. \A q \in CacheUsers \ {r} : reading'[q].at = "store" => q \in unsure'
  BY <1>2, <1>4 DEF CacheInv, Rest
<1>11. \A q \in CacheUsers : reading'[q].at = "store" => q \in unsure'
  BY <1>4, <1>10 DEF Rest
<1>12. CASE CallFailed(link, ok) \/ r \in unsure
  <2>1. unsettled' = clock
    BY <1>1, <1>12
  <2>2. ~StoredSince(redis)' /\ ~StoredSince(memory)'
    BY <1>5, <1>6, <2>1, TTLType DEF StoredSince, CacheInv, CacheBounds, CacheTypes, Entries
  <2>3. clock - unsettled' < TTL
    BY <2>1, TTLType DEF CacheInv, CacheTypes
  <2> QED
    BY <1>7, <1>8, <1>9, <1>11, <2>2, <2>3 DEF CacheInv
<1>13. CASE ~CallFailed(link, ok) /\ r \notin unsure
  <2>1. unsettled' = unsettled /\ version >= latest
    BY <1>1, <1>2, <1>13 DEF CacheInv, Newest
  <2>2. version >= latest' /\ ~(latest' < latest)
    BY <1>2, <2>1 DEF CacheInv, CacheTypes
  <2>3. CASE link = "redis"
    <3>1. redis' = entry /\ memory' = memory /\ client' = "redis" /\ client # "off"
      BY <1>1, <1>3, <1>13, <2>3
    <3>2. ~StoredSince(memory)'
      BY <2>1, <3>1 DEF StoredSince, CacheInv
    <3>3. client' # "off" /\ redis'.version >= latest'
      BY <1>6, <2>2, <3>1
    <3> QED
      BY <1>7, <1>8, <1>9, <1>11, <2>2, <3>2, <3>3 DEF CacheInv
  <2>4. CASE link # "redis"
    <3>1. redis' = redis /\ memory' = entry /\ client' = "off" /\ client = "off"
      BY <1>1, <1>3, <1>13, <2>4
    <3>2. ~StoredSince(redis)'
      BY <2>1, <3>1 DEF StoredSince, CacheInv
    <3>3. client' = "off" /\ memory'.version >= latest'
      BY <1>6, <2>2, <3>1
    <3> QED
      BY <1>7, <1>8, <1>9, <1>11, <2>2, <3>2, <3>3 DEF CacheInv
  <2> QED
    BY <2>3, <2>4
<1> QED
  BY <1>12, <1>13

LEMMA CacheOthers ==
  ASSUME CacheInv, Edit \/ Tick \/ Restart \/ UNCHANGED catalogVars
  PROVE  CacheInv' /\ latest' = latest
<1>1. CASE Edit \/ Tick \/ UNCHANGED catalogVars
  <2>1. /\ UNCHANGED <<client, redis, memory, reading, unsure, latest, unsettled>>
        /\ table' = table \/ table' = table + 1
        /\ clock' = clock \/ clock' = clock + 1
    BY <1>1 DEF Edit, Tick, catalogVars
  <2>2. CacheTypes' /\ CacheBounds'
    BY <2>1, TTLType DEF CacheInv, CacheTypes, CacheBounds, Entries
  <2>3. \A q \in CacheUsers : (reading[q].version <= table)'
    BY <2>1 DEF CacheInv, CacheTypes
  <2> QED
    BY <2>1, <2>2, <2>3 DEF CacheInv, StoredSince, Newest
<1>2. CASE Restart
  <2>1. /\ UNCHANGED <<table, redis, clock, latest, unsettled>>
        /\ client' = "unset" /\ memory' = Missing /\ unsure' = {}
        /\ reading' = [r \in Readers \cup {Startup} |->
                         IF r = Startup THEN [at |-> "load", version |-> 0] ELSE Rest]
    BY <1>2 DEF Restart
  <2>2. \A r \in CacheUsers :
          reading'[r] = IF r = Startup THEN [at |-> "load", version |-> 0] ELSE Rest
    BY <2>1 DEF CacheUsers
  <2>3. reading' \in [CacheUsers -> [at : {"idle", "load", "store"}, version : Nat]]
    BY <2>1 DEF CacheUsers, Rest
  <2>4. CacheTypes' /\ CacheBounds'
    BY <2>1, <2>3, TTLType DEF CacheInv, CacheTypes, CacheBounds, Entries, Missing
  <2>5. ~StoredSince(memory)'
    BY <2>1, TTLType DEF StoredSince, Missing, CacheInv, CacheTypes, CacheBounds
  <2>6. StoredSince(redis)' <=> StoredSince(redis)
    BY <2>1 DEF StoredSince
  <2>7. \A r \in CacheUsers : reading'[r].version <= table' /\ reading'[r].at # "store"
    BY <2>1, <2>2 DEF Rest, CacheInv, CacheTypes
  <2>8. \A r, q \in CacheUsers : r # q /\ reading'[r] # Rest /\ reading'[q] # Rest => FALSE
    BY <2>2
  <2> QED
    BY <2>1, <2>4, <2>5, <2>6, <2>7, <2>8 DEF CacheInv
<1> QED
  BY <1>1, <1>2

(* The catalog shows an older state of the listings only while a lifetime    *)
(* has not passed since the last failed call or the last store of what was   *)
(* read late or by overlapping requests, whatever came before.             *)
THEOREM CatalogGoesForward == Spec => CatalogSettles
<1>1. CacheInv /\ [Next]_vars => CacheInv' /\ (latest' < latest => clock - unsettled' < TTL)
  <2> SUFFICES ASSUME CacheInv, [Next]_vars
               PROVE  CacheInv' /\ (latest' < latest => clock - unsettled' < TTL)
    OBVIOUS
  <2>1. [CatalogNext]_catalogVars
    BY StepsOfParts
  <2>2. latest' = latest => ~(latest' < latest)
    BY DEF CacheInv, CacheTypes
  <2>3. CASE \E r \in CacheUsers : Ask(r) \/ Store(r)
    BY <2>3, CacheAsk, CacheStore
  <2>4. CASE \E r \in CacheUsers : Load(r)
    <3>1. latest' = latest
      BY <2>4 DEF Load
    <3> QED
      BY <2>2, <2>4, <3>1, CacheLoad
  <2>5. CASE Edit \/ Tick \/ Restart \/ UNCHANGED catalogVars
    BY <2>2, <2>5, CacheOthers
  <2> QED
    BY <2>1, <2>3, <2>4, <2>5, Zenon DEF CatalogNext, CacheUsers
<1>2. CacheInv /\ [Next]_vars => [latest' < latest => clock - unsettled' < TTL]_catalogVars
  BY <1>1
<1>3. CacheInv /\ [Next]_vars => CacheInv'
  BY <1>1
<1> QED
  BY CacheInit, <1>2, <1>3, PTL DEF Spec, CatalogSettles
-----------------------------------------------------------------------------
(* A loop of n rounds: G gives the value after a round from the round and    *)
(* the value before it.                                                    *)
Runs(f, n, base, G) ==
  /\ f[0] = base
  /\ \A i \in 1 .. n : f[i] = G[<<i, f[i - 1]>>]

(* Such a loop has values to the end when a round keeps them in a set.       *)
LEMMA RunExists ==
  ASSUME NEW n \in Nat, NEW V, NEW base \in V, NEW G,
         \A i \in 1 .. n, v \in V : G[<<i, v>>] \in V
  PROVE  \E f \in [0 .. n -> V] : Runs(f, n, base, G)
<1> DEFINE bad == {m \in 0 .. n : ~\E f \in [0 .. m -> V] : Runs(f, m, base, G)}
<1> SUFFICES ASSUME bad # {}
             PROVE  FALSE
  OBVIOUS
<1>1. PICK m \in bad : \A k \in bad : m <= k
  <2>1. bad \subseteq Nat
    OBVIOUS
  <2> HIDE DEF bad
  <2> QED
    BY <2>1, LeastNatural
<1>2. m \in 0 .. n /\ ~\E f \in [0 .. m -> V] : Runs(f, m, base, G)
  OBVIOUS
<1>3. CASE m = 0
  <2>1. PICK f : f = [i \in 0 .. 0 |-> base]
    OBVIOUS
  <2>2. f \in [0 .. 0 -> V] /\ f[0] = base
    BY <2>1
  <2>3. Runs(f, 0, base, G)
    BY <2>2 DEF Runs
  <2> QED
    BY <1>2, <1>3, <2>2, <2>3
<1>4. CASE m # 0
  <2>1. PICK k \in 0 .. n : m = k + 1
    BY <1>2, <1>4
  <2>2. k \notin bad
    BY <1>1, <2>1
  <2>3. PICK g \in [0 .. k -> V] : Runs(g, k, base, G)
    BY <2>2
  <2>4. PICK f : f = [i \in 0 .. m |-> IF i = m THEN G[<<m, g[k]>>] ELSE g[i]]
    OBVIOUS
  <2>5. f[m] = G[<<m, g[k]>>] /\ \A i \in 0 .. k : f[i] = g[i]
    BY <1>2, <2>1, <2>4
  <2>6. f \in [0 .. m -> V]
    <3>1. m \in 1 .. n /\ g[k] \in V
      BY <1>2, <2>1, <2>3
    <3>2. G[<<m, g[k]>>] \in V
      BY <3>1
    <3>3. \A i \in 0 .. m : i # m => i \in 0 .. k
      BY <2>1
    <3> QED
      BY <2>3, <2>4, <3>2, <3>3
  <2>7. f[0] = base
    BY <2>3, <2>5 DEF Runs
  <2>8. ASSUME NEW i \in 1 .. m
        PROVE  f[i] = G[<<i, f[i - 1]>>]
    <3>1. i - 1 \in 0 .. k
      BY <2>1
    <3>2. f[i - 1] = g[i - 1]
      BY <2>5, <3>1
    <3>3. CASE i = m
      <4>1. i - 1 = k
        BY <2>1, <3>3
      <4> QED
        BY <2>5, <3>2, <3>3, <4>1
    <3>4. CASE i # m
      <4>1. i \in 1 .. k /\ i \in 0 .. k
        BY <2>1, <3>4
      <4>2. g[i] = G[<<i, g[i - 1]>>]
        BY <2>3, <4>1 DEF Runs
      <4> QED
        BY <2>5, <3>2, <4>1, <4>2
    <3> QED
      BY <3>3, <3>4
  <2>9. Runs(f, m, base, G)
    BY <2>7, <2>8 DEF Runs
  <2> QED
    BY <1>2, <2>6, <2>9
<1> QED
  BY <1>3, <1>4

(* Induction over the rounds of a loop.                                     *)
LEMMA UpTo ==
  ASSUME NEW n \in Nat, NEW good, 0 \in good, \A i \in 1 .. n : i - 1 \in good => i \in good
  PROVE  \A i \in 0 .. n : i \in good
<1> DEFINE bad == {m \in 0 .. n : m \notin good}
<1> SUFFICES ASSUME bad # {}
             PROVE  FALSE
  OBVIOUS
<1>1. PICK m \in bad : \A k \in bad : m <= k
  <2>1. bad \subseteq Nat
    OBVIOUS
  <2> HIDE DEF bad
  <2> QED
    BY <2>1, LeastNatural
<1>2. m \in 1 .. n /\ m \notin good
  OBVIOUS
<1>3. m - 1 \in 0 .. n /\ m - 1 < m
  BY <1>2
<1>4. m - 1 \in good
  BY <1>1, <1>2, <1>3
<1> QED
  BY <1>2, <1>4

(* Fronts: n members, and the pairs of one that dominates and one dominated. *)
Counters(n) == [count : [1 .. n -> Int], next : Seq(1 .. n)]

(* One dominator of q less: q joins the next front when it was the last.     *)
LEMMA DecrementTyped ==
  ASSUME NEW n \in Nat, NEW acc \in Counters(n), NEW q \in 1 .. n
  PROVE  /\ Decrement(acc, q) \in Counters(n)
         /\ Decrement(acc, q).count = [acc.count EXCEPT ![q] = acc.count[q] - 1]
         /\ Decrement(acc, q).next =
              IF acc.count[q] - 1 = 0 THEN Append(acc.next, q) ELSE acc.next
<1>1. acc.count \in [1 .. n -> Int] /\ acc.next \in Seq(1 .. n)
  BY DEF Counters
<1>2. acc.count[q] - 1 \in Int
  BY <1>1
<1>3. [acc.count EXCEPT ![q] = acc.count[q] - 1] \in [1 .. n -> Int]
  BY <1>1, <1>2
<1>4. Append(acc.next, q) \in Seq(1 .. n)
  BY <1>1
<1>5. Decrement(acc, q) =
        [count |-> [acc.count EXCEPT ![q] = acc.count[q] - 1],
         next |-> IF acc.count[q] - 1 = 0 THEN Append(acc.next, q) ELSE acc.next]
  BY Zenon DEF Decrement, Ready
<1>6. PICK c : c = [acc.count EXCEPT ![q] = acc.count[q] - 1]
  OBVIOUS
<1>7. PICK nx : nx = IF acc.count[q] - 1 = 0 THEN Append(acc.next, q) ELSE acc.next
  OBVIOUS
<1>8. nx \in Seq(1 .. n)
  BY <1>1, <1>4, <1>7
<1>9. Decrement(acc, q) = [count |-> c, next |-> nx]
  BY <1>5, <1>6, <1>7, Zenon
<1>10. c \in [1 .. n -> Int]
  BY <1>3, <1>6, Zenon
<1>11. Decrement(acc, q) \in Counters(n)
  BY <1>8, <1>9, <1>10 DEF Counters
<1>12. Decrement(acc, q).count = c /\ Decrement(acc, q).next = nx
  BY <1>9
<1> QED
  BY <1>6, <1>7, <1>11, <1>12, Zenon

Visiting(f, pairs, n, acc, p) ==
  /\ f \in [0 .. n -> Counters(n)]
  /\ f[0] = acc
  /\ \A q \in 1 .. n :
       f[q] = IF <<p, q>> \in pairs THEN Decrement(f[q - 1], q) ELSE f[q - 1]
  /\ Visit(pairs, n, acc, p) = f[n]

(* The loop of _non_dominated_sort over the members that p dominates.        *)
LEMMA VisitRuns ==
  ASSUME NEW n \in Nat, NEW pairs, NEW p, NEW acc \in Counters(n)
  PROVE  \E f : Visiting(f, pairs, n, acc, p)
<1>1. PICK V : V = Counters(n)
  OBVIOUS
<1>2. PICK G : G = [iv \in (1 .. n) \X V |->
                      IF <<p, iv[1]>> \in pairs THEN Decrement(iv[2], iv[1]) ELSE iv[2]]
  OBVIOUS
<1>3. ASSUME NEW i \in 1 .. n, NEW v \in V
      PROVE  /\ G[<<i, v>>] \in V
             /\ G[<<i, v>>] = IF <<p, i>> \in pairs THEN Decrement(v, i) ELSE v
  <2>1. G[<<i, v>>] = IF <<p, i>> \in pairs THEN Decrement(v, i) ELSE v
    BY <1>2
  <2>2. Decrement(v, i) \in V
    BY <1>1, DecrementTyped
  <2> QED
    BY <2>1, <2>2, Zenon
<1>4. PICK f \in [0 .. n -> V] : Runs(f, n, acc, G)
  BY <1>1, <1>3, RunExists
<1>5. PICK it : it = CHOOSE loop : loop = [q \in 0 .. n |->
                      IF q = 0 THEN acc
                      ELSE IF <<p, q>> \in pairs THEN Decrement(loop[q - 1], q) ELSE loop[q - 1]]
  OBVIOUS
<1>6. Visit(pairs, n, acc, p) = it[n]
  BY <1>5 DEF Visit
<1>7. it = [q \in 0 .. n |->
                      IF q = 0 THEN acc
                      ELSE IF <<p, q>> \in pairs THEN Decrement(it[q - 1], q) ELSE it[q - 1]]
  <2>1. f = [q \in 0 .. n |->
               IF q = 0 THEN acc
               ELSE IF <<p, q>> \in pairs THEN Decrement(f[q - 1], q) ELSE f[q - 1]]
    <3>1. ASSUME NEW q \in 0 .. n
          PROVE  f[q] = IF q = 0 THEN acc
                        ELSE IF <<p, q>> \in pairs THEN Decrement(f[q - 1], q) ELSE f[q - 1]
      <4>1. CASE q = 0
        BY <1>4, <4>1 DEF Runs
      <4>2. CASE q # 0
        <5>1. q \in 1 .. n /\ q - 1 \in 0 .. n
          BY <4>2
        <5>2. f[q - 1] \in V /\ f[q] = G[<<q, f[q - 1]>>]
          BY <1>4, <5>1 DEF Runs
        <5> QED
          BY <1>3, <4>2, <5>1, <5>2
      <4> QED
        BY <4>1, <4>2
    <3>2. f = [q \in 0 .. n |-> f[q]]
      BY <1>4
    <3> QED
      BY <3>1, <3>2
  <2> QED
    BY <1>5, <2>1
<1>8. /\ it[0] = acc
      /\ \A q \in 1 .. n :
           it[q] = IF <<p, q>> \in pairs THEN Decrement(it[q - 1], q) ELSE it[q - 1]
  <2>1. \A q \in 1 .. n : q \in 0 .. n /\ q # 0
    OBVIOUS
  <2> QED
    BY <1>7, <2>1
<1>9. \A q \in 0 .. n : it[q] \in V
  <2>1. PICK good : good = {q \in 0 .. n : it[q] \in V}
    OBVIOUS
  <2>2. 0 \in good
    BY <1>1, <1>8, <2>1
  <2>3. ASSUME NEW i \in 1 .. n, i - 1 \in good
        PROVE  i \in good
    <3>1. it[i - 1] \in V
      BY <2>1, <2>3
    <3>2. it[i] \in V
      <4>1. Decrement(it[i - 1], i) \in V
        BY <1>1, <3>1, DecrementTyped
      <4>2. it[i] = IF <<p, i>> \in pairs THEN Decrement(it[i - 1], i) ELSE it[i - 1]
        BY <1>8
      <4> QED
        BY <3>1, <4>1, <4>2, Zenon
    <3> QED
      BY <2>1, <3>2
  <2>4. \A i \in 0 .. n : i \in good
    BY <2>2, <2>3, UpTo
  <2> QED
    BY <2>1, <2>4
<1>10. it \in [0 .. n -> V]
  BY <1>7, <1>9
<1> QED
  BY <1>1, <1>6, <1>8, <1>10 DEF Visiting

(* left[q] are the dominators of q that are still counted, of first[q] at     *)
(* the start of the round; next lists those that lost the last one.          *)
Released(acc, first, left, n) ==
  /\ acc \in Counters(n)
  /\ left \in [1 .. n -> SUBSET (1 .. n)]
  /\ \A q \in 1 .. n : left[q] \subseteq first[q]
  /\ \A q \in 1 .. n : acc.count[q] = Cardinality(left[q])
  /\ \A x, y \in DOMAIN acc.next : acc.next[x] = acc.next[y] => x = y
  /\ \A q \in 1 .. n :
       (\E x \in DOMAIN acc.next : acc.next[x] = q) <=> first[q] # {} /\ left[q] = {}

(* A new element at the end of a sequence without repetitions.               *)
LEMMA Unique ==
  ASSUME NEW S, NEW s \in Seq(S), NEW v \in S,
         \A x, y \in DOMAIN s : s[x] = s[y] => x = y, \A x \in DOMAIN s : s[x] # v
  PROVE  /\ \A x, y \in DOMAIN Append(s, v) : Append(s, v)[x] = Append(s, v)[y] => x = y
         /\ \A w : (\E x \in DOMAIN Append(s, v) : Append(s, v)[x] = w)
                     <=> (w = v \/ \E x \in DOMAIN s : s[x] = w)
<1>1. PICK t : t = Append(s, v)
  OBVIOUS
<1>2. PICK m \in Nat : m = Len(s)
  OBVIOUS
<1>3. /\ DOMAIN s = 1 .. m /\ DOMAIN t = 1 .. (m + 1)
      /\ \A x \in 1 .. m : t[x] = s[x]
      /\ t[m + 1] = v
  BY <1>1, <1>2
<1>4. \A x \in 1 .. (m + 1) : x \in 1 .. m \/ x = m + 1
  OBVIOUS
<1>5. ASSUME NEW x \in DOMAIN t, NEW y \in DOMAIN t, t[x] = t[y]
      PROVE  x = y
  <2>1. CASE x \in 1 .. m /\ y \in 1 .. m
    BY <1>3, <1>5, <2>1
  <2>2. CASE x = m + 1 \/ y = m + 1
    BY <1>3, <1>4, <1>5, <2>2
  <2> QED
    BY <1>3, <1>4, <2>1, <2>2
<1>6. ASSUME NEW w
      PROVE  (\E x \in DOMAIN t : t[x] = w) <=> (w = v \/ \E x \in DOMAIN s : s[x] = w)
  <2>1. ASSUME NEW x \in DOMAIN t, t[x] = w
        PROVE  w = v \/ \E y \in DOMAIN s : s[y] = w
    BY <1>3, <1>4, <2>1
  <2>2. ASSUME w = v
        PROVE  \E x \in DOMAIN t : t[x] = w
    <3>1. m + 1 \in DOMAIN t
      BY <1>3
    <3> QED
      BY <1>3, <2>2, <3>1
  <2>3. ASSUME NEW x \in DOMAIN s, s[x] = w
        PROVE  \E y \in DOMAIN t : t[y] = w
    <3>1. x \in DOMAIN t
      BY <1>3
    <3> QED
      BY <1>3, <2>3, <3>1
  <2> QED
    BY <2>1, <2>2, <2>3
<1> QED
  BY <1>1, <1>5, <1>6

(* Counting p down for q takes it off the dominators that q still has.       *)
LEMMA DecrementReleases ==
  ASSUME NEW n \in Nat, NEW acc, NEW first, NEW left, Released(acc, first, left, n),
         NEW q \in 1 .. n, NEW p \in left[q]
  PROVE  Released(Decrement(acc, q), first, [left EXCEPT ![q] = left[q] \ {p}], n)
<1>1. PICK rest : rest = left[q] \ {p}
  OBVIOUS
<1>2. PICK l : l = [left EXCEPT ![q] = left[q] \ {p}]
  OBVIOUS
<1>3. /\ acc \in Counters(n) /\ left \in [1 .. n -> SUBSET (1 .. n)]
      /\ acc.count \in [1 .. n -> Int] /\ acc.next \in Seq(1 .. n)
  BY DEF Released, Counters
<1>4. PICK d : d = Decrement(acc, q)
  OBVIOUS
<1>5. /\ d \in Counters(n)
      /\ d.count = [acc.count EXCEPT ![q] = acc.count[q] - 1]
      /\ d.next = IF acc.count[q] - 1 = 0 THEN Append(acc.next, q) ELSE acc.next
  BY <1>3, <1>4, DecrementTyped
<1>6. /\ IsFiniteSet(left[q]) /\ Cardinality(rest) \in Nat
      /\ Cardinality(left[q]) = Cardinality(rest) + 1
      /\ IsFiniteSet(rest)
  <2>1. left[q] \in SUBSET (1 .. n)
    BY <1>3
  <2>2. IsFiniteSet(1 .. n)
    BY FS_Interval
  <2>3. IsFiniteSet(left[q])
    BY <2>1, <2>2, FS_Subset
  <2>4. PICK s : s = left[q]
    OBVIOUS
  <2>5. /\ IsFiniteSet(s \ {p}) /\ Cardinality(s \ {p}) \in Nat
        /\ Cardinality(s) = Cardinality(s \ {p}) + 1
    BY <2>3, <2>4, LessOne
  <2> QED
    BY <1>1, <2>3, <2>4, <2>5
<1>7. /\ l \in [1 .. n -> SUBSET (1 .. n)]
      /\ l[q] = rest
      /\ \A x \in 1 .. n : x # q => l[x] = left[x]
  BY <1>1, <1>2, <1>3
<1>8. \A x \in 1 .. n : l[x] \subseteq first[x]
  BY <1>1, <1>7 DEF Released
<1>9. acc.count[q] = Cardinality(left[q])
  BY DEF Released
<1>10. ASSUME NEW x \in 1 .. n
      PROVE  d.count[x] = Cardinality(l[x])
  <2>1. CASE x = q
    <3>1. d.count[q] = acc.count[q] - 1
      BY <1>3, <1>5
    <3>2. PICK c \in Nat : c = Cardinality(rest)
      BY <1>6
    <3>3. d.count[q] = (c + 1) - 1
      BY <1>6, <1>9, <3>1, <3>2
    <3> QED
      BY <1>7, <2>1, <3>2, <3>3
  <2>2. CASE x # q
    BY <1>3, <1>5, <1>7, <2>2 DEF Released
  <2> QED
    BY <2>1, <2>2
<1>11. first[q] # {} /\ left[q] # {} /\ \A x \in DOMAIN acc.next : acc.next[x] # q
  BY DEF Released
<1>12. CASE acc.count[q] - 1 = 0
  <2>1. d.next = Append(acc.next, q)
    BY <1>5, <1>12
  <2>2. l[q] = {}
    <3>1. PICK c \in Nat : c = Cardinality(rest)
      BY <1>6
    <3>2. c = 0
      BY <1>6, <1>9, <1>12, <3>1
    <3> QED
      BY <1>6, <1>7, <3>1, <3>2, FS_EmptySet
  <2>3. /\ \A x, y \in DOMAIN d.next : d.next[x] = d.next[y] => x = y
        /\ \A w : (\E x \in DOMAIN d.next : d.next[x] = w)
                     <=> (w = q \/ \E x \in DOMAIN acc.next : acc.next[x] = w)
    <3>1. \A x, y \in DOMAIN acc.next : acc.next[x] = acc.next[y] => x = y
      BY DEF Released
    <3>2. PICK S : S = 1 .. n
      OBVIOUS
    <3>3. PICK s : s = acc.next
      OBVIOUS
    <3>4. /\ s \in Seq(S) /\ q \in S
          /\ \A x, y \in DOMAIN s : s[x] = s[y] => x = y
          /\ \A x \in DOMAIN s : s[x] # q
      BY <1>3, <1>11, <3>1, <3>2, <3>3
    <3>5. /\ \A x, y \in DOMAIN Append(s, q) : Append(s, q)[x] = Append(s, q)[y] => x = y
          /\ \A w : (\E x \in DOMAIN Append(s, q) : Append(s, q)[x] = w)
                      <=> (w = q \/ \E x \in DOMAIN s : s[x] = w)
      BY <3>4, Unique, ZenonT(30)
    <3> QED
      BY <2>1, <3>3, <3>5
  <2>4. \A w \in 1 .. n : (\E x \in DOMAIN d.next : d.next[x] = w)
                             <=> first[w] # {} /\ l[w] = {}
    BY <1>7, <1>11, <2>2, <2>3 DEF Released
  <2> QED
    BY <1>2, <1>4, <1>5, <1>7, <1>8, <1>10, <2>3, <2>4, ZenonT(30) DEF Released
<1>13. CASE acc.count[q] - 1 # 0
  <2>1. d.next = acc.next
    BY <1>5, <1>13
  <2>2. l[q] # {}
    <3>1. PICK c \in Nat : c = Cardinality(rest)
      BY <1>6
    <3>2. c # 0
      BY <1>6, <1>9, <1>13, <3>1
    <3> QED
      BY <1>6, <1>7, <3>1, <3>2, FS_EmptySet
  <2>3. \A w \in 1 .. n : (\E x \in DOMAIN d.next : d.next[x] = w)
                             <=> first[w] # {} /\ l[w] = {}
    BY <1>7, <1>11, <2>1, <2>2 DEF Released
  <2>4. \A x, y \in DOMAIN d.next : d.next[x] = d.next[y] => x = y
    BY <2>1 DEF Released
  <2> QED
    BY <1>2, <1>4, <1>5, <1>7, <1>8, <1>10, <2>3, <2>4, ZenonT(30) DEF Released
<1> QED
  BY <1>12, <1>13

(* pairs are the pairs of a dominator in dom[q] and q.                      *)
Pairing(pairs, dom, n) ==
  /\ dom \in [1 .. n -> SUBSET (1 .. n)]
  /\ \A p, q \in 1 .. n : <<p, q>> \in pairs <=> p \in dom[q]

(* p is still counted as a dominator of all that it dominates, and rest is   *)
(* what is left without it.                                                *)
Leaves(p, dom, left, rest, n) ==
  /\ \A q \in 1 .. n : p \in dom[q] <=> p \in left[q]
  /\ rest = [q \in 1 .. n |-> left[q] \ {p}]

(* A visit of p takes it off the dominators of all members.                  *)
LEMMA VisitReleases ==
  ASSUME NEW n \in Nat, NEW pairs, NEW dom, Pairing(pairs, dom, n),
         NEW acc, NEW first, NEW left, Released(acc, first, left, n),
         NEW p \in 1 .. n, NEW rest, Leaves(p, dom, left, rest, n)
  PROVE  Released(Visit(pairs, n, acc, p), first, rest, n)
<1>1. acc \in Counters(n) /\ left \in [1 .. n -> SUBSET (1 .. n)]
  BY DEF Released
<1>2. PICK f : Visiting(f, pairs, n, acc, p)
  BY <1>1, VisitRuns
<1>3. /\ f \in [0 .. n -> Counters(n)] /\ f[0] = acc
      /\ \A q \in 1 .. n :
           f[q] = IF <<p, q>> \in pairs THEN Decrement(f[q - 1], q) ELSE f[q - 1]
      /\ Visit(pairs, n, acc, p) = f[n]
  BY <1>2 DEF Visiting
<1> DEFINE undone(i) == [q \in 1 .. n |-> IF q <= i THEN left[q] \ {p} ELSE left[q]]
           good == {i \in 0 .. n : Released(f[i], first, undone(i), n)}
<1>4. 0 \in good
  <2>1. undone(0) = left
    BY <1>1
  <2> HIDE DEF undone
  <2> QED
    BY <1>3, <2>1
<1>5. ASSUME NEW i \in 1 .. n, i - 1 \in good
      PROVE  i \in good
  <2>1. Released(f[i - 1], first, undone(i - 1), n)
    BY <1>5
  <2>2. f[i] = IF <<p, i>> \in pairs THEN Decrement(f[i - 1], i) ELSE f[i - 1]
    BY <1>3
  <2>3. <<p, i>> \in pairs <=> p \in left[i]
    BY DEF Pairing, Leaves
  <2>4. PICK a : a = undone(i - 1)
    OBVIOUS
  <2>5. PICK b : b = undone(i)
    OBVIOUS
  <2>6. /\ a[i] = left[i] /\ b[i] = left[i] \ {p}
        /\ \A q \in 1 .. n : q # i => a[q] = b[q]
        /\ DOMAIN a = 1 .. n /\ DOMAIN b = 1 .. n
        /\ a = [q \in 1 .. n |-> a[q]] /\ b = [q \in 1 .. n |-> b[q]]
    <3>1. \A q \in 1 .. n : q # i => (q <= i <=> q <= i - 1)
      OBVIOUS
    <3>2. i <= i /\ ~(i <= i - 1)
      OBVIOUS
    <3> QED
      BY <2>4, <2>5, <3>1, <3>2
  <2> HIDE DEF undone
  <2>7. Released(f[i], first, b, n)
    <3>1. CASE p \in left[i]
      <4>1. b = [a EXCEPT ![i] = a[i] \ {p}]
        BY <2>6
      <4>2. Released(f[i - 1], first, a, n) /\ p \in a[i]
        BY <2>1, <2>4, <2>6, <3>1
      <4>3. Released(Decrement(f[i - 1], i), first, [a EXCEPT ![i] = a[i] \ {p}], n)
        BY <4>2, DecrementReleases
      <4>4. f[i] = Decrement(f[i - 1], i)
        BY <2>2, <2>3, <3>1
      <4> QED
        BY <4>1, <4>3, <4>4
    <3>2. CASE p \notin left[i]
      <4>1. \A q \in 1 .. n : a[q] = b[q]
        BY <2>6, <3>2
      <4>2. b = a
        BY <2>6, <4>1
      <4>3. f[i] = f[i - 1]
        BY <2>2, <2>3, <3>2
      <4> QED
        BY <2>1, <2>4, <4>3, <4>2
    <3> QED
      BY <3>1, <3>2
  <2> QED
    BY <2>5, <2>7
<1> HIDE DEF good
<1>6. n \in good
  <2>1. \A i \in 0 .. n : i \in good
    BY <1>4, <1>5, UpTo
  <2> QED
    BY <2>1
<1>7. undone(n) = rest
  BY DEF Leaves
<1>8. Released(f[n], first, undone(n), n)
  BY <1>6 DEF good
<1> HIDE DEF undone
<1> QED
  BY <1>3, <1>7, <1>8

(* A visit keeps counts and front of their types, whatever p is.             *)
LEMMA VisitTyped ==
  ASSUME NEW n \in Nat, NEW pairs, NEW p, NEW acc \in Counters(n)
  PROVE  Visit(pairs, n, acc, p) \in Counters(n)
<1>1. PICK f : Visiting(f, pairs, n, acc, p)
  BY VisitRuns
<1>2. n \in 0 .. n
  OBVIOUS
<1> QED
  BY <1>1, <1>2 DEF Visiting

Peeling(it, pairs, n, count, f) ==
  /\ it \in [0 .. Len(f) -> Counters(n)]
  /\ it[0] = [count |-> count, next |-> << >>]
  /\ \A i \in 1 .. Len(f) : it[i] = Visit(pairs, n, it[i - 1], f[i])
  /\ Peel(pairs, n, count, f) = it[Len(f)]

(* The loop over the members of a front.                                     *)
LEMMA PeelRuns ==
  ASSUME NEW n \in Nat, NEW pairs, NEW count \in [1 .. n -> Int], NEW f \in Seq(1 .. n)
  PROVE  \E it : Peeling(it, pairs, n, count, f)
<1>1. PICK V : V = Counters(n)
  OBVIOUS
<1>2. PICK m \in Nat : m = Len(f)
  OBVIOUS
<1>3. PICK base : base = [count |-> count, next |-> << >>]
  OBVIOUS
<1>4. base \in V
  <2>1. << >> \in Seq(1 .. n)
    OBVIOUS
  <2> QED
    BY <1>1, <1>3, <2>1 DEF Counters
<1>5. PICK G : G = [iv \in (1 .. m) \X V |-> Visit(pairs, n, iv[2], f[iv[1]])]
  OBVIOUS
<1>6. ASSUME NEW i \in 1 .. m, NEW v \in V
      PROVE  G[<<i, v>>] \in V /\ G[<<i, v>>] = Visit(pairs, n, v, f[i])
  <2>1. G[<<i, v>>] = Visit(pairs, n, v, f[i])
    BY <1>5
  <2>2. Visit(pairs, n, v, f[i]) \in V
    BY <1>1, VisitTyped
  <2> QED
    BY <2>1, <2>2
<1>7. PICK g \in [0 .. m -> V] : Runs(g, m, base, G)
  BY <1>4, <1>6, RunExists
<1>8. PICK it : it = CHOOSE loop : loop = [i \in 0 .. Len(f) |->
          IF i = 0 THEN [count |-> count, next |-> << >>] ELSE Visit(pairs, n, loop[i - 1], f[i])]
  OBVIOUS
<1>9. Peel(pairs, n, count, f) = it[Len(f)]
  BY <1>8 DEF Peel
<1>10. it = CHOOSE loop : loop = [i \in 0 .. m |->
          IF i = 0 THEN base ELSE Visit(pairs, n, loop[i - 1], f[i])]
  BY <1>2, <1>3, <1>8
<1>11. it = [i \in 0 .. m |-> IF i = 0 THEN base ELSE Visit(pairs, n, it[i - 1], f[i])]
  <2>1. g = [i \in 0 .. m |-> IF i = 0 THEN base ELSE Visit(pairs, n, g[i - 1], f[i])]
    <3>1. ASSUME NEW i \in 0 .. m
          PROVE  g[i] = IF i = 0 THEN base ELSE Visit(pairs, n, g[i - 1], f[i])
      <4>1. CASE i = 0
        BY <1>7, <4>1 DEF Runs
      <4>2. CASE i # 0
        <5>1. i \in 1 .. m /\ i - 1 \in 0 .. m
          BY <4>2
        <5>2. g[i - 1] \in V /\ g[i] = G[<<i, g[i - 1]>>]
          BY <1>7, <5>1 DEF Runs
        <5> QED
          BY <1>6, <4>2, <5>1, <5>2
      <4> QED
        BY <4>1, <4>2
    <3>2. g = [i \in 0 .. m |-> g[i]]
      BY <1>7
    <3> QED
      BY <3>1, <3>2
  <2> QED
    BY <1>10, <2>1
<1>12. /\ it[0] = base
       /\ \A i \in 1 .. m : it[i] = Visit(pairs, n, it[i - 1], f[i])
  <2>1. \A i \in 1 .. m : i \in 0 .. m /\ i # 0
    OBVIOUS
  <2> QED
    BY <1>11, <2>1
<1>13. \A i \in 0 .. m : it[i] \in V
  <2>1. PICK good : good = {i \in 0 .. m : it[i] \in V}
    OBVIOUS
  <2>2. 0 \in good
    BY <1>4, <1>12, <2>1
  <2>3. ASSUME NEW i \in 1 .. m, i - 1 \in good
        PROVE  i \in good
    <3>1. it[i - 1] \in V
      BY <2>1, <2>3
    <3>2. Visit(pairs, n, it[i - 1], f[i]) \in V
      BY <1>1, <3>1, VisitTyped
    <3> QED
      BY <1>12, <2>1, <3>2
  <2>4. \A i \in 0 .. m : i \in good
    BY <2>2, <2>3, UpTo
  <2> QED
    BY <2>1, <2>4
<1>14. it \in [0 .. m -> V]
  BY <1>11, <1>13
<1> QED
  BY <1>1, <1>2, <1>3, <1>9, <1>12, <1>14 DEF Peeling

(* A front that is walked whole is taken off the dominators of all members.  *)
LEMMA PeelReleases ==
  ASSUME NEW n \in Nat, NEW pairs, NEW dom, Pairing(pairs, dom, n),
         NEW count \in [1 .. n -> Int], NEW first \in [1 .. n -> SUBSET (1 .. n)],
         \A q \in 1 .. n : count[q] = Cardinality(first[q]),
         NEW f \in Seq(1 .. n), \A x, y \in DOMAIN f : f[x] = f[y] => x = y,
         \A x \in DOMAIN f, q \in 1 .. n : f[x] \in dom[q] <=> f[x] \in first[q]
  PROVE  Released(Peel(pairs, n, count, f), first,
                  [q \in 1 .. n |-> first[q] \ {f[x] : x \in DOMAIN f}], n)
<1>1. PICK m \in Nat : m = Len(f) /\ DOMAIN f = 1 .. m
  OBVIOUS
<1>2. PICK it : Peeling(it, pairs, n, count, f)
  BY PeelRuns, Zenon
<1>3. /\ it \in [0 .. m -> Counters(n)]
      /\ it[0] = [count |-> count, next |-> << >>]
      /\ \A i \in 1 .. m : it[i] = Visit(pairs, n, it[i - 1], f[i])
      /\ Peel(pairs, n, count, f) = it[m]
  BY <1>1, <1>2 DEF Peeling
<1> DEFINE undone(i) == [q \in 1 .. n |-> first[q] \ {f[x] : x \in 1 .. i}]
           good == {i \in 0 .. m : Released(it[i], first, undone(i), n)}
<1>4. 0 \in good
  <2>1. undone(0) = first
    <3>1. PICK A : A = {f[x] : x \in 1 .. 0}
      OBVIOUS
    <3>2. A = {}
      BY <3>1
    <3>3. undone(0) = [q \in 1 .. n |-> first[q] \ A]
      BY <3>1
    <3>4. \A q \in 1 .. n : first[q] \ A = first[q]
      BY <3>2
    <3> QED
      BY <3>3, <3>4
  <2>2. it[0].count = count /\ it[0].next = << >> /\ it[0] \in Counters(n)
    BY <1>3
  <2> HIDE DEF undone
  <2>3. Released(it[0], first, first, n)
    BY <2>2 DEF Released
  <2> QED
    BY <2>1, <2>3
<1>5. ASSUME NEW i \in 1 .. m, i - 1 \in good
      PROVE  i \in good
  <2>1. Released(it[i - 1], first, undone(i - 1), n)
    BY <1>5
  <2>2. PICK p \in 1 .. n : p = f[i]
    BY <1>1
  <2>3. PICK a : a = undone(i - 1)
    OBVIOUS
  <2>4. undone(i) = [q \in 1 .. n |-> a[q] \ {p}]
    <3>1. {f[x] : x \in 1 .. i} = {f[x] : x \in 1 .. (i - 1)} \cup {p}
      <4>1. \A x \in 1 .. i : x \in 1 .. (i - 1) \/ x = i
        OBVIOUS
      <4>2. \A x \in 1 .. (i - 1) : x \in 1 .. i
        OBVIOUS
      <4>3. \A z : (\E x \in 1 .. i : z = f[x]) <=> z = p \/ \E x \in 1 .. (i - 1) : z = f[x]
        BY <2>2, <4>1, <4>2
      <4>4. PICK A : A = {f[x] : x \in 1 .. (i - 1)}
        OBVIOUS
      <4>5. PICK B : B = {f[x] : x \in 1 .. i}
        OBVIOUS
      <4>6. \A z : z \in B <=> z \in A \cup {p}
        <5> SUFFICES ASSUME NEW z
                     PROVE  z \in B <=> z \in A \cup {p}
          OBVIOUS
        <5>1. z \in B <=> \E x \in 1 .. i : z = f[x]
          BY <4>5
        <5>2. z \in A <=> \E x \in 1 .. (i - 1) : z = f[x]
          BY <4>4
        <5> QED
          BY <4>3, <5>1, <5>2
      <4>7. B = A \cup {p}
        BY <4>6
      <4> QED
        BY <4>4, <4>5, <4>7
    <3>2. PICK A : A = {f[x] : x \in 1 .. (i - 1)}
      OBVIOUS
    <3>3. PICK B : B = {f[x] : x \in 1 .. i}
      OBVIOUS
    <3>4. undone(i) = [q \in 1 .. n |-> first[q] \ B] /\ a = [q \in 1 .. n |-> first[q] \ A]
      BY <2>3, <3>2, <3>3
    <3>5. \A q \in 1 .. n : first[q] \ B = a[q] \ {p}
      BY <3>1, <3>2, <3>3, <3>4
    <3> QED
      BY <3>4, <3>5
  <2>5. \A q \in 1 .. n : p \in dom[q] <=> p \in a[q]
    <3>1. p \notin {f[x] : x \in 1 .. (i - 1)}
      <4>1. \A x \in 1 .. (i - 1) : x \in DOMAIN f /\ i \in DOMAIN f /\ x # i
        BY <1>1
      <4> QED
        BY <2>2, <4>1
    <3>2. \A q \in 1 .. n : p \in dom[q] <=> p \in first[q]
      BY <1>1, <2>2
    <3> QED
      BY <2>3, <3>1, <3>2
  <2>6. it[i] = Visit(pairs, n, it[i - 1], p)
    BY <1>3, <2>2
  <2> HIDE DEF undone
  <2>7. Released(it[i - 1], first, a, n)
    BY <2>1, <2>3
  <2>8. PICK acc : acc = it[i - 1]
    OBVIOUS
  <2>9. Released(acc, first, a, n)
    BY <2>7, <2>8
  <2>10. PICK rest : rest = undone(i)
    OBVIOUS
  <2>11. Leaves(p, dom, a, rest, n)
    BY <2>4, <2>5, <2>10 DEF Leaves
  <2>12. Released(Visit(pairs, n, acc, p), first, rest, n)
    BY <2>2, <2>9, <2>11, VisitReleases
  <2>13. Released(it[i], first, undone(i), n)
    BY <2>6, <2>8, <2>10, <2>12
  <2> QED
    BY <2>13 DEF good
<1> HIDE DEF good
<1>6. m \in good
  <2>1. \A i \in 0 .. m : i \in good
    BY <1>4, <1>5, UpTo
  <2> QED
    BY <2>1
<1>7. undone(m) = [q \in 1 .. n |-> first[q] \ {f[x] : x \in DOMAIN f}]
  BY <1>1
<1>8. Released(it[m], first, undone(m), n)
  BY <1>6 DEF good
<1> HIDE DEF undone
<1> QED
  BY <1>3, <1>7, <1>8

(* A sequence with every element of a set once.                             *)
Lists(s, S) ==
  /\ s \in Seq(S)
  /\ \A x, y \in DOMAIN s : s[x] = s[y] => x = y
  /\ \A w \in S : \E x \in DOMAIN s : s[x] = w

Freely(f, pairs, n) ==
  /\ f[0] = << >>
  /\ \A q \in 1 .. n :
       f[q] = IF \E p \in 1 .. n : <<p, q>> \in pairs THEN f[q - 1] ELSE Append(f[q - 1], q)
  /\ Undominated(pairs, n) = f[n]

(* The loop that collects the first front.                                   *)
LEMMA UndominatedRuns ==
  ASSUME NEW n \in Nat, NEW pairs
  PROVE  \E f : Freely(f, pairs, n)
<1>1. PICK V : V = Seq(1 .. n)
  OBVIOUS
<1>2. << >> \in V
  BY <1>1
<1>3. PICK D : D = {q \in 1 .. n : \E p \in 1 .. n : <<p, q>> \in pairs}
  OBVIOUS
<1>4. PICK G : G = [iv \in (1 .. n) \X V |-> IF iv[1] \in D THEN iv[2] ELSE Append(iv[2], iv[1])]
  OBVIOUS
<1>5. ASSUME NEW i \in 1 .. n, NEW v \in V
      PROVE  G[<<i, v>>] \in V /\ G[<<i, v>>] = IF i \in D THEN v ELSE Append(v, i)
  <2>1. G[<<i, v>>] = IF i \in D THEN v ELSE Append(v, i)
    BY <1>4
  <2>2. Append(v, i) \in V
    BY <1>1
  <2> QED
    BY <2>1, <2>2, Zenon
<1>6. PICK g \in [0 .. n -> V] : Runs(g, n, << >>, G)
  BY <1>2, <1>5, RunExists
<1>7. PICK it : it = CHOOSE loop : loop = [q \in 0 .. n |->
          IF q = 0 THEN << >>
          ELSE IF \E p \in 1 .. n : <<p, q>> \in pairs THEN loop[q - 1] ELSE Append(loop[q - 1], q)]
  OBVIOUS
<1>8. Undominated(pairs, n) = it[n]
  BY <1>7 DEF Undominated
<1>9. it = [q \in 0 .. n |->
          IF q = 0 THEN << >>
          ELSE IF \E p \in 1 .. n : <<p, q>> \in pairs THEN it[q - 1] ELSE Append(it[q - 1], q)]
  <2>1. g = [q \in 0 .. n |->
          IF q = 0 THEN << >>
          ELSE IF \E p \in 1 .. n : <<p, q>> \in pairs THEN g[q - 1] ELSE Append(g[q - 1], q)]
    <3>1. ASSUME NEW i \in 0 .. n
          PROVE  g[i] = IF i = 0 THEN << >>
                        ELSE IF \E p \in 1 .. n : <<p, i>> \in pairs THEN g[i - 1]
                        ELSE Append(g[i - 1], i)
      <4>1. CASE i = 0
        BY <1>6, <4>1 DEF Runs
      <4>2. CASE i # 0
        <5>1. i \in 1 .. n /\ i - 1 \in 0 .. n
          BY <4>2
        <5>2. g[i - 1] \in V /\ g[i] = G[<<i, g[i - 1]>>]
          BY <1>6, <5>1 DEF Runs
        <5>3. i \in D <=> \E p \in 1 .. n : <<p, i>> \in pairs
          BY <1>3, <5>1
        <5>4. g[i] = IF i \in D THEN g[i - 1] ELSE Append(g[i - 1], i)
          BY <1>5, <5>1, <5>2
        <5> QED
          BY <4>2, <5>3, <5>4, Zenon
      <4> QED
        BY <4>1, <4>2
    <3>2. g = [i \in 0 .. n |-> g[i]]
      BY <1>6
    <3> QED
      BY <3>1, <3>2, Zenon
  <2> QED
    BY <1>7, <2>1, Zenon
<1>10. /\ it[0] = << >>
       /\ \A q \in 1 .. n :
            it[q] = IF \E p \in 1 .. n : <<p, q>> \in pairs THEN it[q - 1] ELSE Append(it[q - 1], q)
  <2>1. \A q \in 1 .. n : q \in 0 .. n /\ q # 0
    OBVIOUS
  <2>2. 0 \in 0 .. n
    OBVIOUS
  <2>3. it[0] = << >>
    BY <1>9, <2>2, Zenon
  <2>4. ASSUME NEW q \in 1 .. n
        PROVE  it[q] = IF \E p \in 1 .. n : <<p, q>> \in pairs THEN it[q - 1]
                       ELSE Append(it[q - 1], q)
    <3>1. q \in 0 .. n /\ q # 0
      BY <2>1
    <3>2. it[q] = IF q = 0 THEN << >>
                  ELSE IF \E p \in 1 .. n : <<p, q>> \in pairs THEN it[q - 1]
                  ELSE Append(it[q - 1], q)
      BY <1>9, <3>1, Zenon
    <3> QED
      BY <3>1, <3>2, Zenon
  <2> QED
    BY <2>3, <2>4, Zenon
<1> QED
  BY <1>8, <1>10 DEF Freely

(* The first front lists the members without a dominator, each once.         *)
LEMMA UndominatedListed ==
  ASSUME NEW n \in Nat, NEW pairs, NEW dom, Pairing(pairs, dom, n)
  PROVE  Lists(Undominated(pairs, n), {q \in 1 .. n : dom[q] = {}})
<1>1. PICK f : Freely(f, pairs, n)
  BY UndominatedRuns
<1> DEFINE free(i) == {q \in 1 .. i : dom[q] = {}}
           good == {i \in 0 .. n : Lists(f[i], free(i))}
<1>2. 0 \in good
  <2>1. f[0] = << >> /\ free(0) = {}
    BY <1>1 DEF Freely
  <2>2. Lists(<< >>, {})
    BY DEF Lists
  <2> HIDE DEF free
  <2>3. Lists(f[0], free(0))
    BY <2>1, <2>2
  <2>4. 0 \in 0 .. n
    OBVIOUS
  <2> QED
    BY <2>3, <2>4
<1>3. ASSUME NEW i \in 1 .. n, i - 1 \in good
      PROVE  i \in good
  <2>1. Lists(f[i - 1], free(i - 1))
    BY <1>3
  <2>2. PICK s : s = f[i - 1]
    OBVIOUS
  <2>3. f[i] = IF dom[i] # {} THEN s ELSE Append(s, i)
    <3>1. (\E p \in 1 .. n : <<p, i>> \in pairs) <=> dom[i] # {}
      BY DEF Pairing
    <3> QED
      BY <1>1, <2>2, <3>1 DEF Freely
  <2>4. CASE dom[i] # {}
    <3>1. free(i) = free(i - 1)
      <4>1. \A q \in 1 .. i : q = i \/ q \in 1 .. (i - 1)
        OBVIOUS
      <4>2. \A q \in 1 .. (i - 1) : q \in 1 .. i
        OBVIOUS
      <4> QED
        BY <2>4, <4>1, <4>2
    <3> HIDE DEF free
    <3>2. f[i] = s
      BY <2>3, <2>4
    <3> QED
      BY <2>1, <2>2, <3>1, <3>2
  <2>5. CASE dom[i] = {}
    <3>1. PICK S : S = free(i)
      OBVIOUS
    <3>2. PICK R : R = free(i - 1)
      OBVIOUS
    <3>3. S = R \cup {i} /\ i \notin R /\ i \in S
      <4>1. \A q \in 1 .. i : q = i \/ q \in 1 .. (i - 1)
        OBVIOUS
      <4>2. \A q \in 1 .. (i - 1) : q \in 1 .. i /\ q # i
        OBVIOUS
      <4> QED
        BY <2>5, <3>1, <3>2, <4>1, <4>2
    <3>4. s \in Seq(S) /\ (\A x \in DOMAIN s : s[x] # i)
          /\ (\A x, y \in DOMAIN s : s[x] = s[y] => x = y)
          /\ \A w \in R : \E x \in DOMAIN s : s[x] = w
      <4>1. Lists(s, R)
        BY <2>1, <2>2, <3>2
      <4>2. s \in Seq(R)
        BY <4>1 DEF Lists
      <4>3. R \subseteq S
        BY <3>3
      <4>4. s \in Seq(S)
        BY <4>2, <4>3
      <4>5. \A x \in DOMAIN s : s[x] \in R
        BY <4>2
      <4> QED
        BY <3>3, <4>1, <4>4, <4>5 DEF Lists
    <3>5. /\ \A x, y \in DOMAIN Append(s, i) : Append(s, i)[x] = Append(s, i)[y] => x = y
          /\ \A w : (\E x \in DOMAIN Append(s, i) : Append(s, i)[x] = w)
                      <=> (w = i \/ \E x \in DOMAIN s : s[x] = w)
      BY <3>3, <3>4, Unique
    <3>6. Append(s, i) \in Seq(S)
      BY <3>3, <3>4
    <3>7. Lists(Append(s, i), S)
      BY <3>3, <3>4, <3>5, <3>6 DEF Lists
    <3> HIDE DEF free
    <3>8. f[i] = Append(s, i)
      BY <2>3, <2>5
    <3>9. Lists(f[i], free(i))
      BY <3>1, <3>7, <3>8
    <3> QED
      BY <3>9
  <2> QED
    BY <2>4, <2>5
<1> HIDE DEF good
<1>4. \A i \in 0 .. n : i \in good
  BY <1>2, <1>3, UpTo
<1>5. n \in good
  BY <1>4
<1>6. Undominated(pairs, n) = f[n]
  BY <1>1 DEF Freely
<1> QED
  BY <1>5, <1>6 DEF good

(* The members of the front k, and of the fronts up to k.                   *)
InFront(fr, k) == {fr[k][x] : x \in DOMAIN fr[k]}
Placed(fr, k) == UNION {InFront(fr, j) : j \in 1 .. k}

(* One front more is placed.                                                 *)
LEMMA PlacedMore ==
  ASSUME NEW fr, NEW k \in Nat
  PROVE  Placed(fr, k + 1) = Placed(fr, k) \cup InFront(fr, k + 1)
<1>1. \A j \in 1 .. (k + 1) : j = k + 1 \/ j \in 1 .. k
  OBVIOUS
<1>2. \A j \in 1 .. k : j \in 1 .. (k + 1)
  OBVIOUS
<1>3. k + 1 \in 1 .. (k + 1)
  OBVIOUS
<1>4. \A z : z \in Placed(fr, k + 1) <=> \E j \in 1 .. (k + 1) : z \in InFront(fr, j)
  BY DEF Placed
<1>5. \A z : z \in Placed(fr, k) <=> \E j \in 1 .. k : z \in InFront(fr, j)
  BY DEF Placed
<1>6. \A z : z \in Placed(fr, k + 1) <=> z \in Placed(fr, k) \/ z \in InFront(fr, k + 1)
  BY <1>1, <1>2, <1>3, <1>4, <1>5
<1> QED
  BY <1>6

(* What a front places stays placed.                                         *)
LEMMA PlacedGrows ==
  ASSUME NEW fr, NEW k \in Nat, NEW j \in Nat, j <= k
  PROVE  Placed(fr, j) \subseteq Placed(fr, k)
<1>1. \A i \in 1 .. j : i \in 1 .. k
  OBVIOUS
<1> QED
  BY <1>1 DEF Placed

(* A front at the end leaves those before it as they are.                    *)
LEMMA FrontsKept ==
  ASSUME NEW S, NEW fr \in Seq(S), NEW f \in S
  PROVE  /\ InFront(Append(fr, f), Len(fr) + 1) = {f[x] : x \in DOMAIN f}
         /\ \A k \in 1 .. Len(fr) : InFront(Append(fr, f), k) = InFront(fr, k)
         /\ \A k \in 0 .. Len(fr) : Placed(Append(fr, f), k) = Placed(fr, k)
<1>1. PICK g : g = Append(fr, f)
  OBVIOUS
<1>2. PICK m \in Nat : m = Len(fr)
  OBVIOUS
<1>3. g[m + 1] = f /\ \A k \in 1 .. m : g[k] = fr[k]
  BY <1>1, <1>2
<1>4. \A k \in 1 .. m : InFront(g, k) = InFront(fr, k)
  BY <1>3 DEF InFront
<1>5. ASSUME NEW k \in 0 .. m
      PROVE  Placed(g, k) = Placed(fr, k)
  <2>1. \A j \in 1 .. k : j \in 1 .. m
    OBVIOUS
  <2>2. \A z : z \in Placed(g, k) <=> \E j \in 1 .. k : z \in InFront(g, j)
    BY DEF Placed
  <2>3. \A z : z \in Placed(fr, k) <=> \E j \in 1 .. k : z \in InFront(fr, j)
    BY DEF Placed
  <2>4. \A z : z \in Placed(g, k) <=> z \in Placed(fr, k)
    BY <1>4, <2>1, <2>2, <2>3
  <2> QED
    BY <2>4
<1>6. InFront(g, m + 1) = {f[x] : x \in DOMAIN f}
  BY <1>3 DEF InFront
<1> QED
  BY <1>1, <1>2, <1>4, <1>5, <1>6

(* What the rounds of the sort keep: a front is listed once, the fronts are   *)
(* disjoint, the first has the members without a dominator, a later one has   *)
(* members whose dominators are all in the fronts before, one of them in the   *)
(* last of these, and count has the dominators not before the last front.    *)
Layers(n) == [count : [1 .. n -> Int], fronts : {fr \in Seq(Seq(1 .. n)) : fr # << >>}]

Owed(dom, fr, k, q) == dom[q] \ Placed(fr, k)

Layered(acc, dom, n) ==
  /\ acc \in Layers(n)
  /\ \A k \in 1 .. Len(acc.fronts) : \A x, y \in DOMAIN acc.fronts[k] :
       acc.fronts[k][x] = acc.fronts[k][y] => x = y
  /\ \A k \in 1 .. Len(acc.fronts) :
       InFront(acc.fronts, k) \cap Placed(acc.fronts, k - 1) = {}
  /\ \A q \in 1 .. n :
       acc.count[q] = Cardinality(Owed(dom, acc.fronts, Len(acc.fronts) - 1, q))
  /\ \A q \in 1 .. n : q \in InFront(acc.fronts, 1) <=> dom[q] = {}
  /\ \A k \in 2 .. Len(acc.fronts) : \A q \in InFront(acc.fronts, k) :
       /\ dom[q] \subseteq Placed(acc.fronts, k - 1)
       /\ \E p \in dom[q] : p \in InFront(acc.fronts, k - 1)
  /\ \A q \in 1 .. n :
       dom[q] \subseteq Placed(acc.fronts, Len(acc.fronts) - 1)
         => q \in Placed(acc.fronts, Len(acc.fronts))

Freed(first, left, n) == {q \in 1 .. n : first[q] # {} /\ left[q] = {}}

(* The next front lists the members that lost their last dominator.          *)
LEMMA PeelListed ==
  ASSUME NEW n \in Nat, NEW done, NEW first \in [1 .. n -> SUBSET (1 .. n)], NEW left,
         Released(done, first, left, n)
  PROVE  Lists(done.next, Freed(first, left, n))
<1>1. PICK S : S = {q \in 1 .. n : first[q] # {} /\ left[q] = {}} /\ S = Freed(first, left, n)
  BY DEF Freed
<1>2. done.next \in Seq(1 .. n)
  <2>1. done \in Counters(n)
    BY DEF Released
  <2> QED
    BY <2>1 DEF Counters
<1>3. \A x \in DOMAIN done.next : done.next[x] \in 1 .. n /\ done.next[x] \in S
  <2> SUFFICES ASSUME NEW x \in DOMAIN done.next
               PROVE  done.next[x] \in 1 .. n /\ done.next[x] \in S
    OBVIOUS
  <2>1. PICK q \in 1 .. n : q = done.next[x]
    BY <1>2
  <2>2. first[q] # {} /\ left[q] = {}
    BY <2>1 DEF Released
  <2> QED
    <3>1. q \in S
      BY <1>1, <2>2, Zenon
    <3> QED
      BY <2>1, <3>1
<1>4. done.next \in Seq(S)
  <2>1. PICK s \in Seq(1 .. n) : s = done.next
    BY <1>2
  <2>2. \A x \in 1 .. Len(s) : s[x] \in S
    BY <1>3, <2>1
  <2>3. s \in Seq(S)
    BY <2>2
  <2> QED
    BY <2>1, <2>3
<1>5. \A w \in S : \E x \in DOMAIN done.next : done.next[x] = w
  BY <1>1 DEF Released
<1>6. \A x, y \in DOMAIN done.next : done.next[x] = done.next[y] => x = y
  BY DEF Released
<1> QED
  BY <1>1, <1>4, <1>5, <1>6 DEF Lists

(* The members that lose their last dominator with the front k.             *)
Due(dom, fr, k, n) ==
  {q \in 1 .. n : ~(dom[q] \subseteq Placed(fr, k - 1)) /\ dom[q] \subseteq Placed(fr, k)}

(* The round after Layered: what Peel returns.                              *)
LEMMA PeelLayer ==
  ASSUME NEW n \in Nat, NEW pairs, NEW dom, Pairing(pairs, dom, n),
         NEW acc, Layered(acc, dom, n),
         NEW m \in Nat, m = Len(acc.fronts),
         NEW done, done = Peel(pairs, n, acc.count, Last(acc.fronts))
  PROVE  /\ m >= 1
         /\ done \in Counters(n)
         /\ \A q \in 1 .. n : done.count[q] = Cardinality(Owed(dom, acc.fronts, m, q))
         /\ Lists(done.next, Due(dom, acc.fronts, m, n))
<1>1. PICK fr : fr = acc.fronts
  OBVIOUS
<1>2. /\ fr \in Seq(Seq(1 .. n)) /\ fr # << >> /\ acc.count \in [1 .. n -> Int]
  BY <1>1 DEF Layered, Layers
<1>3. m >= 1 /\ m = Len(fr)
  BY <1>1, <1>2
<1>4. PICK f \in Seq(1 .. n) : f = fr[m] /\ f = Last(acc.fronts)
  BY <1>1, <1>2, <1>3 DEF Last
<1>5. PICK before : before = Placed(fr, m - 1)
  OBVIOUS
<1>6. PICK first : first = [q \in 1 .. n |-> dom[q] \ before]
  OBVIOUS
<1>7. dom \in [1 .. n -> SUBSET (1 .. n)]
  BY DEF Pairing
<1>8. first \in [1 .. n -> SUBSET (1 .. n)]
  BY <1>6, <1>7
<1>9. \A q \in 1 .. n : acc.count[q] = Cardinality(first[q])
  <2>1. \A q \in 1 .. n : acc.count[q] = Cardinality(Owed(dom, fr, m - 1, q))
    BY <1>1, <1>3 DEF Layered
  <2>2. \A q \in 1 .. n : first[q] = Owed(dom, fr, m - 1, q)
    BY <1>5, <1>6 DEF Owed
  <2> QED
    BY <2>1, <2>2, Zenon
<1>10. \A x, y \in DOMAIN f : f[x] = f[y] => x = y
  <2>1. m \in 1 .. Len(acc.fronts) /\ acc.fronts[m] = f
    BY <1>1, <1>3, <1>4
  <2> QED
    BY <2>1, SMTT(30) DEF Layered
<1>11. InFront(fr, m) \cap before = {}
  BY <1>1, <1>3, <1>5 DEF Layered
<1>12. PICK F : F = {f[x] : x \in DOMAIN f} /\ F = InFront(fr, m)
  BY <1>4 DEF InFront
<1>13. \A x \in DOMAIN f, q \in 1 .. n : f[x] \in dom[q] <=> f[x] \in first[q]
  <2>1. \A x \in DOMAIN f : f[x] \in F
    BY <1>12
  <2> QED
    BY <1>6, <1>11, <1>12, <2>1
<1>14. PICK left : left = [q \in 1 .. n |-> first[q] \ F]
  OBVIOUS
<1>15. Released(Peel(pairs, n, acc.count, f), first, [q \in 1 .. n |-> first[q] \ {f[x] : x \in DOMAIN f}], n)
  <2>1. PICK c \in [1 .. n -> Int] : c = acc.count
    BY <1>2
  <2>2. \A q \in 1 .. n : c[q] = Cardinality(first[q])
    BY <1>9, <2>1
  <2>3. Released(Peel(pairs, n, c, f), first, [q \in 1 .. n |-> first[q] \ {f[x] : x \in DOMAIN f}], n)
    BY <1>8, <1>10, <1>13, <2>2, PeelReleases
  <2> QED
    BY <2>1, <2>3
<1>16. Released(done, first, left, n)
  <2>1. left = [q \in 1 .. n |-> first[q] \ {f[x] : x \in DOMAIN f}]
    BY <1>12, <1>14
  <2> QED
    BY <1>4, <1>15, <2>1
<1>17. \A q \in 1 .. n : left[q] = Owed(dom, fr, m, q)
  <2>1. PICK k \in Nat : m = k + 1 /\ m - 1 = k
    BY <1>3
  <2>2. Placed(fr, k + 1) = Placed(fr, k) \cup InFront(fr, k + 1)
    BY PlacedMore
  <2>3. PICK after : after = Placed(fr, m)
    OBVIOUS
  <2>4. after = before \cup F
    BY <1>5, <1>12, <2>1, <2>2, <2>3
  <2>5. \A q \in 1 .. n : left[q] = dom[q] \ after
    BY <1>6, <1>14, <2>4
  <2> QED
    BY <2>3, <2>5, Zenon DEF Owed
<1>18. Lists(done.next, Freed(first, left, n))
  BY <1>8, <1>16, PeelListed
<1>19. PICK S : S = {q \in 1 .. n : first[q] # {} /\ left[q] = {}} /\ S = Freed(first, left, n)
  BY DEF Freed
<1>20. S = Due(dom, fr, m, n)
  <2>1. \A q \in 1 .. n : first[q] # {} <=> ~(dom[q] \subseteq before)
    BY <1>6
  <2>2. \A q \in 1 .. n : left[q] = {} <=> dom[q] \subseteq Placed(fr, m)
    BY <1>17 DEF Owed
  <2> QED
    BY <1>5, <1>19, <2>1, <2>2 DEF Due
<1>21. done \in Counters(n) /\ \A q \in 1 .. n : done.count[q] = Cardinality(left[q])
  BY <1>16 DEF Released
<1> QED
  BY <1>1, <1>3, <1>5, <1>17, <1>18, <1>19, <1>20, <1>21

(* What is due is in no front yet.                                           *)
LEMMA DueIsNew ==
  ASSUME NEW n \in Nat, NEW dom, NEW acc, Layered(acc, dom, n),
         NEW m \in Nat, m = Len(acc.fronts), m >= 1
  PROVE  Due(dom, acc.fronts, m, n) \cap Placed(acc.fronts, m) = {}
<1>1. PICK fr : fr = acc.fronts
  OBVIOUS
<1> SUFFICES ASSUME NEW q \in Due(dom, fr, m, n), q \in Placed(fr, m)
             PROVE  FALSE
  BY <1>1
<1>2. q \in 1 .. n /\ ~(dom[q] \subseteq Placed(fr, m - 1))
  BY DEF Due
<1>3. PICK k \in 1 .. m : q \in InFront(fr, k)
  BY DEF Placed
<1>4. CASE k = 1
  <2>1. dom[q] = {}
    BY <1>1, <1>2, <1>3, <1>4 DEF Layered
  <2> QED
    BY <1>2, <2>1
<1>5. CASE k # 1
  <2>1. k \in 2 .. m
    BY <1>5
  <2>2. dom[q] \subseteq Placed(fr, k - 1)
    BY <1>1, <1>3, <2>1 DEF Layered
  <2>3. k - 1 \in Nat /\ m - 1 \in Nat /\ k - 1 <= m - 1
    BY <2>1
  <2>4. Placed(fr, k - 1) \subseteq Placed(fr, m - 1)
    BY <2>3, PlacedGrows
  <2> QED
    BY <1>2, <2>2, <2>4
<1> QED
  BY <1>4, <1>5

(* The empty sequence lists the empty set only.                              *)
LEMMA ListsNone ==
  ASSUME NEW S, Lists(<< >>, S)
  PROVE  S = {}
BY DEF Lists

(* Another sequence lists what it holds.                                     *)
LEMMA ListsSome ==
  ASSUME NEW S, NEW s, Lists(s, S), s # << >>
  PROVE  S # {} /\ S = {s[x] : x \in DOMAIN s}
<1>1. s \in Seq(S)
  BY DEF Lists
<1>2. \A x \in DOMAIN s : s[x] \in S
  BY <1>1
<1>3. 1 \in DOMAIN s
  BY <1>1
<1>4. \A w \in S : \E x \in DOMAIN s : s[x] = w
  BY DEF Lists
<1> QED
  BY <1>2, <1>3, <1>4

Grown(new, acc, dom, n, m) ==
  /\ Len(new.fronts) = m + 1
  /\ Due(dom, acc.fronts, m, n) # {}
  /\ Placed(new.fronts, m + 1) = Placed(acc.fronts, m) \cup Due(dom, acc.fronts, m, n)

(* A round of the sort adds the front that is due, or none when none is.     *)
LEMMA NextIsLayered ==
  ASSUME NEW n \in Nat, NEW pairs, NEW dom, Pairing(pairs, dom, n),
         NEW acc, Layered(acc, dom, n),
         NEW m \in Nat, m = Len(acc.fronts),
         NEW new, new = NextFront(pairs, n, acc)
  PROVE  /\ Layered(new, dom, n)
         /\ \/ new = acc /\ Due(dom, acc.fronts, m, n) = {}
            \/ Grown(new, acc, dom, n, m)
<1>1. PICK fr : fr = acc.fronts
  OBVIOUS
<1>2. PICK done : done = Peel(pairs, n, acc.count, Last(acc.fronts))
  OBVIOUS
<1>3. PICK D : D = Due(dom, fr, m, n)
  OBVIOUS
<1>4. /\ m >= 1 /\ done \in Counters(n)
      /\ \A q \in 1 .. n : done.count[q] = Cardinality(Owed(dom, fr, m, q))
      /\ Lists(done.next, D)
  BY <1>1, <1>2, <1>3, PeelLayer
<1>5. new = IF done.next = << >> THEN acc
            ELSE [count |-> done.count, fronts |-> Append(fr, done.next)]
  BY <1>1, <1>2 DEF NextFront
<1>6. CASE done.next = << >>
  <2>1. D = {}
    BY <1>4, <1>6, ListsNone
  <2> QED
    BY <1>1, <1>3, <1>5, <1>6, <2>1
<1>7. CASE done.next # << >>
  <2>1. PICK f : f = done.next
    OBVIOUS
  <2>2. PICK gr : gr = Append(fr, f)
    OBVIOUS
  <2>3. new = [count |-> done.count, fronts |-> gr]
    BY <1>5, <1>7, <2>1, <2>2
  <2>4. /\ fr \in Seq(Seq(1 .. n)) /\ f \in Seq(1 .. n) /\ done.count \in [1 .. n -> Int]
        /\ m = Len(fr)
    <3>1. acc \in Layers(n)
      BY DEF Layered
    <3> QED
      BY <1>1, <1>4, <2>1, <3>1 DEF Layers, Counters
  <2>5. /\ gr \in Seq(Seq(1 .. n)) /\ gr # << >> /\ Len(gr) = m + 1
        /\ gr[m + 1] = f /\ \A k \in 1 .. m : gr[k] = fr[k]
    <3>1. PICK T : T = Seq(1 .. n)
      OBVIOUS
    <3>2. fr \in Seq(T) /\ f \in T
      BY <2>4, <3>1
    <3>3. gr \in Seq(T) /\ gr # << >> /\ Len(gr) = m + 1 /\ gr[m + 1] = f
      <4>1. gr \in Seq(T) /\ Len(gr) = m + 1
        BY <2>2, <2>4, <3>2
      <4>2. gr # << >>
        BY <4>1
      <4>3. gr[Len(fr) + 1] = f
        BY <2>2, <2>4, <3>2
      <4> QED
        BY <2>4, <4>1, <4>2, <4>3
    <3>4. \A k \in 1 .. m : gr[k] = fr[k]
      BY <2>2, <2>4, <3>2
    <3> QED
      BY <3>1, <3>3, <3>4
  <2>6. D # {} /\ InFront(gr, m + 1) = D
    <3>1. D # {} /\ D = {f[x] : x \in DOMAIN f}
      BY <1>4, <1>7, <2>1, ListsSome
    <3> QED
      BY <2>5, <3>1 DEF InFront
  <2>7. /\ \A k \in 1 .. m : InFront(gr, k) = InFront(fr, k)
        /\ \A k \in 0 .. m : Placed(gr, k) = Placed(fr, k)
    BY <2>2, <2>4, FrontsKept
  <2>8. Placed(gr, m + 1) = Placed(fr, m) \cup D
    <3>1. Placed(gr, m + 1) = Placed(gr, m) \cup InFront(gr, m + 1)
      BY PlacedMore
    <3>2. m \in 0 .. m
      OBVIOUS
    <3> QED
      BY <2>6, <2>7, <3>1, <3>2
  <2>9. D \cap Placed(fr, m) = {}
    BY <1>1, <1>3, <1>4, DueIsNew
  <2>10. \A k \in 1 .. (m + 1) : k \in 1 .. m \/ k = m + 1
    OBVIOUS
  <2>11. \A k \in 1 .. m : k \in 0 .. m /\ k - 1 \in 0 .. m
    OBVIOUS
  <2>12. m + 1 - 1 = m /\ m \in 0 .. m /\ m \in 1 .. m /\ 1 \in 1 .. m
    BY <1>4
  <2>13. new \in Layers(n)
    BY <2>3, <2>4, <2>5 DEF Layers
  <2>14. \A k \in 1 .. (m + 1) : \A x, y \in DOMAIN gr[k] : gr[k][x] = gr[k][y] => x = y
    <3>1. \A k \in 1 .. m : \A x, y \in DOMAIN gr[k] : gr[k][x] = gr[k][y] => x = y
      <4>1. \A k \in 1 .. m : \A x, y \in DOMAIN fr[k] : fr[k][x] = fr[k][y] => x = y
        BY <1>1, <2>4 DEF Layered
      <4> QED
        BY <2>5, <4>1
    <3>2. \A x, y \in DOMAIN f : f[x] = f[y] => x = y
      BY <1>4, <2>1 DEF Lists
    <3> QED
      BY <2>5, <2>10, <3>1, <3>2
  <2>15. \A k \in 1 .. (m + 1) : InFront(gr, k) \cap Placed(gr, k - 1) = {}
    <3>1. \A k \in 1 .. m : InFront(gr, k) \cap Placed(gr, k - 1) = {}
      BY <1>1, <2>4, <2>7, <2>11 DEF Layered
    <3>2. InFront(gr, m + 1) \cap Placed(gr, m + 1 - 1) = {}
      BY <2>6, <2>7, <2>9, <2>12
    <3> QED
      BY <2>10, <3>1, <3>2
  <2>16. \A q \in 1 .. n : done.count[q] = Cardinality(Owed(dom, gr, m, q))
    <3>1. \A q \in 1 .. n : Owed(dom, gr, m, q) = Owed(dom, fr, m, q)
      BY <2>7, <2>12 DEF Owed
    <3> QED
      BY <1>4, <3>1
  <2>17. \A q \in 1 .. n : q \in InFront(gr, 1) <=> dom[q] = {}
    BY <1>1, <2>7, <2>12 DEF Layered
  <2>18. \A k \in 2 .. (m + 1) : \A q \in InFront(gr, k) :
           /\ dom[q] \subseteq Placed(gr, k - 1)
           /\ \E p \in dom[q] : p \in InFront(gr, k - 1)
    <3> SUFFICES ASSUME NEW k \in 2 .. (m + 1), NEW q \in InFront(gr, k)
                 PROVE  /\ dom[q] \subseteq Placed(gr, k - 1)
                        /\ \E p \in dom[q] : p \in InFront(gr, k - 1)
      OBVIOUS
    <3>1. CASE k \in 2 .. m
      <4>1. k \in 1 .. m /\ k - 1 \in 1 .. m /\ k - 1 \in 0 .. m
        BY <3>1
      <4>2. q \in InFront(fr, k)
        BY <2>7, <4>1
      <4>3. dom[q] \subseteq Placed(fr, k - 1) /\ \E p \in dom[q] : p \in InFront(fr, k - 1)
        BY <1>1, <2>4, <3>1, <4>2 DEF Layered
      <4> QED
        BY <2>7, <4>1, <4>3
    <3>2. CASE k = m + 1
      <4>1. q \in D
        BY <2>6, <3>2
      <4>2. ~(dom[q] \subseteq Placed(fr, m - 1)) /\ dom[q] \subseteq Placed(fr, m)
        BY <1>3, <4>1 DEF Due
      <4>3. PICK p \in dom[q] : p \notin Placed(fr, m - 1) /\ p \in Placed(fr, m)
        BY <4>2
      <4>4. PICK j \in Nat : m = j + 1 /\ m - 1 = j
        BY <1>4
      <4>5. Placed(fr, j + 1) = Placed(fr, j) \cup InFront(fr, j + 1)
        BY PlacedMore
      <4>6. p \in InFront(fr, m)
        BY <4>3, <4>4, <4>5
      <4> QED
        BY <2>7, <2>12, <3>2, <4>2, <4>6
    <3> QED
      BY <3>1, <3>2
  <2>19. \A q \in 1 .. n : dom[q] \subseteq Placed(gr, m) => q \in Placed(gr, m + 1)
    <3> SUFFICES ASSUME NEW q \in 1 .. n, dom[q] \subseteq Placed(gr, m)
                 PROVE  q \in Placed(gr, m + 1)
      OBVIOUS
    <3>1. dom[q] \subseteq Placed(fr, m)
      BY <2>7, <2>12
    <3>2. CASE dom[q] \subseteq Placed(fr, m - 1)
      <4>1. q \in Placed(fr, m)
        BY <1>1, <2>4, <3>2 DEF Layered
      <4> QED
        BY <2>8, <4>1
    <3>3. CASE ~(dom[q] \subseteq Placed(fr, m - 1))
      <4>1. q \in D
        BY <1>3, <3>1, <3>3 DEF Due
      <4> QED
        BY <2>8, <4>1
    <3> QED
      BY <3>2, <3>3
  <2>20. new.fronts = gr /\ new.count = done.count /\ Len(new.fronts) = m + 1
    BY <2>3, <2>5
  <2>21. Layered(new, dom, n)
    BY <2>12, <2>13, <2>14, <2>15, <2>16, <2>17, <2>18, <2>19, <2>20 DEF Layered
  <2>22. Grown(new, acc, dom, n, m)
    BY <1>1, <1>3, <2>6, <2>8, <2>20 DEF Grown
  <2> QED
    BY <2>21, <2>22
<1> QED
  BY <1>6, <1>7

(* Weights by which a dominator is always the lighter one.                  *)
Weighs(w, dom, n) ==
  /\ \A q \in 1 .. n : w[q] \in Nat
  /\ \A q \in 1 .. n : \A p \in dom[q] : p \in 1 .. n /\ w[p] < w[q]

HoldsAll(T, dom, n) == \A q \in 1 .. n : dom[q] \subseteq T => q \in T

(* A set that holds every member with all its dominators holds all members,  *)
(* dominance having no cycle: a lightest one outside would belong to it.     *)
LEMMA AllPlaced ==
  ASSUME NEW n \in Nat, NEW dom, NEW T, NEW w, Weighs(w, dom, n), HoldsAll(T, dom, n)
  PROVE  \A q \in 1 .. n : q \in T
<1> SUFFICES ASSUME NEW z \in 1 .. n, z \notin T
             PROVE  FALSE
  OBVIOUS
<1>1. PICK ws : ws = {w[q] : q \in {x \in 1 .. n : x \notin T}}
  OBVIOUS
<1>2. ws \subseteq Nat /\ ws # {}
  BY <1>1 DEF Weighs
<1>3. PICK v \in ws : \A u \in ws : v <= u
  BY <1>2, LeastNatural
<1>4. PICK q \in 1 .. n : q \notin T /\ w[q] = v
  BY <1>1, <1>3
<1>5. PICK p \in dom[q] : p \notin T
  BY <1>4 DEF HoldsAll
<1>6. p \in 1 .. n /\ w[p] < w[q] /\ w[p] \in ws
  BY <1>1, <1>5 DEF Weighs
<1>7. w[p] \in Nat /\ w[q] \in Nat /\ w[q] <= w[p]
  BY <1>3, <1>4, <1>6 DEF Weighs
<1> QED
  BY <1>6, <1>7

(* Plans with whole numbers of vehicles and costs; the dominators of each.    *)
Plans(pop, n) ==
  /\ DOMAIN pop = 1 .. n /\ Len(pop) = n
  /\ \A i \in 1 .. n : pop[i].used \in Nat /\ pop[i].cost \in Nat

Dominators(pop, n) == [q \in 1 .. n |-> {p \in 1 .. n : Dominates(pop[p], pop[q])}]

(* The pairs that the sort notes are those of the dominators.                *)
LEMMA PlansPair ==
  ASSUME NEW n \in Nat, NEW pop, Plans(pop, n)
  PROVE  Pairing(DominatedPairs(pop), Dominators(pop, n), n)
<1>1. DOMAIN pop = 1 .. n
  BY DEF Plans
<1>2. PICK dom : dom = Dominators(pop, n)
  OBVIOUS
<1>3. dom = [q \in 1 .. n |-> {p \in 1 .. n : Dominates(pop[p], pop[q])}]
  BY <1>2 DEF Dominators
<1>4. dom \in [1 .. n -> SUBSET (1 .. n)]
  BY <1>3
<1>5. ASSUME NEW p \in 1 .. n, NEW q \in 1 .. n
      PROVE  <<p, q>> \in DominatedPairs(pop) <=> p \in dom[q]
  BY <1>1, <1>3 DEF DominatedPairs
<1> QED
  BY <1>2, <1>4, <1>5 DEF Pairing

(* The sort starts with the first front and all dominators counted.          *)
LEMMA FirstRound ==
  ASSUME NEW n \in Nat, NEW pairs, NEW dom, Pairing(pairs, dom, n), NEW base,
         base = [count |-> [q \in 1 .. n |-> Cardinality({p \in 1 .. n : <<p, q>> \in pairs})],
                 fronts |-> <<Undominated(pairs, n)>>]
  PROVE  Layered(base, dom, n) /\ Len(base.fronts) = 1
<1>1. PICK u : u = Undominated(pairs, n)
  OBVIOUS
<1>2. PICK S : S = {q \in 1 .. n : dom[q] = {}}
  OBVIOUS
<1>3. Lists(u, S)
  BY <1>1, <1>2, UndominatedListed
<1>4. u \in Seq(1 .. n)
  <2>1. u \in Seq(S)
    BY <1>3 DEF Lists
  <2>2. \A x \in DOMAIN u : u[x] \in 1 .. n
    BY <1>2, <2>1
  <2> QED
    BY <2>1, <2>2
<1>5. PICK fr : fr = <<u>>
  OBVIOUS
<1>6. fr \in Seq(Seq(1 .. n)) /\ fr # << >> /\ Len(fr) = 1 /\ fr[1] = u
  BY <1>4, <1>5
<1>7. PICK count : count = [q \in 1 .. n |-> Cardinality({p \in 1 .. n : <<p, q>> \in pairs})]
  OBVIOUS
<1>8. base.count = count /\ base.fronts = fr /\ base = [count |-> count, fronts |-> fr]
  BY <1>1, <1>5, <1>7
<1>9. Placed(fr, 0) = {}
  BY DEF Placed
<1>10. \A q \in 1 .. n : {p \in 1 .. n : <<p, q>> \in pairs} = dom[q]
  BY DEF Pairing
<1>11. \A q \in 1 .. n : Owed(dom, fr, 0, q) = dom[q]
  BY <1>9 DEF Owed
<1>12. \A q \in 1 .. n : count[q] = Cardinality(Owed(dom, fr, 0, q))
  BY <1>7, <1>10, <1>11
<1>13. \A q \in 1 .. n : IsFiniteSet(dom[q]) /\ Cardinality(dom[q]) \in Nat
  <2>1. IsFiniteSet(1 .. n)
    BY FS_Interval
  <2>2. \A q \in 1 .. n : dom[q] \in SUBSET (1 .. n)
    BY DEF Pairing
  <2> QED
    BY <2>1, <2>2, FS_Subset, FS_CardinalityType
<1>14. count \in [1 .. n -> Int]
  <2>1. \A q \in 1 .. n : count[q] \in Int
    BY <1>11, <1>12, <1>13
  <2> QED
    BY <1>7, <2>1
<1>15. base \in Layers(n)
  BY <1>6, <1>8, <1>14 DEF Layers
<1>16. InFront(fr, 1) = S
  <2>1. \A x \in DOMAIN u : u[x] \in S
    BY <1>3 DEF Lists
  <2>2. \A w \in S : \E x \in DOMAIN u : u[x] = w
    BY <1>3 DEF Lists
  <2> QED
    BY <1>6, <2>1, <2>2 DEF InFront
<1>17. Placed(fr, 1) = S
  <2>1. \A z : z \in Placed(fr, 1) <=> \E j \in 1 .. 1 : z \in InFront(fr, j)
    BY DEF Placed
  <2>2. \A z : z \in Placed(fr, 1) <=> z \in S
    BY <1>16, <2>1
  <2> QED
    BY <2>2
<1>18. \A x, y \in DOMAIN u : u[x] = u[y] => x = y
  BY <1>3 DEF Lists
<1>19. 1 - 1 = 0 /\ 2 .. 1 = {} /\ 1 .. 1 = {1}
  OBVIOUS
<1>20. \A q \in 1 .. n : q \in InFront(fr, 1) <=> dom[q] = {}
  BY <1>2, <1>16
<1>21. \A q \in 1 .. n : dom[q] \subseteq Placed(fr, 0) => q \in Placed(fr, 1)
  BY <1>2, <1>9, <1>17
<1>22. /\ \A k \in 1 .. Len(fr) : \A x, y \in DOMAIN fr[k] : fr[k][x] = fr[k][y] => x = y
       /\ \A k \in 1 .. Len(fr) : InFront(fr, k) \cap Placed(fr, k - 1) = {}
       /\ \A k \in 2 .. Len(fr) : FALSE
       /\ Len(fr) - 1 = 0
  BY <1>6, <1>9, <1>18, <1>19
<1>23. /\ Len(base.fronts) = 1 /\ Len(base.fronts) - 1 = 0
       /\ base.fronts = fr /\ base.count = count /\ Len(fr) = 1
  BY <1>6, <1>8
<1>24. \A k \in 1 .. Len(base.fronts) : \A x, y \in DOMAIN base.fronts[k] :
         base.fronts[k][x] = base.fronts[k][y] => x = y
  BY <1>22, <1>23
<1>25. \A k \in 1 .. Len(base.fronts) :
         InFront(base.fronts, k) \cap Placed(base.fronts, k - 1) = {}
  BY <1>22, <1>23
<1>26. \A q \in 1 .. n :
         base.count[q] = Cardinality(Owed(dom, base.fronts, Len(base.fronts) - 1, q))
  BY <1>12, <1>23
<1>27. \A k \in 2 .. Len(base.fronts) : FALSE
  BY <1>22, <1>23
<1>28. /\ \A q \in 1 .. n : q \in InFront(base.fronts, 1) <=> dom[q] = {}
       /\ \A q \in 1 .. n :
            dom[q] \subseteq Placed(base.fronts, Len(base.fronts) - 1)
              => q \in Placed(base.fronts, Len(base.fronts))
  BY <1>20, <1>21, <1>23
<1> QED
  BY <1>15, <1>23, <1>24, <1>25, <1>26, <1>27, <1>28 DEF Layered

Start(pairs, n) ==
  [count |-> [q \in 1 .. n |-> Cardinality({p \in 1 .. n : <<p, q>> \in pairs})],
   fronts |-> <<Undominated(pairs, n)>>]

Sorting(it, pop, dom, n) ==
  /\ it[0] = Start(DominatedPairs(pop), n)
  /\ \A i \in 1 .. n : it[i] = NextFront(DominatedPairs(pop), n, it[i - 1])
  /\ \A i \in 0 .. n : Layered(it[i], dom, n)
  /\ Fronts(pop) = it[n].fronts

(* The loop over the fronts, as _non_dominated_sort runs it.                 *)
LEMMA FrontsRuns ==
  ASSUME NEW n \in Nat, NEW pop, Plans(pop, n), NEW dom, dom = Dominators(pop, n)
  PROVE  \E it : Sorting(it, pop, dom, n)
<1>1. PICK pairs : pairs = DominatedPairs(pop)
  OBVIOUS
<1>2. Pairing(pairs, dom, n)
  BY <1>1, PlansPair
<1>3. PICK base : base = Start(pairs, n)
  OBVIOUS
<1>4. PICK V : V = {acc \in Layers(n) : Layered(acc, dom, n)}
  OBVIOUS
<1>5. \A acc : acc \in V <=> Layered(acc, dom, n)
  BY <1>4 DEF Layered
<1>6. base \in V
  <2>1. Layered(base, dom, n)
    BY <1>2, <1>3, FirstRound DEF Start
  <2> QED
    BY <1>5, <2>1
<1>7. ASSUME NEW v \in V
      PROVE  NextFront(pairs, n, v) \in V
  <2>1. Layered(v, dom, n)
    BY <1>5
  <2>2. v \in Layers(n)
    BY <2>1 DEF Layered
  <2>3. PICK m \in Nat : m = Len(v.fronts)
    <3>1. v.fronts \in Seq(Seq(1 .. n))
      BY <2>2 DEF Layers
    <3> QED
      BY <3>1
  <2>4. PICK new : new = NextFront(pairs, n, v)
    OBVIOUS
  <2>5. Layered(new, dom, n)
    BY <1>2, <2>1, <2>3, <2>4, NextIsLayered
  <2> QED
    BY <1>5, <2>4, <2>5
<1>8. PICK G : G = [iv \in (1 .. n) \X V |-> NextFront(pairs, n, iv[2])]
  OBVIOUS
<1>9. \A i \in 1 .. n, v \in V : G[<<i, v>>] = NextFront(pairs, n, v) /\ G[<<i, v>>] \in V
  BY <1>7, <1>8
<1>10. PICK g \in [0 .. n -> V] : Runs(g, n, base, G)
  BY <1>6, <1>9, RunExists
<1>11. PICK it : it = CHOOSE loop : loop = [i \in 0 .. n |->
          IF i = 0 THEN base ELSE NextFront(pairs, n, loop[i - 1])]
  OBVIOUS
<1>12. Fronts(pop) = it[n].fronts
  <2>1. n = Len(pop)
    BY DEF Plans
  <2> QED
    BY <1>1, <1>3, <1>11, <2>1 DEF Fronts, Start
<1>13. it = [i \in 0 .. n |-> IF i = 0 THEN base ELSE NextFront(pairs, n, it[i - 1])]
  <2>1. g = [i \in 0 .. n |-> IF i = 0 THEN base ELSE NextFront(pairs, n, g[i - 1])]
    <3>1. ASSUME NEW i \in 0 .. n
          PROVE  g[i] = IF i = 0 THEN base ELSE NextFront(pairs, n, g[i - 1])
      <4>1. CASE i = 0
        BY <1>10, <4>1 DEF Runs
      <4>2. CASE i # 0
        <5>1. i \in 1 .. n /\ i - 1 \in 0 .. n
          BY <4>2
        <5>2. g[i - 1] \in V /\ g[i] = G[<<i, g[i - 1]>>]
          BY <1>10, <5>1 DEF Runs
        <5> QED
          BY <1>9, <4>2, <5>1, <5>2
      <4> QED
        BY <4>1, <4>2
    <3>2. g = [i \in 0 .. n |-> g[i]]
      BY <1>10
    <3> QED
      BY <3>1, <3>2
  <2> QED
    BY <1>11, <2>1
<1>14. /\ it[0] = base
       /\ \A i \in 1 .. n : it[i] = NextFront(pairs, n, it[i - 1])
  <2>1. \A i \in 1 .. n : i \in 0 .. n /\ i # 0
    OBVIOUS
  <2> QED
    BY <1>13, <2>1
<1>15. \A i \in 0 .. n : it[i] \in V
  <2>1. PICK good : good = {i \in 0 .. n : it[i] \in V}
    OBVIOUS
  <2>2. 0 \in good
    BY <1>6, <1>14, <2>1
  <2>3. ASSUME NEW i \in 1 .. n, i - 1 \in good
        PROVE  i \in good
    <3>1. it[i - 1] \in V
      BY <2>1, <2>3
    <3>2. NextFront(pairs, n, it[i - 1]) \in V
      BY <1>7, <3>1
    <3> QED
      BY <1>14, <2>1, <3>2
  <2>4. \A i \in 0 .. n : i \in good
    BY <2>2, <2>3, UpTo
  <2> QED
    BY <2>1, <2>4
<1> QED
  BY <1>1, <1>3, <1>5, <1>12, <1>14, <1>15 DEF Sorting

(* The fronts of a partial sort hold at most all members.                    *)
LEMMA PlacedFinite ==
  ASSUME NEW n \in Nat, NEW dom, NEW acc, Layered(acc, dom, n),
         NEW k \in 0 .. Len(acc.fronts)
  PROVE  /\ Placed(acc.fronts, k) \in SUBSET (1 .. n)
         /\ IsFiniteSet(Placed(acc.fronts, k)) /\ Cardinality(Placed(acc.fronts, k)) \in Nat
         /\ Cardinality(Placed(acc.fronts, k)) <= n
<1>1. PICK fr : fr = acc.fronts
  OBVIOUS
<1>2. fr \in Seq(Seq(1 .. n))
  BY <1>1 DEF Layered, Layers
<1>3. ASSUME NEW j \in 1 .. k
      PROVE  InFront(fr, j) \subseteq 1 .. n
  <2>1. fr[j] \in Seq(1 .. n)
    BY <1>1, <1>2
  <2> QED
    BY <2>1 DEF InFront
<1>4. PICK T : T = Placed(fr, k)
  OBVIOUS
<1>5. T \in SUBSET (1 .. n)
  BY <1>3, <1>4 DEF Placed
<1>6. IsFiniteSet(1 .. n) /\ Cardinality(1 .. n) = n
  <2>1. IsFiniteSet(1 .. n) /\ Cardinality(1 .. n) = IF 1 > n THEN 0 ELSE n - 1 + 1
    BY FS_Interval
  <2>2. (IF 1 > n THEN 0 ELSE n - 1 + 1) = n
    OBVIOUS
  <2> QED
    BY <2>1, <2>2
<1>7. IsFiniteSet(T) /\ Cardinality(T) <= Cardinality(1 .. n)
  BY <1>5, <1>6, FS_Subset
<1>8. Cardinality(T) \in Nat
  BY <1>7, FS_CardinalityType
<1> QED
  BY <1>1, <1>4, <1>5, <1>6, <1>7, <1>8

Sorted(acc) == Placed(acc.fronts, Len(acc.fronts))

(* Vehicles and cost together are less in a dominator.                       *)
LEMMA DominatorsCheaper ==
  ASSUME NEW n \in Nat, NEW pop, Plans(pop, n), NEW dom, dom = Dominators(pop, n)
  PROVE  \E w : Weighs(w, dom, n)
<1>1. PICK w : w = [q \in 1 .. n |-> pop[q].used + pop[q].cost]
  OBVIOUS
<1>2. \A q \in 1 .. n : w[q] = pop[q].used + pop[q].cost /\ pop[q].used \in Nat /\ pop[q].cost \in Nat
  BY <1>1 DEF Plans
<1>3. \A q \in 1 .. n : w[q] \in Nat
  BY <1>2
<1>4. ASSUME NEW q \in 1 .. n, NEW p \in dom[q]
      PROVE  p \in 1 .. n /\ w[p] < w[q]
  <2>1. p \in 1 .. n /\ Dominates(pop[p], pop[q])
    BY DEF Dominators
  <2>2. PICK a \in Nat : a = pop[p].used
    BY <1>2, <2>1
  <2>3. PICK b \in Nat : b = pop[p].cost
    BY <1>2, <2>1
  <2>4. PICK c \in Nat : c = pop[q].used
    BY <1>2
  <2>5. PICK d \in Nat : d = pop[q].cost
    BY <1>2
  <2>6. a <= c /\ b <= d /\ (a < c \/ b < d)
    BY <2>1, <2>2, <2>3, <2>4, <2>5 DEF Dominates
  <2>7. a + b < c + d
    BY <2>6
  <2> QED
    BY <1>2, <2>1, <2>2, <2>3, <2>4, <2>5, <2>7
<1> QED
  BY <1>3, <1>4 DEF Weighs

(* No more rounds than members place all of them: a round that adds no       *)
(* front has nothing left to place.                                          *)
LEMMA SortEnds ==
  ASSUME NEW n \in Nat, n >= 1, NEW pop, Plans(pop, n), NEW dom, dom = Dominators(pop, n),
         NEW it, Sorting(it, pop, dom, n)
  PROVE  \A q \in 1 .. n : q \in Sorted(it[n])
<1>1. PICK w : Weighs(w, dom, n)
  BY DominatorsCheaper
<1>2. ASSUME NEW T, \A q \in 1 .. n : dom[q] \subseteq T => q \in T
        PROVE  \A q \in 1 .. n : q \in T
  <2>1. HoldsAll(T, dom, n)
    BY <1>2 DEF HoldsAll
  <2> QED
    BY <1>1, <2>1, AllPlaced
<1>3. PICK pairs : pairs = DominatedPairs(pop)
  OBVIOUS
<1>4. Pairing(pairs, dom, n)
  BY <1>3, PlansPair
<1>5. ASSUME NEW i \in 0 .. n
      PROVE  /\ Layered(it[i], dom, n)
             /\ Len(it[i].fronts) \in Nat /\ Len(it[i].fronts) >= 1
             /\ Sorted(it[i]) \in SUBSET (1 .. n)
             /\ IsFiniteSet(Sorted(it[i])) /\ Cardinality(Sorted(it[i])) \in Nat
             /\ Cardinality(Sorted(it[i])) <= n
  <2>1. PICK acc : acc = it[i]
    OBVIOUS
  <2>2. Layered(acc, dom, n)
    BY <2>1 DEF Sorting
  <2>3. PICK m \in Nat : m = Len(acc.fronts) /\ m >= 1
    <3>1. acc.fronts \in Seq(Seq(1 .. n)) /\ acc.fronts # << >>
      BY <2>2 DEF Layered, Layers
    <3> QED
      BY <3>1
  <2>4. m \in 0 .. Len(acc.fronts)
    BY <2>3
  <2>5. /\ Placed(acc.fronts, m) \in SUBSET (1 .. n)
        /\ IsFiniteSet(Placed(acc.fronts, m)) /\ Cardinality(Placed(acc.fronts, m)) \in Nat
        /\ Cardinality(Placed(acc.fronts, m)) <= n
    BY <2>2, <2>4, PlacedFinite
  <2> QED
    BY <2>1, <2>2, <2>3, <2>5 DEF Sorted
<1>6. PICK good : good = {i \in 0 .. n : \/ \A q \in 1 .. n : q \in Sorted(it[i])
                                         \/ Cardinality(Sorted(it[i])) >= i + 1}
  OBVIOUS
<1>7. 0 \in good
  <2>1. 0 \in 0 .. n
    OBVIOUS
  <2>2. Layered(it[0], dom, n) /\ Len(it[0].fronts) >= 1 /\ Len(it[0].fronts) \in Nat
        /\ IsFiniteSet(Sorted(it[0])) /\ Cardinality(Sorted(it[0])) \in Nat
    BY <1>5, <2>1
  <2>3. PICK q \in 1 .. n : dom[q] = {}
    <3> SUFFICES ASSUME \A q \in 1 .. n : dom[q] # {}
                 PROVE  FALSE
      OBVIOUS
    <3>1. PICK T : T = {}
      OBVIOUS
    <3>2. \A q \in 1 .. n : dom[q] \subseteq T => q \in T
      BY <3>1
    <3>3. \A q \in 1 .. n : q \in T
      BY <1>2, <3>2
    <3> QED
      BY <3>1, <3>3
  <2>4. q \in InFront(it[0].fronts, 1)
    BY <2>2, <2>3 DEF Layered
  <2>5. q \in Sorted(it[0])
    <3>1. 1 \in 1 .. Len(it[0].fronts)
      BY <2>2
    <3> QED
      BY <2>4, <3>1 DEF Sorted, Placed
  <2>6. Cardinality(Sorted(it[0])) # 0
    BY <2>2, <2>5, FS_EmptySet
  <2>7. Cardinality(Sorted(it[0])) >= 0 + 1
    BY <2>2, <2>6
  <2> QED
    BY <1>6, <2>1, <2>7
<1>8. ASSUME NEW i \in 1 .. n, i - 1 \in good
      PROVE  i \in good
  <2>1. i - 1 \in 0 .. n /\ i \in 0 .. n
    OBVIOUS
  <2>2. PICK acc : acc = it[i - 1]
    OBVIOUS
  <2>3. PICK new : new = it[i]
    OBVIOUS
  <2>4. new = NextFront(pairs, n, acc)
    BY <1>3, <2>2, <2>3 DEF Sorting
  <2>5. PICK m \in Nat : m = Len(acc.fronts) /\ m >= 1 /\ Layered(acc, dom, n)
    BY <1>5, <2>1, <2>2
  <2>6. PICK T : T = Placed(acc.fronts, m) /\ T = Sorted(it[i - 1])
    BY <2>2, <2>5 DEF Sorted
  <2>7. PICK D : D = Due(dom, acc.fronts, m, n)
    OBVIOUS
  <2>8. (new = acc /\ D = {}) \/ Grown(new, acc, dom, n, m)
    BY <1>4, <2>4, <2>5, <2>7, NextIsLayered
  <2>9. CASE new = acc /\ D = {}
    <3>1. ASSUME NEW q \in 1 .. n, dom[q] \subseteq T
          PROVE  q \in T
      <4>1. CASE dom[q] \subseteq Placed(acc.fronts, m - 1)
        BY <2>5, <2>6, <4>1 DEF Layered
      <4>2. CASE ~(dom[q] \subseteq Placed(acc.fronts, m - 1))
        <5>1. q \in D
          BY <2>6, <2>7, <3>1, <4>2 DEF Due
        <5> QED
          BY <2>9, <5>1
      <4> QED
        BY <4>1, <4>2
    <3>2. \A q \in 1 .. n : q \in T
      BY <1>2, <3>1
    <3>3. Sorted(it[i]) = T
      BY <2>2, <2>3, <2>6, <2>9
    <3> QED
      BY <1>6, <2>1, <3>2, <3>3
  <2>10. CASE Grown(new, acc, dom, n, m)
    <3>1. PICK U : U = Sorted(it[i])
      OBVIOUS
    <3>2. U = T \cup D /\ D # {}
      <4>1. Len(new.fronts) = m + 1
        BY <2>10 DEF Grown
      <4>2. Placed(new.fronts, m + 1) = T \cup D /\ D # {}
        BY <2>6, <2>7, <2>10 DEF Grown
      <4> QED
        BY <2>3, <3>1, <4>1, <4>2 DEF Sorted
    <3>3. D \cap T = {}
      BY <2>5, <2>6, <2>7, DueIsNew
    <3>4. PICK d \in D : d \notin T /\ d \in U
      BY <3>2, <3>3
    <3>5. IsFiniteSet(U) /\ U \in SUBSET (1 .. n) /\ IsFiniteSet(T) /\ Cardinality(T) \in Nat
      BY <1>5, <2>1, <2>6, <3>1
    <3>6. PICK R : R = U \ {d}
      OBVIOUS
    <3>7. IsFiniteSet(R) /\ Cardinality(R) \in Nat /\ Cardinality(U) = Cardinality(R) + 1
      BY <3>4, <3>5, <3>6, LessOne
    <3>8. T \in SUBSET R
      BY <3>2, <3>4, <3>6
    <3>9. Cardinality(T) <= Cardinality(R)
      BY <3>7, <3>8, FS_Subset
    <3>10. ~(\A q \in 1 .. n : q \in T)
      BY <3>4, <3>5
    <3>11. Cardinality(T) >= i - 1 + 1
      BY <1>6, <1>8, <2>6, <3>10
    <3>12. PICK t \in Nat : t = Cardinality(T)
      BY <3>5
    <3>13. PICK r \in Nat : r = Cardinality(R)
      BY <3>7
    <3>14. r + 1 >= i + 1
      BY <3>9, <3>11, <3>12, <3>13
    <3>15. Cardinality(Sorted(it[i])) >= i + 1
      BY <3>1, <3>7, <3>13, <3>14
    <3> QED
      BY <1>6, <2>1, <3>15
  <2> QED
    BY <2>8, <2>9, <2>10
<1>9. \A i \in 0 .. n : i \in good
  BY <1>7, <1>8, UpTo
<1>10. n \in 0 .. n
  OBVIOUS
<1>11. PICK c \in Nat : c = Cardinality(Sorted(it[n])) /\ c <= n
  BY <1>5, <1>10
<1>12. ~(c >= n + 1)
  BY <1>11
<1> QED
  BY <1>6, <1>9, <1>10, <1>11, <1>12

FrontsSound(f, pop, n) ==
  /\ f \in Seq(Seq(1 .. n)) /\ Len(f) >= 1
  /\ \A k \in 1 .. Len(f) : \A x, y \in DOMAIN f[k] : f[k][x] = f[k][y] => x = y
  /\ \A k \in 1 .. Len(f) : InFront(f, k) \cap Placed(f, k - 1) = {}
  /\ \A q \in 1 .. n :
       q \in InFront(f, 1) <=> \A p \in 1 .. n : ~Dominates(pop[p], pop[q])
  /\ \A k \in 2 .. Len(f) : \A q \in InFront(f, k) :
       /\ \A p \in 1 .. n : Dominates(pop[p], pop[q]) => p \in Placed(f, k - 1)
       /\ \E p \in InFront(f, k - 1) : Dominates(pop[p], pop[q])
  /\ \A q \in 1 .. n : q \in Placed(f, Len(f))

(* What the finished sort returns.                                           *)
LEMMA FrontsAreSound ==
  ASSUME NEW n \in Nat, n >= 1, NEW pop, Plans(pop, n)
  PROVE  FrontsSound(Fronts(pop), pop, n)
<1>1. PICK dom : dom = Dominators(pop, n)
  OBVIOUS
<1>2. PICK it : Sorting(it, pop, dom, n)
  BY <1>1, FrontsRuns
<1>3. PICK acc : acc = it[n]
  OBVIOUS
<1>4. PICK f : f = Fronts(pop) /\ f = acc.fronts
  BY <1>2, <1>3 DEF Sorting
<1>5. Layered(acc, dom, n)
  <2>1. n \in 0 .. n
    OBVIOUS
  <2> QED
    BY <1>2, <1>3, <2>1 DEF Sorting
<1>6. \A q \in 1 .. n : q \in Placed(f, Len(f))
  <2>1. \A q \in 1 .. n : q \in Sorted(it[n])
    BY <1>1, <1>2, SortEnds
  <2> QED
    BY <1>3, <1>4, <2>1 DEF Sorted
<1>7. f \in Seq(Seq(1 .. n)) /\ f # << >>
  BY <1>4, <1>5 DEF Layered, Layers
<1>8. Len(f) >= 1 /\ Len(f) \in Nat
  BY <1>7
<1>9. \A q \in 1 .. n : dom[q] = {p \in 1 .. n : Dominates(pop[p], pop[q])}
  BY <1>1 DEF Dominators
<1>10. \A q \in 1 .. n : q \in InFront(f, 1) <=> \A p \in 1 .. n : ~Dominates(pop[p], pop[q])
  <2>1. \A q \in 1 .. n : q \in InFront(f, 1) <=> dom[q] = {}
    BY <1>4, <1>5 DEF Layered
  <2> QED
    BY <1>9, <2>1
<1>11. ASSUME NEW k \in 2 .. Len(f), NEW q \in InFront(f, k)
       PROVE  /\ \A p \in 1 .. n : Dominates(pop[p], pop[q]) => p \in Placed(f, k - 1)
              /\ \E p \in InFront(f, k - 1) : Dominates(pop[p], pop[q])
  <2>1. dom[q] \subseteq Placed(f, k - 1) /\ \E p \in dom[q] : p \in InFront(f, k - 1)
    BY <1>4, <1>5 DEF Layered
  <2>2. q \in 1 .. n
    <3>1. f[k] \in Seq(1 .. n)
      BY <1>7, <1>8
    <3> QED
      BY <3>1 DEF InFront
  <2>3. PICK d : d = dom[q] /\ \A p : p \in d <=> p \in 1 .. n /\ Dominates(pop[p], pop[q])
    BY <1>9, <2>2
  <2> QED
    BY <2>1, <2>3
<1>12. /\ \A k \in 1 .. Len(f) : \A x, y \in DOMAIN f[k] : f[k][x] = f[k][y] => x = y
       /\ \A k \in 1 .. Len(f) : InFront(f, k) \cap Placed(f, k - 1) = {}
  BY <1>4, <1>5 DEF Layered
<1>13. FrontsSound(f, pop, n)
  BY <1>6, <1>7, <1>8, <1>10, <1>11, <1>12 DEF FrontsSound
<1> QED
  BY <1>4, <1>13

(* A member is in exactly one of the fronts.                                 *)
LEMMA OneFront ==
  ASSUME NEW n \in Nat, NEW pop, NEW f, FrontsSound(f, pop, n), NEW q \in 1 .. n
  PROVE  \E k \in DOMAIN f : {j \in DOMAIN f : q \in InFront(f, j)} = {k}
<1>1. PICK m \in Nat : m = Len(f) /\ DOMAIN f = 1 .. m
  BY DEF FrontsSound
<1>2. PICK k \in 1 .. m : q \in InFront(f, k)
  BY <1>1 DEF FrontsSound, Placed
<1>3. ASSUME NEW i \in 1 .. m, NEW j \in 1 .. m, i < j, q \in InFront(f, i), q \in InFront(f, j)
      PROVE  FALSE
  <2>1. q \notin Placed(f, j - 1)
    BY <1>1, <1>3 DEF FrontsSound
  <2>2. i \in 1 .. (j - 1)
    BY <1>3
  <2> QED
    BY <1>3, <2>1, <2>2 DEF Placed
<1>4. \A j \in 1 .. m : q \in InFront(f, j) => j = k
  <2> SUFFICES ASSUME NEW j \in 1 .. m, q \in InFront(f, j), j # k
               PROVE  FALSE
    OBVIOUS
  <2>1. j < k \/ k < j
    OBVIOUS
  <2> QED
    BY <1>2, <1>3, <2>1
<1> QED
  BY <1>1, <1>2, <1>4

(* A sequence without repetitions is as long as it has elements.             *)
LEMMA ListedOnce ==
  ASSUME NEW S, NEW s \in Seq(S), \A x, y \in DOMAIN s : s[x] = s[y] => x = y
  PROVE  Cardinality({s[x] : x \in DOMAIN s}) = Len(s)
<1>1. PICK m \in Nat : m = Len(s) /\ DOMAIN s = 1 .. m
  OBVIOUS
<1>2. PICK D : D = 1 .. m
  OBVIOUS
<1>3. PICK R : R = {s[x] : x \in DOMAIN s}
  OBVIOUS
<1>4. s \in Bijection(D, R)
  <2>1. s \in [D -> R]
    BY <1>1, <1>2, <1>3
  <2>2. \A x, y \in D : s[x] = s[y] => x = y
    BY <1>1, <1>2
  <2>3. \A w \in R : \E x \in D : s[x] = w
    BY <1>1, <1>2, <1>3
  <2> QED
    BY <2>1, <2>2, <2>3 DEF Bijection, Injection, Surjection, IsInjective
<1>5. IsFiniteSet(D) /\ Cardinality(D) = m
  <2>1. IsFiniteSet(1 .. m) /\ Cardinality(1 .. m) = IF 1 > m THEN 0 ELSE m - 1 + 1
    BY FS_Interval
  <2>2. (IF 1 > m THEN 0 ELSE m - 1 + 1) = m
    OBVIOUS
  <2> QED
    BY <1>2, <2>1, <2>2
<1>6. Cardinality(R) = Cardinality(D)
  BY <1>4, <1>5, FS_Bijection DEF ExistsBijection
<1> QED
  BY <1>1, <1>3, <1>5, <1>6

(* The sort returns the layers of dominance, for every population whose      *)
(* vehicles and costs are natural numbers.                                   *)
LEMMA SortIsRight ==
  ASSUME NEW n \in Nat, n >= 1, Plans(members, n)
  PROVE  FrontsAreLayers
<1>1. PICK f : f = Fronts(members)
  OBVIOUS
<1>2. FrontsSound(f, members, n)
  BY <1>1, FrontsAreSound
<1>3. DOMAIN members = 1 .. n
  BY DEF Plans
<1>4. PICK m \in Nat : m = Len(f) /\ DOMAIN f = 1 .. m
  BY <1>2 DEF FrontsSound
<1>5. \A k \in 1 .. m : f[k] \in Seq(1 .. n)
  BY <1>2, <1>4 DEF FrontsSound
<1>6. ASSUME NEW p \in 1 .. n
      PROVE  Cardinality({k \in DOMAIN f : p \in InFront(f, k)}) = 1
  <2>1. PICK k \in DOMAIN f : {j \in DOMAIN f : p \in InFront(f, j)} = {k}
    BY <1>2, OneFront
  <2> QED
    BY <2>1, FS_Singleton
<1>7. ASSUME NEW k \in 1 .. m
      PROVE  /\ Cardinality(InFront(f, k)) = Len(f[k])
             /\ \A p, q \in InFront(f, k) : ~Dominates(members[p], members[q])
  <2>1. Cardinality(InFront(f, k)) = Len(f[k])
    <3>1. PICK s \in Seq(1 .. n) : s = f[k]
      BY <1>5
    <3>2. \A x, y \in DOMAIN s : s[x] = s[y] => x = y
      BY <1>2, <1>4, <3>1 DEF FrontsSound
    <3>3. Cardinality({s[x] : x \in DOMAIN s}) = Len(s)
      BY <3>2, ListedOnce
    <3> QED
      BY <3>1, <3>3 DEF InFront
  <2>2. ASSUME NEW p \in InFront(f, k), NEW q \in InFront(f, k), Dominates(members[p], members[q])
        PROVE  FALSE
    <3>1. p \in 1 .. n /\ q \in 1 .. n
      BY <1>5 DEF InFront
    <3>2. CASE k = 1
      BY <1>2, <2>2, <3>1, <3>2 DEF FrontsSound
    <3>3. CASE k # 1
      <4>1. k \in 2 .. m
        BY <3>3
      <4>2. p \in Placed(f, k - 1)
        BY <1>2, <1>4, <2>2, <3>1, <4>1 DEF FrontsSound
      <4>3. InFront(f, k) \cap Placed(f, k - 1) = {}
        BY <1>2, <1>4 DEF FrontsSound
      <4> QED
        BY <4>2, <4>3
    <3> QED
      BY <3>2, <3>3
  <2> QED
    BY <2>1, <2>2
<1>8. \A k \in 2 .. m : \A q \in InFront(f, k) : \E p \in InFront(f, k - 1) :
        Dominates(members[p], members[q])
  BY <1>2, <1>4 DEF FrontsSound
<1>9. FrontsAreLayers <=>
        /\ \A p \in DOMAIN members : Cardinality({k \in DOMAIN f : p \in InFront(f, k)}) = 1
        /\ \A k \in DOMAIN f : /\ Cardinality(InFront(f, k)) = Len(f[k])
                               /\ \A p, q \in InFront(f, k) : ~Dominates(members[p], members[q])
        /\ \A k \in 2 .. Len(f) : \A q \in InFront(f, k) : \E p \in InFront(f, k - 1) :
             Dominates(members[p], members[q])
  BY <1>1 DEF FrontsAreLayers, InFront
<1> QED
  BY <1>3, <1>4, <1>6, <1>7, <1>8, <1>9

-----------------------------------------------------------------------------
(* at[p] is the place from which the p-th of the sorted ones comes.          *)
Sorts(at, s, key, N) ==
  /\ at \in [1 .. N -> 1 .. N]
  /\ \A p, q \in 1 .. N : at[p] = at[q] => p = q
  /\ \A x \in 1 .. N : \E p \in 1 .. N : at[p] = x
  /\ SortedBy(s, key) = [p \in 1 .. N |-> s[at[p]]]
  /\ \A p, q \in 1 .. N : p < q => key[at[p]] <= key[at[q]]

(* sorted() permutes, by rising key: the CHOOSE of SortedBy finds exactly    *)
(* one element for each place.                                               *)
LEMMA SortingSorts ==
  ASSUME NEW N \in Nat, NEW s, DOMAIN s = 1 .. N, NEW key, \A x \in 1 .. N : key[x] \in Int
  PROVE  \E at : Sorts(at, s, key, N)
<1>1. PICK below : below = [x \in 1 .. N |->
        {y \in 1 .. N : key[y] < key[x] \/ (key[y] = key[x] /\ y < x)}]
  OBVIOUS
<1>2. \A x \in 1 .. N :
        below[x] = {y \in 1 .. N : key[y] < key[x] \/ (key[y] = key[x] /\ y < x)}
  BY <1>1
<1>3. /\ \A p \in 1 .. N : \E x \in 1 .. N : Cardinality(below[x]) = p - 1
      /\ \A x \in 1 .. N : Cardinality(below[x]) \in Nat /\ Cardinality(below[x]) + 1 \in 1 .. N
      /\ \A x, y \in 1 .. N : y \in below[x] => Cardinality(below[y]) < Cardinality(below[x])
  BY <1>2, RankNumbers, ZenonT(30)
<1>4. PICK at : at = [p \in 1 .. N |-> CHOOSE i \in 1 .. N : Cardinality(below[i]) = p - 1]
  OBVIOUS
<1>5. \A p \in 1 .. N : at[p] \in 1 .. N /\ Cardinality(below[at[p]]) = p - 1
  BY <1>3, <1>4
<1>6. SortedBy(s, key) = [p \in 1 .. N |-> s[at[p]]]
  <2>1. SortedBy(s, key) =
          [p \in 1 .. N |-> s[CHOOSE i \in 1 .. N :
             Cardinality({j \in 1 .. N : key[j] < key[i] \/ (key[j] = key[i] /\ j < i)}) = p - 1]]
    BY DEF SortedBy
  <2>2. \A p \in 1 .. N :
          at[p] = CHOOSE i \in 1 .. N :
             Cardinality({j \in 1 .. N : key[j] < key[i] \/ (key[j] = key[i] /\ j < i)}) = p - 1
    BY <1>2, <1>4
  <2> QED
    BY <2>1, <2>2
<1>7. ASSUME NEW p \in 1 .. N, NEW q \in 1 .. N, at[p] = at[q]
      PROVE  p = q
  <2>1. p - 1 = q - 1
    BY <1>5, <1>7
  <2> QED
    BY <2>1
<1>8. ASSUME NEW x \in 1 .. N, NEW y \in 1 .. N, Cardinality(below[x]) = Cardinality(below[y])
      PROVE  x = y
  <2>1. PICK c \in Nat : c = Cardinality(below[x]) /\ c = Cardinality(below[y])
    BY <1>3, <1>8
  <2>2. y \notin below[x] /\ x \notin below[y]
    <3>1. y \in below[x] => c < c
      BY <1>3, <2>1
    <3>2. x \in below[y] => c < c
      BY <1>3, <2>1
    <3> QED
      BY <3>1, <3>2
  <2> QED
    BY <1>2, <2>2
<1>9. ASSUME NEW x \in 1 .. N
      PROVE  \E p \in 1 .. N : at[p] = x
  <2>1. PICK c \in Nat : c = Cardinality(below[x]) /\ c + 1 \in 1 .. N
    BY <1>3
  <2>2. at[c + 1] \in 1 .. N /\ Cardinality(below[at[c + 1]]) = c
    BY <1>5, <2>1
  <2>3. at[c + 1] = x
    BY <1>8, <2>1, <2>2
  <2> QED
    BY <2>1, <2>3
<1>10. ASSUME NEW p \in 1 .. N, NEW q \in 1 .. N, p < q
       PROVE  key[at[p]] <= key[at[q]]
  <2>1. PICK x \in 1 .. N : x = at[p] /\ Cardinality(below[x]) = p - 1
    BY <1>5
  <2>2. PICK y \in 1 .. N : y = at[q] /\ Cardinality(below[y]) = q - 1
    BY <1>5
  <2>3. y \notin below[x]
    <3>1. y \in below[x] => q - 1 < p - 1
      BY <1>3, <2>1, <2>2
    <3> QED
      BY <1>10, <3>1
  <2>4. key[x] \in Int /\ key[y] \in Int /\ ~(key[y] < key[x])
    BY <1>2, <2>3
  <2> QED
    BY <2>1, <2>2, <2>4
<1>11. at \in [1 .. N -> 1 .. N]
  BY <1>4, <1>5
<1>12. Sorts(at, s, key, N)
  BY <1>6, <1>7, <1>9, <1>10, <1>11 DEF Sorts
<1> QED
  BY <1>12

(* The least element of a set of numbers.                                    *)
LEMMA LeastIs ==
  ASSUME NEW S, S \subseteq Nat, NEW c \in S, \A x \in S : c <= x
  PROVE  Least(S) = c
<1>1. \A x \in S : x \in Nat
  OBVIOUS
<1>2. ASSUME NEW x \in S, \A y \in S : x <= y
      PROVE  x = c
  <2>1. x \in Nat /\ c \in Nat /\ x <= c /\ c <= x
    BY <1>1, <1>2
  <2> QED
    BY <2>1
<1>3. Least(S) = CHOOSE x \in S : \A y \in S : x <= y
  BY DEF Least
<1>4. Least(S) \in S /\ \A y \in S : Least(S) <= y
  BY <1>3
<1> QED
  BY <1>2, <1>4

(* The cost of a cheapest plan is the best cost.                             *)
LEMMA BestCostIs ==
  ASSUME NEW n \in Nat, NEW pop, Plans(pop, n), NEW k \in 1 .. n,
         \A p \in 1 .. n : pop[k].cost <= pop[p].cost
  PROVE  BestCost(pop) = pop[k].cost
<1>1. PICK S : S = {pop[i].cost : i \in DOMAIN pop}
  OBVIOUS
<1>2. DOMAIN pop = 1 .. n
  BY DEF Plans
<1>3. S \subseteq Nat
  BY <1>1, <1>2 DEF Plans
<1>4. pop[k].cost \in S /\ \A x \in S : pop[k].cost <= x
  BY <1>1, <1>2
<1>5. Least(S) = pop[k].cost
  BY <1>3, <1>4, LeastIs
<1> QED
  BY <1>1, <1>5 DEF BestCost

(* The vehicles of a plan with the fewest are the fewest used.               *)
LEMMA FewestUsedIs ==
  ASSUME NEW n \in Nat, NEW pop, Plans(pop, n), NEW k \in 1 .. n,
         \A p \in 1 .. n : pop[k].used <= pop[p].used
  PROVE  FewestUsed(pop) = pop[k].used
<1>1. PICK S : S = {pop[i].used : i \in DOMAIN pop}
  OBVIOUS
<1>2. DOMAIN pop = 1 .. n
  BY DEF Plans
<1>3. S \subseteq Nat
  BY <1>1, <1>2 DEF Plans
<1>4. pop[k].used \in S /\ \A x \in S : pop[k].used <= x
  BY <1>1, <1>2
<1>5. Least(S) = pop[k].used
  BY <1>3, <1>4, LeastIs
<1> QED
  BY <1>1, <1>5 DEF FewestUsed

(* Of those with the least value of one kind, one with the least of another.  *)
LEMMA LeastOfLeast ==
  ASSUME NEW n \in Nat, n >= 1, NEW a, NEW b, \A i \in 1 .. n : a[i] \in Nat /\ b[i] \in Nat
  PROVE  \E k \in 1 .. n :
           /\ \A i \in 1 .. n : a[k] <= a[i]
           /\ \A i \in 1 .. n : a[i] = a[k] => b[k] <= b[i]
<1>1. PICK A : A = {a[i] : i \in 1 .. n}
  OBVIOUS
<1>2. A \subseteq Nat /\ A # {}
  <2>1. 1 \in 1 .. n
    OBVIOUS
  <2> QED
    BY <1>1, <2>1
<1>3. PICK c \in A : \A x \in A : c <= x
  BY <1>2, LeastNatural
<1>4. PICK B : B = {b[i] : i \in {j \in 1 .. n : a[j] = c}}
  OBVIOUS
<1>5. B \subseteq Nat /\ B # {}
  BY <1>1, <1>3, <1>4
<1>6. PICK d \in B : \A x \in B : d <= x
  BY <1>5, LeastNatural
<1>7. PICK k \in 1 .. n : a[k] = c /\ b[k] = d
  BY <1>4, <1>6
<1> QED
  BY <1>1, <1>3, <1>4, <1>6, <1>7

(* The first front: the plans that none dominates, among them one of those   *)
(* that cost least and one of those that use the fewest vehicles.           *)
FirstFront(F, pop, n) ==
  /\ F \in Seq(1 .. n)
  /\ \A x, y \in DOMAIN F : F[x] = F[y] => x = y
  /\ \A x \in DOMAIN F : \A p \in 1 .. n : ~Dominates(pop[p], pop[F[x]])
  /\ \E x \in DOMAIN F : \A p \in 1 .. n : pop[F[x]].cost <= pop[p].cost
  /\ \E x \in DOMAIN F : \A p \in 1 .. n : pop[F[x]].used <= pop[p].used

(* The first front of the sort is the front of the definition.               *)
LEMMA FirstFrontIs ==
  ASSUME NEW n \in Nat, n >= 1, NEW pop, Plans(pop, n)
  PROVE  FirstFront(Fronts(pop)[1], pop, n)
<1>1. PICK f : f = Fronts(pop)
  OBVIOUS
<1>2. FrontsSound(f, pop, n)
  BY <1>1, FrontsAreSound
<1>3. PICK F : F = f[1]
  OBVIOUS
<1>4. f \in Seq(Seq(1 .. n)) /\ 1 \in 1 .. Len(f)
  BY <1>2 DEF FrontsSound
<1>5. F \in Seq(1 .. n)
  BY <1>3, <1>4
<1>6. \A x, y \in DOMAIN F : F[x] = F[y] => x = y
  BY <1>2, <1>3, <1>4 DEF FrontsSound
<1>7. \A q \in 1 .. n : (\E x \in DOMAIN F : F[x] = q) <=> \A p \in 1 .. n : ~Dominates(pop[p], pop[q])
  <2>1. \A q : q \in InFront(f, 1) <=> \E x \in DOMAIN F : F[x] = q
    BY <1>3 DEF InFront
  <2> QED
    BY <1>2, <2>1 DEF FrontsSound
<1>8. \A x \in DOMAIN F : F[x] \in 1 .. n
  BY <1>5
<1>9. PICK a : a = [i \in 1 .. n |-> pop[i].used]
  OBVIOUS
<1>10. PICK b : b = [i \in 1 .. n |-> pop[i].cost]
  OBVIOUS
<1>11. \A i \in 1 .. n : a[i] = pop[i].used /\ b[i] = pop[i].cost /\ a[i] \in Nat /\ b[i] \in Nat
  BY <1>9, <1>10 DEF Plans
<1>12. \A p, q \in 1 .. n : Dominates(pop[p], pop[q]) <=>
         a[p] <= a[q] /\ b[p] <= b[q] /\ (a[p] < a[q] \/ b[p] < b[q])
  BY <1>11 DEF Dominates
<1>13. \E x \in DOMAIN F : \A p \in 1 .. n : pop[F[x]].used <= pop[p].used
  <2>1. PICK k \in 1 .. n : /\ \A i \in 1 .. n : a[k] <= a[i]
                            /\ \A i \in 1 .. n : a[i] = a[k] => b[k] <= b[i]
    BY <1>11, LeastOfLeast
  <2>2. \A p \in 1 .. n : ~Dominates(pop[p], pop[k])
    BY <1>11, <1>12, <2>1
  <2>3. PICK x \in DOMAIN F : F[x] = k
    BY <1>7, <2>2
  <2> QED
    BY <1>11, <2>1, <2>3
<1>14. \E x \in DOMAIN F : \A p \in 1 .. n : pop[F[x]].cost <= pop[p].cost
  <2>1. PICK k \in 1 .. n : /\ \A i \in 1 .. n : b[k] <= b[i]
                            /\ \A i \in 1 .. n : b[i] = b[k] => a[k] <= a[i]
    BY <1>11, LeastOfLeast
  <2>2. \A p \in 1 .. n : ~Dominates(pop[p], pop[k])
    BY <1>11, <1>12, <2>1
  <2>3. PICK x \in DOMAIN F : F[x] = k
    BY <1>7, <2>2
  <2> QED
    BY <1>11, <2>1, <2>3
<1>15. \A x \in DOMAIN F : \A p \in 1 .. n : ~Dominates(pop[p], pop[F[x]])
  BY <1>7, <1>8
<1> QED
  BY <1>1, <1>3, <1>5, <1>6, <1>13, <1>14, <1>15 DEF FirstFront

(* What the answer is to be for a population (FrontTradesOff).               *)
TradesOff(answer, pop) ==
  /\ \A i, j \in DOMAIN answer : i < j => answer[i].cost >= answer[j].cost
  /\ Last(answer).cost = BestCost(pop)
  /\ \E i \in DOMAIN answer : answer[i] = Knee(answer)

(* Elements with a key and a number of their own, and the first of them by   *)
(* key and then by number.                                                 *)
Keyed(S, f, q) ==
  /\ IsFiniteSet(S) /\ S # {}
  /\ \A x \in S : f[x] \in Int /\ q[x] \in Int
  /\ \A x \in S, y \in S : q[x] = q[y] => x = y

Leads(x, S, f, q) ==
  \A y \in S \ {x} : f[x] < f[y] \/ (f[x] = f[y] /\ q[x] < q[y])

(* One of them is the first.                                               *)
LEMMA OneLeads ==
  ASSUME NEW S, NEW f, NEW q, Keyed(S, f, q)
  PROVE  \E x \in S : Leads(x, S, f, q)
<1>1. IsFiniteSet(S) /\ S # {}
  BY DEF Keyed
<1>2. \A x \in S : f[x] \in Int /\ q[x] \in Int
  BY DEF Keyed
<1>3. \A x \in S, y \in S : q[x] = q[y] => x = y
  BY DEF Keyed
<1>4. \E x \in S : \A y \in S \ {x} : f[x] < f[y] \/ (f[x] = f[y] /\ q[x] < q[y])
  BY <1>1, <1>2, <1>3, FirstOfAll, Zenon
<1> QED
  BY <1>4, Zenon DEF Leads

(* There is a first among the farthest of some places.                       *)
LEMMA FirstFarthest ==
  ASSUME NEW S, S \subseteq Int, IsFiniteSet(S), S # {}, NEW off, \A x \in S : off[x] \in Int
  PROVE  \E i \in S : \A j \in S : off[i] > off[j] \/ (off[i] = off[j] /\ i <= j)
<1>1. PICK f : f = [i \in S |-> 0 - off[i]]
  OBVIOUS
<1>2. PICK q : q = [i \in S |-> i]
  OBVIOUS
<1>3. \A x \in S : x \in Int /\ f[x] = 0 - off[x] /\ q[x] = x
  BY <1>1, <1>2
<1>4. \A x \in S : f[x] \in Int /\ q[x] \in Int
  BY <1>3
<1>5. \A x \in S, y \in S : q[x] = q[y] => x = y
  BY <1>3
<1>6. Keyed(S, f, q)
  BY <1>4, <1>5, Zenon DEF Keyed
<1>7. PICK x \in S : Leads(x, S, f, q)
  BY <1>6, OneLeads, Zenon
<1>8. ASSUME NEW y \in S
      PROVE  off[x] > off[y] \/ (off[x] = off[y] /\ x <= y)
  <2>1. y = x \/ f[x] < f[y] \/ (f[x] = f[y] /\ q[x] < q[y])
    BY <1>7 DEF Leads
  <2> QED
    BY <1>3, <2>1
<1> QED
  BY <1>8

(* The knee is a member of the answer: in the middle of a short one, else   *)
(* the inner member that is farthest off.                                 *)
LEMMA KneeIsListed ==
  ASSUME NEW m \in Nat, m >= 1, NEW s, DOMAIN s = 1 .. m, Len(s) = m,
         \A i \in 1 .. m : s[i].used \in Nat /\ s[i].cost \in Nat
  PROVE  \E i \in DOMAIN s : s[i] = Knee(s)
<1>1. CASE m < 3
  <2>1. m \div 2 + 1 \in 1 .. m
    <3>1. m = 1 \/ m = 2
      BY <1>1
    <3> QED
      BY <3>1
  <2>2. Knee(s) = s[m \div 2 + 1]
    BY <1>1 DEF Knee
  <2> QED
    BY <2>1, <2>2
<1>2. CASE m >= 3
  <2> DEFINE abs(x) == IF x < 0 THEN -x ELSE x
  <2>1. \A x \in Int : abs(x) \in Int
    OBVIOUS
  <2>2. PICK off : off = [i \in DOMAIN s |->
          abs((Last(s).cost - s[1].cost) * s[i].used - (Last(s).used - s[1].used) * s[i].cost
              + Last(s).used * s[1].cost - Last(s).cost * s[1].used)]
    OBVIOUS
  <2>3. Last(s) = s[m]
    BY DEF Last
  <2>4. ASSUME NEW i \in 1 .. m
        PROVE  off[i] \in Int
    <3>1. /\ s[m].cost \in Int /\ s[1].cost \in Int /\ s[m].used \in Int /\ s[1].used \in Int
          /\ s[i].cost \in Int /\ s[i].used \in Int
      BY <1>2
    <3>2. \A a, b, c, d, e, g \in Int :
            (a - b) * c - (d - e) * g + d * b - a * e \in Int
      OBVIOUS
    <3>3. (s[m].cost - s[1].cost) * s[i].used - (s[m].used - s[1].used) * s[i].cost
            + s[m].used * s[1].cost - s[m].cost * s[1].used \in Int
      BY <3>1, <3>2
    <3>4. PICK x \in Int : x = (s[m].cost - s[1].cost) * s[i].used
            - (s[m].used - s[1].used) * s[i].cost + s[m].used * s[1].cost - s[m].cost * s[1].used
      BY <3>3
    <3>5. off[i] = abs(x)
      BY <2>2, <2>3, <3>4, Zenon
    <3> QED
      BY <2>1, <3>5
  <2>5. Knee(s) = s[CHOOSE i \in 2 .. m - 1 : \A j \in 2 .. m - 1 :
                     off[i] > off[j] \/ (off[i] = off[j] /\ i <= j)]
    <3>1. ~(Len(s) < 3)
      BY <1>2
    <3> QED
      BY <2>2, <3>1 DEF Knee
  <2> HIDE DEF abs
  <2>6. \E i \in 2 .. m - 1 : \A j \in 2 .. m - 1 :
          off[i] > off[j] \/ (off[i] = off[j] /\ i <= j)
    <3>1. IsFiniteSet(2 .. m - 1)
      BY FS_Interval
    <3>2. 2 \in 2 .. m - 1 /\ \A x \in 2 .. m - 1 : x \in 1 .. m
      BY <1>2
    <3>3. PICK S : S = 2 .. m - 1
      OBVIOUS
    <3>4. S \subseteq Int /\ IsFiniteSet(S) /\ S # {} /\ \A x \in S : off[x] \in Int
      <4>1. IsFiniteSet(S)
        BY <3>1, <3>3, Zenon
      <4>2. S \subseteq Int /\ S # {}
        <5>1. \A x : x \in S <=> x \in 2 .. m - 1
          BY <3>3, Zenon
        <5>2. \A x \in 2 .. m - 1 : x \in Int
          OBVIOUS
        <5> QED
          BY <3>2, <5>1, <5>2, Zenon
      <4>3. \A x \in S : off[x] \in Int
        BY <2>4, <3>2, <3>3
      <4> QED
        BY <4>1, <4>2, <4>3
    <3>5. \E i \in S : \A j \in S : off[i] > off[j] \/ (off[i] = off[j] /\ i <= j)
      BY <3>4, FirstFarthest
    <3> QED
      BY <3>3, <3>5
  <2>7. PICK k \in 2 .. m - 1 :
          k = CHOOSE i \in 2 .. m - 1 : \A j \in 2 .. m - 1 :
                off[i] > off[j] \/ (off[i] = off[j] /\ i <= j)
    BY <2>6, Zenon
  <2>8. Knee(s) = s[k] /\ k \in 1 .. m
    BY <2>5, <2>7
  <2> QED
    BY <2>8
<1> QED
  BY <1>1, <1>2

(* Sorted by the vehicles that they use, plans none of which dominates       *)
(* another fall in cost.                                                   *)
LEMMA AnswerTradesOff ==
  ASSUME NEW n \in Nat, n >= 1, NEW pop, Plans(pop, n), NEW F, FirstFront(F, pop, n)
  PROVE  TradesOff(SortedBy([i \in DOMAIN F |-> pop[F[i]]], [i \in DOMAIN F |-> pop[F[i]].used]), pop)
<1>1. PICK m \in Nat : m = Len(F) /\ DOMAIN F = 1 .. m
  BY DEF FirstFront
<1>2. \A x \in 1 .. m : F[x] \in 1 .. n
  BY <1>1 DEF FirstFront
<1>3. PICK s : s = [i \in 1 .. m |-> pop[F[i]]]
  OBVIOUS
<1>4. PICK key : key = [i \in 1 .. m |-> pop[F[i]].used]
  OBVIOUS
<1>5. \A x \in 1 .. m : /\ s[x] = pop[F[x]] /\ key[x] = pop[F[x]].used
                        /\ pop[F[x]].used \in Nat /\ pop[F[x]].cost \in Nat
  BY <1>2, <1>3, <1>4 DEF Plans
<1>6. PICK at : Sorts(at, s, key, m)
  <2>1. DOMAIN s = 1 .. m /\ \A x \in 1 .. m : key[x] \in Int
    BY <1>3, <1>5
  <2> QED
    BY <2>1, SortingSorts
<1>7. PICK t : t = SortedBy(s, key)
  OBVIOUS
<1>8. /\ \A p \in 1 .. m : at[p] \in 1 .. m
      /\ t = [p \in 1 .. m |-> s[at[p]]]
      /\ \A x \in 1 .. m : \E p \in 1 .. m : at[p] = x
      /\ \A p, q \in 1 .. m : p < q => key[at[p]] <= key[at[q]]
  BY <1>6, <1>7 DEF Sorts
<1>9. \A p \in 1 .. m : t[p] = pop[F[at[p]]] /\ key[at[p]] = t[p].used
                        /\ t[p].used \in Nat /\ t[p].cost \in Nat
  BY <1>5, <1>8
<1>10. DOMAIN t = 1 .. m /\ Len(t) = m /\ m >= 1
  <2>1. \E x \in 1 .. m : \A p \in 1 .. n : pop[F[x]].cost <= pop[p].cost
    BY <1>1 DEF FirstFront
  <2> QED
    BY <1>8, <2>1
<1>11. ASSUME NEW i \in 1 .. m, NEW j \in 1 .. m, i < j
       PROVE  t[i].cost >= t[j].cost
  <2>1. ~Dominates(t[i], t[j])
    <3>1. PICK x \in 1 .. m : x = at[i] /\ t[i] = pop[F[x]]
      BY <1>8, <1>9
    <3>2. PICK y \in 1 .. m : y = at[j] /\ t[j] = pop[F[y]]
      BY <1>8, <1>9
    <3>3. \A p \in 1 .. n : ~Dominates(pop[p], pop[F[y]])
      BY <1>1, <3>2 DEF FirstFront
    <3> QED
      BY <1>2, <3>1, <3>2, <3>3
  <2>2. t[i].used <= t[j].used
    <3>1. key[at[i]] <= key[at[j]]
      BY <1>8, <1>11, Zenon
    <3>2. key[at[i]] = t[i].used /\ key[at[j]] = t[j].used
      BY <1>9, Zenon
    <3> QED
      BY <3>1, <3>2, Zenon
  <2> QED
    BY <1>9, <2>1, <2>2 DEF Dominates
<1>12. Last(t).cost = BestCost(pop)
  <2>1. PICK x \in 1 .. m : \A p \in 1 .. n : pop[F[x]].cost <= pop[p].cost
    BY <1>1 DEF FirstFront
  <2>2. PICK a \in 1 .. m : at[a] = x
    BY <1>8
  <2>3. t[m].cost <= t[a].cost
    <3>1. m \in 1 .. m /\ (a = m \/ a < m)
      BY <1>10
    <3> QED
      <4>1. a < m => t[a].cost >= t[m].cost
        BY <1>11, <3>1
      <4> QED
        <5>1. CASE a = m
          BY <1>9, <3>1, <5>1
        <5>2. CASE a < m
          <6>1. t[a].cost \in Nat /\ t[m].cost \in Nat
            BY <1>9, <3>1
          <6> QED
            BY <4>1, <5>2, <6>1
        <5> QED
          BY <3>1, <5>1, <5>2
  <2>4. PICK k \in 1 .. n : t[m] = pop[k]
    <3>1. m \in 1 .. m
      BY <1>10
    <3>2. PICK y \in 1 .. m : y = at[m] /\ t[m] = pop[F[y]]
      BY <1>8, <1>9, <3>1
    <3> QED
      BY <1>2, <3>2
  <2>5. \A p \in 1 .. n : pop[k].cost <= pop[p].cost
    <3> TAKE p \in 1 .. n
    <3>1. t[a].cost <= pop[p].cost /\ t[a].cost \in Nat /\ pop[p].cost \in Nat
      BY <1>9, <2>1, <2>2 DEF Plans
    <3>2. pop[k].cost \in Nat
      BY DEF Plans
    <3> QED
      BY <2>3, <2>4, <3>1, <3>2
  <2>6. BestCost(pop) = pop[k].cost
    BY <2>5, BestCostIs
  <2>7. Last(t) = t[m]
    BY <1>10 DEF Last
  <2> QED
    BY <2>4, <2>6, <2>7
<1>13. \E i \in DOMAIN t : t[i] = Knee(t)
  BY <1>9, <1>10, KneeIsListed
<1>14. TradesOff(t, pop)
  BY <1>10, <1>11, <1>12, <1>13 DEF TradesOff
<1> QED
  BY <1>1, <1>3, <1>4, <1>7, <1>14

-----------------------------------------------------------------------------
(* The distances of a scenario are natural numbers.                        *)
LEMMA Kilometres ==
  ASSUME SearchAssumption, point \in Points
  PROVE  point.n \in Nat /\ \A i, j \in 0 .. point.n : point.dist[i, j] \in Nat
<1>1. point.n \in Nat /\ point.dist \in [(0 .. point.n) \X (0 .. point.n) -> Nat]
  BY DEF SearchAssumption
<1> QED
  BY <1>1

(* The nearest stop that is left is one of those left.                       *)
LEMMA NearestIsLeft ==
  ASSUME SearchAssumption, point \in Points, NEW at \in 0 .. point.n,
         NEW left \in SUBSET (1 .. point.n), left # {}
  PROVE  Nearest(at, left) \in left
<1>1. PICK n \in Nat : n = point.n
  BY Kilometres
<1>2. IsFiniteSet(left)
  <2>1. IsFiniteSet(1 .. n)
    BY FS_Interval
  <2> QED
    BY <1>1, <2>1, FS_Subset
<1>3. PICK km : km = [x \in left |-> point.dist[at, x]]
  OBVIOUS
<1>4. \A x \in left : x \in Int /\ km[x] \in Nat /\ km[x] = point.dist[at, x]
  <2> TAKE x \in left
  <2>1. x \in 0 .. point.n /\ x \in Int
    BY <1>1
  <2>2. point.dist[at, x] \in Nat
    BY <2>1, Kilometres
  <2>3. km[x] = point.dist[at, x]
    BY <1>3
  <2> QED
    BY <2>1, <2>2, <2>3
<1>5. PICK off : off = [x \in left |-> 0 - km[x]]
  OBVIOUS
<1>6. \A x \in left : x \in Int /\ km[x] \in Nat /\ off[x] \in Int /\ off[x] = 0 - km[x]
  <2> TAKE x \in left
  <2>1. PICK k \in Nat : k = km[x]
    BY <1>4
  <2>2. off[x] = 0 - k
    BY <1>5, <2>1
  <2>3. x \in Int
    BY <1>4
  <2> QED
    BY <2>1, <2>2, <2>3
<1>7. PICK x \in left : \A y \in left : off[x] > off[y] \/ (off[x] = off[y] /\ x <= y)
  <2>1. left \subseteq Int
    BY <1>6
  <2> QED
    BY <1>2, <1>6, <2>1, FirstFarthest
<1>8. \A y \in left : km[x] < km[y] \/ (km[x] = km[y] /\ x <= y)
  BY <1>6, <1>7
<1>9. \A y \in left :
        \/ point.dist[at, x] < point.dist[at, y]
        \/ point.dist[at, x] = point.dist[at, y] /\ x <= y
  BY <1>4, <1>8, Zenon
<1> QED
  BY <1>9, Zenon DEF Nearest

(* So every tour has a length.                                               *)
LEMMA TourIsNatural ==
  ASSUME SearchAssumption, point \in Points, NEW stops \in SUBSET (1 .. point.n)
  PROVE  Tour(stops) \in Nat
<1>1. PICK n \in Nat : n = point.n /\ \A i, j \in 0 .. n : point.dist[i, j] \in Nat
  BY Kilometres
<1>2. PICK N \in Nat : N = Cardinality(stops)
  <2>1. IsFiniteSet(1 .. n)
    BY FS_Interval
  <2>2. IsFiniteSet(stops)
    BY <1>1, <2>1, FS_Subset
  <2> QED
    BY <2>2, FS_CardinalityType
<1>3. PICK V : V = [at : 0 .. n, left : SUBSET (1 .. n), km : Nat]
  OBVIOUS
<1>4. \A a \in 0 .. n, l \in SUBSET (1 .. n), k \in Nat : [at |-> a, left |-> l, km |-> k] \in V
  BY <1>3
<1>5. ASSUME NEW acc \in V
      PROVE  Hop(acc) \in V
  <2>1. acc \in [at : 0 .. n, left : SUBSET (1 .. n), km : Nat]
    BY <1>3
  <2>2. CASE acc.left = {}
    BY <2>2 DEF Hop
  <2>3. CASE acc.left # {}
    <3>1. PICK x : x = Nearest(acc.at, acc.left)
      OBVIOUS
    <3>2. acc.at \in 0 .. n /\ acc.left \in SUBSET (1 .. n) /\ acc.km \in Nat
      BY <2>1
    <3>3. x \in acc.left
      BY <1>1, <2>3, <3>1, <3>2, NearestIsLeft
    <3>4. PICK d \in Nat : x \in 0 .. n /\ d = point.dist[acc.at, x]
      <4>1. x \in 0 .. n
        BY <3>2, <3>3
      <4> QED
        BY <1>1, <3>2, <4>1
    <3>5. Hop(acc) = [at |-> x, left |-> acc.left \ {x}, km |-> acc.km + d]
      <4>1. Hop(acc) = [at |-> x, left |-> acc.left \ {x}, km |-> acc.km + point.dist[acc.at, x]]
        BY <2>3, <3>1, Zenon DEF Hop
      <4> QED
        BY <3>4, <4>1, Zenon
    <3>6. acc.left \ {x} \in SUBSET (1 .. n) /\ acc.km + d \in Nat
      <4>1. \A k, l \in Nat : k + l \in Nat
        OBVIOUS
      <4> QED
        BY <3>2, <3>4, <4>1
    <3> QED
      <4>1. PICK left : left = acc.left \ {x}
        OBVIOUS
      <4>2. PICK km \in Nat : km = acc.km + d
        BY <3>6
      <4>3. Hop(acc) = [at |-> x, left |-> left, km |-> km] /\ left \in SUBSET (1 .. n)
        BY <3>5, <3>6, <4>1, <4>2
      <4> QED
        <5>1. x \in 0 .. n
          BY <3>4, Zenon
        <5> QED
          BY <1>4, <4>2, <4>3, <5>1
  <2> QED
    BY <2>2, <2>3
<1>6. PICK base : base = [at |-> 0, left |-> stops, km |-> 0]
  OBVIOUS
<1>7. base \in V
  <2>1. stops \in SUBSET (1 .. n)
    BY <1>1
  <2>2. 0 \in 0 .. n /\ 0 \in Nat
    OBVIOUS
  <2> QED
    BY <1>4, <1>6, <2>1, <2>2, Zenon
<1>8. PICK G : G = [iv \in (1 .. N) \X V |-> Hop(iv[2])]
  OBVIOUS
<1>9. \A i \in 1 .. N, v \in V : G[<<i, v>>] = Hop(v) /\ G[<<i, v>>] \in V
  BY <1>5, <1>8
<1>10. PICK g \in [0 .. N -> V] : Runs(g, N, base, G)
  BY <1>7, <1>9, RunExists
<1>11. PICK it : it = CHOOSE loop : loop = [i \in 0 .. N |->
          IF i = 0 THEN base ELSE Hop(loop[i - 1])]
  OBVIOUS
<1>12. Tour(stops) = it[N].km + point.dist[it[N].at, 0]
  BY <1>2, <1>6, <1>11 DEF Tour
<1>13. it = [i \in 0 .. N |-> IF i = 0 THEN base ELSE Hop(it[i - 1])]
  <2>1. g = [i \in 0 .. N |-> IF i = 0 THEN base ELSE Hop(g[i - 1])]
    <3>1. \A i \in 1 .. N : i - 1 \in 0 .. N
      OBVIOUS
    <3>2. \A i \in 1 .. N : g[i - 1] \in V
      BY <3>1
    <3>3. \A i \in 1 .. N : g[i] = Hop(g[i - 1])
      BY <1>9, <1>10, <3>2 DEF Runs
    <3>4. g[0] = base
      BY <1>10 DEF Runs
    <3>5. \A i \in 0 .. N : i = 0 \/ i \in 1 .. N
      OBVIOUS
    <3> QED
      BY <3>3, <3>4, <3>5
  <2> QED
    BY <1>11, <2>1, Zenon
<1>14. \A i \in 0 .. N : it[i] \in V
  <2>1. PICK good : good = {i \in 0 .. N : it[i] \in V}
    OBVIOUS
  <2>2. 0 \in good
    BY <1>7, <1>13, <2>1
  <2>3. \A i \in 1 .. N : i - 1 \in good => i \in good
    <3> TAKE i \in 1 .. N
    <3>1. it[i] = Hop(it[i - 1])
      BY <1>13
    <3> QED
      BY <1>5, <2>1, <3>1
  <2>4. \A i \in 0 .. N : i \in good
    BY <2>2, <2>3, UpTo
  <2> QED
    BY <2>1, <2>4
<1>15. PICK last : last = it[N] /\ last \in [at : 0 .. n, left : SUBSET (1 .. n), km : Nat]
  <2>1. N \in 0 .. N
    OBVIOUS
  <2> QED
    BY <1>3, <1>14, <2>1
<1>16. PICK d \in Nat : d = point.dist[last.at, 0]
  <2>1. last.at \in 0 .. n /\ 0 \in 0 .. n
    BY <1>15
  <2> QED
    BY <1>1, <2>1
<1>17. Tour(stops) = last.km + d
  BY <1>12, <1>15, <1>16, Zenon
<1> QED
  <2>1. PICK k \in Nat : k = last.km
    BY <1>15
  <2>2. Tour(stops) = k + d
    BY <1>17, <2>1
  <2> QED
    BY <2>2

(* Every load has a type of vehicle.                                         *)
LEMMA TypesCarry ==
  ASSUME NEW load
  PROVE  /\ TypeFor(load) \in 1 .. 4
         /\ VehicleSpecs[TypeFor(load)].fixed \in Nat /\ VehicleSpecs[TypeFor(load)].perKm \in Nat
<1>1. PICK S : S = {t \in DOMAIN VehicleSpecs : VehicleSpecs[t].capacity >= load}
  OBVIOUS
<1>2. DOMAIN VehicleSpecs = 1 .. 4
  BY DEF VehicleSpecs
<1>3. S \subseteq 1 .. 4
  BY <1>1, <1>2
<1>4. TypeFor(load) = IF S = {} THEN 4 ELSE Min(S)
  BY <1>1 DEF TypeFor
<1>5. TypeFor(load) \in 1 .. 4
  <2>1. CASE S = {}
    BY <1>4, <2>1
  <2>2. CASE S # {}
    <3>1. S \subseteq Nat
      BY <1>3
    <3>2. \E x \in S : \A y \in S : x <= y
      BY <2>2, <3>1, LeastNatural
    <3>3. Min(S) \in S
      BY <3>2 DEF Min
    <3> QED
      BY <1>3, <1>4, <2>2, <3>3
  <2> QED
    BY <2>1, <2>2
<1>6. \A t \in 1 .. 4 : VehicleSpecs[t].fixed \in Nat /\ VehicleSpecs[t].perKm \in Nat
  <2> TAKE t \in 1 .. 4
  <2>1. t = 1 \/ t = 2 \/ t = 3 \/ t = 4
    OBVIOUS
  <2> QED
    BY <2>1 DEF VehicleSpecs
<1> QED
  BY <1>5, <1>6

(* A plan costs a number and uses a number of vehicles.                      *)
LEMMA PlanCosts ==
  ASSUME SearchAssumption, point \in Points, NEW c \in [1 .. point.n -> Nat]
  PROVE  PlanCost(c) \in Nat /\ IsFiniteSet(UsedBy(c)) /\ Cardinality(UsedBy(c)) \in Nat
<1>1. PICK n \in Nat : n = point.n
  BY Kilometres
<1>2. PICK U : U = UsedBy(c)
  OBVIOUS
<1>3. IsFiniteSet(U) /\ Cardinality(U) \in Nat
  <2>1. PICK D : D = 1 .. n
    OBVIOUS
  <2>2. IsFiniteSet(D)
    <3>1. IsFiniteSet(1 .. n)
      BY FS_Interval
    <3> QED
      BY <2>1, <3>1, Zenon
  <2>3. U = {c[i] : i \in D} /\ DOMAIN c = D
    BY <1>1, <1>2, <2>1 DEF UsedBy
  <2>4. c \in Surjection(D, U)
    BY <1>1, <2>1, <2>3 DEF Surjection
  <2>5. IsFiniteSet(U)
    BY <2>2, <2>4, FS_Surjection
  <2> QED
    BY <2>5, FS_CardinalityType
<1> DEFINE stops(v) == {i \in DOMAIN c : c[i] = v}
           spec(v) == VehicleSpecs[TypeFor(SumFunctionOnSet(point.demand, stops(v)))]
<1>4. PICK h : h = [v \in U |-> spec(v).fixed + Tour(stops(v)) * spec(v).perKm]
  OBVIOUS
<1>5. PlanCost(c) = SumFunctionOnSet(h, U)
  <2>1. DOMAIN h = U
    BY <1>4
  <2>2. PlanCost(c) = SumFunction(h)
    BY <1>2, <1>4 DEF PlanCost
  <2> QED
    BY <2>1, <2>2 DEF SumFunction
<1>6. \A v \in U : stops(v) \in SUBSET (1 .. point.n)
  OBVIOUS
<1>7. \A v \in U : spec(v).fixed \in Nat /\ spec(v).perKm \in Nat
  BY TypesCarry
<1> HIDE DEF stops, spec
<1>8. ASSUME NEW v \in U
      PROVE  h[v] \in Nat
  <2>1. PICK a \in Nat : a = spec(v).fixed
    BY <1>7
  <2>2. PICK b \in Nat : b = spec(v).perKm
    BY <1>7
  <2>3. PICK s : s = stops(v) /\ s \in SUBSET (1 .. point.n)
    BY <1>6
  <2>4. PICK km \in Nat : km = Tour(s)
    BY <2>3, TourIsNatural
  <2>5. h[v] = a + km * b
    BY <1>4, <2>1, <2>2, <2>3, <2>4
  <2>6. a + km * b \in Nat
    OBVIOUS
  <2> QED
    BY <2>5, <2>6
<1>9. SumFunctionOnSet(h, U) \in Nat
  <2>1. U \in SUBSET U
    OBVIOUS
  <2> QED
    BY <1>3, <1>8, <2>1, SumGrows
<1> QED
  BY <1>2, <1>3, <1>5, <1>9

(* A plan of the population, as its deliveries are assigned and judged.      *)
Individuals(n) ==
  [chromosome : [1 .. n -> Nat], used : Nat, cost : Nat, rank : Nat, crowding : Nat]

(* Vehicles and cost of an individual are natural numbers.                   *)
LEMMA IndividualsJudged ==
  ASSUME SearchAssumption, point \in Points, NEW c \in [1 .. point.n -> Nat], NEW r \in Nat, NEW d \in Nat
  PROVE  Individual(c, r, d) \in Individuals(point.n)
<1>1. PICK u \in Nat : u = Cardinality(UsedBy(c))
  BY PlanCosts
<1>2. PICK p \in Nat : p = PlanCost(c)
  BY PlanCosts
<1>3. Individual(c, r, d) = [chromosome |-> c, used |-> u, cost |-> p, rank |-> r, crowding |-> d]
  BY <1>1, <1>2 DEF Individual
<1> QED
  BY <1>3 DEF Individuals

(* Renumbered, the vehicles have numbers from 0.                             *)
LEMMA CompactTyped ==
  ASSUME SearchAssumption, point \in Points, NEW c \in [1 .. point.n -> Nat]
  PROVE  Compact(c) \in [1 .. point.n -> Nat]
<1> DEFINE first(v) == CHOOSE i \in DOMAIN c : c[i] = v /\ \A j \in DOMAIN c : c[j] = v => i <= j
           before(i) == {v \in UsedBy(c) : first(v) < first(c[i])}
<1>1. Compact(c) = [i \in DOMAIN c |-> Cardinality(before(i))]
  BY DEF Compact
<1>2. \A i : before(i) \subseteq UsedBy(c)
  OBVIOUS
<1> HIDE DEF before
<1>3. ASSUME NEW i \in 1 .. point.n
      PROVE  Cardinality(before(i)) \in Nat
  <2>1. IsFiniteSet(UsedBy(c))
    BY PlanCosts
  <2>2. IsFiniteSet(before(i))
    BY <1>2, <2>1, FS_Subset
  <2> QED
    BY <2>2, FS_CardinalityType
<1>4. DOMAIN c = 1 .. point.n
  OBVIOUS
<1> QED
  BY <1>1, <1>3, <1>4

(* A mutated child is an individual again.                                   *)
LEMMA MutatedJudged ==
  ASSUME SearchAssumption, point \in Points, NEW c \in [1 .. point.n -> Nat], NEW x \in Mutated(c)
  PROVE  x \in Individuals(point.n)
<1>1. PICK genes \in SUBSET DOMAIN c, new \in [DOMAIN c -> 0 .. MaxVehicles - 1] :
        x = Individual(Compact([i \in DOMAIN c |-> IF i \in genes THEN new[i] ELSE c[i]]), 0, 0)
  <2> DEFINE changed(g, new) == Individual(Compact([i \in DOMAIN c |-> IF i \in g THEN new[i] ELSE c[i]]), 0, 0)
             some == {g \in SUBSET DOMAIN c : Cardinality(g) <= MaxMutated}
  <2>1. x \in {changed(g, new) : g \in some, new \in [DOMAIN c -> 0 .. MaxVehicles - 1]}
    BY DEF Mutated
  <2>2. some \subseteq SUBSET DOMAIN c
    OBVIOUS
  <2> HIDE DEF some, changed
  <2>3. PICK g \in some, new \in [DOMAIN c -> 0 .. MaxVehicles - 1] : x = changed(g, new)
    BY <2>1
  <2> QED
    BY <2>2, <2>3, Zenon DEF changed
<1>2. PICK d : d = [i \in DOMAIN c |-> IF i \in genes THEN new[i] ELSE c[i]]
  OBVIOUS
<1>3. \A i \in DOMAIN c : new[i] \in Nat
  <2> TAKE i \in DOMAIN c
  <2>1. new[i] \in 0 .. MaxVehicles - 1
    BY <1>1
  <2> QED
    BY <2>1
<1>4. d \in [1 .. point.n -> Nat]
  BY <1>2, <1>3
<1>5. PICK e : e = Compact(d) /\ e \in [1 .. point.n -> Nat]
  BY <1>4, CompactTyped
<1>6. x = Individual(e, 0, 0)
  BY <1>1, <1>2, <1>5
<1> QED
  BY <1>5, <1>6, IndividualsJudged

(* A population: N plans for the deliveries of the scenario.                 *)
Population(pop, N) ==
  /\ pop \in [1 .. N -> Individuals(point.n)] /\ Len(pop) = N

(* A population has vehicles and costs to compare.                           *)
LEMMA PopulationsPlan ==
  ASSUME NEW pop, NEW N, Population(pop, N)
  PROVE  Plans(pop, N)
BY DEF Population, Individuals, Plans

(* Both children of two parents are individuals.                             *)
LEMMA OffspringJudged ==
  ASSUME SearchAssumption, point \in Points, NEW N, Population(members, N), NEW xy \in Offspring
  PROVE  xy[1] \in Individuals(point.n) /\ xy[2] \in Individuals(point.n)
<1> DEFINE cross(x, y, swap) == [i \in DOMAIN x |-> IF i \in swap THEN y[i] ELSE x[i]]
<1>1. PICK pair \in Parents \X Parents : \E zs :
        /\ xy \in zs
        /\ zs = UNION {Mutated(cross(pair[1].chromosome, pair[2].chromosome, swap))
                         \X Mutated(cross(pair[2].chromosome, pair[1].chromosome, swap)) :
                       swap \in SUBSET DOMAIN pair[1].chromosome}
  BY Zenon DEF Offspring
<1>2. \A p \in Parents : p.chromosome \in [1 .. point.n -> Nat]
  BY DEF Parents, Population, Individuals
<1>3. PICK a \in [1 .. point.n -> Nat] : a = pair[1].chromosome
  BY <1>1, <1>2
<1>4. PICK b \in [1 .. point.n -> Nat] : b = pair[2].chromosome
  BY <1>1, <1>2
<1>5. PICK swap \in SUBSET DOMAIN pair[1].chromosome :
        xy \in Mutated(cross(pair[1].chromosome, pair[2].chromosome, swap))
                 \X Mutated(cross(pair[2].chromosome, pair[1].chromosome, swap))
  BY <1>1, Zenon
<1>6. PICK c : c = cross(pair[1].chromosome, pair[2].chromosome, swap)
  OBVIOUS
<1>7. PICK d : d = cross(pair[2].chromosome, pair[1].chromosome, swap)
  OBVIOUS
<1>8. c \in [1 .. point.n -> Nat] /\ d \in [1 .. point.n -> Nat]
  <2>1. c = cross(a, b, swap) /\ d = cross(b, a, swap)
    BY <1>3, <1>4, <1>6, <1>7
  <2> QED
    BY <2>1
<1> HIDE DEF cross
<1>9. xy[1] \in Mutated(c) /\ xy[2] \in Mutated(d)
  <2>1. xy \in Mutated(c) \X Mutated(d)
    BY <1>6, <1>7, <1>5
  <2> QED
    BY <2>1
<1> QED
  BY <1>8, <1>9, MutatedJudged

-----------------------------------------------------------------------------
(* A product grows with its second factor.                                   *)
LEMMA Products ==
  ASSUME NEW a \in Nat, NEW b \in Nat, NEW c \in Nat, b <= c
  PROVE  a * b \in Nat /\ a * c \in Nat /\ a * b <= a * c
<1>1. PICK k \in Nat : c = b + k
  OBVIOUS
<1>2. a * b \in Nat /\ a * k \in Nat
  OBVIOUS
<1>3. a * c = a * b + a * k
  BY <1>1
<1> QED
  BY <1>2, <1>3

(* s lists the members of the front f by rising value.                      *)
Rising(s, f, value, m) ==
  /\ DOMAIN s = 1 .. m /\ Len(s) = m
  /\ \A p \in 1 .. m : \E x \in 1 .. m : s[p] = f[x]
  /\ \A x \in 1 .. m : \E p \in 1 .. m : s[p] = f[x]
  /\ \A p, q \in 1 .. m : p <= q => value[s[p]] <= value[s[q]]

(* Each of the two orders of _crowding_distance rises along the front.       *)
LEMMA FrontRises ==
  ASSUME NEW n \in Nat, NEW m \in Nat, NEW f, DOMAIN f = 1 .. m, \A x \in 1 .. m : f[x] \in 1 .. n,
         NEW value, \A x \in 1 .. n : value[x] \in Nat
  PROVE  Rising(SortedBy(f, [i \in DOMAIN f |-> value[f[i]]]), f, value, m)
<1>1. PICK key : key = [i \in DOMAIN f |-> value[f[i]]]
  OBVIOUS
<1>2. \A x \in 1 .. m : key[x] \in Int /\ key[x] = value[f[x]]
  BY <1>1
<1>3. PICK at : Sorts(at, f, key, m)
  BY <1>2, SortingSorts
<1>4. PICK s : s = SortedBy(f, key)
  OBVIOUS
<1>5. /\ \A p \in 1 .. m : at[p] \in 1 .. m
      /\ s = [p \in 1 .. m |-> f[at[p]]]
      /\ \A x \in 1 .. m : \E p \in 1 .. m : at[p] = x
      /\ \A p, q \in 1 .. m : p < q => key[at[p]] <= key[at[q]]
  BY <1>3, <1>4 DEF Sorts
<1>6. DOMAIN s = 1 .. m /\ Len(s) = m
  BY <1>5
<1>7. \A p \in 1 .. m : s[p] = f[at[p]] /\ at[p] \in 1 .. m /\ value[s[p]] = key[at[p]] /\ value[s[p]] \in Int
  BY <1>2, <1>5
<1>8. \A x \in 1 .. m : \E p \in 1 .. m : s[p] = f[x]
  BY <1>5, <1>7
<1>9. ASSUME NEW p \in 1 .. m, NEW q \in 1 .. m, p <= q
      PROVE  value[s[p]] <= value[s[q]]
  <2>1. CASE p = q
    BY <1>7, <2>1
  <2>2. CASE p < q
    BY <1>5, <1>7, <2>2
  <2> QED
    BY <1>9, <2>1, <2>2
<1>10. Rising(s, f, value, m)
  BY <1>6, <1>7, <1>8, <1>9 DEF Rising
<1> QED
  BY <1>1, <1>4, <1>10

(* A gap is at most the span of the front.                                  *)
LEMMA GapsInSpan ==
  ASSUME NEW n \in Nat, NEW m \in Nat, m >= 1, NEW f, DOMAIN f = 1 .. m, \A x \in 1 .. m : f[x] \in 1 .. n,
         NEW value, \A x \in 1 .. n : value[x] \in Nat, NEW s, Rising(s, f, value, m)
  PROVE  /\ Span(value[s[1]], value[Last(s)]) \in Nat /\ Span(value[s[1]], value[Last(s)]) >= 1
         /\ \A i \in 1 .. m : /\ Gap(s, value, f[i]) \in Nat
                              /\ Gap(s, value, f[i]) <= Span(value[s[1]], value[Last(s)])
<1>1. \A p \in 1 .. m : value[s[p]] \in Nat
  BY DEF Rising
<1>2. Last(s) = s[m] /\ Len(s) = m /\ DOMAIN s = 1 .. m
  BY DEF Last, Rising
<1>3. 1 \in 1 .. m /\ m \in 1 .. m
  OBVIOUS
<1>4. PICK low \in Nat : low = value[s[1]]
  BY <1>1, <1>3
<1>5. PICK high \in Nat : high = value[s[m]]
  BY <1>1, <1>3
<1>6. \A p \in 1 .. m : low <= value[s[p]] /\ value[s[p]] <= high
  <2> TAKE p \in 1 .. m
  <2>1. 1 <= p /\ p <= m
    OBVIOUS
  <2> QED
    BY <1>3, <1>4, <1>5, <2>1 DEF Rising
<1>7. PICK span \in Nat : span = Span(value[s[1]], value[Last(s)]) /\ span >= 1 /\ span >= high - low
  <2>1. low <= high
    BY <1>3, <1>5, <1>6
  <2>2. Span(value[s[1]], value[Last(s)]) = IF high = low THEN 1 ELSE high - low
    BY <1>2, <1>4, <1>5 DEF Span
  <2>3. PICK k : k = IF high = low THEN 1 ELSE high - low
    OBVIOUS
  <2>4. k \in Nat /\ k >= 1 /\ k >= high - low
    BY <2>1, <2>3
  <2> QED
    BY <2>2, <2>3, <2>4
<1>8. ASSUME NEW i \in 1 .. m
      PROVE  Gap(s, value, f[i]) \in Nat /\ Gap(s, value, f[i]) <= span
  <2>1. PICK P : P = PlaceOf(s, f[i])
    OBVIOUS
  <2>2. P \in 1 .. m
    <3>1. \E p \in 1 .. m : s[p] = f[i]
      BY DEF Rising
    <3> QED
      BY <1>2, <2>1, <3>1 DEF PlaceOf
  <2>3. Gap(s, value, f[i]) = IF P \in {1, m} THEN 0 ELSE value[s[P + 1]] - value[s[P - 1]]
    BY <1>2, <2>1 DEF Gap
  <2>4. CASE P \in {1, m}
    BY <2>3, <2>4
  <2>5. CASE P \notin {1, m}
    <3>1. P + 1 \in 1 .. m /\ P - 1 \in 1 .. m /\ P - 1 <= P + 1
      BY <2>2, <2>5
    <3>2. PICK a \in Nat : a = value[s[P - 1]] /\ low <= a /\ a <= high
      BY <1>1, <1>6, <3>1
    <3>3. PICK b \in Nat : b = value[s[P + 1]] /\ low <= b /\ b <= high
      BY <1>1, <1>6, <3>1
    <3>4. a <= b
      BY <3>1, <3>2, <3>3 DEF Rising
    <3>5. Gap(s, value, f[i]) = b - a
      BY <2>3, <2>5, <3>2, <3>3
    <3>6. b - a \in Nat /\ b - a <= high - low
      BY <3>2, <3>3, <3>4, SMTT(30)
    <3> QED
      BY <1>7, <3>5, <3>6
  <2> QED
    BY <2>4, <2>5
<1> QED
  BY <1>7, <1>8

(* The crowding distance of a front: the ends of both orders have the most,  *)
(* the others have less.                                                  *)
Spread(d, f, pop, m, byUsed, byCost, most) ==
  /\ d \in [1 .. m -> Nat] /\ most \in Nat
  /\ Rising(byUsed, f, [x \in DOMAIN pop |-> pop[x].used], m)
  /\ Rising(byCost, f, [x \in DOMAIN pop |-> pop[x].cost], m)
  /\ \A i \in 1 .. m :
       IF m <= 2 \/ f[i] \in {byUsed[1], byUsed[m], byCost[1], byCost[m]}
       THEN d[i] = most ELSE d[i] < most

(* The ends of a front are farther apart than anything between them.         *)
LEMMA CrowdingSpreads ==
  ASSUME NEW n \in Nat, NEW pop, Plans(pop, n), NEW f \in Seq(1 .. n), NEW m \in Nat, m = Len(f), m >= 1
  PROVE  \E byUsed, byCost, most : Spread(Crowding(pop, f), f, pop, m, byUsed, byCost, most)
<1>1. DOMAIN f = 1 .. m /\ \A x \in 1 .. m : f[x] \in 1 .. n
  OBVIOUS
<1>2. DOMAIN pop = 1 .. n /\ \A x \in 1 .. n : pop[x].used \in Nat /\ pop[x].cost \in Nat
  BY DEF Plans
<1>3. PICK used : used = [x \in DOMAIN pop |-> pop[x].used]
  OBVIOUS
<1>4. PICK cost : cost = [x \in DOMAIN pop |-> pop[x].cost]
  OBVIOUS
<1>5. \A x \in 1 .. n : used[x] \in Nat
  BY <1>2, <1>3
<1>6. \A x \in 1 .. n : cost[x] \in Nat
  BY <1>2, <1>4
<1>7. PICK bu : bu = SortedBy(f, [i \in DOMAIN f |-> used[f[i]]])
  OBVIOUS
<1>8. PICK bc : bc = SortedBy(f, [i \in DOMAIN f |-> cost[f[i]]])
  OBVIOUS
<1>9. Rising(bu, f, used, m)
  BY <1>1, <1>5, <1>7, FrontRises
<1>10. Rising(bc, f, cost, m)
  BY <1>1, <1>6, <1>8, FrontRises
<1>11. PICK su \in Nat : /\ su = Span(used[bu[1]], used[Last(bu)]) /\ su >= 1
                         /\ \A i \in 1 .. m : Gap(bu, used, f[i]) \in Nat /\ Gap(bu, used, f[i]) <= su
  <2>1. PICK z : z = Span(used[bu[1]], used[Last(bu)])
    OBVIOUS
  <2>2. /\ z \in Nat /\ z >= 1
        /\ \A i \in 1 .. m : Gap(bu, used, f[i]) \in Nat /\ Gap(bu, used, f[i]) <= z
    BY <1>1, <1>5, <1>9, <2>1, GapsInSpan
  <2> QED
    BY <2>1, <2>2, Zenon
<1>12. PICK sc \in Nat : /\ sc = Span(cost[bc[1]], cost[Last(bc)]) /\ sc >= 1
                         /\ \A i \in 1 .. m : Gap(bc, cost, f[i]) \in Nat /\ Gap(bc, cost, f[i]) <= sc
  <2>1. PICK z : z = Span(cost[bc[1]], cost[Last(bc)])
    OBVIOUS
  <2>2. /\ z \in Nat /\ z >= 1
        /\ \A i \in 1 .. m : Gap(bc, cost, f[i]) \in Nat /\ Gap(bc, cost, f[i]) <= z
    BY <1>1, <1>6, <1>10, <2>1, GapsInSpan
  <2> QED
    BY <2>1, <2>2, Zenon
<1>13. PICK most \in Nat : most = 2 * su * sc + 1
  <2>1. 2 * su * sc + 1 \in Nat
    <3>1. PICK a \in Nat : a = 2 * su
      OBVIOUS
    <3>2. PICK b \in Nat : b = a * sc
      BY Products
    <3>3. b + 1 \in Nat
      OBVIOUS
    <3> QED
      BY <3>1, <3>2, <3>3, Zenon
  <2> QED
    BY <2>1
<1>14. PICK d : d = Crowding(pop, f)
  OBVIOUS
<1>15. d = [i \in 1 .. m |->
        IF m <= 2 \/ AtEnd(f, f[i], bu) \/ AtEnd(f, f[i], bc) THEN most
        ELSE sc * Gap(bu, used, f[i]) + su * Gap(bc, cost, f[i])]
  <2>1. d = [i \in DOMAIN f |->
          IF Len(f) <= 2 \/ AtEnd(f, f[i], bu) \/ AtEnd(f, f[i], bc)
          THEN 2 * Span(used[bu[1]], used[Last(bu)]) * Span(cost[bc[1]], cost[Last(bc)]) + 1
          ELSE Span(cost[bc[1]], cost[Last(bc)]) * Gap(bu, used, f[i])
               + Span(used[bu[1]], used[Last(bu)]) * Gap(bc, cost, f[i])]
    BY <1>3, <1>4, <1>7, <1>8, <1>14, SMTT(30) DEF Crowding
  <2>2. d = [i \in DOMAIN f |->
          IF Len(f) <= 2 \/ AtEnd(f, f[i], bu) \/ AtEnd(f, f[i], bc)
          THEN 2 * su * sc + 1
          ELSE sc * Gap(bu, used, f[i]) + su * Gap(bc, cost, f[i])]
    <3>1. su = Span(used[bu[1]], used[Last(bu)]) /\ sc = Span(cost[bc[1]], cost[Last(bc)])
      BY <1>11, <1>12
    <3> QED
      BY <2>1, <3>1, Zenon
  <2> QED
    BY <1>1, <1>13, <2>2, Zenon
<1>16. ASSUME NEW i \in 1 .. m
       PROVE  /\ d[i] \in Nat
              /\ IF m <= 2 \/ f[i] \in {bu[1], bu[m], bc[1], bc[m]}
                 THEN d[i] = most ELSE d[i] < most
  <2>1. (m <= 2 \/ AtEnd(f, f[i], bu) \/ AtEnd(f, f[i], bc)) <=>
        (m <= 2 \/ f[i] \in {bu[1], bu[m], bc[1], bc[m]})
    BY DEF AtEnd
  <2>2. CASE m <= 2 \/ AtEnd(f, f[i], bu) \/ AtEnd(f, f[i], bc)
    BY <1>15, <2>1, <2>2
  <2>3. CASE ~(m <= 2 \/ AtEnd(f, f[i], bu) \/ AtEnd(f, f[i], bc))
    <3>1. PICK g \in Nat : g = Gap(bu, used, f[i]) /\ g <= su
      BY <1>11
    <3>2. PICK h \in Nat : h = Gap(bc, cost, f[i]) /\ h <= sc
      BY <1>12
    <3>3. d[i] = sc * g + su * h
      BY <1>15, <2>3, <3>1, <3>2
    <3>4. PICK a \in Nat : a = sc * g /\ a <= sc * su
      BY <3>1, Products
    <3>5. PICK b \in Nat : b = su * h /\ b <= su * sc
      BY <3>2, Products
    <3>6. PICK c \in Nat : c = su * sc /\ c = sc * su /\ most = c + c + 1
      <4>1. su * sc \in Nat /\ su * sc = sc * su /\ 2 * su * sc = su * sc + su * sc
        OBVIOUS
      <4> QED
        BY <1>13, <4>1
    <3>7. d[i] = a + b /\ a <= c /\ b <= c
      BY <3>3, <3>4, <3>5, <3>6
    <3>8. d[i] \in Nat /\ d[i] < most
      BY <3>6, <3>7
    <3> QED
      BY <2>1, <2>3, <3>8
  <2> QED
    BY <2>2, <2>3
<1>17. d \in [1 .. m -> Nat]
  BY <1>15, <1>16
<1>18. Spread(d, f, pop, m, bu, bc, most)
  BY <1>3, <1>4, <1>9, <1>10, <1>16, <1>17 DEF Spread
<1> QED
  BY <1>14, <1>18

(* The members of a front as they enter the next population: of the same     *)
(* vehicles and cost.                                                      *)
RankedAs(new, f, pop, m, k) ==
  /\ new \in Seq(Individuals(k)) /\ Len(new) = m
  /\ \A i \in 1 .. m : new[i].used = pop[f[i]].used /\ new[i].cost = pop[f[i]].cost

(* Rank and distance are all that a front changes of its members.            *)
LEMMA FrontRanked ==
  ASSUME NEW N \in Nat, NEW pop, Population(pop, N), NEW f \in Seq(1 .. N), NEW r \in Nat
  PROVE  /\ RankedAs(Ranked(pop, f, r), f, pop, Len(f), point.n)
         /\ \A i \in 1 .. Len(f) : Ranked(pop, f, r)[i].crowding = Crowding(pop, f)[i]
<1>1. PICK m \in Nat : m = Len(f) /\ DOMAIN f = 1 .. m
  OBVIOUS
<1>2. PICK d : d = Crowding(pop, f)
  OBVIOUS
<1>3. PICK new : new = Ranked(pop, f, r)
  OBVIOUS
<1>4. new = [i \in 1 .. m |-> [pop[f[i]] EXCEPT !.rank = r, !.crowding = d[i]]]
  BY <1>1, <1>2, <1>3 DEF Ranked
<1>5. ASSUME NEW i \in 1 .. m
      PROVE  d[i] \in Nat
  <2>1. PICK bu, bc, most : Spread(Crowding(pop, f), f, pop, m, bu, bc, most)
    <3>1. m >= 1 /\ Plans(pop, N)
      BY PopulationsPlan
    <3> QED
      BY <1>1, <3>1, CrowdingSpreads
  <2> QED
    BY <1>2, <2>1 DEF Spread
<1>6. ASSUME NEW i \in 1 .. m
      PROVE  /\ new[i] \in Individuals(point.n)
             /\ new[i].used = pop[f[i]].used /\ new[i].cost = pop[f[i]].cost
             /\ new[i].crowding = d[i]
  <2>1. PICK x : x = pop[f[i]] /\ x \in Individuals(point.n)
    <3>1. f[i] \in 1 .. N
      BY <1>1
    <3> QED
      BY <3>1 DEF Population
  <2>2. PICK c \in Nat : c = d[i]
    BY <1>5
  <2>3. new[i] = [x EXCEPT !.rank = r, !.crowding = c]
    BY <1>4, <2>1, <2>2
  <2>4. x \in [chromosome : [1 .. point.n -> Nat], used : Nat, cost : Nat, rank : Nat, crowding : Nat]
    BY <2>1 DEF Individuals
  <2>5. new[i] \in [chromosome : [1 .. point.n -> Nat], used : Nat, cost : Nat, rank : Nat, crowding : Nat]
    BY <2>3, <2>4
  <2>6. new[i].used = x.used /\ new[i].cost = x.cost /\ new[i].crowding = c
    BY <2>3, <2>4
  <2> QED
    BY <2>1, <2>2, <2>5, <2>6 DEF Individuals
<1>7. PICK T : T = Individuals(point.n)
  OBVIOUS
<1>8. new \in Seq(T) /\ Len(new) = m
  <2>1. \A i \in 1 .. m : new[i] \in T
    BY <1>6, <1>7
  <2>2. new \in [1 .. m -> T]
    BY <1>4, <2>1
  <2> QED
    BY <2>2
<1> QED
  BY <1>1, <1>2, <1>3, <1>6, <1>7, <1>8 DEF RankedAs

(* The first of the ranked ones by falling crowding, K of them.              *)
Crowded(new, K) == SubSeq(SortedBy(new, [i \in DOMAIN new |-> -new[i].crowding]), 1, K)

(* at[p] is the place in new from which the p-th of those comes.             *)
Fallen(at, new, m) ==
  /\ \A p \in 1 .. m : at[p] \in 1 .. m
  /\ \A p, q \in 1 .. m : at[p] = at[q] => p = q
  /\ \A x \in 1 .. m : \E p \in 1 .. m : at[p] = x
  /\ \A p, q \in 1 .. m : p < q => new[at[p]].crowding >= new[at[q]].crowding

(* w: the first K of those.                                                *)
TakenFrom(w, at, new, m, K, k) ==
  /\ Fallen(at, new, m)
  /\ w \in Seq(Individuals(k)) /\ Len(w) = K
  /\ \A p \in 1 .. K : w[p] = new[at[p]]

(* The members taken are those with the most distance.                       *)
LEMMA CrowdedTaken ==
  ASSUME NEW k, NEW m \in Nat, NEW new \in Seq(Individuals(k)), m = Len(new), NEW K \in 0 .. m
  PROVE  \E at : TakenFrom(Crowded(new, K), at, new, m, K, k)
<1>1. PICK key : key = [i \in DOMAIN new |-> -new[i].crowding]
  OBVIOUS
<1>2. PICK T : T = Individuals(k)
  OBVIOUS
<1>3. new \in Seq(T) /\ DOMAIN new = 1 .. m
  BY <1>2
<1>4. \A x \in 1 .. m : new[x] \in T /\ new[x].crowding \in Nat
  <2> TAKE x \in 1 .. m
  <2>1. new[x] \in T
    BY <1>3
  <2> QED
    BY <1>2, <2>1 DEF Individuals
<1>5. \A x \in 1 .. m : key[x] \in Int /\ key[x] = 0 - new[x].crowding
  <2> TAKE x \in 1 .. m
  <2>1. PICK c \in Nat : c = new[x].crowding
    BY <1>4
  <2>2. key[x] = -c
    BY <1>1, <1>3, <2>1
  <2> QED
    BY <2>1, <2>2
<1>6. PICK at : Sorts(at, new, key, m)
  BY <1>3, <1>5, SortingSorts
<1>7. PICK s : s = SortedBy(new, key)
  OBVIOUS
<1>8. /\ \A p \in 1 .. m : at[p] \in 1 .. m
      /\ \A p, q \in 1 .. m : at[p] = at[q] => p = q
      /\ \A x \in 1 .. m : \E p \in 1 .. m : at[p] = x
      /\ s = [p \in 1 .. m |-> new[at[p]]]
      /\ \A p, q \in 1 .. m : p < q => key[at[p]] <= key[at[q]]
  BY <1>6, <1>7 DEF Sorts
<1>9. Fallen(at, new, m)
  <2>1. ASSUME NEW p \in 1 .. m, NEW q \in 1 .. m, p < q
        PROVE  new[at[p]].crowding >= new[at[q]].crowding
    <3>1. PICK x \in 1 .. m : x = at[p]
      BY <1>8
    <3>2. PICK y \in 1 .. m : y = at[q]
      BY <1>8
    <3>3. key[x] <= key[y]
      BY <1>8, <2>1, <3>1, <3>2
    <3>4. PICK c \in Nat : c = new[x].crowding /\ key[x] = 0 - c
      BY <1>4, <1>5
    <3>5. PICK e \in Nat : e = new[y].crowding /\ key[y] = 0 - e
      BY <1>4, <1>5
    <3>6. c >= e
      BY <3>3, <3>4, <3>5
    <3> QED
      BY <3>1, <3>2, <3>4, <3>5, <3>6
  <2> QED
    BY <1>8, <2>1 DEF Fallen
<1>10. s \in Seq(T) /\ Len(s) = m
  <2>1. s \in [1 .. m -> T]
    BY <1>4, <1>8
  <2> QED
    BY <2>1
<1>11. PICK w : w = SubSeq(s, 1, K)
  OBVIOUS
<1>12. w \in Seq(T) /\ Len(w) = K /\ \A p \in 1 .. K : w[p] = s[p]
  <2>1. Len(w) = K
    BY <1>10, <1>11
  <2>2. \A p \in 1 .. K : w[p] = s[p]
    BY <1>10, <1>11
  <2>3. w \in Seq(T)
    <3>1. \A i \in 1 .. K : s[i] \in T
      BY <1>10
    <3>2. w = [i \in 1 .. K |-> s[i]]
      BY <1>10, <1>11
    <3>3. w \in [1 .. K -> T]
      BY <3>1, <3>2
    <3> QED
      BY <3>3
  <2> QED
    BY <2>1, <2>2, <2>3
<1>13. \A p \in 1 .. K : w[p] = new[at[p]]
  <2> TAKE p \in 1 .. K
  <2>1. p \in 1 .. m
    OBVIOUS
  <2>2. s[p] = new[at[p]]
    BY <1>8, <2>1
  <2> QED
    BY <1>12, <2>2
<1>14. w = Crowded(new, K)
  BY <1>1, <1>7, <1>11 DEF Crowded
<1>15. TakenFrom(w, at, new, m, K, k)
  BY <1>2, <1>9, <1>12, <1>13 DEF TakenFrom
<1> QED
  BY <1>14, <1>15

(* next keeps a plan as cheap, and one with as few vehicles, as any of pop.  *)
Keeps(next, pop, n) ==
  /\ \E j \in 1 .. Len(next) : \A p \in 1 .. n : next[j].cost <= pop[p].cost
  /\ \E j \in 1 .. Len(next) : \A p \in 1 .. n : next[j].used <= pop[p].used

(* The members of a front that have the most of d are the four ends.          *)
FourEnds(d, F, m, most, a, b, c, e) ==
  /\ most \in Nat /\ \A i \in 1 .. m : d[i] \in Nat
  /\ \A x, y \in 1 .. m : F[x] = F[y] => x = y
  /\ \A i \in 1 .. m : IF F[i] \in {a, b, c, e} THEN d[i] = most ELSE d[i] < most
  /\ \E i \in 1 .. m : F[i] = a

FallsBy(at, d, m) ==
  /\ \A p \in 1 .. m : at[p] \in 1 .. m
  /\ \A p, q \in 1 .. m : at[p] = at[q] => p = q
  /\ \A x \in 1 .. m : \E p \in 1 .. m : at[p] = x
  /\ \A p, q \in 1 .. m : p < q => d[at[p]] >= d[at[q]]

(* Three places before one of the greatest crowding would all hold the two   *)
(* ends of the other kind: one of the first pair of ends is among them.     *)
LEMMA EndIsTaken ==
  ASSUME NEW m \in Nat, NEW K \in 0 .. m, K >= 3, NEW F, NEW at, NEW d, NEW most,
         NEW a, NEW b, NEW c, NEW e, FourEnds(d, F, m, most, a, b, c, e), FallsBy(at, d, m)
  PROVE  \E p \in 1 .. K : F[at[p]] \in {a, c}
<1> SUFFICES ASSUME \A p \in 1 .. K : F[at[p]] \notin {a, c}
             PROVE  FALSE
  OBVIOUS
<1>1. PICK i \in 1 .. m : F[i] = a /\ d[i] = most
  BY DEF FourEnds
<1>2. PICK q \in 1 .. m : at[q] = i
  BY DEF FallsBy
<1>3. q > K
  <2>1. q \in 1 .. K => FALSE
    BY <1>1, <1>2
  <2> QED
    BY <2>1
<1>4. ASSUME NEW p \in 1 .. 3
      PROVE  p \in 1 .. m /\ at[p] \in 1 .. m /\ F[at[p]] \in {b, e}
  <2>1. p \in 1 .. m /\ p \in 1 .. K /\ p < q
    BY <1>3
  <2>2. PICK x \in 1 .. m : x = at[p]
    BY <2>1 DEF FallsBy
  <2>3. d[x] >= most
    BY <1>1, <1>2, <2>1, <2>2 DEF FallsBy
  <2>4. d[x] \in Nat
    BY DEF FourEnds
  <2>5. F[x] \in {a, b, c, e}
    BY <2>3, <2>4 DEF FourEnds
  <2> QED
    BY <2>1, <2>2, <2>5
<1>5. 1 \in 1 .. 3 /\ 2 \in 1 .. 3 /\ 3 \in 1 .. 3
  OBVIOUS
<1>6. F[at[1]] # F[at[2]] /\ F[at[1]] # F[at[3]] /\ F[at[2]] # F[at[3]]
  <2>1. at[1] # at[2] /\ at[1] # at[3] /\ at[2] # at[3]
    BY <1>4, <1>5 DEF FallsBy
  <2> QED
    BY <1>4, <1>5, <2>1 DEF FourEnds
<1> QED
  BY <1>4, <1>5, <1>6

(* So the truncated first front keeps both kinds of ends: two ends of each   *)
(* order are the plans of the least of one value.                          *)
LEMMA EndsKept ==
  ASSUME NEW n \in Nat, NEW pop, Plans(pop, n), NEW F, FirstFront(F, pop, n), NEW m \in Nat, m = Len(F),
         NEW new, NEW k, RankedAs(new, F, pop, m, k),
         \A i \in 1 .. m : new[i].crowding = Crowding(pop, F)[i],
         NEW K \in 0 .. m, K >= 3, NEW at, NEW w, TakenFrom(w, at, new, m, K, k)
  PROVE  Keeps(w, pop, n)
<1>1. Fallen(at, new, m) /\ Len(w) = K /\ \A p \in 1 .. K : w[p] = new[at[p]]
  BY DEF TakenFrom
<1>2. F \in Seq(1 .. n) /\ DOMAIN F = 1 .. m /\ \A x \in 1 .. m : F[x] \in 1 .. n
  BY DEF FirstFront
<1>3. PICK used : used = [x \in DOMAIN pop |-> pop[x].used]
  OBVIOUS
<1>4. PICK cost : cost = [x \in DOMAIN pop |-> pop[x].cost]
  OBVIOUS
<1>5. \A x \in 1 .. n : /\ used[x] = pop[x].used /\ cost[x] = pop[x].cost
                        /\ used[x] \in Nat /\ cost[x] \in Nat
  BY <1>3, <1>4 DEF Plans
<1>6. PICK d : d = Crowding(pop, F)
  OBVIOUS
<1>7. PICK bu, bc, most : Spread(Crowding(pop, F), F, pop, m, bu, bc, most)
  BY <1>2, CrowdingSpreads
<1>8. /\ \A i \in 1 .. m : d[i] \in Nat
      /\ most \in Nat /\ Rising(bu, F, used, m) /\ Rising(bc, F, cost, m)
      /\ \A i \in 1 .. m : IF F[i] \in {bu[1], bu[m], bc[1], bc[m]} THEN d[i] = most ELSE d[i] < most
  <2>1. ~(m <= 2)
    OBVIOUS
  <2> QED
    BY <1>3, <1>4, <1>6, <1>7, <2>1 DEF Spread
<1>9. 1 \in 1 .. m /\ m \in 1 .. m
  OBVIOUS
<1>10. ASSUME NEW p \in 1 .. m
      PROVE  \E x \in 1 .. m, y \in 1 .. m : bu[p] = F[x] /\ bc[p] = F[y]
  BY <1>8 DEF Rising
<1>11. ASSUME NEW x \in 1 .. m
       PROVE  used[bu[1]] <= used[F[x]] /\ used[F[x]] <= used[bu[m]]
  <2>1. PICK p \in 1 .. m : bu[p] = F[x]
    BY <1>8 DEF Rising
  <2>2. 1 <= p /\ p <= m
    OBVIOUS
  <2> QED
    BY <1>8, <1>9, <2>1, <2>2 DEF Rising
<1>12. ASSUME NEW x \in 1 .. m
       PROVE  cost[bc[1]] <= cost[F[x]] /\ cost[F[x]] <= cost[bc[m]]
  <2>1. PICK p \in 1 .. m : bc[p] = F[x]
    BY <1>8 DEF Rising
  <2>2. 1 <= p /\ p <= m
    OBVIOUS
  <2> QED
    BY <1>8, <1>9, <2>1, <2>2 DEF Rising
<1>13. \A x, y \in 1 .. m : ~(/\ used[F[x]] <= used[F[y]] /\ cost[F[x]] <= cost[F[y]]
                              /\ used[F[x]] < used[F[y]] \/ cost[F[x]] < cost[F[y]])
  <2> TAKE x, y \in 1 .. m
  <2>1. ~Dominates(pop[F[x]], pop[F[y]])
    BY <1>2 DEF FirstFront
  <2>2. used[F[x]] = pop[F[x]].used /\ cost[F[x]] = pop[F[x]].cost
    BY <1>2, <1>5
  <2>3. used[F[y]] = pop[F[y]].used /\ cost[F[y]] = pop[F[y]].cost
    BY <1>2, <1>5
  <2> QED
    BY <2>1, <2>2, <2>3 DEF Dominates
<1>14. \A x \in 1 .. m : used[F[x]] \in Nat /\ cost[F[x]] \in Nat
  BY <1>2, <1>5
<1>15. ASSUME NEW x \in 1 .. m
       PROVE  used[bc[m]] <= used[F[x]] /\ cost[bu[m]] <= cost[F[x]]
  <2>1. PICK y \in 1 .. m : bc[m] = F[y]
    BY <1>9, <1>10
  <2>2. PICK z \in 1 .. m : bu[m] = F[z]
    BY <1>9, <1>10
  <2>3. cost[F[x]] <= cost[F[y]] /\ used[F[x]] <= used[F[z]]
    BY <1>11, <1>12, <2>1, <2>2
  <2>4. /\ used[F[x]] \in Nat /\ cost[F[x]] \in Nat
        /\ used[F[y]] \in Nat /\ cost[F[z]] \in Nat
    BY <1>14
  <2>5. ~(used[F[x]] < used[F[y]])
    BY <1>13, <2>3, <2>4
  <2>6. ~(cost[F[x]] < cost[F[z]])
    BY <1>13, <2>3, <2>4
  <2>7. used[F[y]] <= used[F[x]]
    BY <2>4, <2>5
  <2>8. cost[F[z]] <= cost[F[x]]
    BY <2>4, <2>6
  <2> QED
    BY <2>1, <2>2, <2>7, <2>8
<1>16. \A x, y \in 1 .. m : F[x] = F[y] => x = y
  BY <1>2 DEF FirstFront
<1>17. \A p \in 1 .. m : at[p] \in 1 .. m
  BY <1>1 DEF Fallen
<1>18. \A p, q \in 1 .. m : at[p] = at[q] => p = q
  BY <1>1 DEF Fallen
<1>19. \A x \in 1 .. m : \E p \in 1 .. m : at[p] = x
  BY <1>1 DEF Fallen
<1>20. \A p, q \in 1 .. m : p < q => d[at[p]] >= d[at[q]]
  <2> TAKE p, q \in 1 .. m
  <2>1. d[at[p]] = new[at[p]].crowding /\ d[at[q]] = new[at[q]].crowding
    BY <1>6, <1>17
  <2> QED
    BY <1>1, <2>1 DEF Fallen
<1>21. \A i \in 1 .. m : d[i] \in Nat
  BY <1>8
<1>22. most \in Nat
  BY <1>8
<1>23. FallsBy(at, d, m)
  BY <1>17, <1>18, <1>19, <1>20 DEF FallsBy
<1>24. PICK p \in 1 .. K : F[at[p]] \in {bu[1], bc[m]}
  <2>1. \E i \in 1 .. m : F[i] = bu[1]
    BY <1>9, <1>10
  <2>2. PICK a, b, c, e : a = bu[1] /\ b = bu[m] /\ c = bc[m] /\ e = bc[1]
    OBVIOUS
  <2>3. \A i \in 1 .. m : IF F[i] \in {a, b, c, e} THEN d[i] = most ELSE d[i] < most
    <3>1. {bu[1], bu[m], bc[1], bc[m]} = {a, b, c, e}
      BY <2>2
    <3> QED
      BY <1>8, <3>1
  <2>4. \E i \in 1 .. m : F[i] = a
    BY <2>1, <2>2
  <2>5. FourEnds(d, F, m, most, a, b, c, e)
    BY <1>16, <1>21, <1>22, <2>3, <2>4 DEF FourEnds
  <2>6. \E x \in 1 .. K : F[at[x]] \in {a, c}
    BY <1>23, <2>5, EndIsTaken
  <2> QED
    BY <2>2, <2>6
<1>25. PICK q \in 1 .. K : F[at[q]] \in {bc[1], bu[m]}
  <2>1. \E i \in 1 .. m : F[i] = bc[1]
    BY <1>9, <1>10
  <2>2. PICK a, b, c, e : a = bc[1] /\ b = bu[1] /\ c = bu[m] /\ e = bc[m]
    OBVIOUS
  <2>3. \A i \in 1 .. m : IF F[i] \in {a, b, c, e} THEN d[i] = most ELSE d[i] < most
    <3>1. {bu[1], bu[m], bc[1], bc[m]} = {a, b, c, e}
      BY <2>2
    <3> QED
      BY <1>8, <3>1
  <2>4. \E i \in 1 .. m : F[i] = a
    BY <2>1, <2>2
  <2>5. FourEnds(d, F, m, most, a, b, c, e)
    BY <1>16, <1>21, <1>22, <2>3, <2>4 DEF FourEnds
  <2>6. \E x \in 1 .. K : F[at[x]] \in {a, c}
    BY <1>23, <2>5, EndIsTaken
  <2> QED
    BY <2>2, <2>6
<1>26. \A x \in 1 .. K : x \in 1 .. m /\ at[x] \in 1 .. m
  BY <1>17
<1>27. \A x \in 1 .. K : w[x].used = used[F[at[x]]] /\ w[x].cost = cost[F[at[x]]]
  <2> TAKE x \in 1 .. K
  <2>1. PICK y \in 1 .. m : y = at[x] /\ w[x] = new[y]
    BY <1>26, <1>1
  <2>2. new[y].used = pop[F[y]].used /\ new[y].cost = pop[F[y]].cost
    BY DEF RankedAs
  <2>3. used[F[y]] = pop[F[y]].used /\ cost[F[y]] = pop[F[y]].cost
    BY <1>2, <1>5
  <2> QED
    BY <2>1, <2>2, <2>3
<1>28. \A j \in 1 .. n : w[p].used <= pop[j].used
  <2> TAKE j \in 1 .. n
  <2>1. PICK x \in 1 .. m : \A i \in 1 .. n : pop[F[x]].used <= pop[i].used
    BY <1>2 DEF FirstFront
  <2>2. used[F[at[p]]] <= used[F[x]]
    BY <1>11, <1>15, <1>24
  <2>3. used[F[x]] <= used[j]
    BY <1>2, <1>5, <2>1
  <2>4. used[F[at[p]]] \in Nat /\ used[F[x]] \in Nat /\ used[j] \in Nat /\ used[j] = pop[j].used
    BY <1>5, <1>14, <1>26
  <2> QED
    BY <1>27, <2>2, <2>3, <2>4
<1>29. \A j \in 1 .. n : w[q].cost <= pop[j].cost
  <2> TAKE j \in 1 .. n
  <2>1. PICK x \in 1 .. m : \A i \in 1 .. n : pop[F[x]].cost <= pop[i].cost
    BY <1>2 DEF FirstFront
  <2>2. cost[F[at[q]]] <= cost[F[x]]
    BY <1>12, <1>15, <1>25
  <2>3. cost[F[x]] <= cost[j]
    BY <1>2, <1>5, <2>1
  <2>4. cost[F[at[q]]] \in Nat /\ cost[F[x]] \in Nat /\ cost[j] \in Nat /\ cost[j] = pop[j].cost
    BY <1>5, <1>14, <1>26
  <2> QED
    BY <1>27, <2>2, <2>3, <2>4
<1> QED
  BY <1>28, <1>29, <1>1 DEF Keeps

-----------------------------------------------------------------------------
(* The next population under way.                                           *)
Underway(acc, k) ==
  /\ acc \in [next : Seq(Individuals(k)), rank : Nat, full : BOOLEAN]
  /\ Len(acc.next) <= Size

(* A front is taken: as a whole, its most crowded members, or not at all.    *)
Adds(w, new, acc, pop, f, k) ==
  /\ Underway(new, k)
  /\ w \in Seq(Individuals(k)) /\ new.next = acc.next \o w
  /\ acc.full => new = acc
  /\ ~acc.full /\ Len(acc.next) + Len(f) <= Size =>
       ~new.full /\ Len(w) = Len(f) /\ RankedAs(w, f, pop, Len(f), k)
  /\ ~acc.full /\ Len(acc.next) + Len(f) > Size =>
       new.full /\ w = Crowded(Ranked(pop, f, acc.rank), Size - Len(acc.next)) /\ Len(new.next) = Size

(* A sequence after another.                                                 *)
LEMMA Concatenated ==
  ASSUME NEW T, NEW s \in Seq(T), NEW w \in Seq(T)
  PROVE  /\ s \o w \in Seq(T) /\ Len(s \o w) = Len(s) + Len(w)
         /\ Len(s) \in Nat /\ Len(w) \in Nat
         /\ \A i \in 1 .. Len(s) : (s \o w)[i] = s[i]
         /\ \A i \in 1 .. Len(w) : (s \o w)[Len(s) + i] = w[i]
OBVIOUS

(* The step of optimize for a front, whatever room is left for it.           *)
LEMMA TakeAdds ==
  ASSUME SearchAssumption, NEW N \in Nat, NEW pop, Population(pop, N), NEW f \in Seq(1 .. N),
         NEW acc, Underway(acc, point.n)
  PROVE  \E w : Adds(w, Take(pop, acc, f), acc, pop, f, point.n)
<1>1. PICK k : k = point.n
  OBVIOUS
<1>2. PICK T : T = Individuals(k)
  OBVIOUS
<1>3. acc \in [next : Seq(T), rank : Nat, full : BOOLEAN] /\ Len(acc.next) <= Size
  BY <1>1, <1>2 DEF Underway
<1>4. PICK s \in Seq(T) : s = acc.next /\ Len(s) <= Size
  BY <1>3
<1>5. PICK r \in Nat : r = acc.rank
  BY <1>3
<1>6. PICK l \in Nat : l = Len(s)
  OBVIOUS
<1>7. PICK m \in Nat : m = Len(f)
  OBVIOUS
<1>8. Size \in Nat
  BY DEF SearchAssumption
<1>9. PICK new : new = Ranked(pop, f, r)
  OBVIOUS
<1>10. RankedAs(new, f, pop, m, k)
  BY <1>1, <1>7, <1>9, FrontRanked
<1>11. new \in Seq(T) /\ Len(new) = m
  BY <1>2, <1>10 DEF RankedAs
<1>12. PICK res : res = Take(pop, acc, f)
  OBVIOUS
<1>13. CASE acc.full
  <2>1. res = acc
    BY <1>12, <1>13 DEF Take
  <2>2. PICK w \in Seq(T) : w = << >>
    <3>1. << >> \in Seq(T)
      OBVIOUS
    <3> QED
      BY <3>1, Zenon
  <2>3. s \o w = s
    BY <2>2
  <2>4. Adds(w, res, acc, pop, f, k)
    <3>1. Underway(res, k) /\ res.next = acc.next \o w
      BY <1>1, <1>4, <2>1, <2>3
    <3> QED
      BY <1>2, <1>13, <2>1, <3>1 DEF Adds
  <2> QED
    BY <1>1, <1>12, <2>4
<1>14. CASE ~acc.full /\ l + m <= Size
  <2>1. res = [next |-> acc.next \o new, rank |-> acc.rank + 1, full |-> FALSE]
    BY <1>4, <1>5, <1>6, <1>7, <1>9, <1>12, <1>14 DEF Take
  <2>2. PICK t : t = s \o new /\ t \in Seq(T) /\ Len(t) = l + m
    <3>1. s \o new \in Seq(T) /\ Len(s \o new) = Len(s) + Len(new)
      BY <1>11, Concatenated, Zenon
    <3> QED
      BY <1>6, <1>11, <3>1
  <2>3. res = [next |-> t, rank |-> r + 1, full |-> FALSE]
    BY <1>4, <1>5, <2>1, <2>2
  <2>4. Underway(res, k)
    <3>1. r + 1 \in Nat
      OBVIOUS
    <3>2. res \in [next : Seq(T), rank : Nat, full : BOOLEAN]
      BY <2>2, <2>3, <3>1
    <3>3. Len(res.next) <= Size
      BY <1>14, <2>2, <2>3
    <3> QED
      BY <1>2, <3>2, <3>3 DEF Underway
  <2>5. res.next = acc.next \o new /\ ~res.full
    BY <2>1
  <2>6. Adds(new, res, acc, pop, f, k)
    BY <1>2, <1>4, <1>6, <1>7, <1>10, <1>11, <1>14, <2>4, <2>5 DEF Adds
  <2> QED
    BY <1>1, <1>12, <2>6
<1>15. CASE ~acc.full /\ l + m > Size
  <2>1. PICK K \in 0 .. m : K = Size - l
    BY <1>4, <1>6, <1>8, <1>15
  <2>2. PICK w : w = Crowded(new, K)
    OBVIOUS
  <2>3. res = [next |-> acc.next \o w, rank |-> acc.rank + 1, full |-> TRUE]
    <3>1. ~(Len(acc.next) + Len(f) <= Size)
      BY <1>4, <1>6, <1>7, <1>8, <1>15
    <3>2. w = SubSeq(SortedBy(new, [i \in DOMAIN new |-> -new[i].crowding]), 1, Size - Len(acc.next))
      BY <1>4, <1>6, <2>1, <2>2 DEF Crowded
    <3> QED
      BY <1>5, <1>9, <1>12, <1>15, <3>1, <3>2 DEF Take
  <2>4. w \in Seq(T) /\ Len(w) = K
    <3>1. new \in Seq(Individuals(k))
      BY <1>2, <1>11
    <3> QED
      <4>1. \E at : TakenFrom(Crowded(new, K), at, new, m, K, k)
        BY <1>11, <3>1, CrowdedTaken
      <4> QED
        BY <1>2, <2>2, <4>1 DEF TakenFrom
  <2>5. PICK t : t = s \o w /\ t \in Seq(T) /\ Len(t) = l + K
    <3>1. s \o w \in Seq(T) /\ Len(s \o w) = Len(s) + Len(w)
      BY <2>4, Concatenated, Zenon
    <3> QED
      BY <1>6, <2>4, <3>1
  <2>6. res = [next |-> t, rank |-> r + 1, full |-> TRUE]
    BY <1>4, <1>5, <2>3, <2>5
  <2>7. Len(t) = Size
    BY <1>8, <2>1, <2>5
  <2>8. Underway(res, k)
    <3>1. r + 1 \in Nat
      OBVIOUS
    <3>2. res \in [next : Seq(T), rank : Nat, full : BOOLEAN]
      BY <2>5, <2>6, <3>1
    <3>3. Len(res.next) <= Size
      BY <1>8, <2>6, <2>7
    <3> QED
      BY <1>2, <3>2, <3>3 DEF Underway
  <2>9. res.next = acc.next \o w /\ res.full /\ Len(res.next) = Size
    <3>1. res.next = t
      BY <2>6
    <3>2. acc.next \o w = t
      BY <1>4, <2>5
    <3>3. res.full
      BY <2>3
    <3> QED
      BY <2>7, <3>1, <3>2, <3>3
  <2>10. w = Crowded(Ranked(pop, f, acc.rank), Size - Len(acc.next))
    BY <1>4, <1>5, <1>6, <1>9, <2>1, <2>2
  <2>11. ~(Len(acc.next) + Len(f) <= Size)
    BY <1>4, <1>6, <1>7, <1>8, <1>15
  <2>12. Adds(w, res, acc, pop, f, k)
    BY <1>2, <1>15, <2>4, <2>8, <2>9, <2>10, <2>11 DEF Adds
  <2> QED
    BY <1>1, <1>12, <2>12
<1> QED
  <2>1. l + m <= Size \/ l + m > Size
    BY <1>8
  <2> QED
    BY <1>13, <1>14, <1>15, <2>1

(* What is kept stays kept.                                                 *)
LEMMA KeepsMore ==
  ASSUME NEW T, NEW s \in Seq(T), NEW w \in Seq(T), NEW pop, NEW n,
         Keeps(s, pop, n) \/ Keeps(w, pop, n)
  PROVE  Keeps(s \o w, pop, n)
<1>1. PICK l \in Nat : l = Len(s)
  OBVIOUS
<1>2. PICK m \in Nat : m = Len(w)
  OBVIOUS
<1>3. PICK t : t = s \o w
  OBVIOUS
<1>4. /\ t = s \o w /\ Len(t) = l + m
      /\ \A i \in 1 .. l : t[i] = s[i]
      /\ \A i \in 1 .. m : t[l + i] = w[i]
  <2>1. /\ Len(s \o w) = Len(s) + Len(w)
        /\ \A i \in 1 .. Len(s) : (s \o w)[i] = s[i]
        /\ \A i \in 1 .. Len(w) : (s \o w)[Len(s) + i] = w[i]
    <3>1. Len(s \o w) = Len(s) + Len(w)
      OBVIOUS
    <3>2. \A i \in 1 .. Len(s) : (s \o w)[i] = s[i]
      OBVIOUS
    <3>3. \A i \in 1 .. Len(w) : (s \o w)[Len(s) + i] = w[i]
      OBVIOUS
    <3> QED
      BY <3>1, <3>2, <3>3
  <2>2. /\ Len(t) = Len(s) + Len(w)
        /\ \A i \in 1 .. Len(s) : t[i] = s[i]
        /\ \A i \in 1 .. Len(w) : t[Len(s) + i] = w[i]
    BY <1>3, <2>1, Zenon
  <2>3. Len(s) = l /\ Len(w) = m
    BY <1>1, <1>2
  <2> HIDE <1>3, <2>1
  <2>4. \A i \in 1 .. m : t[l + i] = w[i]
    BY <2>2, <2>3, Zenon
  <2>5. \A i \in 1 .. l : t[i] = s[i]
    BY <2>2, <2>3, Zenon
  <2>6. Len(t) = l + m
    BY <2>2, <2>3, Zenon
  <2> QED
    BY <1>3, <2>4, <2>5, <2>6
<1>5. \A i \in 1 .. l : i \in 1 .. Len(t)
  BY <1>4
<1>6. \A i \in 1 .. m : l + i \in 1 .. Len(t)
  BY <1>4
<1>7. CASE Keeps(s, pop, n)
  <2>1. PICK i \in 1 .. l : \A p \in 1 .. n : s[i].cost <= pop[p].cost
    BY <1>1, <1>7 DEF Keeps
  <2>2. PICK j \in 1 .. l : \A p \in 1 .. n : s[j].used <= pop[p].used
    BY <1>1, <1>7 DEF Keeps
  <2>3. /\ i \in 1 .. Len(t) /\ \A p \in 1 .. n : t[i].cost <= pop[p].cost
        /\ j \in 1 .. Len(t) /\ \A p \in 1 .. n : t[j].used <= pop[p].used
    BY <1>4, <1>5, <2>1, <2>2
  <2> QED
    BY <1>4, <2>3, Zenon DEF Keeps
<1>8. CASE Keeps(w, pop, n)
  <2>1. PICK i \in 1 .. m : \A p \in 1 .. n : w[i].cost <= pop[p].cost
    BY <1>2, <1>8 DEF Keeps
  <2>2. PICK j \in 1 .. m : \A p \in 1 .. n : w[j].used <= pop[p].used
    BY <1>2, <1>8 DEF Keeps
  <2>3. /\ l + i \in 1 .. Len(t) /\ \A p \in 1 .. n : t[l + i].cost <= pop[p].cost
        /\ l + j \in 1 .. Len(t) /\ \A p \in 1 .. n : t[l + j].used <= pop[p].used
    BY <1>4, <1>6, <2>1, <2>2
  <2> QED
    BY <1>4, <2>3, Zenon DEF Keeps
<1> QED
  BY <1>7, <1>8

(* The fronts one after the other: sizes add up.                            *)
LEMMA PlacedCounts ==
  ASSUME NEW n \in Nat, NEW pop, NEW f, FrontsSound(f, pop, n), NEW i \in 1 .. Len(f)
  PROVE  /\ Cardinality(Placed(f, i - 1)) \in Nat
         /\ Cardinality(Placed(f, i)) = Cardinality(Placed(f, i - 1)) + Len(f[i])
<1>1. PICK m \in Nat : m = Len(f) /\ f \in Seq(Seq(1 .. n))
  BY DEF FrontsSound
<1>2. PICK A : A = Placed(f, i - 1)
  OBVIOUS
<1>3. PICK B : B = InFront(f, i)
  OBVIOUS
<1>4. PICK F \in Seq(1 .. n) : F = f[i]
  BY <1>1
<1>5. \A j \in 1 .. m : InFront(f, j) \subseteq 1 .. n
  <2> TAKE j \in 1 .. m
  <2>1. f[j] \in Seq(1 .. n)
    BY <1>1
  <2> QED
    BY <2>1 DEF InFront
<1>6. A \subseteq 1 .. n /\ B \subseteq 1 .. n
  <2>1. \A j \in 1 .. i - 1 : j \in 1 .. m
    BY <1>1
  <2>2. i \in 1 .. m
    BY <1>1
  <2> QED
    BY <1>2, <1>3, <1>5, <2>1, <2>2 DEF Placed
<1>7. IsFiniteSet(A) /\ IsFiniteSet(B)
  <2>1. IsFiniteSet(1 .. n)
    BY FS_Interval
  <2> QED
    BY <1>6, <2>1, FS_Subset
<1>8. Cardinality(B) = Len(F)
  <2>1. \A x, y \in DOMAIN F : F[x] = F[y] => x = y
    BY <1>1, <1>4 DEF FrontsSound
  <2>2. Cardinality({F[x] : x \in DOMAIN F}) = Len(F)
    BY <2>1, ListedOnce
  <2> QED
    BY <1>3, <1>4, <2>2 DEF InFront
<1>9. A \cap B = {}
  <2>1. InFront(f, i) \cap Placed(f, i - 1) = {}
    BY DEF FrontsSound
  <2> QED
    BY <1>2, <1>3, <2>1
<1>10. Placed(f, i) = A \cup B
  <2>1. PICK k \in Nat : i = k + 1 /\ k = i - 1
    BY <1>1
  <2>2. Placed(f, k + 1) = Placed(f, k) \cup InFront(f, k + 1)
    BY PlacedMore
  <2> QED
    BY <1>2, <1>3, <2>1, <2>2
<1>11. Cardinality(A \cup B) = Cardinality(A) + Cardinality(B)
  <2>1. Cardinality(A \cup B) = Cardinality(A) + Cardinality(B) - Cardinality(A \cap B)
    BY <1>7, FS_Union
  <2>2. Cardinality(A \cap B) = 0
    BY <1>9, FS_EmptySet
  <2>3. PICK a \in Nat : a = Cardinality(A)
    BY <1>7, FS_CardinalityType
  <2>4. PICK b \in Nat : b = Cardinality(B)
    BY <1>7, FS_CardinalityType
  <2>5. Cardinality(A \cup B) = a + b - 0
    BY <2>1, <2>2, <2>3, <2>4
  <2> QED
    BY <2>3, <2>4, <2>5
<1>12. Cardinality(A) \in Nat
  BY <1>7, FS_CardinalityType
<1> QED
  BY <1>2, <1>4, <1>8, <1>10, <1>11, <1>12

(* The first front, whole or truncated, keeps the extremes.                  *)
LEMMA FirstKeeps ==
  ASSUME SearchAssumption, Size > 2, NEW N \in Nat, N >= 1, NEW pop, Population(pop, N),
         NEW f, f = Fronts(pop)[1], NEW acc, Underway(acc, point.n), acc.next = << >>, ~acc.full,
         NEW new, NEW w, Adds(w, new, acc, pop, f, point.n)
  PROVE  Keeps(new.next, pop, N)
<1>1. Plans(pop, N)
  BY PopulationsPlan
<1>2. FirstFront(f, pop, N)
  BY <1>1, FirstFrontIs
<1>3. PICK m \in Nat : m = Len(f) /\ DOMAIN f = 1 .. m
  BY <1>2 DEF FirstFront
<1>4. Size \in Nat
  BY DEF SearchAssumption
<1>5. Len(acc.next) = 0
  OBVIOUS
<1>6. new.next = w
  <2>1. PICK T : T = Individuals(point.n) /\ w \in Seq(T)
    BY DEF Adds
  <2>2. << >> \o w = w
    BY <2>1
  <2> QED
    BY <2>2 DEF Adds
<1>7. CASE m <= Size
  <2>1. Len(w) = m /\ RankedAs(w, f, pop, m, point.n)
    BY <1>3, <1>4, <1>5, <1>7 DEF Adds
  <2>2. \A x \in 1 .. m : w[x].used = pop[f[x]].used /\ w[x].cost = pop[f[x]].cost
    BY <2>1 DEF RankedAs
  <2>3. PICK x \in 1 .. m : \A p \in 1 .. N : pop[f[x]].cost <= pop[p].cost
    BY <1>2, <1>3 DEF FirstFront
  <2>4. PICK y \in 1 .. m : \A p \in 1 .. N : pop[f[y]].used <= pop[p].used
    BY <1>2, <1>3 DEF FirstFront
  <2>5. \A p \in 1 .. N : w[x].cost <= pop[p].cost
    BY <2>2, <2>3
  <2>6. \A p \in 1 .. N : w[y].used <= pop[p].used
    BY <2>2, <2>4
  <2> QED
    BY <1>6, <2>1, <2>5, <2>6 DEF Keeps
<1>8. CASE m > Size
  <2>1. PICK K \in 0 .. m : K = Size /\ K >= 3
    BY <1>4, <1>8
  <2>2. PICK r \in Nat : r = acc.rank
    BY DEF Underway
  <2>3. PICK u : u = Ranked(pop, f, r)
    OBVIOUS
  <2>4. f \in Seq(1 .. N)
    BY <1>2 DEF FirstFront
  <2>5. /\ RankedAs(u, f, pop, m, point.n)
        /\ \A i \in 1 .. m : u[i].crowding = Crowding(pop, f)[i]
    BY <1>3, <2>3, <2>4, FrontRanked
  <2>6. w = Crowded(u, K)
    <3>1. Size - Len(acc.next) = K
      BY <1>4, <1>5, <2>1
    <3>2. w = Crowded(Ranked(pop, f, acc.rank), Size - Len(acc.next))
      BY <1>3, <1>4, <1>5, <1>8 DEF Adds
    <3> QED
      BY <2>2, <2>3, <3>1, <3>2
  <2>7. u \in Seq(Individuals(point.n)) /\ m = Len(u)
    BY <2>5 DEF RankedAs
  <2>8. PICK at : TakenFrom(w, at, u, m, K, point.n)
    BY <2>6, <2>7, CrowdedTaken
  <2>9. Keeps(w, pop, N)
    <3>1. \A i \in 1 .. m : u[i].crowding = Crowding(pop, f)[i]
      BY <2>5
    <3>2. RankedAs(u, f, pop, m, point.n)
      BY <2>5
    <3>3. m = Len(f) /\ K >= 3 /\ K \in 0 .. m
      BY <1>3, <2>1
    <3> HIDE <2>3, <1>3, <2>1
    <3> QED
      BY <1>1, <1>2, <2>8, <3>1, <3>2, <3>3, EndsKept
  <2> QED
    BY <1>6, <2>9
<1> QED
  BY <1>4, <1>7, <1>8

(* After i fronts: all of their members are in, or the population is full.   *)
Filled(acc, f, i, pop, N) ==
  /\ Underway(acc, point.n)
  /\ IF acc.full THEN Len(acc.next) = Size ELSE Len(acc.next) = Cardinality(Placed(f, i))
  /\ i >= 1 /\ Size > 2 => Keeps(acc.next, pop, N)

(* A front more is in, or the population is full.                            *)
LEMMA FilledOn ==
  ASSUME SearchAssumption, NEW N \in Nat, N >= 1, NEW pop, Population(pop, N),
         NEW f, f = Fronts(pop), NEW i \in 1 .. Len(f), NEW acc, Filled(acc, f, i - 1, pop, N),
         i = 1 => acc.next = << >> /\ ~acc.full
  PROVE  Filled(Take(pop, acc, f[i]), f, i, pop, N)
<1>1. Plans(pop, N)
  BY PopulationsPlan
<1>2. FrontsSound(f, pop, N)
  BY <1>1, FrontsAreSound
<1>3. PICK F \in Seq(1 .. N) : F = f[i]
  <2>1. f \in Seq(Seq(1 .. N))
    BY <1>2 DEF FrontsSound
  <2> QED
    BY <2>1
<1>4. Underway(acc, point.n)
  BY DEF Filled
<1>5. PICK new : new = Take(pop, acc, F)
  OBVIOUS
<1>6. PICK w : Adds(w, new, acc, pop, F, point.n)
  BY <1>4, <1>5, TakeAdds
<1>7. PICK T : T = Individuals(point.n)
  OBVIOUS
<1>8. PICK s \in Seq(T) : s = acc.next
  BY <1>4, <1>7 DEF Underway
<1>9. w \in Seq(T) /\ new.next = s \o w
  BY <1>6, <1>7, <1>8 DEF Adds
<1>10. Underway(new, point.n)
  BY <1>6 DEF Adds
<1>11. PICK m \in Nat : m = Len(F)
  OBVIOUS
<1>12. PICK c \in Nat : c = Cardinality(Placed(f, i - 1)) /\ Cardinality(Placed(f, i)) = c + m
  BY <1>2, <1>3, <1>11, PlacedCounts
<1>13. IF new.full THEN Len(new.next) = Size ELSE Len(new.next) = c + m
  <2>1. PICK l \in Nat : l = Len(s) /\ l = Len(acc.next)
    BY <1>8
  <2>2. CASE acc.full
    <3>1. new = acc
      BY <1>6, <2>2 DEF Adds
    <3> QED
      BY <2>2, <3>1 DEF Filled
  <2>3. CASE ~acc.full /\ l + m <= Size
    <3>1. ~new.full /\ Len(w) = m
      BY <1>6, <1>11, <2>1, <2>3 DEF Adds
    <3>2. Len(s \o w) = l + m
      <4>1. w \in Seq(T)
        BY <1>9
      <4>2. Len(s \o w) = Len(s) + Len(w)
        BY <4>1, Concatenated
      <4> QED
        BY <2>1, <3>1, <4>2
    <3>3. l = c
      BY <1>12, <2>1, <2>3 DEF Filled
    <3> QED
      BY <1>9, <3>1, <3>2, <3>3
  <2>4. CASE ~acc.full /\ l + m > Size
    BY <1>6, <1>11, <2>1, <2>4 DEF Adds
  <2>5. l + m <= Size \/ l + m > Size
    BY DEF SearchAssumption
  <2> QED
    BY <2>2, <2>3, <2>4, <2>5
<1>14. ASSUME Size > 2
       PROVE  Keeps(new.next, pop, N)
  <2>1. CASE i = 1
    <3>1. F = Fronts(pop)[1]
      BY <1>3, <2>1
    <3> QED
      BY <1>4, <1>6, <1>14, <2>1, <3>1, FirstKeeps
  <2>2. CASE i # 1
    <3>1. i - 1 >= 1
      BY <2>2
    <3>2. Keeps(s, pop, N)
      BY <1>8, <1>14, <3>1 DEF Filled
    <3> QED
      BY <1>9, <3>2, KeepsMore
  <2> QED
    BY <2>1, <2>2
<1>15. Filled(new, f, i, pop, N)
  BY <1>10, <1>12, <1>13, <1>14 DEF Filled
<1> QED
  BY <1>3, <1>5, <1>15

(* Survivors is the population after the last front.                        *)
Surviving(it, pop, f, L) ==
  /\ it[0] = [next |-> << >>, rank |-> 0, full |-> FALSE]
  /\ \A i \in 1 .. L : it[i] = Take(pop, it[i - 1], f[i])
  /\ Survivors(pop) = it[L].next

(* The loop of optimize over the fronts, as it runs.                         *)
LEMMA SurvivorsRun ==
  ASSUME SearchAssumption, NEW N \in Nat, N >= 1, NEW pop, Population(pop, N),
         NEW f, f = Fronts(pop), NEW L \in Nat, L = Len(f)
  PROVE  \E it : Surviving(it, pop, f, L)
<1>1. f \in Seq(Seq(1 .. N))
  <2>1. FrontsSound(f, pop, N)
    BY PopulationsPlan, FrontsAreSound
  <2> QED
    BY <2>1 DEF FrontsSound
<1>2. PICK k : k = point.n
  OBVIOUS
<1>3. PICK V : V = {acc \in [next : Seq(Individuals(k)), rank : Nat, full : BOOLEAN] : Len(acc.next) <= Size}
  OBVIOUS
<1>4. \A acc : acc \in V <=> Underway(acc, k)
  BY <1>3 DEF Underway
<1>5. PICK base : base = [next |-> << >>, rank |-> 0, full |-> FALSE]
  OBVIOUS
<1>6. base \in V
  <2>1. PICK T : T = Individuals(k)
    OBVIOUS
  <2>2. base \in [next : Seq(T), rank : Nat, full : BOOLEAN]
    BY <1>5
  <2>3. Len(base.next) <= Size
    BY <1>5 DEF SearchAssumption
  <2> QED
    BY <1>4, <2>1, <2>2, <2>3 DEF Underway
<1>7. ASSUME NEW i \in 1 .. L, NEW v \in V
      PROVE  Take(pop, v, f[i]) \in V
  <2>1. PICK F \in Seq(1 .. N) : F = f[i]
    BY <1>1
  <2>2. Underway(v, point.n)
    BY <1>2, <1>4
  <2>3. PICK w : Adds(w, Take(pop, v, F), v, pop, F, point.n)
    BY <2>2, TakeAdds
  <2>4. Underway(Take(pop, v, F), k)
    BY <1>2, <2>3 DEF Adds
  <2> QED
    BY <1>4, <2>1, <2>4
<1>8. PICK G : G = [iv \in (1 .. L) \X V |-> Take(pop, iv[2], f[iv[1]])]
  OBVIOUS
<1>9. \A i \in 1 .. L, v \in V : G[<<i, v>>] = Take(pop, v, f[i]) /\ G[<<i, v>>] \in V
  BY <1>7, <1>8
<1>10. PICK g \in [0 .. L -> V] : Runs(g, L, base, G)
  BY <1>6, <1>9, RunExists
<1>11. PICK it : it = CHOOSE loop : loop = [i \in 0 .. L |->
          IF i = 0 THEN base ELSE Take(pop, loop[i - 1], f[i])]
  OBVIOUS
<1>12. Survivors(pop) = it[L].next
  BY <1>5, <1>11 DEF Survivors
<1>13. it = [i \in 0 .. L |-> IF i = 0 THEN base ELSE Take(pop, it[i - 1], f[i])]
  <2>1. g = [i \in 0 .. L |-> IF i = 0 THEN base ELSE Take(pop, g[i - 1], f[i])]
    <3>1. ASSUME NEW i \in 0 .. L
          PROVE  g[i] = IF i = 0 THEN base ELSE Take(pop, g[i - 1], f[i])
      <4>1. CASE i = 0
        BY <1>10, <4>1 DEF Runs
      <4>2. CASE i # 0
        <5>1. i \in 1 .. L /\ i - 1 \in 0 .. L
          BY <4>2
        <5>2. g[i - 1] \in V /\ g[i] = G[<<i, g[i - 1]>>]
          BY <1>10, <5>1 DEF Runs
        <5> QED
          BY <1>9, <4>2, <5>1, <5>2
      <4> QED
        BY <4>1, <4>2
    <3>2. g = [i \in 0 .. L |-> g[i]]
      BY <1>10
    <3> QED
      BY <3>1, <3>2
  <2> QED
    BY <1>11, <2>1
<1>14. it[0] = base /\ \A i \in 1 .. L : it[i] = Take(pop, it[i - 1], f[i])
  <2>1. \A i \in 1 .. L : i \in 0 .. L /\ i # 0
    OBVIOUS
  <2> QED
    BY <1>13, <2>1
<1> QED
  BY <1>5, <1>12, <1>14 DEF Surviving

(* The survivors of twice as many are a whole population that keeps the      *)
(* cheapest plan and the one with the fewest vehicles.                     *)
LEMMA SurvivorsWhole ==
  ASSUME SearchAssumption, NEW pop, Population(pop, 2 * Size)
  PROVE  /\ Population(Survivors(pop), Size)
         /\ Size > 2 => Keeps(Survivors(pop), pop, 2 * Size)
<1>1. PICK N \in Nat : N = 2 * Size /\ N >= 1 /\ Size \in Nat /\ Size >= 2
  BY DEF SearchAssumption
<1>2. PICK f : f = Fronts(pop)
  OBVIOUS
<1>3. Population(pop, N)
  BY <1>1
<1>4. FrontsSound(f, pop, N)
  BY <1>1, <1>2, <1>3, PopulationsPlan, FrontsAreSound
<1>5. PICK L \in Nat : L = Len(f) /\ L >= 1
  BY <1>4 DEF FrontsSound
<1>6. PICK it : Surviving(it, pop, f, L)
  BY <1>1, <1>2, <1>3, <1>5, SurvivorsRun
<1>7. PICK base : base = [next |-> << >>, rank |-> 0, full |-> FALSE] /\ it[0] = base
  BY <1>6 DEF Surviving
<1>8. PICK good : good = {i \in 0 .. L : Filled(it[i], f, i, pop, N)}
  OBVIOUS
<1>9. 0 \in good
  <2>1. Underway(base, point.n)
    <3>1. PICK T : T = Individuals(point.n)
      OBVIOUS
    <3>2. base \in [next : Seq(T), rank : Nat, full : BOOLEAN] /\ Len(base.next) <= Size
      BY <1>1, <1>7
    <3> QED
      BY <3>1, <3>2 DEF Underway
  <2>2. ~base.full /\ Len(base.next) = 0
    BY <1>7
  <2>3. Cardinality(Placed(f, 0)) = 0
    <3>1. Placed(f, 0) = {}
      BY DEF Placed
    <3> QED
      BY <3>1, FS_EmptySet
  <2>4. Filled(base, f, 0, pop, N)
    BY <2>1, <2>2, <2>3 DEF Filled
  <2> QED
    BY <1>7, <1>8, <2>4
<1>10. ASSUME NEW i \in 1 .. L, i - 1 \in good
       PROVE  i \in good
  <2>1. PICK acc : acc = it[i - 1] /\ Filled(acc, f, i - 1, pop, N)
    BY <1>8, <1>10
  <2>2. i = 1 => acc.next = << >> /\ ~acc.full
    <3>1. i = 1 => acc = base
      BY <1>7, <2>1
    <3> QED
      BY <1>7, <3>1
  <2>3. it[i] = Take(pop, acc, f[i])
    BY <1>6, <2>1 DEF Surviving
  <2>4. i \in 1 .. Len(f)
    BY <1>5
  <2>5. Filled(Take(pop, acc, f[i]), f, i, pop, N)
    BY <1>1, <1>2, <1>3, <2>1, <2>2, <2>4, FilledOn
  <2> QED
    BY <1>8, <2>3, <2>5
<1>11. Filled(it[L], f, L, pop, N)
  <2>1. \A i \in 0 .. L : i \in good
    BY <1>9, <1>10, UpTo
  <2>2. L \in 0 .. L
    OBVIOUS
  <2> QED
    BY <1>8, <2>1, <2>2
<1>12. PICK acc : acc = it[L] /\ Survivors(pop) = acc.next
  BY <1>6 DEF Surviving
<1>13. Len(acc.next) = Size
  <2>1. CASE acc.full
    BY <1>11, <1>12, <2>1 DEF Filled
  <2>2. CASE ~acc.full
    <3>1. Placed(f, L) = 1 .. N
      <4>1. \A q \in 1 .. N : q \in Placed(f, L)
        BY <1>4, <1>5 DEF FrontsSound
      <4>2. Placed(f, L) \subseteq 1 .. N
        <5>1. ASSUME NEW j \in 1 .. L
              PROVE  InFront(f, j) \subseteq 1 .. N
          <6>1. f[j] \in Seq(1 .. N)
            BY <1>4, <1>5 DEF FrontsSound
          <6> QED
            BY <6>1 DEF InFront
        <5> QED
          BY <5>1 DEF Placed
      <4> QED
        BY <4>1, <4>2
    <3>2. Cardinality(1 .. N) = N
      <4>1. Cardinality(1 .. N) = IF 1 > N THEN 0 ELSE N - 1 + 1
        BY FS_Interval
      <4>2. (IF 1 > N THEN 0 ELSE N - 1 + 1) = N
        OBVIOUS
      <4> QED
        BY <4>1, <4>2
    <3>3. Len(acc.next) = N
      BY <1>11, <1>12, <2>2, <3>1, <3>2 DEF Filled
    <3>4. Len(acc.next) <= Size
      BY <1>11, <1>12 DEF Filled, Underway
    <3> QED
      BY <1>1, <3>3, <3>4
  <2> QED
    BY <2>1, <2>2
<1>14. PICK T : T = Individuals(point.n) /\ acc.next \in Seq(T)
  BY <1>11, <1>12 DEF Filled, Underway
<1>15. Population(acc.next, Size)
  <2>1. DOMAIN acc.next = 1 .. Size /\ \A i \in 1 .. Size : acc.next[i] \in T
    BY <1>13, <1>14
  <2> QED
    BY <1>13, <1>14, <2>1 DEF Population
<1>16. Size > 2 => Keeps(acc.next, pop, N)
  BY <1>5, <1>11, <1>12 DEF Filled
<1> QED
  BY <1>1, <1>12, <1>15, <1>16

-----------------------------------------------------------------------------
(* What the search keeps: a whole population of individuals that are judged  *)
(* by the scenario, and an answer that trades off among them.              *)
SearchHolds ==
  /\ point \in Points /\ Population(members, Size)
  /\ front # << >> => TradesOff(front, members)

SearchInv ==
  /\ part = "routing" => SearchHolds
  /\ part # "routing" => front = << >>

(* A request starts with whole chromosomes and no answer.                    *)
LEMMA SearchBegins == Init => SearchInv
<1> SUFFICES ASSUME Init
             PROVE  SearchInv
  OBVIOUS
<1>1. CASE part = "routing"
  <2>1. SearchInit
    BY <1>1 DEF Init
  <2>2. point \in Points /\ front = << >>
    BY <2>1 DEF SearchInit
  <2>3. PICK n : n = point.n
    OBVIOUS
  <2>4. PICK T : T = Individuals(n)
    OBVIOUS
  <2>5. ASSUME NEW c \in Chromosomes, Len(c) = n
        PROVE  Individual(c, 0, 0) \in T
    <3>1. c \in Seq(Nat)
      BY SearchAssumption, Zenon DEF SearchAssumption
    <3>2. c \in [1 .. n -> Nat]
      BY <2>5, <3>1
    <3> QED
      BY <2>2, <2>3, <2>4, <3>2, SearchAssumption, IndividualsJudged
  <2>6. members \in [1 .. Size -> T]
    <3>1. PICK I : I = {Individual(c, 0, 0) : c \in {d \in Chromosomes : Len(d) = point.n}}
      OBVIOUS
    <3>2. members \in [1 .. Size -> I]
      BY <2>1, <3>1, Zenon DEF SearchInit
    <3>3. I \subseteq T
      BY <2>3, <2>5, <3>1, Zenon
    <3> QED
      BY <3>2, <3>3
  <2>7. Size \in Nat
    BY SearchAssumption DEF SearchAssumption
  <2>8. Population(members, Size)
    <3>1. DOMAIN members = 1 .. Size /\ Len(members) = Size
      BY <2>6, <2>7
    <3> QED
      BY <2>3, <2>4, <2>6, <3>1 DEF Population
  <2> QED
    BY <1>1, <2>2, <2>8, Zenon DEF SearchInv, SearchHolds
<1>2. CASE part # "routing"
  BY <1>2, Zenon DEF Init, SearchRest, SearchInv
<1> QED
  BY <1>1, <1>2

(* The members and their children, two of each pair of parents.              *)
Doubled(pop) ==
  /\ Population(pop, 2 * Size)
  /\ \A i \in 1 .. Size : pop[i] = members[i]

(* A generation doubles the population before it cuts it.                    *)
LEMMA EvolveDoubles ==
  ASSUME SearchHolds, Evolve
  PROVE  \E pop : Doubled(pop) /\ members' = Survivors(pop)
<1>1. PICK pairs \in [1 .. (Size + 1) \div 2 -> Offspring] :
        members' = Survivors(members \o [i \in 1 .. Size |-> pairs[(i + 1) \div 2][2 - (i % 2)]])
  BY Zenon DEF Evolve
<1>2. PICK T : T = Individuals(point.n)
  OBVIOUS
<1>3. PICK S \in Nat : S = Size
  BY SearchAssumption DEF SearchAssumption
<1>4. members \in Seq(T) /\ Len(members) = S
  <2>1. members \in [1 .. S -> T] /\ Len(members) = S
    BY <1>2, <1>3, Zenon DEF SearchHolds, Population
  <2> QED
    BY <2>1
<1>5. PICK w : w = [i \in 1 .. S |-> pairs[(i + 1) \div 2][2 - (i % 2)]]
  OBVIOUS
<1>6. ASSUME NEW i \in 1 .. S
      PROVE  w[i] \in T
  <2>1. (i + 1) \div 2 \in 1 .. (S + 1) \div 2
    OBVIOUS
  <2>2. PICK xy \in Offspring : xy = pairs[(i + 1) \div 2]
    BY <1>3, <2>1
  <2>3. xy[1] \in T /\ xy[2] \in T
    BY <1>2, SearchAssumption, OffspringJudged DEF SearchHolds
  <2>4. i % 2 = 0 \/ i % 2 = 1
    OBVIOUS
  <2>5. w[i] = xy[2] \/ w[i] = xy[1]
    BY <1>5, <2>2, <2>4
  <2> QED
    BY <2>3, <2>5
<1>7. w \in Seq(T) /\ Len(w) = S
  BY <1>5, <1>6
<1>8. PICK pop : pop = members \o w
  OBVIOUS
<1>9. members' = Survivors(pop)
  BY <1>1, <1>3, <1>5, <1>8
<1>10. pop \in Seq(T) /\ Len(pop) = S + S
  BY <1>4, <1>7, <1>8, Concatenated
<1>11. \A i \in 1 .. S : pop[i] = members[i]
  BY <1>4, <1>7, <1>8, Concatenated
<1>12. Population(pop, 2 * Size)
  <2>1. DOMAIN pop = 1 .. 2 * Size /\ Len(pop) = 2 * Size
    BY <1>3, <1>10
  <2>2. pop \in [1 .. 2 * Size -> T]
    BY <1>10, <2>1
  <2> QED
    BY <1>2, <2>1, <2>2, Zenon DEF Population
<1> QED
  BY <1>3, <1>9, <1>11, <1>12 DEF Doubled

(* A generation leaves a whole population, the answer trades off.            *)
LEMMA SearchStep ==
  ASSUME SearchHolds, [SearchNext]_searchVars
  PROVE  SearchHolds'
<1>1. CASE Evolve
  <2>1. PICK pop : Doubled(pop) /\ members' = Survivors(pop)
    BY <1>1, EvolveDoubles
  <2>2. Population(members', Size)
    BY <2>1, SearchAssumption, SurvivorsWhole DEF Doubled
  <2>3. point' = point /\ front' = << >>
    BY <1>1 DEF Evolve
  <2>4. Population(members, Size)'
    BY <2>2, <2>3 DEF Population
  <2> QED
    BY <2>3, <2>4 DEF SearchHolds
<1>2. CASE Answer
  <2>1. point' = point /\ members' = members
    BY <1>2 DEF Answer
  <2>2. PICK F : F = Fronts(members)[1]
    OBVIOUS
  <2>3. front' = SortedBy([i \in DOMAIN F |-> members[F[i]]], [i \in DOMAIN F |-> members[F[i]].used])
    BY <1>2, <2>2, Zenon DEF Answer
  <2>4. PICK n \in Nat : n = Size /\ n >= 1
    BY SearchAssumption DEF SearchAssumption
  <2>5. Plans(members, n)
    BY <2>4, PopulationsPlan DEF SearchHolds
  <2>6. FirstFront(F, members, n)
    BY <2>2, <2>4, <2>5, FirstFrontIs
  <2>7. TradesOff(front', members)
    BY <2>3, <2>4, <2>5, <2>6, AnswerTradesOff
  <2>8. TradesOff(front, members)'
    BY <2>1, <2>7 DEF TradesOff, BestCost
  <2>9. Population(members, Size)'
    BY <2>1 DEF SearchHolds, Population
  <2> QED
    BY <2>1, <2>8, <2>9 DEF SearchHolds
<1>3. CASE UNCHANGED searchVars
  <2>1. point' = point /\ members' = members /\ front' = front
    BY <1>3 DEF searchVars
  <2>2. Population(members, Size)'
    BY <2>1 DEF SearchHolds, Population
  <2>3. (front # << >> => TradesOff(front, members))'
    BY <2>1 DEF SearchHolds, TradesOff, BestCost
  <2> QED
    BY <2>1, <2>2, <2>3 DEF SearchHolds
<1> QED
  BY <1>1, <1>2, <1>3 DEF SearchNext

(* A step of another part leaves the search as it is.                        *)
LEMMA SearchInvStep ==
  ASSUME SearchInv, [Next]_vars
  PROVE  SearchInv'
<1>1. part' = part
  BY Zenon DEF Next, vars
<1>2. CASE part = "routing"
  <2>1. SearchHolds
    BY <1>2 DEF SearchInv
  <2>2. [SearchNext]_searchVars
    BY <1>2, Zenon DEF Next, vars
  <2>3. SearchHolds'
    BY <2>1, <2>2, SearchStep
  <2> QED
    BY <1>1, <1>2, <2>3 DEF SearchInv
<1>3. CASE part # "routing"
  <2>1. UNCHANGED searchVars
    BY <1>3, Zenon DEF Next, vars
  <2>2. front' = front
    BY <2>1 DEF searchVars
  <2> QED
    BY <1>1, <1>3, <2>2 DEF SearchInv
<1> QED
  BY <1>2, <1>3

(* The invariant of the routing part.                                        *)
LEMMA SearchStays == Spec => []SearchInv
<1>1. SearchInv /\ [Next]_vars => SearchInv'
  BY SearchInvStep
<1> QED
  BY <1>1, SearchBegins, PTL DEF Spec

(* On every population of a request to POST /api/v1/routing/optimize, the    *)
(* counting sort of _non_dominated_sort returns the fronts of their          *)
(* definition, and the answer is a trade-off: along it more vehicles never   *)
(* cost more, and its last plan is as cheap as the whole population.         *)
THEOREM SearchAlwaysSound == Spec => []SearchSound
<1>1. SearchInv => SearchSound
  <2> SUFFICES ASSUME SearchInv, part = "routing"
               PROVE  FrontsAreLayers /\ FrontTradesOff
    BY DEF SearchSound
  <2>1. SearchHolds
    BY DEF SearchInv
  <2>2. PICK n \in Nat : n = Size /\ n >= 1
    BY SearchAssumption DEF SearchAssumption
  <2>3. Plans(members, n)
    BY <2>1, <2>2, PopulationsPlan DEF SearchHolds
  <2>4. FrontsAreLayers
    BY <2>2, <2>3, SortIsRight
  <2>5. FrontTradesOff
    BY <2>1 DEF SearchHolds, TradesOff, FrontTradesOff
  <2> QED
    BY <2>4, <2>5
<1> QED
  BY <1>1, SearchStays, PTL

(* Some place has the least of finitely many numbers.                        *)
LEMMA LeastPlace ==
  ASSUME NEW n \in Nat, n >= 1, NEW a, \A i \in 1 .. n : a[i] \in Nat
  PROVE  \E k \in 1 .. n : \A i \in 1 .. n : a[k] <= a[i]
<1>1. PICK A : A = {a[i] : i \in 1 .. n}
  OBVIOUS
<1>2. A \subseteq Nat /\ A # {}
  <2>1. 1 \in 1 .. n
    OBVIOUS
  <2> QED
    BY <1>1, <2>1
<1>3. PICK c \in A : \A x \in A : c <= x
  BY <1>2, LeastNatural
<1> QED
  BY <1>1, <1>3

(* A population that keeps one at least as cheap as every plan of an earlier *)
(* one, and one that uses at most as many vehicles, has no worse ends.       *)
LEMMA EndsNoWorse ==
  ASSUME SearchAssumption, NEW next, NEW pop, NEW n \in Nat, n >= 1, Plans(next, n), Plans(pop, n),
         \E j \in 1 .. n : \A p \in 1 .. n : next[j].cost <= pop[p].cost,
         \E j \in 1 .. n : \A p \in 1 .. n : next[j].used <= pop[p].used
  PROVE  BestCost(next) <= BestCost(pop) /\ FewestUsed(next) <= FewestUsed(pop)
<1>1. BestCost(next) <= BestCost(pop)
  <2>1. \A i \in 1 .. n : next[i].cost \in Nat /\ pop[i].cost \in Nat
    BY DEF Plans
  <2>2. PICK a : a = [i \in 1 .. n |-> next[i].cost]
    OBVIOUS
  <2>3. \A i \in 1 .. n : a[i] \in Nat
    BY <2>1, <2>2
  <2>4. PICK b : b = [i \in 1 .. n |-> pop[i].cost]
    OBVIOUS
  <2>5. \A i \in 1 .. n : b[i] \in Nat
    BY <2>1, <2>4
  <2>6. PICK x \in 1 .. n : \A i \in 1 .. n : a[x] <= a[i]
    BY <2>3, LeastPlace, Zenon
  <2>7. PICK y \in 1 .. n : \A i \in 1 .. n : b[y] <= b[i]
    BY <2>5, LeastPlace, Zenon
  <2>8. BestCost(next) = next[x].cost
    BY <2>2, <2>6, BestCostIs
  <2>9. BestCost(pop) = pop[y].cost
    BY <2>4, <2>7, BestCostIs
  <2>10. PICK j \in 1 .. n : \A p \in 1 .. n : next[j].cost <= pop[p].cost
    OBVIOUS
  <2>11. next[x].cost <= next[j].cost /\ next[j].cost <= pop[y].cost
    BY <2>2, <2>6, <2>10
  <2> QED
    BY <2>1, <2>8, <2>9, <2>11
<1>2. FewestUsed(next) <= FewestUsed(pop)
  <2>1. \A i \in 1 .. n : next[i].used \in Nat /\ pop[i].used \in Nat
    BY DEF Plans
  <2>2. PICK a : a = [i \in 1 .. n |-> next[i].used]
    OBVIOUS
  <2>3. \A i \in 1 .. n : a[i] \in Nat
    BY <2>1, <2>2
  <2>4. PICK b : b = [i \in 1 .. n |-> pop[i].used]
    OBVIOUS
  <2>5. \A i \in 1 .. n : b[i] \in Nat
    BY <2>1, <2>4
  <2>6. PICK x \in 1 .. n : \A i \in 1 .. n : a[x] <= a[i]
    BY <2>3, LeastPlace, Zenon
  <2>7. PICK y \in 1 .. n : \A i \in 1 .. n : b[y] <= b[i]
    BY <2>5, LeastPlace, Zenon
  <2>8. FewestUsed(next) = next[x].used
    BY <2>2, <2>6, FewestUsedIs
  <2>9. FewestUsed(pop) = pop[y].used
    BY <2>4, <2>7, FewestUsedIs
  <2>10. PICK j \in 1 .. n : \A p \in 1 .. n : next[j].used <= pop[p].used
    OBVIOUS
  <2>11. next[x].used <= next[j].used /\ next[j].used <= pop[y].used
    BY <2>2, <2>6, <2>10
  <2> QED
    BY <2>1, <2>8, <2>9, <2>11
<1> QED
  BY <1>1, <1>2

(* No generation of the routing search loses the cheapest plan or the one    *)
(* with the fewest vehicles, also when optimize truncates a front by         *)
(* crowding distance: whenever the population has more than two members.    *)
THEOREM ExtremesAlwaysSurvive == Spec => ExtremesSurvive
<1> DEFINE Step == Size > 2 /\ members # << >> =>
                     /\ BestCost(members') <= BestCost(members)
                     /\ FewestUsed(members') <= FewestUsed(members)
<1>1. SearchInv /\ [Next]_vars => [Step]_searchVars
  <2> SUFFICES ASSUME SearchInv, [Next]_vars, Size > 2, ~UNCHANGED searchVars
               PROVE  /\ BestCost(members') <= BestCost(members)
                      /\ FewestUsed(members') <= FewestUsed(members)
    OBVIOUS
  <2>1. part = "routing" /\ SearchNext
    BY Zenon DEF Next, vars
  <2>2. SearchHolds
    BY <2>1 DEF SearchInv
  <2>3. PICK n \in Nat : n = Size /\ n >= 1
    BY SearchAssumption DEF SearchAssumption
  <2>4. Plans(members, n)
    BY <2>2, <2>3, PopulationsPlan DEF SearchHolds
  <2>5. CASE Evolve
    <3>1. PICK pop : Doubled(pop) /\ members' = Survivors(pop)
      BY <2>2, <2>5, EvolveDoubles
    <3>2. PICK next : next = members'
      OBVIOUS
    <3>3. Population(next, n) /\ Keeps(next, pop, 2 * Size)
      BY <2>3, <3>1, <3>2, SearchAssumption, SurvivorsWhole DEF Doubled
    <3>4. Plans(next, n) /\ Len(next) = n
      BY <3>3, PopulationsPlan DEF Population
    <3>5. \A p \in 1 .. n : p \in 1 .. 2 * Size /\ pop[p] = members[p]
      BY <2>3, <3>1 DEF Doubled
    <3>6. \E j \in 1 .. n : \A p \in 1 .. n : next[j].cost <= members[p].cost
      BY <3>3, <3>4, <3>5 DEF Keeps
    <3>7. \E j \in 1 .. n : \A p \in 1 .. n : next[j].used <= members[p].used
      BY <3>3, <3>4, <3>5 DEF Keeps
    <3>8. BestCost(next) <= BestCost(members) /\ FewestUsed(next) <= FewestUsed(members)
      BY <2>3, <2>4, <3>4, <3>6, <3>7, SearchAssumption, EndsNoWorse
    <3> QED
      BY <3>2, <3>8
  <2>6. CASE Answer
    <3>1. members' = members
      BY <2>6 DEF Answer
    <3>2. \A i \in 1 .. n : members[i].cost \in Nat /\ members[i].used \in Nat
      BY <2>4 DEF Plans
    <3>3. PICK a : a = [i \in 1 .. n |-> members[i].cost]
      OBVIOUS
    <3>4. \A i \in 1 .. n : a[i] \in Nat
      BY <3>2, <3>3
    <3>5. PICK b : b = [i \in 1 .. n |-> members[i].used]
      OBVIOUS
    <3>6. \A i \in 1 .. n : b[i] \in Nat
      BY <3>2, <3>5
    <3>7. PICK x \in 1 .. n : \A i \in 1 .. n : a[x] <= a[i]
      BY <2>3, <3>4, LeastPlace, Zenon
    <3>8. PICK y \in 1 .. n : \A i \in 1 .. n : b[y] <= b[i]
      BY <2>3, <3>6, LeastPlace, Zenon
    <3>9. \E j \in 1 .. n : \A p \in 1 .. n : members[j].cost <= members[p].cost
      BY <3>3, <3>7
    <3>10. \E j \in 1 .. n : \A p \in 1 .. n : members[j].used <= members[p].used
      BY <3>5, <3>8
    <3>11. BestCost(members) <= BestCost(members) /\ FewestUsed(members) <= FewestUsed(members)
      BY <2>3, <2>4, <3>9, <3>10, SearchAssumption, EndsNoWorse
    <3> QED
      BY <3>1, <3>11
  <2> QED
    BY <2>1, <2>5, <2>6 DEF SearchNext
<1>2. []SearchInv /\ [][Next]_vars => [][Step]_searchVars
  BY <1>1, PTL
<1>3. [][Step]_searchVars => ExtremesSurvive
  BY DEF ExtremesSurvive
<1> QED
  BY <1>2, <1>3, SearchStays DEF Spec
=============================================================================
