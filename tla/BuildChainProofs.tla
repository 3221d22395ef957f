-------------------------- MODULE BuildChainProofs --------------------------
(***************************************************************************)
(* Theorems about BuildChain, for any recipes, jobs and depth limit: the   *)
(* quantities it keeps, how its rounding adds up over the levels, that     *)
(* what it returns builds and buys what the job says, and that no demand   *)
(* is lost on the way; and about BuildOrder: that its steps are listed     *)
(* once each, in building order.                                           *)
(***************************************************************************)
EXTENDS BuildOrder, FiniteSetTheorems, WellFoundedInduction, TLAPS

(* How much a run count made of ceilings makes.                            *)
LEMMA CeilDivFacts ==
    ASSUME NEW n \in Nat \ {0}, NEW d \in Nat \ {0}
    PROVE  /\ CeilDiv(n, d) \in Nat \ {0}
           /\ n =< CeilDiv(n, d) * d
           /\ CeilDiv(n, d) * d =< n + (d - 1)
<1> DEFINE k == (n + d - 1) \div d
<1>1. n + d - 1 \in Nat
  OBVIOUS
<1>2. k \in Int
  BY <1>1
<1>3. k * d =< n + d - 1 /\ n + d - 1 < k * d + d
  BY <1>1, <1>2, SMT
<1> HIDE DEF k
<1>4. n =< k * d
  BY <1>2, <1>3
<1>5. k > 0
  BY <1>2, <1>4
<1>6. CeilDiv(n, d) = k
  BY DEF CeilDiv, k
<1>7. QED  BY <1>2, <1>3, <1>4, <1>5, <1>6

LEMMA RecipeTypes ==
    ASSUME TypeOK, NEW t \in Types
    PROVE  /\ \A m \in Types : recipes[t].materials[m] \in Nat
           /\ HasRecipe(t) => recipes[t].output \in Nat \ {0}
<1>1. recipes \in Table
  BY BuildAssumption DEF TypeOK
<1>2. recipes[t] \in Recipe \/ recipes[t] = NoRecipe
  BY <1>1 DEF Table
<1>3. QED  BY <1>2 DEF Recipe, NoRecipe, HasRecipe

(* A run needs a whole number of each of its materials, whatever reduces   *)
(* it, and none of what is no material.                                    *)
LEMMA PerRunTypes ==
    ASSUME TypeOK, NEW t \in Types, NEW m \in Types
    PROVE  PerRun(t, m) \in Nat /\ (PerRun(t, m) > 0 => recipes[t].materials[m] > 0)
<1>1. recipes[t].materials[m] \in Nat
  BY RecipeTypes
<1>2. StructureFactor(job.structure) \in Int
  <2>1. job.structure \in Structure
    BY BuildAssumption DEF TypeOK, Job
  <2>2. /\ job.structure.rig \in {"none", "t1", "t2"}
        /\ job.structure.band \in {"high", "low", "null_wh"}
    BY <2>1 DEF Structure
  <2>3. RigBonus[job.structure.rig] \in Int /\ SecurityMultiplier[job.structure.band] \in Int
    BY <2>2 DEF RigBonus, SecurityMultiplier
  <2>4. QED  BY <2>3 DEF StructureFactor
<1>3. job.efficiency \in Int
  <2>1. job.efficiency \in Efficiencies
    BY DEF TypeOK, Job
  <2>2. Efficiencies \subseteq 0 .. 10
    BY BuildAssumption
  <2>3. \A e \in 0 .. 10 : e \in Int
    OBVIOUS
  <2>4. QED  BY <2>1, <2>2, <2>3, Zenon
<1>4. ASSUME NEW base \in Int, NEW efficiency \in Int, NEW factor \in Int
      PROVE  MaterialQuantityPerRun(base, efficiency, factor) \in Nat
  <2>1. base * (100 - efficiency) * factor \in Int
    OBVIOUS
  <2>2. \A x \in Int : CeilDiv(x, 100000000) \in Int
    <3> TAKE x \in Int
    <3>1. x + 100000000 - 1 \in Int
      OBVIOUS
    <3>2. (x + 100000000 - 1) \div 100000000 \in Int
      BY <3>1, SMT
    <3>3. QED  BY <3>2 DEF CeilDiv
  <2>3. \A x \in Int : AtLeast1(x) \in Nat
    BY DEF AtLeast1
  <2>4. QED  BY <2>1, <2>2, <2>3 DEF MaterialQuantityPerRun
<1> DEFINE base == recipes[t].materials[m]
           reduced == MaterialQuantityPerRun(base, job.efficiency, StructureFactor(job.structure))
<1>5. reduced \in Nat
  <2>1. base \in Int
    BY <1>1
  <2>2. QED  BY <2>1, <1>2, <1>3, <1>4, Zenon
<1>6. PerRun(t, m) = IF t = job.target /\ base > 0 THEN reduced ELSE base
  BY DEF PerRun
<1> HIDE DEF base, reduced
<1>7. base \in Nat
  BY <1>1 DEF base
<1>8. PerRun(t, m) \in Nat /\ (PerRun(t, m) > 0 => base > 0)
  BY <1>5, <1>6, <1>7
<1>9. QED  BY <1>8 DEF base

LEMMA RunFacts ==
    ASSUME TypeOK, NEW t \in Types, HasRecipe(t), current[t] > 0
    PROVE  /\ AdditionalRuns(t) \in Nat \ {0}
           /\ current[t] =< AdditionalRuns(t) * recipes[t].output
           /\ AdditionalRuns(t) * recipes[t].output =< current[t] + (recipes[t].output - 1)
<1>1. current[t] \in Nat \ {0}
  BY DEF TypeOK
<1>2. recipes[t].output \in Nat \ {0}
  BY RecipeTypes
<1> DEFINE n == current[t]
           d == recipes[t].output
<1>3. /\ CeilDiv(n, d) \in Nat \ {0}
      /\ n =< CeilDiv(n, d) * d
      /\ CeilDiv(n, d) * d =< n + (d - 1)
  <2>1. n \in Nat \ {0} /\ d \in Nat \ {0}
    BY <1>1, <1>2
  <2> HIDE DEF n, d
  <2>2. QED  BY <2>1, CeilDivFacts
<1>4. AdditionalRuns(t) = CeilDiv(n, d)
  BY <1>3 DEF AdditionalRuns, AtLeast1
<1>5. QED  BY <1>3, <1>4

-----------------------------------------------------------------------------
(* What a step leaves of the quantities is a count per item, the walk goes *)
(* no deeper than its limit, and a finished one is on no level.            *)
THEOREM TypeCorrect == Spec => []TypeOK
<1>1. Init => TypeOK
  <2> SUFFICES ASSUME Init PROVE TypeOK
    OBVIOUS
  <2>1. job.target \in Types /\ job.quantity \in Nat
    <3>1. job.target \in Targets /\ job.quantity \in TargetQuantities
      BY DEF Init, Job
    <3>2. QED  BY <3>1, BuildAssumption
  <2>2. Nothing \in [Types -> Nat]
    BY DEF Nothing
  <2>3. current \in [Types -> Nat]
    BY <2>1, <2>2 DEF Init
  <2>4. used \in [Types -> [Types -> Nat]]
    BY <2>2 DEF Init
  <2>5. depth \in 0 .. MaxDepth
    BY BuildAssumption DEF Init
  <2>6. QED  BY <2>2, <2>3, <2>4, <2>5 DEF Init, TypeOK
<1>2. TypeOK /\ [Next]_vars => TypeOK'
  <2> SUFFICES ASSUME TypeOK, [Next]_vars PROVE TypeOK'
    OBVIOUS
  <2>1. Nothing \in [Types -> Nat]
    BY DEF Nothing
  <2>2. ASSUME NEW t \in Types, Buy(t) PROVE TypeOK'
    BY <2>1, <2>2 DEF Buy, TypeOK
  <2>3. ASSUME NEW t \in Types, Build(t) PROVE TypeOK'
    <3> DEFINE needed == [m \in Types |-> PerRun(t, m) * AdditionalRuns(t)]
    <3>1. AdditionalRuns(t) \in Nat
      BY <2>3, RunFacts DEF Build, Built
    <3>2. \A m \in Types : PerRun(t, m) \in Nat
      BY PerRunTypes
    <3>3. needed \in [Types -> Nat]
      BY <3>1, <3>2
    <3>4. /\ need' = [need EXCEPT ![t] = need[t] + current[t]]
          /\ runs' = [runs EXCEPT ![t] = runs[t] + AdditionalRuns(t)]
          /\ used' = [used EXCEPT ![t] = [m \in Types |-> used[t][m] + needed[m]]]
          /\ next' = [m \in Types |-> next[m] + needed[m]]
          /\ current' = [current EXCEPT ![t] = 0]
          /\ UNCHANGED <<recipes, job, depth, raw, buildable, done>>
      BY <2>3 DEF Build
    <3> HIDE DEF needed
    <3>5. {current, next, need, runs, raw}' \subseteq [Types -> Nat]
      BY <3>1, <3>3, <3>4 DEF TypeOK
    <3>6. [m \in Types |-> used[t][m] + needed[m]] \in [Types -> Nat]
      BY <3>3 DEF TypeOK
    <3>7. used' \in [Types -> [Types -> Nat]]
      BY <3>4, <3>6 DEF TypeOK
    <3>8. QED  BY <3>4, <3>5, <3>7 DEF TypeOK
  <2>4. CASE NextLevel
    <3>1. depth' \in 0 .. MaxDepth
      BY <2>4, BuildAssumption DEF NextLevel, Looping, TypeOK
    <3>2. QED  BY <2>1, <2>4, <3>1 DEF NextLevel, TypeOK
  <2>5. CASE Finish
    BY <2>1, <2>5 DEF Finish, TypeOK
  <2>6. CASE UNCHANGED vars
    BY <2>6 DEF vars, TypeOK
  <2>7. QED  BY <2>2, <2>3, <2>4, <2>5, <2>6 DEF Next
<1>3. QED  BY <1>1, <1>2, PTL DEF Spec

-----------------------------------------------------------------------------
(* How often an item's demand may have been rounded up so far: once on     *)
(* every level that has looked at it.                                      *)
Roundings(t) == IF current[t] > 0 THEN depth ELSE depth + 1

RoundingInv ==
    \A t \in Types :
      /\ need[t] > 0 => HasRecipe(t)
      /\ ~HasRecipe(t) => runs[t] = 0
      /\ HasRecipe(t) =>
           /\ need[t] =< runs[t] * recipes[t].output
           /\ runs[t] * recipes[t].output =< need[t] + Roundings(t) * (recipes[t].output - 1)

(* One more batch of whole runs, for one item.                             *)
LEMMA OneMoreRounding ==
    ASSUME NEW n \in Nat, NEW r \in Nat, NEW o \in Nat \ {0}, NEW d \in Nat,
           NEW q \in Nat, NEW a \in Nat,
           n =< r * o, r * o =< n + d * (o - 1),
           q =< a * o, a * o =< q + (o - 1)
    PROVE  /\ n + q =< (r + a) * o
           /\ (r + a) * o =< n + q + (d + 1) * (o - 1)
<1>1. (r + a) * o = r * o + a * o
  BY SMT
<1>2. (d + 1) * (o - 1) = d * (o - 1) + (o - 1)
  BY SMT
<1>3. r * o \in Nat /\ a * o \in Nat /\ d * (o - 1) \in Nat
  BY SMT
<1> DEFINE x == r * o
           y == a * o
           z == d * (o - 1)
<1>4. x \in Nat /\ y \in Nat /\ z \in Nat /\ n =< x /\ x =< n + z /\ q =< y /\ y =< q + (o - 1)
  BY <1>3
<1>5. (r + a) * o = x + y /\ (d + 1) * (o - 1) = z + (o - 1)
  BY <1>1, <1>2
<1> HIDE DEF x, y, z
<1>6. n + q =< x + y /\ x + y =< n + q + (z + (o - 1))
  BY <1>4
<1>7. QED  BY <1>5, <1>6

LEMMA MoreLevels ==
    ASSUME NEW d \in Nat, NEW e \in Nat, NEW o \in Nat \ {0}, d =< e
    PROVE  d * (o - 1) =< e * (o - 1) /\ d * (o - 1) \in Nat /\ e * (o - 1) \in Nat
<1>1. PICK k \in Nat : e = d + k
  <2>1. e - d \in Nat /\ e = d + (e - d)
    OBVIOUS
  <2>2. QED  BY <2>1
<1>2. e * (o - 1) = d * (o - 1) + k * (o - 1)
  BY <1>1, SMT
<1>3. d * (o - 1) \in Nat /\ k * (o - 1) \in Nat /\ e * (o - 1) \in Nat
  BY SMT
<1>4. QED  BY <1>2, <1>3

(* Steps that only move on leave an item its rounding.                     *)
LEMMA SameRounding ==
    ASSUME TypeOK, TypeOK', RoundingInv,
           UNCHANGED <<recipes, need, runs>>,
           \A t \in Types : Roundings(t) =< Roundings(t)'
    PROVE  RoundingInv'
<1> SUFFICES ASSUME NEW t \in Types
             PROVE  /\ need[t] > 0 => HasRecipe(t)
                    /\ ~HasRecipe(t) => runs[t] = 0
                    /\ HasRecipe(t) =>
                         /\ need[t] =< runs[t] * recipes[t].output
                         /\ runs[t] * recipes[t].output
                              =< need[t] + Roundings(t)' * (recipes[t].output - 1)
  BY DEF RoundingInv, HasRecipe, NoRecipe
<1>1. CASE ~HasRecipe(t)
  BY <1>1 DEF RoundingInv
<1>2. CASE HasRecipe(t)
  <2>1. recipes[t].output \in Nat \ {0}
    BY <1>2, RecipeTypes
  <2>2. Roundings(t) \in Nat /\ Roundings(t)' \in Nat
    <3>1. depth \in Nat
      BY BuildAssumption DEF TypeOK
    <3>2. depth' \in Nat
      <4>1. depth' \in 0 .. MaxDepth
        BY DEF TypeOK
      <4>2. QED  BY <4>1, BuildAssumption
    <3>3. Roundings(t) \in {depth, depth + 1} /\ Roundings(t)' \in {depth', depth' + 1}
      BY Zenon DEF Roundings
    <3>4. QED  BY <3>1, <3>2, <3>3
  <2> DEFINE o == recipes[t].output
             d == Roundings(t)
             e == Roundings(t)'
  <2> HIDE DEF o, d, e
  <2>3. d * (o - 1) =< e * (o - 1) /\ d * (o - 1) \in Nat /\ e * (o - 1) \in Nat
    BY <2>1, <2>2, MoreLevels DEF o, d, e
  <2>4. need[t] \in Nat /\ runs[t] \in Nat
    BY DEF TypeOK
  <2>5. runs[t] * o \in Nat
    BY <2>1, <2>4, SMT DEF o
  <2>6. need[t] =< runs[t] * o /\ runs[t] * o =< need[t] + d * (o - 1)
    BY <1>2 DEF RoundingInv, o, d
  <2> DEFINE x == runs[t] * o
             y == d * (o - 1)
             z == e * (o - 1)
  <2>7. x \in Nat /\ y \in Nat /\ z \in Nat /\ y =< z /\ x =< need[t] + y
    BY <2>3, <2>5, <2>6
  <2> HIDE DEF x, y, z
  <2>8. x =< need[t] + z
    BY <2>4, <2>7
  <2>9. QED  BY <1>2, <2>6, <2>8 DEF RoundingInv, o, e, x, z
<1>3. QED  BY <1>1, <1>2

LEMMA RoundingStep ==
    ASSUME TypeOK, TypeOK', RoundingInv, [Next]_vars
    PROVE  RoundingInv'
<1>1. ASSUME NEW t \in Types, Buy(t)
      PROVE  RoundingInv'
  <2>1. \A u \in Types : Roundings(u) =< Roundings(u)'
    BY <1>1, BuildAssumption DEF Buy, TypeOK, Roundings
  <2>2. QED  BY <1>1, <2>1, SameRounding DEF Buy
<1>2. ASSUME NEW t \in Types, Build(t)
      PROVE  RoundingInv'
  <2>1. /\ HasRecipe(t) /\ current[t] > 0
        /\ need' = [need EXCEPT ![t] = need[t] + current[t]]
        /\ runs' = [runs EXCEPT ![t] = runs[t] + AdditionalRuns(t)]
        /\ current' = [current EXCEPT ![t] = 0]
        /\ recipes' = recipes /\ depth' = depth
    BY <1>2 DEF Build, Built
  <2>2. ASSUME NEW u \in Types, u # t
        PROVE  /\ need'[u] = need[u] /\ runs'[u] = runs[u] /\ recipes'[u] = recipes[u]
               /\ Roundings(u)' = Roundings(u)
    BY <2>1, <2>2 DEF TypeOK, Roundings
  <2>3. /\ need'[t] = need[t] + current[t]
        /\ runs'[t] = runs[t] + AdditionalRuns(t)
        /\ Roundings(t) = depth /\ Roundings(t)' = depth + 1
    BY <2>1 DEF TypeOK, Roundings
  <2>4. /\ need[t] \in Nat /\ runs[t] \in Nat /\ current[t] \in Nat /\ depth \in Nat
        /\ recipes[t].output \in Nat \ {0}
        /\ AdditionalRuns(t) \in Nat
    BY <2>1, RecipeTypes, RunFacts, BuildAssumption DEF TypeOK
  <2>5. /\ need[t] =< runs[t] * recipes[t].output
        /\ runs[t] * recipes[t].output =< need[t] + depth * (recipes[t].output - 1)
    BY <2>1, <2>3 DEF RoundingInv
  <2>6. /\ current[t] =< AdditionalRuns(t) * recipes[t].output
        /\ AdditionalRuns(t) * recipes[t].output =< current[t] + (recipes[t].output - 1)
    BY <2>1, RunFacts
  <2>7. /\ need'[t] =< runs'[t] * recipes[t].output
        /\ runs'[t] * recipes[t].output =< need'[t] + Roundings(t)' * (recipes[t].output - 1)
    BY <2>3, <2>4, <2>5, <2>6, OneMoreRounding
  <2>8. \A u \in Types : HasRecipe(u)' = HasRecipe(u)
    BY <2>1 DEF HasRecipe, NoRecipe
  <2>9. QED  BY <2>1, <2>2, <2>7, <2>8 DEF RoundingInv
<1>3. CASE NextLevel
  <2>1. \A u \in Types : Roundings(u) =< Roundings(u)'
    <3>1. /\ \A u \in Types : current[u] = 0
          /\ depth' = depth + 1 /\ depth \in Nat
      BY <1>3, BuildAssumption DEF NextLevel, TypeOK, Nothing
    <3>2. QED  BY <3>1 DEF Roundings
  <2>2. QED  BY <1>3, <2>1, SameRounding DEF NextLevel
<1>4. CASE Finish
  <2>1. \A u \in Types : Roundings(u) =< Roundings(u)'
    BY <1>4, BuildAssumption DEF Finish, TypeOK, Roundings, Nothing
  <2>2. QED  BY <1>4, <2>1, SameRounding DEF Finish
<1>5. CASE UNCHANGED vars
  <2>1. \A u \in Types : Roundings(u) =< Roundings(u)'
    BY <1>5, BuildAssumption DEF vars, TypeOK, Roundings
  <2>2. QED  BY <1>5, <2>1, SameRounding DEF vars
<1>6. QED  BY <1>1, <1>2, <1>3, <1>4, <1>5 DEF Next

(* However many branches share a component, and on however many levels it  *)
(* is met, its runs make enough of it and less than a run too much a level.*)
THEOREM RunsAreEnough == Spec => []EnoughWithoutWaste
<1>1. Init => RoundingInv
  <2> SUFFICES ASSUME Init, NEW t \in Types
               PROVE  /\ need[t] > 0 => HasRecipe(t)
                      /\ ~HasRecipe(t) => runs[t] = 0
                      /\ HasRecipe(t) =>
                           /\ need[t] =< runs[t] * recipes[t].output
                           /\ runs[t] * recipes[t].output
                                =< need[t] + Roundings(t) * (recipes[t].output - 1)
    BY DEF RoundingInv
  <2>1. need[t] = 0 /\ runs[t] = 0
    BY DEF Init, Nothing
  <2>2. HasRecipe(t) => recipes[t].output \in Nat \ {0}
    <3>1. recipes \in Table
      BY BuildAssumption DEF Init
    <3>2. QED  BY <3>1 DEF Table, Recipe, HasRecipe
  <2>3. Roundings(t) \in Nat
    BY DEF Init, Roundings
  <2> DEFINE over == Roundings(t) * (recipes[t].output - 1)
  <2>4. HasRecipe(t) => over \in Nat /\ runs[t] * recipes[t].output = 0
    BY <2>1, <2>2, <2>3, MoreLevels
  <2> HIDE DEF over
  <2>5. HasRecipe(t) => 0 =< runs[t] * recipes[t].output /\ runs[t] * recipes[t].output =< 0 + over
    BY <2>4
  <2>6. QED  BY <2>1, <2>5 DEF over
<1>2. TypeOK /\ TypeOK' /\ RoundingInv /\ [Next]_vars => RoundingInv'
  BY RoundingStep
<1>3. TypeOK /\ RoundingInv => EnoughWithoutWaste
  <2> SUFFICES ASSUME TypeOK, RoundingInv, NEW t \in Types, need[t] > 0
               PROVE  /\ need[t] =< runs[t] * recipes[t].output
                      /\ runs[t] * recipes[t].output
                           < need[t] + (depth + 1) * recipes[t].output
    BY DEF EnoughWithoutWaste, Steps
  <2> DEFINE o == recipes[t].output
             made == runs[t] * o
             over == Roundings(t) * (o - 1)
             most == (depth + 1) * (o - 1)
  <2>1. o \in Nat \ {0} /\ need[t] \in Nat /\ runs[t] \in Nat /\ depth \in Nat
    BY RecipeTypes, BuildAssumption DEF RoundingInv, TypeOK
  <2>2. need[t] =< made /\ made =< need[t] + over
    BY DEF RoundingInv
  <2>3. Roundings(t) \in Nat /\ Roundings(t) =< depth + 1
    BY <2>1 DEF Roundings
  <2>4. over =< most /\ over \in Nat /\ most \in Nat
    BY <2>1, <2>3, MoreLevels
  <2>5. (depth + 1) * o = most + (depth + 1)
    BY <2>1, SMT
  <2>6. made \in Nat
    BY <2>1, SMT
  <2> HIDE DEF made, over, most
  <2>7. made < need[t] + (most + (depth + 1))
    BY <2>1, <2>2, <2>4, <2>6
  <2>8. QED  BY <2>2, <2>5, <2>7 DEF made
<1>4. QED  BY <1>1, <1>2, <1>3, TypeCorrect, PTL DEF Spec

-----------------------------------------------------------------------------
(* On a layered table the walk is at most at an item's level when it finds *)
(* demand for it: it ends before its limit, and a bought item stays one.   *)
Reached(level) ==
    \A t \in Types : /\ current[t] > 0 => level[t] > depth
                     /\ next[t] > 0 => level[t] > depth + 1

Sorted ==
    \A t \in Types : /\ need[t] > 0 => Built(t)
                     /\ raw[t] > 0 => ~Built(t) /\ (t \in buildable <=> HasRecipe(t))

TargetInv ==
    HasRecipe(job.target) =>
      \/ need[job.target] > 0
      \/ depth = 0 /\ current[job.target] > 0 /\ ~done

WalkInv(level) == Reached(level) /\ Sorted /\ TargetInv

LayeredInv == \A level \in [Types -> 1 .. MaxDepth] : Levels(level) => WalkInv(level)

(* Nothing that these say of an item but its demand changes.               *)
LEMMA SameTable ==
    ASSUME UNCHANGED <<recipes, job>>, NEW level \in [Types -> 1 .. MaxDepth]
    PROVE  /\ Levels(level)' = Levels(level)
           /\ \A t \in Types : HasRecipe(t)' = HasRecipe(t) /\ Built(t)' = Built(t)
           /\ HasRecipe(job.target)' = HasRecipe(job.target)
BY DEF Levels, HasRecipe, NoRecipe, Built

LEMMA BuyKeepsLevels ==
    ASSUME TypeOK, NEW t \in Types, Buy(t), NEW level \in [Types -> 1 .. MaxDepth],
           Levels(level), WalkInv(level)
    PROVE  WalkInv(level)'
<1>1. /\ UNCHANGED <<recipes, job, next, depth, need, done>>
      /\ ~Built(t) /\ current[t] > 0
      /\ raw' = [raw EXCEPT ![t] = raw[t] + current[t]]
      /\ buildable' = IF HasRecipe(t) THEN buildable \cup {t} ELSE buildable \ {t}
      /\ current' = [current EXCEPT ![t] = 0]
  BY DEF Buy
<1>2. \A u \in Types : current'[u] > 0 => u # t /\ current[u] > 0
  BY <1>1 DEF TypeOK
<1>3. Reached(level)'
  BY <1>1, <1>2 DEF WalkInv, Reached
<1>4. \A u \in Types \ {t} : raw'[u] = raw[u] /\ (u \in buildable' <=> u \in buildable)
  BY <1>1 DEF TypeOK
<1>5. t \in buildable' <=> HasRecipe(t)
  BY <1>1
<1>6. \A u \in Types : HasRecipe(u)' = HasRecipe(u) /\ Built(u)' = Built(u)
  BY <1>1, SameTable
<1>7. Sorted'
  BY <1>1, <1>4, <1>5, <1>6 DEF WalkInv, Sorted
<1>8. TargetInv'
  <2>1. CASE t = job.target
    BY <1>1, <2>1 DEF Built, TargetInv, HasRecipe, NoRecipe
  <2>2. CASE t # job.target
    <3>1. current'[job.target] = current[job.target]
      <4>1. job.target \in Types
        BY BuildAssumption DEF TypeOK, Job
      <4>2. QED  BY <1>1, <2>2, <4>1 DEF TypeOK
    <3>2. HasRecipe(job.target)' = HasRecipe(job.target)
      BY <1>1, SameTable
    <3>3. QED  BY <1>1, <3>1, <3>2 DEF WalkInv, TargetInv
  <2>3. QED  BY <2>1, <2>2
<1>9. QED  BY <1>3, <1>7, <1>8 DEF WalkInv

LEMMA BuildKeepsLevels ==
    ASSUME TypeOK, NEW t \in Types, Build(t), NEW level \in [Types -> 1 .. MaxDepth],
           Levels(level), WalkInv(level)
    PROVE  WalkInv(level)'
<1> DEFINE needed == [m \in Types |-> PerRun(t, m) * AdditionalRuns(t)]
<1>1. /\ UNCHANGED <<recipes, job, depth, raw, buildable, done>>
      /\ Built(t) /\ current[t] > 0
      /\ need' = [need EXCEPT ![t] = need[t] + current[t]]
      /\ next' = [m \in Types |-> next[m] + needed[m]]
      /\ current' = [current EXCEPT ![t] = 0]
  BY DEF Build
<1>2. /\ AdditionalRuns(t) \in Nat
      /\ \A m \in Types : PerRun(t, m) \in Nat /\ (PerRun(t, m) > 0 => recipes[t].materials[m] > 0)
  BY <1>1, RunFacts, PerRunTypes DEF Built
<1>3. depth \in Nat /\ level \in [Types -> Nat]
  BY BuildAssumption DEF TypeOK
<1>4. \A m \in Types : PerRun(t, m) = 0 => needed[m] = 0
  BY <1>2
<1>5. \A m \in Types : next'[m] = next[m] + needed[m] /\ needed[m] \in Nat
  BY <1>1, <1>2
<1> HIDE DEF needed
<1>6. \A m \in Types : next'[m] > 0 => next[m] > 0 \/ PerRun(t, m) > 0
  BY <1>2, <1>4, <1>5 DEF TypeOK
<1>7. \A m \in Types : next'[m] > 0 => level[m] > depth + 1
  <2>1. level[t] > depth
    BY <1>1 DEF WalkInv, Reached
  <2>2. \A m \in Types : PerRun(t, m) > 0 => level[m] > level[t]
    BY <1>2 DEF Levels
  <2>3. \A m \in Types : PerRun(t, m) > 0 => level[m] > depth + 1
    BY <1>3, <2>1, <2>2
  <2>4. QED  BY <1>6, <2>3 DEF WalkInv, Reached
<1>8. \A u \in Types : current'[u] > 0 => current[u] > 0
  BY <1>1 DEF TypeOK
<1>9. Reached(level)'
  BY <1>1, <1>7, <1>8 DEF WalkInv, Reached
<1>10. \A u \in Types : HasRecipe(u)' = HasRecipe(u) /\ Built(u)' = Built(u)
  BY <1>1, SameTable
<1>11. \A u \in Types : need'[u] > 0 => need[u] > 0 \/ u = t
  BY <1>1 DEF TypeOK
<1>12. Sorted'
  BY <1>1, <1>10, <1>11 DEF WalkInv, Sorted
<1>13. TargetInv'
  <2>1. job.target \in Types
    BY BuildAssumption DEF TypeOK, Job
  <2>2. HasRecipe(job.target)' = HasRecipe(job.target)
    BY <1>1, SameTable
  <2>3. CASE t = job.target
    BY <1>1, <2>1, <2>3 DEF TargetInv, TypeOK
  <2>4. CASE t # job.target
    <3>1. /\ current'[job.target] = current[job.target]
          /\ need'[job.target] = need[job.target]
      BY <1>1, <2>1, <2>4 DEF TypeOK
    <3>2. QED  BY <1>1, <2>2, <3>1 DEF WalkInv, TargetInv
  <2>5. QED  BY <2>3, <2>4
<1>14. QED  BY <1>9, <1>12, <1>13 DEF WalkInv

LEMMA NextKeepsLevels ==
    ASSUME TypeOK, NextLevel, NEW level \in [Types -> 1 .. MaxDepth],
           Levels(level), WalkInv(level)
    PROVE  WalkInv(level)'
<1>1. /\ UNCHANGED <<recipes, job, need, raw, buildable, done>>
      /\ current = Nothing /\ current' = next /\ next' = Nothing
      /\ depth' = depth + 1 /\ depth \in Nat
  BY BuildAssumption DEF NextLevel, TypeOK
<1>2. \A t \in Types : current[t] = 0 /\ next'[t] = 0
  BY <1>1 DEF Nothing
<1>3. Reached(level)'
  BY <1>1, <1>2 DEF WalkInv, Reached
<1>4. Sorted'
  BY <1>1, SameTable DEF WalkInv, Sorted
<1>5. TargetInv'
  <2>1. job.target \in Types
    BY BuildAssumption DEF TypeOK, Job
  <2>2. HasRecipe(job.target) => need[job.target] > 0
    BY <1>2, <2>1 DEF WalkInv, TargetInv
  <2>3. HasRecipe(job.target)' = HasRecipe(job.target)
    BY <1>1, SameTable
  <2>4. QED  BY <1>1, <2>2, <2>3 DEF TargetInv
<1>6. QED  BY <1>3, <1>4, <1>5 DEF WalkInv

(* At the limit there is nothing left to look at.                          *)
LEMMA FinishKeepsLevels ==
    ASSUME TypeOK, Finish, NEW level \in [Types -> 1 .. MaxDepth],
           Levels(level), WalkInv(level)
    PROVE  WalkInv(level)'
<1>1. /\ UNCHANGED <<recipes, job, next, depth, need, buildable>>
      /\ current = Nothing \/ depth = MaxDepth
      /\ raw' = [t \in Types |-> raw[t] + current[t]]
      /\ current' = Nothing
  BY DEF Finish
<1>2. \A t \in Types : current[t] = 0
  <2>1. CASE current = Nothing
    BY <2>1 DEF Nothing
  <2>2. CASE depth = MaxDepth
    <3> SUFFICES ASSUME NEW t \in Types PROVE current[t] = 0
      OBVIOUS
    <3>1. level[t] \in 1 .. MaxDepth
      OBVIOUS
    <3>2. ~(level[t] > depth)
      BY <2>2, <3>1, BuildAssumption
    <3>3. ~(current[t] > 0)
      BY <3>2, Zenon DEF WalkInv, Reached
    <3>4. current[t] \in Nat
      BY DEF TypeOK
    <3>5. QED  BY <3>3, <3>4
  <2>3. QED  BY <1>1, <2>1, <2>2
<1>3. \A t \in Types : current'[t] = 0 /\ raw'[t] = raw[t]
  BY <1>1, <1>2 DEF Nothing, TypeOK
<1>4. Reached(level)'
  BY <1>1, <1>3 DEF WalkInv, Reached
<1>5. Sorted'
  BY <1>1, <1>3, SameTable DEF WalkInv, Sorted
<1>6. TargetInv'
  <2>1. job.target \in Types
    BY BuildAssumption DEF TypeOK, Job
  <2>2. HasRecipe(job.target) => need[job.target] > 0
    BY <1>2, <2>1 DEF WalkInv, TargetInv
  <2>3. HasRecipe(job.target)' = HasRecipe(job.target)
    BY <1>1, SameTable
  <2>4. QED  BY <1>1, <2>2, <2>3 DEF TargetInv
<1>7. QED  BY <1>4, <1>5, <1>6 DEF WalkInv

(* In every result on data that is layered, no item is both built and      *)
(* bought, what is built and bought is what the job has, and the flag that *)
(* lets a leaf be toggled is the recipe's.                                 *)
THEOREM BuiltAsAsked == Spec => []BoughtOrBuilt
<1>1. Init => LayeredInv
  <2> SUFFICES ASSUME Init, NEW level \in [Types -> 1 .. MaxDepth]
               PROVE  WalkInv(level)
    BY DEF LayeredInv
  <2>1. job.target \in Types /\ job.quantity \in Nat \ {0}
    <3>1. job.target \in Targets /\ job.quantity \in TargetQuantities
      BY DEF Init, Job
    <3>2. QED  BY <3>1, BuildAssumption
  <2>2. /\ current[job.target] = job.quantity
        /\ \A t \in Types : next[t] = 0 /\ need[t] = 0 /\ raw[t] = 0
        /\ depth = 0 /\ ~done
    BY <2>1 DEF Init, Nothing
  <2>3. \A t \in Types : level[t] > 0
    BY BuildAssumption
  <2>4. Reached(level) /\ Sorted /\ TargetInv
    BY <2>1, <2>2, <2>3 DEF Reached, Sorted, TargetInv
  <2>5. QED  BY <2>4 DEF WalkInv
<1>2. TypeOK /\ LayeredInv /\ [Next]_vars => LayeredInv'
  <2> SUFFICES ASSUME TypeOK, LayeredInv, [Next]_vars,
                      NEW level \in [Types -> 1 .. MaxDepth], Levels(level)'
               PROVE  WalkInv(level)'
    BY DEF LayeredInv
  <2>1. UNCHANGED <<recipes, job>>
    BY DEF Next, Buy, Build, NextLevel, Finish, vars
  <2>2. Levels(level) /\ WalkInv(level)
    BY <2>1, SameTable DEF LayeredInv
  <2>3. CASE UNCHANGED vars
    BY <2>2, <2>3 DEF vars, WalkInv, Reached, Sorted, TargetInv, Built, HasRecipe, NoRecipe
  <2>4. QED
    BY <2>2, <2>3, BuyKeepsLevels, BuildKeepsLevels, NextKeepsLevels, FinishKeepsLevels DEF Next
<1>3. TypeOK /\ LayeredInv => BoughtOrBuilt
  <2> SUFFICES ASSUME TypeOK, LayeredInv, done, Layered
               PROVE  /\ HasRecipe(job.target) => job.target \in Steps
                      /\ \A t \in Types : raw[t] > 0 =>
                           /\ t \notin Steps
                           /\ HasRecipe(t) => t \notin job.build_set
                           /\ t \in buildable <=> HasRecipe(t)
    BY DEF BoughtOrBuilt
  <2>1. Sorted /\ TargetInv
    BY DEF LayeredInv, Layered, WalkInv
  <2>2. job.target \in Types
    BY BuildAssumption DEF TypeOK, Job
  <2>3. HasRecipe(job.target) => job.target \in Steps
    BY <2>1, <2>2 DEF TargetInv, Steps
  <2>4. QED  BY <2>1, <2>3 DEF Sorted, Steps, Built
<1>4. QED  BY <1>1, <1>2, <1>3, TypeCorrect, PTL DEF Spec

-----------------------------------------------------------------------------
(* Sums of functions over finite sets.                                     *)

(* The order of the naturals, as a relation, and a least one among them.   *)
LEMMA Below == ASSUME NEW m \in Nat, NEW n \in Nat, m < n PROVE <<m, n>> \in OpToRel(<, Nat)
BY DEF OpToRel

LEMMA LeastNatural ==
    ASSUME NEW S \in SUBSET Nat, S # {}
    PROVE  \E m \in S : \A k \in S : m =< k
<1> DEFINE R == OpToRel(<, Nat)
<1>1. IsWellFoundedOn(R, Nat)
  BY NatLessThanWellFounded
<1> HIDE DEF R
<1>2. PICK m \in S : \A k \in S : ~(<<k, m>> \in R)
  BY <1>1, WFMin
<1>3. \A k \in S : k < m => <<k, m>> \in R
  BY Below DEF R
<1>4. ASSUME NEW k \in S PROVE m =< k
  <2>1. ~(k < m)
    BY <1>2, <1>3
  <2>2. m \in Nat /\ k \in Nat
    OBVIOUS
  <2> HIDE <1>1, <1>2, <1>3
  <2>3. QED  BY <2>1, <2>2
<1>5. QED  BY <1>4

(* The element that a fold takes next.                                     *)
One(s) == CHOOSE x \in s : TRUE

(* Sums over the subsets of T, each made of a smaller one.                 *)
Sums(T, g, f) ==
    f = [s \in SUBSET T |-> IF s = {} THEN 0 ELSE g[One(s)] + f[s \ {One(s)}]]

(* A set less one of its elements.                                         *)
LEMMA OneLess ==
    ASSUME NEW T, IsFiniteSet(T), NEW s \in SUBSET T
    PROVE  /\ Cardinality(s) \in Nat /\ (Cardinality(s) = 0 => s = {})
           /\ Cardinality(s) =< Cardinality(T)
           /\ s # {} => /\ One(s) \in s /\ s \ {One(s)} \in SUBSET T
                        /\ Cardinality(s \ {One(s)}) < Cardinality(s)
<1>1. IsFiniteSet(s) /\ Cardinality(s) =< Cardinality(T)
  BY FS_Subset
<1>2. Cardinality(s) \in Nat
  BY <1>1, FS_CardinalityType
<1>3. Cardinality(s) = 0 => s = {}
  BY <1>1, FS_EmptySet
<1>4. ASSUME s # {} PROVE One(s) \in s
  BY <1>4 DEF One
<1>5. ASSUME s # {} PROVE Cardinality(s \ {One(s)}) = Cardinality(s) - 1
  BY <1>1, <1>4, <1>5, FS_RemoveElement
<1>6. QED  BY <1>1, <1>2, <1>3, <1>4, <1>5

(* What holds of the empty set, and of a set when of the set less one      *)
(* element, holds of all.                                                  *)
LEMMA OneByOne ==
    ASSUME NEW T, IsFiniteSet(T), NEW Q \in SUBSET SUBSET T, {} \in Q,
           \A s \in SUBSET T : s # {} /\ s \ {One(s)} \in Q => s \in Q
    PROVE  Q = SUBSET T
<1>1. \A s \in SUBSET T : /\ Cardinality(s) \in Nat
                          /\ s # {} => /\ s \ {One(s)} \in SUBSET T
                                       /\ Cardinality(s \ {One(s)}) < Cardinality(s)
  BY OneLess
<1> DEFINE Bad == {Cardinality(s) : s \in (SUBSET T) \ Q}
<1>2. SUFFICES ASSUME Q # SUBSET T PROVE FALSE
  OBVIOUS
<1>3. Bad \in SUBSET Nat /\ Bad # {}
  <2>1. PICK s \in SUBSET T : s \notin Q
    BY <1>2
  <2>2. Cardinality(s) \in Bad
    BY <2>1
  <2>3. \A n \in Bad : n \in Nat
    <3> SUFFICES ASSUME NEW r \in (SUBSET T) \ Q PROVE Cardinality(r) \in Nat
      OBVIOUS
    <3>1. r \in SUBSET T
      OBVIOUS
    <3>2. QED  BY <1>1, <3>1
  <2>4. QED  BY <2>2, <2>3
<1> HIDE DEF Bad
<1>4. PICK m \in Bad : \A k \in Bad : m =< k
  BY <1>3, LeastNatural
<1>5. PICK s \in (SUBSET T) \ Q : Cardinality(s) = m
  BY <1>4 DEF Bad
<1>6. s # {} /\ s \ {One(s)} \notin Q
  OBVIOUS
<1>7. Cardinality(s \ {One(s)}) \in Bad
  BY <1>1, <1>6 DEF Bad
<1>8. QED
  <2>1. m =< Cardinality(s \ {One(s)}) /\ Cardinality(s \ {One(s)}) < m /\ m \in Nat
    BY <1>1, <1>3, <1>4, <1>5, <1>6, <1>7
  <2>2. Cardinality(s \ {One(s)}) \in Nat
    BY <1>3, <1>7
  <2> HIDE <1>4
  <2>3. QED  BY <2>1, <2>2

(* SumFunction adds one element after the other.                           *)
LEMMA SumOf ==
    ASSUME NEW g
    PROVE  SumFunction(g) = (CHOOSE f : Sums(DOMAIN g, g, f))[DOMAIN g]
BY DEF SumFunction, SumFunctionOnSet, FoldFunctionOnSet, MapThenFoldSet, Sums, One

(* Such sums exist.                                                        *)
LEMMA SumsExist ==
    ASSUME NEW T, IsFiniteSet(T), NEW g \in [T -> Int]
    PROVE  \E f \in [SUBSET T -> Int] : Sums(T, g, f)
<1> DEFINE Of(f, s) == IF s = {} THEN 0 ELSE g[One(s)] + f[s \ {One(s)}]
           Good == {n \in Nat : \E f \in [SUBSET T -> Int] :
                                 \A s \in SUBSET T : Cardinality(s) =< n => f[s] = Of(f, s)}
<1>1. \A s \in SUBSET T : /\ Cardinality(s) \in Nat /\ (Cardinality(s) = 0 => s = {})
                          /\ Cardinality(s) =< Cardinality(T)
                          /\ s # {} => /\ One(s) \in T /\ s \ {One(s)} \in SUBSET T
                                       /\ Cardinality(s \ {One(s)}) < Cardinality(s)
  <2> SUFFICES ASSUME NEW s \in SUBSET T
               PROVE  /\ Cardinality(s) \in Nat /\ (Cardinality(s) = 0 => s = {})
                      /\ Cardinality(s) =< Cardinality(T)
                      /\ s # {} => /\ One(s) \in T /\ s \ {One(s)} \in SUBSET T
                                   /\ Cardinality(s \ {One(s)}) < Cardinality(s)
    OBVIOUS
  <2>1. QED  BY OneLess
<1>2. 0 \in Good
  <2> DEFINE f == [s \in SUBSET T |-> 0]
  <2>1. f \in [SUBSET T -> Int]
    OBVIOUS
  <2>2. ASSUME NEW s \in SUBSET T, Cardinality(s) =< 0 PROVE f[s] = Of(f, s)
    <3>1. s = {}
      <4>1. Cardinality(s) \in Nat
        BY <1>1
      <4>2. Cardinality(s) = 0
        BY <2>2, <4>1
      <4>3. QED  BY <1>1, <4>2
    <3>2. QED  BY <3>1
  <2>3. QED  BY <2>1, <2>2
<1>3. ASSUME NEW n \in Good PROVE n + 1 \in Good
  <2>1. PICK f \in [SUBSET T -> Int] :
           \A s \in SUBSET T : Cardinality(s) =< n => f[s] = Of(f, s)
    BY <1>3
  <2> DEFINE h == [s \in SUBSET T |-> Of(f, s)]
  <2>2. h \in [SUBSET T -> Int]
    <3>1. ASSUME NEW s \in SUBSET T PROVE Of(f, s) \in Int
      <4>1. CASE s = {}
        BY <4>1
      <4>2. CASE s # {}
        <5>1. g[One(s)] \in Int /\ f[s \ {One(s)}] \in Int
          BY <1>1, <4>2
        <5>2. QED  BY <4>2, <5>1
      <4>3. QED  BY <4>1, <4>2
    <3> HIDE DEF Of
    <3>2. QED  BY <3>1
  <2>3. ASSUME NEW s \in SUBSET T, Cardinality(s) =< n + 1 PROVE h[s] = Of(h, s)
    <3>1. CASE s = {}
      BY <3>1
    <3>2. CASE s # {}
      <4> DEFINE r == s \ {One(s)}
      <4>1. r \in SUBSET T /\ Cardinality(r) =< n
        <5>1. /\ Cardinality(r) \in Nat /\ Cardinality(s) \in Nat /\ n \in Nat
              /\ Cardinality(r) < Cardinality(s) /\ r \in SUBSET T
          BY <1>1, <3>2
        <5>2. QED  BY <2>3, <5>1
      <4>2. h[r] = f[r]
        BY <2>1, <4>1
      <4>3. h[s] = g[One(s)] + f[r] /\ Of(h, s) = g[One(s)] + h[r]
        BY <3>2
      <4>4. QED  BY <4>2, <4>3
    <3>3. QED  BY <3>1, <3>2
  <2> HIDE DEF h, Of
  <2>4. QED  BY <2>2, <2>3
<1>4. Nat \subseteq Good
  <2> HIDE DEF Good
  <2> DEFINE Bad == Nat \ Good
  <2>1. SUFFICES ASSUME Bad # {} PROVE FALSE
    OBVIOUS
  <2>2. PICK m \in Bad : \A k \in Bad : m =< k
    <3>1. Bad \in SUBSET Nat
      OBVIOUS
    <3> HIDE DEF Bad
    <3>2. QED  BY <2>1, <3>1, LeastNatural
  <2>3. m \in Nat \ {0}
    BY <1>2
  <2>4. m - 1 \in Nat /\ ~(m =< m - 1) /\ (m - 1) + 1 = m
    BY <2>3
  <2>5. m - 1 \in Good
    BY <2>2, <2>4
  <2>6. m \in Good
    BY <1>3, <2>4, <2>5
  <2>7. QED  BY <2>6
<1>5. PICK f \in [SUBSET T -> Int] :
         \A s \in SUBSET T : Cardinality(s) =< Cardinality(T) => f[s] = Of(f, s)
  <2>1. Cardinality(T) \in Nat
    BY FS_CardinalityType
  <2>2. QED  BY <1>4, <2>1
<1>6. f = [s \in SUBSET T |-> Of(f, s)]
  BY <1>1, <1>5
<1>7. QED  BY <1>6 DEF Sums

(* So the sum of a function over a finite set is that of all but one, and  *)
(* the one.                                                                *)
Adds(T, g, f) ==
    /\ f \in [SUBSET T -> Int] /\ f[{}] = 0 /\ f[T] = SumFunction(g)
    /\ \A s \in SUBSET T : s # {} => f[s] = g[One(s)] + f[s \ {One(s)}]

LEMMA SumByOne ==
    ASSUME NEW T, IsFiniteSet(T), NEW g \in [T -> Int]
    PROVE  \E f : Adds(T, g, f)
<1> DEFINE f == CHOOSE e : Sums(T, g, e)
<1>1. PICK e \in [SUBSET T -> Int] : Sums(T, g, e)
  BY SumsExist
<1>2. Sums(T, g, f)
  BY <1>1
<1>3. SumFunction(g) = f[T]
  <2>1. DOMAIN g = T
    OBVIOUS
  <2>2. QED  BY <2>1, SumOf
<1> HIDE DEF f
<1>4. f = [s \in SUBSET T |-> IF s = {} THEN 0 ELSE g[One(s)] + f[s \ {One(s)}]]
  BY <1>2 DEF Sums
<1>5. f[{}] = 0 /\ \A s \in SUBSET T : s # {} => f[s] = g[One(s)] + f[s \ {One(s)}]
  BY <1>4
<1>6. DOMAIN f = SUBSET T
  BY <1>4
<1> DEFINE Q == {s \in SUBSET T : f[s] \in Int}
<1>7. Q = SUBSET T
  <2>1. Q \in SUBSET SUBSET T /\ {} \in Q
    BY <1>5
  <2>2. \A s \in SUBSET T : s # {} /\ s \ {One(s)} \in Q => s \in Q
    <3> SUFFICES ASSUME NEW s \in SUBSET T, s # {}, f[s \ {One(s)}] \in Int
                 PROVE  f[s] \in Int
      OBVIOUS
    <3>1. One(s) \in T
      BY OneLess
    <3>2. f[s] = g[One(s)] + f[s \ {One(s)}] /\ g[One(s)] \in Int
      BY <1>5, <3>1
    <3> HIDE DEF Q
    <3>3. QED  BY <3>2
  <2> HIDE DEF Q
  <2>3. QED  BY <2>1, <2>2, OneByOne
<1>8. f \in [SUBSET T -> Int]
  BY <1>4, <1>6, <1>7
<1>9. Adds(T, g, f)
  BY <1>3, <1>5, <1>8 DEF Adds
<1>10. QED  BY <1>9

(* A sum of zeros.                                                         *)
LEMMA SumOfNothing ==
    ASSUME NEW T, IsFiniteSet(T), NEW g, g = [t \in T |-> 0]
    PROVE  SumFunction(g) = 0
<1>1. PICK f : Adds(T, g, f)
  <2>1. g \in [T -> Int]
    OBVIOUS
  <2>2. QED  BY <2>1, SumByOne
<1> DEFINE Q == {s \in SUBSET T : f[s] = 0}
<1>2. Q \in SUBSET SUBSET T /\ {} \in Q
  BY <1>1 DEF Adds
<1>3. \A s \in SUBSET T : s # {} /\ s \ {One(s)} \in Q => s \in Q
  <2> SUFFICES ASSUME NEW s \in SUBSET T, s # {}, f[s \ {One(s)}] = 0
               PROVE  f[s] = 0
    OBVIOUS
  <2>1. g[One(s)] = 0
    BY OneLess
  <2>2. QED  BY <1>1, <2>1 DEF Adds
<1>4. Q = SUBSET T
  <2> HIDE DEF Q
  <2>1. QED  BY <1>2, <1>3, OneByOne
<1>5. QED  BY <1>1, <1>4 DEF Adds

(* A sum grows by what one of its terms grows by.                          *)
LEMMA SumWithMore ==
    ASSUME NEW T, IsFiniteSet(T), NEW g \in [T -> Int], NEW h \in [T -> Int],
           NEW x \in T, NEW d \in Int, h[x] = g[x] + d, \A t \in T \ {x} : h[t] = g[t]
    PROVE  SumFunction(h) = SumFunction(g) + d /\ SumFunction(g) \in Int
<1>1. PICK a : Adds(T, g, a)
  BY SumByOne
<1>2. PICK b : Adds(T, h, b)
  BY SumByOne
<1> DEFINE More(s) == IF x \in s THEN d ELSE 0
           Q == {s \in SUBSET T : b[s] = a[s] + More(s)}
<1>3. Q \in SUBSET SUBSET T /\ {} \in Q
  BY <1>1, <1>2 DEF Adds
<1>4. \A s \in SUBSET T : s # {} /\ s \ {One(s)} \in Q => s \in Q
  <2> SUFFICES ASSUME NEW s \in SUBSET T, s # {},
                      b[s \ {One(s)}] = a[s \ {One(s)}] + More(s \ {One(s)})
               PROVE  b[s] = a[s] + More(s)
    OBVIOUS
  <2> DEFINE o == One(s)
             r == s \ {o}
  <2>1. o \in s /\ o \in T /\ r \in SUBSET T
    BY OneLess
  <2>2. a[s] = g[o] + a[r] /\ b[s] = h[o] + b[r]
    BY <1>1, <1>2 DEF Adds
  <2>3. b[r] = a[r] + More(r)
    OBVIOUS
  <2>4. a[r] \in Int /\ b[r] \in Int /\ g[o] \in Int /\ h[o] \in Int
    BY <1>1, <1>2, <2>1 DEF Adds
  <2> HIDE DEF o
  <2>5. CASE o = x
    <3>1. More(r) = 0 /\ More(s) = d /\ h[o] = g[o] + d
      BY <2>1, <2>5
    <3> HIDE DEF More, r
    <3>2. QED  BY <2>2, <2>3, <2>4, <3>1
  <2>6. CASE o # x
    <3>1. More(r) = More(s) /\ h[o] = g[o] /\ More(s) \in Int
      BY <2>1, <2>6
    <3> HIDE DEF More, r
    <3>2. QED  BY <2>2, <2>3, <2>4, <3>1
  <2>7. QED  BY <2>5, <2>6
<1>5. Q = SUBSET T
  <2> HIDE DEF Q
  <2>1. QED  BY <1>3, <1>4, OneByOne
<1>6. b[T] = a[T] + d /\ a[T] \in Int
  <2>1. T \in Q
    BY <1>5
  <2>2. QED  BY <1>1, <2>1 DEF Adds
<1>7. QED  BY <1>1, <1>2, <1>6 DEF Adds

-----------------------------------------------------------------------------
(* What all steps use of an item.                                          *)
Column(m) == [t \in Types |-> used[t][m]]

(* Where no step changes, what is demanded stays.                          *)
LEMMA SameDemand ==
    ASSUME UNCHANGED <<job, used>>, NEW m
    PROVE  Demand(m)' = Demand(m)
BY DEF Demand

(* A step takes the whole demand of a level, and what its runs use is the  *)
(* demand of the next.                                                     *)
LEMMA BuildLosesNothing ==
    ASSUME TypeOK, NothingIsLost, NEW t \in Types, Build(t)
    PROVE  NothingIsLost'
<1> SUFFICES ASSUME NEW m \in Types
             PROVE  Demand(m)' = need'[m] + raw'[m] + current'[m] + next'[m]
  BY DEF NothingIsLost
<1> DEFINE needed == [i \in Types |-> PerRun(t, i) * AdditionalRuns(t)]
           asked == IF m = job.target THEN job.quantity ELSE 0
<1>1. needed \in [Types -> Nat]
  <2>1. AdditionalRuns(t) \in Nat
    BY RunFacts DEF Build, Built
  <2>2. \A i \in Types : PerRun(t, i) \in Nat
    BY PerRunTypes
  <2>3. QED  BY <2>1, <2>2
<1>2. /\ need' = [need EXCEPT ![t] = need[t] + current[t]]
      /\ used' = [used EXCEPT ![t] = [i \in Types |-> used[t][i] + needed[i]]]
      /\ next' = [i \in Types |-> next[i] + needed[i]]
      /\ current' = [current EXCEPT ![t] = 0]
      /\ UNCHANGED <<job, raw>>
  BY DEF Build
<1> HIDE DEF needed
<1>3. /\ {current, next, need, raw} \subseteq [Types -> Nat]
      /\ used \in [Types -> [Types -> Nat]]
  BY DEF TypeOK
<1>4. /\ Column(m) \in [Types -> Int] /\ Column(m)' \in [Types -> Int]
      /\ Column(m)'[t] = Column(m)[t] + needed[m]
      /\ \A i \in Types \ {t} : Column(m)'[i] = Column(m)[i]
  BY <1>1, <1>2, <1>3 DEF Column
<1>5. SumFunction(Column(m)') = SumFunction(Column(m)) + needed[m] /\ SumFunction(Column(m)) \in Int
  <2> DEFINE g == Column(m)
             h == Column(m)'
             d == needed[m]
  <2>1. /\ IsFiniteSet(Types) /\ d \in Int
        /\ g \in [Types -> Int] /\ h \in [Types -> Int]
        /\ h[t] = g[t] + d /\ \A i \in Types \ {t} : h[i] = g[i]
    BY <1>1, <1>4, BuildAssumption
  <2> HIDE DEF g, h, d
  <2>2. SumFunction(h) = SumFunction(g) + d /\ SumFunction(g) \in Int
    BY <2>1, SumWithMore
  <2>3. QED  BY <2>2 DEF g, h, d
<1>6. /\ Demand(m) = asked + SumFunction(Column(m))
      /\ Demand(m)' = asked + SumFunction(Column(m)')
  BY <1>2 DEF Demand, Column
<1>7. asked \in Int
  <2>1. job.quantity \in TargetQuantities
    BY DEF TypeOK, Job
  <2>2. job.quantity \in Nat
    BY <2>1, BuildAssumption
  <2>3. QED  BY <2>2
<1> HIDE DEF asked
<1>8. Demand(m)' = Demand(m) + needed[m]
  BY <1>1, <1>5, <1>6, <1>7
<1>9. Demand(m) = need[m] + raw[m] + current[m] + next[m]
  BY DEF NothingIsLost
<1>10. need'[m] + raw'[m] + current'[m] + next'[m]
          = need[m] + raw[m] + current[m] + next[m] + needed[m]
  BY <1>1, <1>2, <1>3
<1>11. QED  BY <1>8, <1>9, <1>10

(* On every table, with cycles too, and at every moment of the walk, the   *)
(* demand for an item is what its step, the list and the levels hold.      *)
THEOREM DemandIsMet == Spec => []NothingIsLost
<1>1. Init => NothingIsLost
  <2> SUFFICES ASSUME Init, NEW m \in Types
               PROVE  Demand(m) = need[m] + raw[m] + current[m] + next[m]
    BY DEF NothingIsLost
  <2>1. job.target \in Types /\ job.quantity \in Nat
    <3>1. job.target \in Targets /\ job.quantity \in TargetQuantities
      BY DEF Init, Job
    <3>2. QED  BY <3>1, BuildAssumption
  <2>2. Column(m) = [t \in Types |-> 0]
    BY DEF Init, Nothing, Column
  <2>3. SumFunction(Column(m)) = 0
    <3> DEFINE g == Column(m)
    <3>1. g = [t \in Types |-> 0] /\ IsFiniteSet(Types)
      BY <2>2, BuildAssumption
    <3> HIDE DEF g
    <3>2. SumFunction(g) = 0
      BY <3>1, SumOfNothing
    <3>3. QED  BY <3>2 DEF g
  <2>4. Demand(m) = (IF m = job.target THEN job.quantity ELSE 0) + 0
    BY <2>3 DEF Demand, Column
  <2>5. /\ need[m] = 0 /\ raw[m] = 0 /\ next[m] = 0
        /\ current[m] = IF m = job.target THEN job.quantity ELSE 0
    BY <2>1 DEF Init, Nothing
  <2>6. CASE m = job.target
    <3>1. Demand(m) = job.quantity /\ current[m] = job.quantity
      BY <2>1, <2>4, <2>5, <2>6
    <3>2. QED  BY <2>1, <2>5, <3>1
  <2>7. CASE m # job.target
    <3>1. Demand(m) = 0 /\ current[m] = 0
      BY <2>4, <2>5, <2>7
    <3>2. QED  BY <2>5, <3>1
  <2>8. QED  BY <2>6, <2>7
<1>2. TypeOK /\ NothingIsLost /\ [Next]_vars => NothingIsLost'
  <2> SUFFICES ASSUME TypeOK, NothingIsLost, [Next]_vars PROVE NothingIsLost'
    OBVIOUS
  <2>1. {current, next, need, raw} \subseteq [Types -> Nat]
    BY DEF TypeOK
  <2>2. ASSUME UNCHANGED <<job, used>>,
               \A m \in Types : need'[m] + raw'[m] + current'[m] + next'[m]
                                   = need[m] + raw[m] + current[m] + next[m]
        PROVE  NothingIsLost'
    BY <2>2, SameDemand DEF NothingIsLost
  <2>3. ASSUME NEW t \in Types, Buy(t) PROVE NothingIsLost'
    BY <2>1, <2>2, <2>3 DEF Buy
  <2>4. CASE NextLevel
    BY <2>1, <2>2, <2>4 DEF NextLevel, Nothing
  <2>5. CASE Finish
    BY <2>1, <2>2, <2>5 DEF Finish, Nothing
  <2>6. CASE UNCHANGED vars
    BY <2>2, <2>6 DEF vars
  <2>7. QED  BY <2>3, <2>4, <2>5, <2>6, BuildLosesNothing DEF Next
<1>3. QED  BY <1>1, <1>2, TypeCorrect, PTL DEF Spec

-----------------------------------------------------------------------------
(* Every step and every demand belongs to whatever holds the target and,   *)
(* with a step, all it is made of.                                         *)
Closed(S) == job.target \in S /\ \A t \in S \cap Steps : Materials(t) \subseteq S

FromTarget ==
    \A S \in SUBSET Types : Closed(S) =>
        \A t \in Types : need[t] > 0 \/ current[t] > 0 \/ next[t] > 0 => t \in S

LEMMA BuildComesFromTarget ==
    ASSUME TypeOK, FromTarget, NEW t \in Types, Build(t)
    PROVE  FromTarget'
<1> DEFINE needed == [m \in Types |-> PerRun(t, m) * AdditionalRuns(t)]
<1>1. /\ UNCHANGED <<recipes, job>>
      /\ current[t] > 0
      /\ need' = [need EXCEPT ![t] = need[t] + current[t]]
      /\ used' = [used EXCEPT ![t] = [m \in Types |-> used[t][m] + needed[m]]]
      /\ next' = [m \in Types |-> next[m] + needed[m]]
      /\ current' = [current EXCEPT ![t] = 0]
  BY DEF Build
<1>2. /\ AdditionalRuns(t) \in Nat
      /\ \A m \in Types : PerRun(t, m) \in Nat
  BY RunFacts, PerRunTypes DEF Build, Built
<1>3. \A m \in Types : needed[m] \in Nat
  BY <1>2
<1> HIDE DEF needed
<1>4. /\ {current, next, need} \subseteq [Types -> Nat]
      /\ used \in [Types -> [Types -> Nat]]
  BY DEF TypeOK
<1>5. /\ \A u \in Types \ {t} : Materials(u)' = Materials(u)
      /\ \A m \in Types : m \in Materials(t)' <=> (m \in Materials(t) \/ needed[m] > 0)
  BY <1>1, <1>3, <1>4 DEF Materials
<1>6. Steps' = Steps \cup {t}
  BY <1>1, <1>4 DEF Steps
<1>7. ASSUME NEW S \in SUBSET Types, Closed(S)', NEW u \in Types,
             need'[u] > 0 \/ current'[u] > 0 \/ next'[u] > 0
      PROVE  u \in S
  <2>1. \A v \in Types : Materials(v) \subseteq Materials(v)'
    BY <1>5 DEF Materials
  <2>2. Closed(S)
    BY <1>1, <1>6, <1>7, <2>1 DEF Closed
  <2>3. \A v \in Types : need[v] > 0 \/ current[v] > 0 \/ next[v] > 0 => v \in S
    BY <2>2 DEF FromTarget
  <2>4. t \in S
    BY <1>1, <2>3
  <2>5. Materials(t)' \subseteq S
    BY <1>6, <1>7, <2>4 DEF Closed
  <2>6. next'[u] > 0 => next[u] > 0 \/ needed[u] > 0
    BY <1>1, <1>3, <1>4
  <2>7. needed[u] > 0 => u \in S
    BY <1>5, <2>5
  <2>8. need'[u] > 0 => need[u] > 0 \/ u = t
    BY <1>1, <1>4
  <2>9. current'[u] > 0 => current[u] > 0
    BY <1>1, <1>4
  <2>10. QED  BY <1>7, <2>3, <2>4, <2>6, <2>7, <2>8, <2>9
<1>8. QED  BY <1>7 DEF FromTarget

(* On every table the steps are the target's and what they are made of.    *)
LEMMA StepsComeFromTarget == Spec => []FromTarget
<1>1. Init => FromTarget
  <2> SUFFICES ASSUME Init PROVE FromTarget
    OBVIOUS
  <2>1. \A t \in Types : Materials(t) = {}
    BY DEF Init, Nothing, Materials
  <2>2. \A t \in Types : need[t] = 0 /\ next[t] = 0 /\ (t # job.target => current[t] = 0)
    BY DEF Init, Nothing
  <2>3. QED  BY <2>1, <2>2 DEF FromTarget, Closed
<1>2. TypeOK /\ FromTarget /\ [Next]_vars => FromTarget'
  <2> SUFFICES ASSUME TypeOK, FromTarget, [Next]_vars
               PROVE  FromTarget'
    OBVIOUS
  <2>1. ASSUME UNCHANGED <<recipes, job, need, used>>,
               \A t \in Types : current'[t] > 0 \/ next'[t] > 0 => current[t] > 0 \/ next[t] > 0
        PROVE  FromTarget'
    <3>1. \A t : Materials(t)' = Materials(t)
      BY <2>1 DEF Materials
    <3>2. \A S : Closed(S)' <=> Closed(S)
      BY <2>1, <3>1 DEF Closed, Steps
    <3>3. QED  BY <2>1, <3>1, <3>2 DEF FromTarget
  <2>2. {current, next} \subseteq [Types -> Nat]
    BY DEF TypeOK
  <2>3. ASSUME NEW t \in Types, Buy(t) PROVE FromTarget'
    BY <2>1, <2>2, <2>3 DEF Buy
  <2>4. CASE NextLevel
    BY <2>1, <2>4 DEF NextLevel, Nothing
  <2>5. CASE Finish
    BY <2>1, <2>5 DEF Finish, Nothing
  <2>6. CASE UNCHANGED vars
    BY <2>1, <2>6 DEF vars
  <2>7. QED  BY <2>3, <2>4, <2>5, <2>6, BuildComesFromTarget DEF Next
<1>3. QED  BY <1>1, <1>2, TypeCorrect, PTL DEF Spec

-----------------------------------------------------------------------------
(* What is done to the sequences of _topological_order.                    *)
LEMMA Called ==
    ASSUME NEW T, NEW s \in Seq(T), NEW x \in T, x \notin Range(s), IsInjective(s)
    PROVE  LET r == <<x>> \o s
           IN  /\ r \in Seq(T) /\ Range(r) = Range(s) \cup {x} /\ IsInjective(r)
               /\ \A i \in DOMAIN r : (i = 1 /\ r[i] = x) \/ (i - 1 \in DOMAIN s /\ r[i] = s[i - 1])
<1> DEFINE r == <<x>> \o s
<1>1. /\ r \in Seq(T) /\ DOMAIN r = 1 .. Len(s) + 1 /\ DOMAIN s = 1 .. Len(s)
      /\ Len(s) \in Nat /\ r[1] = x /\ \A i \in 1 .. Len(s) : r[i + 1] = s[i]
  OBVIOUS
<1> HIDE DEF r
<1>2. \A i \in DOMAIN r : (i = 1 /\ r[i] = x) \/ (i - 1 \in DOMAIN s /\ r[i] = s[i - 1])
  BY <1>1
<1>3. \A i \in DOMAIN s : i + 1 \in DOMAIN r /\ r[i + 1] = s[i]
  BY <1>1
<1>4. Range(r) = Range(s) \cup {x}
  BY <1>1, <1>2, <1>3 DEF Range
<1>5. IsInjective(r)
  <2> SUFFICES ASSUME NEW i \in DOMAIN r, NEW j \in DOMAIN r, r[i] = r[j] PROVE i = j
    BY DEF IsInjective
  <2>1. i \in Nat /\ j \in Nat
    BY <1>1
  <2>2. CASE i = 1 \/ j = 1
    BY <1>2, <2>2 DEF Range
  <2>3. CASE i # 1 /\ j # 1
    <3>1. i - 1 = j - 1
      BY <1>2, <2>3 DEF IsInjective
    <3>2. QED  BY <2>1, <3>1
  <2>4. QED  BY <2>2, <2>3
<1>6. QED  BY <1>1, <1>2, <1>4, <1>5 DEF r

LEMMA Returned ==
    ASSUME NEW T, NEW s \in Seq(T), s # <<>>, IsInjective(s)
    PROVE  /\ Head(s) \in Range(s) /\ Head(s) = s[1] /\ Head(s) \in T
           /\ Tail(s) \in Seq(T) /\ Range(Tail(s)) = Range(s) \ {Head(s)} /\ IsInjective(Tail(s))
           /\ \A i \in DOMAIN Tail(s) : i + 1 \in DOMAIN s /\ Tail(s)[i] = s[i + 1]
<1> DEFINE r == Tail(s)
<1>1. /\ r \in Seq(T) /\ DOMAIN r = 1 .. Len(s) - 1 /\ DOMAIN s = 1 .. Len(s)
      /\ Len(s) \in Nat \ {0} /\ Head(s) = s[1]
      /\ \A i \in 1 .. Len(s) - 1 : r[i] = s[i + 1]
  OBVIOUS
<1> HIDE DEF r
<1>2. \A i \in DOMAIN r : i + 1 \in DOMAIN s /\ r[i] = s[i + 1]
  BY <1>1
<1>3. \A i \in DOMAIN s : i = 1 \/ (i - 1 \in DOMAIN r /\ r[i - 1] = s[i])
  BY <1>1
<1>4. 1 \in DOMAIN s /\ s[1] \in T
  BY <1>1
<1>5. ASSUME NEW i \in DOMAIN r, r[i] = s[1] PROVE FALSE
  <2>1. i + 1 = 1 /\ i \in Nat \ {0}
    BY <1>1, <1>2, <1>4, <1>5 DEF IsInjective
  <2>2. QED  BY <2>1
<1>6. Range(r) = Range(s) \ {s[1]}
  BY <1>2, <1>3, <1>5 DEF Range
<1>7. IsInjective(r)
  <2> SUFFICES ASSUME NEW i \in DOMAIN r, NEW j \in DOMAIN r, r[i] = r[j] PROVE i = j
    BY DEF IsInjective
  <2>1. i + 1 = j + 1 /\ i \in Nat /\ j \in Nat
    BY <1>1, <1>2 DEF IsInjective
  <2>2. QED  BY <2>1
<1>8. QED  BY <1>1, <1>2, <1>4, <1>6, <1>7 DEF r, Range

LEMMA Listed ==
    ASSUME NEW T, NEW s \in Seq(T), NEW x \in T, x \notin Range(s), IsInjective(s)
    PROVE  LET r == Append(s, x)
           IN  /\ r \in Seq(T) /\ Range(r) = Range(s) \cup {x} /\ IsInjective(r)
               /\ \A i \in DOMAIN r : \/ i \in DOMAIN s /\ r[i] = s[i]
                                      \/ r[i] = x /\ \A j \in DOMAIN s : j < i
<1> DEFINE r == Append(s, x)
<1>1. /\ r \in Seq(T) /\ DOMAIN r = 1 .. Len(s) + 1 /\ DOMAIN s = 1 .. Len(s)
      /\ Len(s) \in Nat /\ r[Len(s) + 1] = x /\ \A i \in 1 .. Len(s) : r[i] = s[i]
  OBVIOUS
<1> HIDE DEF r
<1>2. \A i \in DOMAIN r : (i \in DOMAIN s /\ r[i] = s[i]) \/ (i = Len(s) + 1 /\ r[i] = x)
  BY <1>1
<1>3. \A i \in DOMAIN s : i \in DOMAIN r /\ i < Len(s) + 1
  BY <1>1
<1>4. Range(r) = Range(s) \cup {x}
  BY <1>1, <1>2, <1>3 DEF Range
<1>5. IsInjective(r)
  BY <1>2 DEF IsInjective, Range
<1>6. QED  BY <1>1, <1>2, <1>3, <1>4, <1>5 DEF r

-----------------------------------------------------------------------------
(* What has been visited is under way, listed or no step, and what a       *)
(* listed step is made of has been visited.                                *)
VisitInv ==
    /\ visited \subseteq Types
    /\ calls \in Seq(Types) /\ ordered \in Seq(Types)
    /\ visited = {} => calls = <<>> /\ ordered = <<>>
    /\ visited # {} => done /\ job.target \in visited
    /\ Range(calls) \cup Range(ordered) = visited \cap Steps
    /\ Range(calls) \cap Range(ordered) = {}
    /\ IsInjective(calls) /\ IsInjective(ordered)
    /\ \A t \in Range(ordered) : Materials(t) \subseteq visited

LEMMA VisitKeepsVisits ==
    ASSUME VisitInv, TypeOK, NEW t \in Types, Visit(t), UNCHANGED vars, done,
           visited = {} => t = job.target
    PROVE  VisitInv'
<1>1. /\ t \notin visited /\ visited' = visited \cup {t} /\ ordered' = ordered
      /\ calls' = IF t \in Steps THEN <<t>> \o calls ELSE calls
  BY DEF Visit
<1>2. job' = job /\ done' = done /\ Steps' = Steps /\ \A u : Materials(u)' = Materials(u)
  BY DEF vars, Steps, Materials
<1>3. t \notin Range(calls)
  BY <1>1 DEF VisitInv
<1>4. /\ calls' \in Seq(Types) /\ IsInjective(calls')
      /\ Range(calls') = Range(calls) \cup (Steps \cap {t})
  <2>1. CASE t \in Steps
    <3>1. calls' = <<t>> \o calls
      BY <1>1, <2>1
    <3>2. calls \in Seq(Types) /\ IsInjective(calls)
      BY DEF VisitInv
    <3>3. calls' \in Seq(Types) /\ IsInjective(calls') /\ Range(calls') = Range(calls) \cup {t}
      BY <1>3, <3>1, <3>2, Called
    <3>4. QED  BY <2>1, <3>3
  <2>2. CASE t \notin Steps
    BY <1>1, <2>2 DEF VisitInv
  <2>3. QED  BY <2>1, <2>2
<1>5. Range(calls') \cup Range(ordered') = visited' \cap Steps'
  BY <1>1, <1>2, <1>4 DEF VisitInv
<1>6. Range(calls') \cap Range(ordered') = {}
  BY <1>1, <1>4 DEF VisitInv
<1>7. QED  BY <1>1, <1>2, <1>4, <1>5, <1>6 DEF VisitInv

LEMMA ReturnKeepsVisits ==
    ASSUME VisitInv, Return, UNCHANGED vars
    PROVE  VisitInv'
<1>1. /\ calls # <<>> /\ Materials(Head(calls)) \subseteq visited /\ visited' = visited
      /\ ordered' = Append(ordered, Head(calls)) /\ calls' = Tail(calls)
  BY DEF Return
<1>2. job' = job /\ done' = done /\ Steps' = Steps /\ \A u : Materials(u)' = Materials(u)
  BY DEF vars, Steps, Materials
<1> DEFINE t == Head(calls)
<1>3. calls \in Seq(Types) /\ IsInjective(calls) /\ ordered \in Seq(Types) /\ IsInjective(ordered)
  BY DEF VisitInv
<1>4. /\ t \in Range(calls) /\ t \in Types
      /\ calls' \in Seq(Types) /\ Range(calls') = Range(calls) \ {t} /\ IsInjective(calls')
  BY <1>1, <1>3, Returned
<1> HIDE DEF t
<1>5. t \notin Range(ordered)
  BY <1>4 DEF VisitInv
<1>6. ordered' \in Seq(Types) /\ Range(ordered') = Range(ordered) \cup {t} /\ IsInjective(ordered')
  <2>1. ordered' = Append(ordered, t)
    BY <1>1 DEF t
  <2>2. QED  BY <1>3, <1>4, <1>5, <2>1, Listed
<1>7. Range(calls') \cup Range(ordered') = visited' \cap Steps'
  BY <1>1, <1>2, <1>4, <1>6 DEF VisitInv
<1>8. Range(calls') \cap Range(ordered') = {}
  BY <1>4, <1>6 DEF VisitInv
<1>9. \A u \in Range(ordered') : Materials(u)' \subseteq visited'
  BY <1>1, <1>2, <1>6 DEF VisitInv, t
<1>10. visited' # {}
  BY <1>1 DEF VisitInv
<1>11. QED  BY <1>1, <1>2, <1>4, <1>6, <1>7, <1>8, <1>9, <1>10 DEF VisitInv

(* Where steps are without a cycle, the calls under way lead from items to *)
(* what they are made of, so that no material of the innermost one is      *)
(* under way itself.                                                       *)
CallsDescend(level) == \A i, j \in DOMAIN calls : i < j => level[calls[j]] < level[calls[i]]

ListedFirst ==
    /\ \A t \in Range(ordered) : Materials(t) \cap Steps \subseteq Range(ordered)
    /\ \A i, j \in DOMAIN ordered : ordered[i] \in Materials(ordered[j]) => i < j

OrderInv ==
    \A level \in [Types -> 1 .. Cardinality(Types)] :
       Above(level) => CallsDescend(level) /\ ListedFirst

LEMMA MaterialsAreAbove ==
    ASSUME NEW level \in [Types -> 1 .. Cardinality(Types)], Above(level),
           NEW t \in Types, NEW m \in Materials(t)
    PROVE  m \in Types /\ level[m] \in Int /\ level[t] \in Int /\ level[t] < level[m]
<1>1. m \in Types
  BY DEF Materials
<1>2. level[m] > level[t]
  BY <1>1 DEF Above
<1>3. level[m] \in 1 .. Cardinality(Types) /\ level[t] \in 1 .. Cardinality(Types)
  BY <1>1
<1>4. QED  BY <1>1, <1>2, <1>3

LEMMA VisitKeepsOrder ==
    ASSUME VisitInv, NEW level \in [Types -> 1 .. Cardinality(Types)], Above(level),
           CallsDescend(level), ListedFirst,
           NEW t \in Types, Visit(t), UNCHANGED vars,
           calls = <<>> \/ (calls # <<>> /\ t \in Materials(Head(calls)))
    PROVE  CallsDescend(level)' /\ ListedFirst'
<1>1. /\ t \notin visited /\ ordered' = ordered
      /\ calls' = IF t \in Steps THEN <<t>> \o calls ELSE calls
  BY DEF Visit
<1>2. Steps' = Steps /\ \A u : Materials(u)' = Materials(u)
  BY DEF vars, Steps, Materials
<1>3. ListedFirst'
  BY <1>1, <1>2 DEF ListedFirst
<1>4. CASE t \notin Steps
  BY <1>1, <1>3, <1>4 DEF CallsDescend
<1>5. CASE t \in Steps
  <2>1. /\ calls \in Seq(Types) /\ IsInjective(calls) /\ t \notin Range(calls)
        /\ calls' = <<t>> \o calls
    BY <1>1, <1>5 DEF VisitInv
  <2>2. /\ calls' \in Seq(Types)
        /\ \A i \in DOMAIN calls' : \/ i = 1 /\ calls'[i] = t
                                    \/ i - 1 \in DOMAIN calls /\ calls'[i] = calls[i - 1]
    BY <2>1, Called
  <2>3. \A j \in DOMAIN calls : level[calls[j]] < level[t]
    <3> SUFFICES ASSUME NEW j \in DOMAIN calls PROVE level[calls[j]] < level[t]
      OBVIOUS
    <3>1. calls # <<>> /\ t \in Materials(calls[1])
      BY <2>1
    <3>2. 1 \in DOMAIN calls /\ calls[1] \in Types /\ calls[j] \in Types /\ j \in Nat \ {0}
      BY <2>1, <3>1
    <3>3. level[calls[1]] < level[t] /\ level[calls[1]] \in Int /\ level[t] \in Int
      BY <3>1, <3>2, MaterialsAreAbove
    <3>4. level[calls[j]] \in Int
      BY <3>2
    <3>5. CASE j = 1
      BY <3>3, <3>5
    <3>6. CASE j # 1
      <4>1. level[calls[j]] < level[calls[1]]
        BY <3>2, <3>6 DEF CallsDescend
      <4>2. QED  BY <3>3, <3>4, <4>1
    <3>7. QED  BY <3>5, <3>6
  <2>4. CallsDescend(level)'
    <3> SUFFICES ASSUME NEW i \in DOMAIN calls', NEW j \in DOMAIN calls', i < j
                 PROVE  level[calls'[j]] < level[calls'[i]]
      BY DEF CallsDescend
    <3>1. i \in Nat \ {0} /\ j \in Nat \ {0}
      BY <2>2
    <3>2. j - 1 \in DOMAIN calls /\ calls'[j] = calls[j - 1]
      BY <2>2, <3>1
    <3>3. CASE i = 1 /\ calls'[i] = t
      BY <2>3, <3>2, <3>3
    <3>4. CASE i - 1 \in DOMAIN calls /\ calls'[i] = calls[i - 1]
      <4>1. i - 1 < j - 1
        BY <3>1
      <4>2. QED  BY <3>2, <3>4, <4>1 DEF CallsDescend
    <3>5. QED  BY <2>2, <3>3, <3>4
  <2>5. QED  BY <1>3, <2>4
<1>6. QED  BY <1>4, <1>5

LEMMA ReturnKeepsOrder ==
    ASSUME VisitInv, NEW level \in [Types -> 1 .. Cardinality(Types)], Above(level),
           CallsDescend(level), ListedFirst, Return, UNCHANGED vars
    PROVE  CallsDescend(level)' /\ ListedFirst'
<1> DEFINE t == Head(calls)
<1>1. /\ calls # <<>> /\ Materials(t) \subseteq visited
      /\ ordered' = Append(ordered, t) /\ calls' = Tail(calls)
  BY DEF Return
<1>2. Steps' = Steps /\ \A u : Materials(u)' = Materials(u)
  BY DEF vars, Steps, Materials
<1>3. calls \in Seq(Types) /\ IsInjective(calls) /\ ordered \in Seq(Types) /\ IsInjective(ordered)
  BY DEF VisitInv
<1>4. /\ t \in Range(calls) /\ t = calls[1] /\ t \in Types /\ calls' \in Seq(Types)
      /\ \A i \in DOMAIN calls' : i + 1 \in DOMAIN calls /\ calls'[i] = calls[i + 1]
  BY <1>1, <1>3, Returned
<1> HIDE DEF t
<1>5. t \notin Range(ordered)
  BY <1>4 DEF VisitInv
<1>6. /\ ordered' \in Seq(Types) /\ Range(ordered') = Range(ordered) \cup {t}
      /\ \A i \in DOMAIN ordered' : \/ i \in DOMAIN ordered /\ ordered'[i] = ordered[i]
                                    \/ ordered'[i] = t /\ \A j \in DOMAIN ordered : j < i
  BY <1>1, <1>3, <1>4, <1>5, Listed
<1>7. CallsDescend(level)'
  <2> SUFFICES ASSUME NEW i \in DOMAIN calls', NEW j \in DOMAIN calls', i < j
               PROVE  level[calls'[j]] < level[calls'[i]]
    BY DEF CallsDescend
  <2>1. i \in Nat /\ j \in Nat /\ i + 1 < j + 1
    BY <1>4
  <2>2. QED  BY <1>4, <2>1 DEF CallsDescend
<1>8. t \notin Materials(t)
  <2>1. \A m \in Materials(t) : level[t] < level[m] /\ level[t] \in Int
    BY <1>4, MaterialsAreAbove
  <2>2. QED  BY <2>1
<1>9. Materials(t) \cap Steps \subseteq Range(ordered)
  <2> SUFFICES ASSUME NEW m \in Materials(t), m \in Range(calls) PROVE FALSE
    BY <1>1 DEF VisitInv
  <2>1. level[t] < level[m] /\ level[t] \in Int /\ level[m] \in Int
    BY <1>4, MaterialsAreAbove
  <2>2. PICK j \in DOMAIN calls : m = calls[j]
    BY DEF Range
  <2>3. 1 \in DOMAIN calls /\ j \in Nat \ {0}
    BY <1>1, <1>3
  <2>4. 1 < j
    <3>1. j # 1
      BY <1>4, <1>8, <2>2
    <3>2. QED  BY <2>3, <3>1
  <2>5. level[calls[j]] < level[calls[1]]
    BY <2>3, <2>4 DEF CallsDescend
  <2>6. QED  BY <1>4, <2>1, <2>2, <2>5
<1>10. \A u \in Range(ordered') : Materials(u)' \cap Steps' \subseteq Range(ordered')
  BY <1>2, <1>6, <1>9 DEF ListedFirst
<1>11. ASSUME NEW i \in DOMAIN ordered', NEW j \in DOMAIN ordered',
              ordered'[i] \in Materials(ordered'[j])
       PROVE  i < j
  <2>1. CASE i \in DOMAIN ordered /\ ordered'[i] = ordered[i]
    <3>1. CASE j \in DOMAIN ordered /\ ordered'[j] = ordered[j]
      BY <1>11, <2>1, <3>1 DEF ListedFirst
    <3>2. CASE ordered'[j] = t /\ \A k \in DOMAIN ordered : k < j
      BY <2>1, <3>2
    <3>3. QED  BY <1>6, <3>1, <3>2
  <2>2. CASE ordered'[i] = t
    <3>1. t \in Steps
      BY <1>4 DEF VisitInv
    <3>2. ordered'[j] # t
      BY <1>8, <1>11, <2>2
    <3>3. ordered'[j] \in Range(ordered)
      BY <1>6, <3>2 DEF Range
    <3>4. t \in Range(ordered)
      BY <1>11, <2>2, <3>1, <3>3 DEF ListedFirst
    <3>5. QED  BY <1>5, <3>4
  <2>3. QED  BY <1>6, <2>1, <2>2
<1>12. ListedFirst'
  BY <1>2, <1>10, <1>11 DEF ListedFirst
<1>13. QED  BY <1>7, <1>12

-----------------------------------------------------------------------------
(* What the walk over the recipes does, it does in the whole of            *)
(* resolve_build_chain, and nothing else is done to its dicts.             *)
LEMMA ResolveWalks == ResolveSpec => Spec
<1>1. ResolveInit => Init
  BY DEF ResolveInit
<1>2. [ResolveNext]_<<vars, orderVars>> => [Next]_vars
  BY DEF ResolveNext
<1>3. QED  BY <1>1, <1>2, PTL DEF ResolveSpec, Spec

(* Whatever the recipes, the depth limit and the way a step's materials    *)
(* are gone through, the result lists each step once, and unless the steps *)
(* have a cycle, after all that it is made of.                             *)
THEOREM ListedOnceInOrder == ResolveSpec => []ComponentsFirst
<1>1. ResolveInit => VisitInv /\ OrderInv
  <2> SUFFICES ASSUME ResolveInit PROVE VisitInv /\ OrderInv
    OBVIOUS
  <2>1. ordered = <<>> /\ calls = <<>> /\ visited = {}
    BY DEF ResolveInit
  <2>2. DOMAIN ordered = {} /\ DOMAIN calls = {} /\ calls \in Seq(Types) /\ ordered \in Seq(Types)
    BY <2>1
  <2>3. QED
    BY <2>1, <2>2
    DEF VisitInv, OrderInv, CallsDescend, ListedFirst, Range, IsInjective
<1>2. TypeOK /\ VisitInv /\ OrderInv /\ [ResolveNext]_<<vars, orderVars>>
        => (VisitInv /\ OrderInv)'
  <2> SUFFICES ASSUME TypeOK, VisitInv, OrderInv, [ResolveNext]_<<vars, orderVars>>
               PROVE  (VisitInv /\ OrderInv)'
    OBVIOUS
  <2>1. CASE Next /\ UNCHANGED orderVars
    <3>1. ~done
      BY <2>1 DEF Next, Buy, Build, NextLevel, Finish, Looping
    <3>2. ordered' = <<>> /\ calls' = <<>> /\ visited' = {}
      BY <2>1, <3>1 DEF VisitInv, orderVars
    <3>3. /\ DOMAIN ordered' = {} /\ DOMAIN calls' = {}
          /\ calls' \in Seq(Types) /\ ordered' \in Seq(Types)
      BY <3>2
    <3>4. QED
      BY <3>2, <3>3
      DEF VisitInv, OrderInv, CallsDescend, ListedFirst, Range, IsInjective
  <2>2. ASSUME TopologicalOrder, UNCHANGED vars
        PROVE  (VisitInv /\ OrderInv)'
    <3>1. \A level \in [Types -> 1 .. Cardinality(Types)] : Above(level)' => Above(level)
      BY <2>2 DEF vars, Above, Materials
    <3>2. ASSUME VisitInv',
                 \A level \in [Types -> 1 .. Cardinality(Types)] :
                    Above(level) => CallsDescend(level)' /\ ListedFirst'
          PROVE  (VisitInv /\ OrderInv)'
      BY <3>1, <3>2 DEF OrderInv
    <3>3. \A level \in [Types -> 1 .. Cardinality(Types)] :
             Above(level) => CallsDescend(level) /\ ListedFirst
      BY DEF OrderInv
    <3>4. CASE VisitTarget
      <4>1. done /\ visited = {} /\ Visit(job.target)
        BY <3>4 DEF VisitTarget
      <4>2. job.target \in Types /\ calls = <<>>
        BY <4>1, BuildAssumption DEF VisitInv, TypeOK, Job
      <4>3. VisitInv'
        BY <2>2, <4>1, <4>2, VisitKeepsVisits
      <4>4. QED  BY <2>2, <3>2, <3>3, <4>1, <4>2, <4>3, VisitKeepsOrder
    <3>5. ASSUME NEW t \in Types, VisitMaterial(t)
          PROVE  (VisitInv /\ OrderInv)'
      <4>1. calls # <<>> /\ t \in Materials(Head(calls)) /\ Visit(t)
        BY <3>5 DEF VisitMaterial
      <4>2. done /\ visited # {}
        BY <4>1 DEF VisitInv
      <4>3. VisitInv'
        BY <2>2, <4>1, <4>2, VisitKeepsVisits
      <4>4. QED  BY <2>2, <3>2, <3>3, <4>1, <4>3, VisitKeepsOrder
    <3>6. CASE Return
      <4>1. VisitInv'
        BY <2>2, <3>6, ReturnKeepsVisits
      <4>2. QED  BY <2>2, <3>2, <3>3, <3>6, <4>1, ReturnKeepsOrder
    <3>7. QED  BY <2>2, <3>4, <3>5, <3>6 DEF TopologicalOrder
  <2>3. CASE UNCHANGED <<vars, orderVars>>
    BY <2>3 DEF vars, orderVars, VisitInv, OrderInv, CallsDescend, ListedFirst, Above,
                Materials, Steps
  <2>4. QED  BY <2>1, <2>2, <2>3 DEF ResolveNext
<1>3. FromTarget /\ VisitInv /\ OrderInv => ComponentsFirst
  <2> SUFFICES ASSUME FromTarget, VisitInv, OrderInv, Resolved
               PROVE  /\ Range(ordered) = Steps /\ IsInjective(ordered)
                      /\ Acyclic =>
                            \A i, j \in DOMAIN ordered :
                               ordered[i] \in Materials(ordered[j]) => i < j
    BY DEF ComponentsFirst
  <2>1. Range(ordered) = visited \cap Steps
    <3>1. Range(calls) = {}
      BY DEF Resolved, Range
    <3>2. QED  BY <3>1 DEF VisitInv
  <2>2. Closed(visited)
    BY <2>1 DEF Closed, VisitInv, Resolved
  <2>3. Steps \subseteq visited
    BY <2>2 DEF FromTarget, VisitInv, Steps
  <2>4. IsInjective(ordered)
    BY DEF VisitInv
  <2>5. Acyclic => ListedFirst
    BY DEF OrderInv, Acyclic
  <2>6. QED  BY <2>1, <2>3, <2>4, <2>5 DEF ListedFirst
<1>4. QED
  BY <1>1, <1>2, <1>3, TypeCorrect, StepsComeFromTarget, ResolveWalks, PTL DEF ResolveSpec

=============================================================================
