----------------------------- MODULE BuildChain -----------------------------
(***************************************************************************)
(* app/services/build_chain.py: resolve_build_chain, which turns a job (an *)
(* item, how many of it, which of its components to build) into build      *)
(* steps and a shopping list.  It walks the recipes level by level from    *)
(* the target, with the demand of a level summed per item, and rounds up   *)
(* to whole runs as it goes.                                               *)
(*                                                                         *)
(* A dict of quantities is a function into Nat, 0 where there is no key:   *)
(* no quantity of the program is 0.  One iteration of the for loop is one  *)
(* action; the order of a level's items does not matter to what is summed. *)
(* Names, prices and times are left out.                                   *)
(***************************************************************************)
EXTENDS Integers, FiniteSets, Functions

CONSTANTS
    Types,              \* type ids
    Tables,             \* tables of recipes
    Targets, TargetQuantities, BuildSets,
    Efficiencies,       \* of the target's blueprint, 0 .. 10
    Structures,         \* [complex, rig, band]: where the target is built
    MaxDepth            \* _MAX_DEPTH

NoRecipe == [output |-> 0, materials |-> [m \in Types |-> 0]]
Recipe == [output : Nat \ {0}, materials : [Types -> Nat]]
Table == [Types -> Recipe \cup {NoRecipe}]
Structure ==
    [complex : BOOLEAN, rig : {"none", "t1", "t2"}, band : {"high", "low", "null_wh"}]

ASSUME BuildAssumption ==
    /\ IsFiniteSet(Types)
    /\ Tables \subseteq Table
    /\ Targets \subseteq Types
    /\ TargetQuantities \subseteq Nat \ {0}
    /\ BuildSets \subseteq SUBSET Types
    /\ Efficiencies \subseteq 0 .. 10
    /\ Structures \subseteq Structure
    /\ MaxDepth \in Nat \ {0}

Job == [target : Targets, quantity : TargetQuantities, build_set : BuildSets,
        efficiency : Efficiencies, structure : Structures]

VARIABLES
    recipes,            \* _recipe_for_product
    job,                \* the arguments of resolve_build_chain
    current, next,      \* current_level (what the loop has not seen yet), next_level
    depth,
    need, runs,         \* steps_by_type_id: quantity_needed, runs, ...
    used,               \* ... materials
    raw, buildable,     \* raw_totals, raw_buildable
    done

vars == <<recipes, job, current, next, depth, need, runs, used, raw, buildable, done>>

Nothing == [m \in Types |-> 0]
HasRecipe(t) == recipes[t] # NoRecipe

TypeOK ==
    /\ recipes \in Tables
    /\ job \in Job
    /\ {current, next, need, runs, raw} \subseteq [Types -> Nat]
    /\ depth \in 0 .. MaxDepth
    /\ used \in [Types -> [Types -> Nat]]
    /\ buildable \subseteq Types
    /\ done \in BOOLEAN

Init ==
    /\ recipes \in Tables
    /\ job \in Job
    /\ current = [Nothing EXCEPT ![job.target] = job.quantity]
    /\ next = Nothing
    /\ depth = 0
    /\ need = Nothing /\ runs = Nothing
    /\ used = [t \in Types |-> Nothing]
    /\ raw = Nothing /\ buildable = {}
    /\ done = FALSE

-----------------------------------------------------------------------------
AtLeast1(n) == IF n >= 1 THEN n ELSE 1
CeilDiv(n, d) == (n + d - 1) \div d

(* structure_material_bonus, as what is left of a material, in millionths: *)
(* 1% off in an Engineering Complex, and 2% or 2.4% for a rig, times its   *)
(* system's multiplier.                                                    *)
RigBonus == [none |-> 0, t1 |-> 20, t2 |-> 24]
SecurityMultiplier == [high |-> 10, low |-> 19, null_wh |-> 21]
StructureFactor(s) ==
    IF s.complex
    THEN 99 * (10000 - RigBonus[s.rig] * SecurityMultiplier[s.band])
    ELSE 1000000

(* material_quantity_per_run: every reduction, then one rounding.          *)
MaterialQuantityPerRun(base, efficiency, factor) ==
    AtLeast1(CeilDiv(base * (100 - efficiency) * factor, 100000000))

(* A run's materials: only the target's own recipe is reduced.             *)
PerRun(t, m) ==
    LET base == recipes[t].materials[m]
    IN  IF t = job.target /\ base > 0
        THEN MaterialQuantityPerRun(base, job.efficiency, StructureFactor(job.structure))
        ELSE base

Looping_OneMore == ~done /\ depth <= MaxDepth
Looping == ~done /\ depth < MaxDepth

(* An item that is not built, or has no recipe, goes on the list.          *)
Built_NotTheTarget(t) == HasRecipe(t) /\ t \in job.build_set
Built(t) == HasRecipe(t) /\ (t = job.target \/ t \in job.build_set)

Buy(t) ==
    /\ Looping /\ current[t] > 0
    /\ ~Built(t)
    /\ raw' = [raw EXCEPT ![t] = @ + current[t]]
    /\ buildable' = IF HasRecipe(t) THEN buildable \cup {t} ELSE buildable \ {t}
    /\ current' = [current EXCEPT ![t] = 0]
    /\ UNCHANGED <<recipes, job, next, depth, need, runs, used, done>>

(* Any other is a step, or more of one that a level before has begun; its  *)
(* materials are demand for the next level.                                *)
AdditionalRuns_OneSpare(t) == current[t] \div recipes[t].output + 1
AdditionalRuns(t) == AtLeast1(CeilDiv(current[t], recipes[t].output))

Build(t) ==
    /\ Looping /\ current[t] > 0
    /\ Built(t)
    /\ LET needed == [m \in Types |-> PerRun(t, m) * AdditionalRuns(t)] IN
          /\ need' = [need EXCEPT ![t] = @ + current[t]]
          /\ runs' = [runs EXCEPT ![t] = @ + AdditionalRuns(t)]
          /\ used' = [used EXCEPT ![t] = [m \in Types |-> used[t][m] + needed[m]]]
          /\ next' = [m \in Types |-> next[m] + needed[m]]
    /\ current' = [current EXCEPT ![t] = 0]
    /\ UNCHANGED <<recipes, job, depth, raw, buildable, done>>

NextLevel ==
    /\ Looping
    /\ current = Nothing /\ next # Nothing
    /\ current' = next
    /\ next' = Nothing
    /\ depth' = depth + 1
    /\ UNCHANGED <<recipes, job, need, runs, used, raw, buildable, done>>

(* The walk is over, or too deep: what is left then is bought.             *)
Finish_DropsTheRest ==
    /\ ~done
    /\ (current = Nothing /\ next = Nothing) \/ depth = MaxDepth
    /\ current' = Nothing
    /\ done' = TRUE
    /\ UNCHANGED <<recipes, job, next, depth, need, runs, used, raw, buildable>>

Finish ==
    /\ ~done
    /\ (current = Nothing /\ next = Nothing) \/ depth = MaxDepth
    /\ raw' = [t \in Types |-> raw[t] + current[t]]
    /\ current' = Nothing
    /\ done' = TRUE
    /\ UNCHANGED <<recipes, job, next, depth, need, runs, used, buildable>>

Next ==
    \/ \E t \in Types : Buy(t) \/ Build(t)
    \/ NextLevel \/ Finish

Spec == Init /\ [][Next]_vars

-----------------------------------------------------------------------------
Steps == {t \in Types : need[t] > 0}

Demand(m) ==
    (IF m = job.target THEN job.quantity ELSE 0) + SumFunction([t \in Types |-> used[t][m]])

(* Whatever the target and the steps demand of an item is met by its own   *)
(* step, on the shopping list, or still to be looked at: nothing is lost   *)
(* or counted twice, neither where branches share a component nor where a  *)
(* cycle runs into the depth limit (build_chain.py:153-155, 225-227).      *)
NothingIsLost ==
    \A m \in Types : Demand(m) = need[m] + raw[m] + current[m] + next[m]

(* Tables without cycles, and less deep than the walk may go ("shouldn't   *)
(* happen on real game data, which is a DAG", build_chain.py:225-226):     *)
(* every item is on a level above those of its materials.                  *)
Levels(level) == \A t, m \in Types : recipes[t].materials[m] > 0 => level[m] > level[t]
Layered == \E level \in [Types -> 1 .. MaxDepth] : Levels(level)

(* A step's runs make what is needed of it, and of every level's rounding  *)
(* less than one run is left over (build_chain.py:199).                    *)
EnoughWithoutWaste ==
    \A t \in Steps :
        LET made == runs[t] * recipes[t].output
        IN  need[t] <= made /\ made < need[t] + (depth + 1) * recipes[t].output

(* In the result an item is bought or built, not both, and as the job has  *)
(* it; the target is built if it can be; whoever is bought and could be    *)
(* built is marked, so that it can be toggled (build_chain.py:153-158).    *)
BoughtOrBuilt ==
    done /\ Layered =>
        /\ HasRecipe(job.target) => job.target \in Steps
        /\ \A t \in Types : raw[t] > 0 =>
              /\ t \notin Steps
              /\ HasRecipe(t) => t \notin job.build_set
              /\ t \in buildable <=> HasRecipe(t)
=============================================================================
