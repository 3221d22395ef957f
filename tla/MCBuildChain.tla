---------------------------- MODULE MCBuildChain ----------------------------
(***************************************************************************)
(* TLC instance of BuildChain and of the order of its result.              *)
(***************************************************************************)
EXTENDS BuildOrder

FourTypes == 1 .. 4

(* A recipe of an item from others, for one of the given yields.           *)
RecipesFrom(others, quantities, outputs) ==
    {[output |-> o, materials |-> [m \in FourTypes |-> IF m \in others THEN q[m] ELSE 0]] :
        o \in outputs, q \in {f \in [others -> quantities] : \E m \in others : f[m] > 0}}

None == [output |-> 0, materials |-> [m \in FourTypes |-> 0]]

(* Tables of four items without a cycle: a target made of any of the       *)
(* others, these of one another ...                                        *)
Dags ==
    {<<a, b, c, None>> :
        a \in RecipesFrom({2, 3, 4}, {0, 1, 15}, {2}) \cup {None},
        b \in RecipesFrom({3, 4}, {0, 1}, {1, 2}) \cup {None},
        c \in RecipesFrom({4}, {0, 1}, {2}) \cup {None}}

(* ... and two items that are made of each other or of themselves.         *)
Cycles ==
    {<<a, b, None, None>> :
        a \in RecipesFrom({1, 2, 3}, {0, 1}, {1, 2}),
        b \in RecipesFrom({1, 2, 3}, {0, 1}, {2})}

DagsAndCycles == Dags \cup Cycles

ComponentsOf1 == SUBSET {2, 3, 4}

Places ==
    {[complex |-> FALSE, rig |-> "none", band |-> "high"],
     [complex |-> TRUE, rig |-> "t2", band |-> "null_wh"]}
=============================================================================
