--------------------------- MODULE MCPlanStore ---------------------------
(***************************************************************************)
(* TLC instances of PlanStore.  Each run names the operations it lets      *)
(* interleave.                                                             *)
(***************************************************************************)
EXTENDS PlanStore, TLC

(* Slots, and ids that no definition compares, are interchangeable.        *)
Symmetry == Permutations(Slots) \cup Permutations(PlanIds) \cup Permutations(Characters)
==========================================================================
