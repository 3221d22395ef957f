----------------------------- MODULE BuildOrder -----------------------------
(***************************************************************************)
(* What resolve_build_chain (app/services/build_chain.py) returns: the     *)
(* steps of a walk that is done, in the order of _topological_order, which *)
(* visits them depth first from the target.                                *)
(*                                                                         *)
(* An action is a call of _visit that does not return at once, or a return *)
(* from one.  A call for a material that was visited changes nothing, so   *)
(* the loop over a step's materials goes on with one that was not; which   *)
(* one is left open, as the order of a dict's keys is.                     *)
(***************************************************************************)
EXTENDS BuildChain, Sequences

VARIABLES
    ordered, visited,   \* of _topological_order
    calls               \* the steps whose _visit is under way, the innermost first

orderVars == <<ordered, visited, calls>>

Materials(t) == {m \in Types : used[t][m] > 0}

Visit(t) ==
    /\ t \notin visited
    /\ visited' = visited \cup {t}
    /\ calls' = IF t \in Steps THEN <<t>> \o calls ELSE calls
    /\ UNCHANGED ordered

VisitTarget ==
    /\ done /\ visited = {}
    /\ Visit(job.target)

VisitMaterial(t) ==
    /\ calls # <<>> /\ t \in Materials(Head(calls))
    /\ Visit(t)

(* A step is listed when all it is made of has been visited.               *)
Return_StepFirst ==
    /\ calls # <<>>
    /\ ordered' = Append(ordered, Head(calls))
    /\ calls' = Tail(calls)
    /\ UNCHANGED visited

Return ==
    /\ calls # <<>> /\ Materials(Head(calls)) \subseteq visited
    /\ ordered' = Append(ordered, Head(calls))
    /\ calls' = Tail(calls)
    /\ UNCHANGED visited

TopologicalOrder ==
    \/ VisitTarget
    \/ \E t \in Types : VisitMaterial(t)
    \/ Return

ResolveInit == Init /\ ordered = <<>> /\ visited = {} /\ calls = <<>>

ResolveNext ==
    \/ Next /\ UNCHANGED orderVars
    \/ TopologicalOrder /\ UNCHANGED vars

ResolveSpec == ResolveInit /\ [][ResolveNext]_<<vars, orderVars>>

-----------------------------------------------------------------------------
Resolved == done /\ visited # {} /\ calls = <<>>

(* No step is made of itself, by whatever detour: items can be put on      *)
(* levels, a material above all that is made of it.                        *)
Above(level) == \A t \in Types : \A m \in Materials(t) : level[m] > level[t]
Acyclic == \E level \in [Types -> 1 .. Cardinality(Types)] : Above(level)

(* Every step of the walk is listed once, on tables with cycles too, and   *)
(* unless there is one among the steps, "a component is listed before      *)
(* anything that depends on it", whichever way the materials are gone      *)
(* through (build_chain.py:281-282).                                       *)
ComponentsFirst ==
    Resolved =>
        /\ Range(ordered) = Steps /\ IsInjective(ordered)
        /\ Acyclic =>
              \A i, j \in DOMAIN ordered : ordered[i] \in Materials(ordered[j]) => i < j
=============================================================================
