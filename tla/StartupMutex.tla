--------------------------- MODULE StartupMutex ---------------------------
(***************************************************************************)
(* What the startup lock promises, with no clock, lease or document: the   *)
(* body of `async with startup_lock(...)` is entered by one attempt at a   *)
(* time and at most once by each.  StartupLock is shown to implement it.   *)
(***************************************************************************)
CONSTANT Holders        \* the attempts to start a pod

VARIABLES inside,       \* the attempts inside the guarded body
          left          \* the attempts that are over

vars == <<inside, left>>

Init == inside = {} /\ left = {}

Enter(h) == /\ inside = {}
            /\ h \notin left
            /\ inside' = {h}
            /\ UNCHANGED left

Leave(h) == /\ h \in inside
            /\ inside' = inside \ {h}
            /\ left' = left \cup {h}

(* An attempt that times out or dies on the way in: it never enters.       *)
Miss(h) == /\ h \notin inside
           /\ h \notin left
           /\ left' = left \cup {h}
           /\ UNCHANGED inside

Next == \E h \in Holders : Enter(h) \/ Leave(h) \/ Miss(h)

Spec == Init /\ [][Next]_vars
===========================================================================
