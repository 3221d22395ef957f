----------------------------- MODULE WorkQueue -----------------------------
(***************************************************************************)
(* What a pipeline of queues and workers promises to whoever submits a     *)
(* job: it is not let go before it has been done, however often it is done *)
(* again.  MarketPrices is shown to implement it.                          *)
(***************************************************************************)
CONSTANT Jobs

VARIABLES pending,      \* jobs the pipeline still answers for
          done          \* jobs whose effect is there

vars == <<pending, done>>

Init == pending = {} /\ done = {}

Submit(j) == /\ j \notin pending \cup done
             /\ pending' = pending \cup {j}
             /\ UNCHANGED done

(* A copy of a job that is done turns up late.                             *)
Repeat(j) == /\ j \in done
             /\ pending' = pending \cup {j}
             /\ UNCHANGED done

Do(j) == /\ j \in pending
         /\ done' = done \cup {j}
         /\ UNCHANGED pending

Forget(j) == /\ j \in pending \cap done
             /\ pending' = pending \ {j}
             /\ UNCHANGED done

Next == \E j \in Jobs : Submit(j) \/ Repeat(j) \/ Do(j) \/ Forget(j)

Spec == Init /\ [][Next]_vars
============================================================================
