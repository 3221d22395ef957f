------------------------- MODULE StartupLockProofs -------------------------
(***************************************************************************)
(* Proofs about StartupLock, for any number of executions and any settings *)
(* that satisfy ConstantsAssumption: its types, mutual exclusion, the      *)
(* bound on the time a start takes, and the refinement of StartupMutex.    *)
(***************************************************************************)
EXTENDS StartupLock, TLAPS

(* Every step of the lock leaves its variables in their types.             *)
THEOREM TypeCorrect == Spec => []TypeOK
<1> USE ConstantsAssumption DEF TypeOK, NoLock, Ended, Active
<1>1. LockInit => TypeOK
  BY DEF LockInit
<1>2. TypeOK /\ [Next]_lockVars => TypeOK'
  <2> SUFFICES ASSUME TypeOK, [Next]_lockVars
               PROVE  TypeOK'
    OBVIOUS
  <2>1. ASSUME NEW h \in Holders, Clock(h) \in Nat,
               Around(h) \/ EndBody(h) \/ Leave(h)
        PROVE  TypeOK'
    <3> USE <2>1 DEF Clock, Goto, End
    <3>1. CASE Start(h)
      BY <3>1 DEF Start, Request
    <3>2. CASE Acquire(h)
      BY <3>2 DEF Acquire, ExpiresAt
    <3>3. CASE Refuse(h)
      BY <3>3 DEF Refuse
    <3>4. CASE GiveUp(h)
      BY <3>4 DEF GiveUp
    <3>5. CASE Sleep(h)
      BY <3>5 DEF Sleep
    <3>6. CASE Wake(h)
      BY <3>6 DEF Wake, Request
    <3>7. CASE Crash(h)
      BY <3>7 DEF Crash
    <3>8. CASE EndBody(h)
      BY <3>8 DEF EndBody
    <3>9. CASE Leave(h)
      BY <3>9 DEF Leave, Release
    <3> QED
      BY <2>1, <3>1, <3>2, <3>3, <3>4, <3>5, <3>6, <3>7, <3>8, <3>9 DEF Around
  <2>2. \A h \in Holders : Clock(h) \in Nat
    BY DEF Clock
  <2>3. CASE Sweep
    BY <2>3 DEF Sweep
  <2>4. CASE Tick
    BY <2>4 DEF Tick
  <2>5. CASE Finished \/ UNCHANGED lockVars
    BY <2>5 DEF Finished, lockVars
  <2> QED
    BY <2>1, <2>2, <2>3, <2>4, <2>5 DEF Next
<1> QED
  BY <1>1, <1>2, PTL DEF Spec

-----------------------------------------------------------------------------
(* What time the running executions may have used up: a stamp is never in  *)
(* the future of its clock, and nobody is later than OnTime lets them be.  *)
TimeInv ==
    \A h \in Holders :
      /\ stamp[h] =< Clock(h)
      /\ pc[h] \in {"requesting", "refused"} => Clock(h) - stamp[h] =< DelayBound
      /\ pc[h] = "holding" => Clock(h) - stamp[h] =< HoldBound
      /\ pc[h] = "releasing" => Clock(h) - stamp[h] =< HoldBound + DelayBound
      /\ pc[h] = "sleeping" => now =< wakeAt[h] + DelayBound

LEMMA TimeInvariant == Spec => []TimeInv
<1> USE ConstantsAssumption DEF TimeInv, TypeOK, Ended, Active
<1>1. LockInit => TimeInv
  BY DEF LockInit, Clock
<1>2. TypeOK /\ TimeInv /\ [Next]_lockVars => TimeInv'
  <2> SUFFICES ASSUME TypeOK, TimeInv, [Next]_lockVars
               PROVE  TimeInv'
    OBVIOUS
  <2> USE DEF Clock
  <2>1. ASSUME NEW g \in Holders, Around(g) \/ EndBody(g) \/ Leave(g)
        PROVE  TimeInv'
    <3> USE <2>1 DEF Goto, End
    <3>1. CASE Start(g)
      BY <3>1 DEF Start, Request
    <3>2. CASE Acquire(g)
      BY <3>2 DEF Acquire, ExpiresAt
    <3>3. CASE Refuse(g)
      BY <3>3 DEF Refuse
    <3>4. CASE GiveUp(g)
      BY <3>4 DEF GiveUp
    <3>5. CASE Sleep(g)
      BY <3>5 DEF Sleep
    <3>6. CASE Wake(g)
      BY <3>6 DEF Wake, Request
    <3>7. CASE Crash(g)
      BY <3>7 DEF Crash
    <3>8. CASE EndBody(g)
      BY <3>8 DEF EndBody
    <3>9. CASE Leave(g)
      BY <3>9 DEF Leave
    <3> QED
      BY <2>1, <3>1, <3>2, <3>3, <3>4, <3>5, <3>6, <3>7, <3>8, <3>9 DEF Around
  <2>2. CASE Sweep
    BY <2>2 DEF Sweep
  <2>3. CASE Tick
    BY <2>3 DEF Tick, OnTime
  <2>4. CASE Finished \/ UNCHANGED lockVars
    BY <2>4 DEF Finished, lockVars
  <2> QED
    BY <2>1, <2>2, <2>3, <2>4 DEF Next
<1> QED
  BY <1>1, <1>2, TypeCorrect, PTL DEF Spec

-----------------------------------------------------------------------------
(* The strengthening that makes mutual exclusion inductive: whoever is in  *)
(* the body has its own document in _locks, with the lease it asked for.   *)
LeaseInv ==
    \A h \in Holders :
      pc[h] = "holding" => /\ lock.holder = h
                           /\ lock.expires = stamp[h] + Ttl

(* While someone is in the body, no request and no sweep finds its lease   *)
(* expired.                                                                *)
LEMMA LeaseIsLive ==
    ASSUME LeaseCoversHold, TypeOK, TimeInv, LeaseInv,
           NEW h \in Holders, pc[h] = "holding"
    PROVE  /\ lock.expires > now + MaxSkew
           /\ \A c \in Holders \cup {Mongod} : lock.expires > Clock(c)
           /\ \A g \in Holders : ~Reclaimable(stamp[g])
  BY ConstantsAssumption
  DEF LeaseCoversHold, TypeOK, TimeInv, LeaseInv, Clock, Reclaimable, NoLock

LEMMA LeaseInvariant == LeaseCoversHold => (Spec => []LeaseInv)
<1> SUFFICES ASSUME LeaseCoversHold
             PROVE  Spec => []LeaseInv
  OBVIOUS
<1> USE ConstantsAssumption DEF LeaseInv
<1>1. LockInit => LeaseInv
  BY DEF LockInit
<1>2. TypeOK /\ TimeInv /\ LeaseInv /\ [Next]_lockVars => LeaseInv'
  <2> SUFFICES ASSUME TypeOK, TimeInv, LeaseInv, [Next]_lockVars,
                      NEW h \in Holders, pc'[h] = "holding"
               PROVE  lock'.holder = h /\ lock'.expires = stamp'[h] + Ttl
    OBVIOUS
  <2>1. ASSUME NEW g \in Holders, Around(g) \/ EndBody(g) \/ Leave(g)
        PROVE  lock'.holder = h /\ lock'.expires = stamp'[h] + Ttl
    <3> USE <2>1 DEF Goto, End, TypeOK
    <3>1. CASE Start(g)
      BY <3>1 DEF Start, Request
    <3>2. CASE Acquire(g)
      <4>1. g = h \/ pc[h] # "holding"
        BY <3>2, LeaseIsLive DEF Acquire
      <4> QED
        BY <3>2, <4>1 DEF Acquire, ExpiresAt
    <3>3. CASE Refuse(g)
      BY <3>3 DEF Refuse
    <3>4. CASE GiveUp(g)
      BY <3>4 DEF GiveUp
    <3>5. CASE Sleep(g)
      BY <3>5 DEF Sleep
    <3>6. CASE Wake(g)
      BY <3>6 DEF Wake, Request
    <3>7. CASE Crash(g)
      BY <3>7 DEF Crash
    <3>8. CASE EndBody(g)
      BY <3>8 DEF EndBody
    <3>9. CASE Leave(g)
      BY <3>9 DEF Leave, Release
    <3> QED
      BY <2>1, <3>1, <3>2, <3>3, <3>4, <3>5, <3>6, <3>7, <3>8, <3>9 DEF Around
  <2>2. CASE Sweep
    <3>1. pc[h] = "holding"
      BY <2>2 DEF Sweep
    <3>2. lock.expires > Clock(Mongod)
      BY <3>1, LeaseIsLive
    <3>3. lock.expires \in Int /\ Clock(Mongod) \in Int
      BY DEF TypeOK, Clock
    <3> QED
      BY <2>2, <3>2, <3>3 DEF Sweep
  <2>3. CASE Tick
    BY <2>3 DEF Tick
  <2>4. CASE Finished \/ UNCHANGED lockVars
    BY <2>4 DEF Finished, lockVars
  <2> QED
    BY <2>1, <2>2, <2>3, <2>4 DEF Next
<1> QED
  BY <1>1, <1>2, TypeCorrect, TimeInvariant, PTL DEF Spec

(* main.py:67-72: the lock keeps concurrent pods out of the guarded body,  *)
(* whatever the number of pods and wherever they crash, as long as the     *)
(* body ends before its lease can expire on anyone's clock.                *)
THEOREM OneInside == LeaseCoversHold => (Spec => []MutualExclusion)
<1>1. LeaseInv => MutualExclusion
  BY DEF LeaseInv, MutualExclusion, Holding
<1> QED
  BY <1>1, LeaseInvariant, PTL

(* Under the same condition the holder's document is live on every clock   *)
(* until the body ends.                                                    *)
THEOREM LeaseOutlivesBody == LeaseCoversHold => (Spec => []HolderOwnsLiveLock)
<1> SUFFICES ASSUME LeaseCoversHold
             PROVE  Spec => []HolderOwnsLiveLock
  OBVIOUS
<1>1. TypeOK /\ TimeInv /\ LeaseInv => HolderOwnsLiveLock
  BY LeaseIsLive DEF LeaseInv, HolderOwnsLiveLock, Holding
<1> QED
  BY <1>1, TypeCorrect, TimeInvariant, LeaseInvariant, PTL

(* A document that is live on every clock is removed by its own holder's   *)
(* release and by nothing else, however late other releases arrive: this   *)
(* one needs no bound on the body.                                         *)
THEOREM LiveLockKept == Spec => LiveLockIsKept
<1> USE ConstantsAssumption
<1>1. TypeOK /\ TimeInv /\ [Next]_lockVars
        => \A h \in Holders :
             (lock.holder = h /\ lock.expires > now + MaxSkew /\ lock'.holder # h)
               => (pc[h] = "releasing" /\ pc'[h] \in {"done", "failed"})
  <2> SUFFICES ASSUME TypeOK, TimeInv, [Next]_lockVars,
                      NEW h \in Holders,
                      lock.holder = h, lock.expires > now + MaxSkew, lock'.holder # h
               PROVE  pc[h] = "releasing" /\ pc'[h] \in {"done", "failed"}
    OBVIOUS
  <2>1. \A g \in Holders : ~Reclaimable(stamp[g])
    BY DEF TypeOK, TimeInv, Clock, Reclaimable, NoLock
  <2>2. lock.expires > Clock(Mongod)
    BY DEF TypeOK, Clock
  <2>3. ASSUME NEW g \in Holders, Around(g) \/ EndBody(g)
        PROVE  FALSE
    BY <2>1, <2>3 DEF Around, Start, Acquire, Refuse, GiveUp, Sleep, Wake, Crash, EndBody
  <2>4. ASSUME NEW g \in Holders, Leave(g)
        PROVE  pc[h] = "releasing" /\ pc'[h] \in {"done", "failed"}
    BY <2>4 DEF Leave, Release, End, Goto, TypeOK
  <2>5. ~Sweep
    BY <2>2 DEF Sweep, TypeOK, Clock
  <2> QED
    BY <2>3, <2>4, <2>5 DEF Next, Tick, Finished, lockVars
<1> QED
  BY <1>1, TypeCorrect, TimeInvariant, PTL DEF Spec, LiveLockIsKept

-----------------------------------------------------------------------------
(* Where the running executions stand in their budget: the latest request  *)
(* left, or the sleep ends, before the deadline plus one poll.             *)
BudgetInv ==
    \A h \in Holders :
      /\ pc[h] \in {"requesting", "refused", "holding", "releasing"} =>
           stamp[h] - skew[h] - started[h] < WaitTimeout + PollInterval + DelayBound
      /\ pc[h] = "sleeping" => wakeAt[h] - started[h] < WaitTimeout + PollInterval

LEMMA BudgetInvariant == Spec => []BudgetInv
<1> USE ConstantsAssumption DEF BudgetInv, TypeOK, Ended, Active
<1>1. LockInit => BudgetInv
  BY DEF LockInit
<1>2. TypeOK /\ TimeInv /\ BudgetInv /\ [Next]_lockVars => BudgetInv'
  <2> SUFFICES ASSUME TypeOK, TimeInv, BudgetInv, [Next]_lockVars
               PROVE  BudgetInv'
    OBVIOUS
  <2> USE DEF Clock
  <2>1. ASSUME NEW g \in Holders, Around(g) \/ EndBody(g) \/ Leave(g)
        PROVE  BudgetInv'
    <3> USE <2>1 DEF Goto, End
    <3>1. CASE Start(g)
      BY <3>1 DEF Start, Request
    <3>2. CASE Acquire(g)
      BY <3>2 DEF Acquire, ExpiresAt
    <3>3. CASE Refuse(g)
      BY <3>3 DEF Refuse
    <3>4. CASE GiveUp(g)
      BY <3>4 DEF GiveUp
    <3>5. CASE Sleep(g)
      BY <3>5 DEF Sleep, Deadline
    <3>6. CASE Wake(g)
      BY <3>6 DEF Wake, Request, TimeInv
    <3>7. CASE Crash(g)
      BY <3>7 DEF Crash
    <3>8. CASE EndBody(g)
      BY <3>8 DEF EndBody
    <3>9. CASE Leave(g)
      BY <3>9 DEF Leave
    <3> QED
      BY <2>1, <3>1, <3>2, <3>3, <3>4, <3>5, <3>6, <3>7, <3>8, <3>9 DEF Around
  <2>2. CASE Sweep
    BY <2>2 DEF Sweep
  <2>3. CASE Tick
    BY <2>3 DEF Tick
  <2>4. CASE Finished \/ UNCHANGED lockVars
    BY <2>4 DEF Finished, lockVars
  <2> QED
    BY <2>1, <2>2, <2>3, <2>4 DEF Next
<1> QED
  BY <1>1, <1>2, TypeCorrect, TimeInvariant, PTL DEF Spec

(* values.yaml:270-277: a start, the wait for the lock included, takes     *)
(* less than StartupBudget, so a startup probe that allows for it never    *)
(* kills a pod that is still within its limits.                            *)
THEOREM StartupBounded == Spec => []StartupIsBounded
<1>1. TypeOK /\ TimeInv /\ BudgetInv => StartupIsBounded
  BY ConstantsAssumption
  DEF TypeOK, TimeInv, BudgetInv, StartupIsBounded, StartupBudget, Clock, Active, Ended
<1> QED
  BY <1>1, TypeCorrect, TimeInvariant, BudgetInvariant, PTL

-----------------------------------------------------------------------------
(* Clocks, leases, polling and deletions together implement the abstract   *)
(* mutual exclusion, under the same bound on the body.                     *)
THEOREM ImplementsMutex == LeaseCoversHold => (Spec => MutexSpec)
<1> SUFFICES ASSUME LeaseCoversHold
             PROVE  Spec => MutexSpec
  OBVIOUS
<1> USE ConstantsAssumption DEF Holding, Ended
<1>1. LockInit => Mutex!Init
  BY DEF LockInit, Mutex!Init
<1>2. TypeOK /\ TimeInv /\ LeaseInv /\ [Next]_lockVars => [Mutex!Next]_(Mutex!vars)
  <2> SUFFICES ASSUME TypeOK, TimeInv, LeaseInv, [Next]_lockVars
               PROVE  [Mutex!Next]_(Mutex!vars)
    OBVIOUS
  <2> USE DEF TypeOK, Active, Mutex!vars
  <2>2. ASSUME NEW g \in Holders, Start(g) \/ Wake(g)
        PROVE  UNCHANGED Mutex!vars
    BY <2>2 DEF Start, Wake, Request, Goto
  <2>3. ASSUME NEW g \in Holders, Acquire(g)
        PROVE  Mutex!Enter(g)
    <3>1. Holding = {}
      BY <2>3, LeaseIsLive DEF Acquire
    <3> QED
      BY <2>3, <3>1 DEF Acquire, Goto, Mutex!Enter
  <2>4. ASSUME NEW g \in Holders, Refuse(g) \/ Sleep(g)
        PROVE  UNCHANGED Mutex!vars
    BY <2>4 DEF Refuse, Sleep, Goto
  <2>5. ASSUME NEW g \in Holders, GiveUp(g)
        PROVE  Mutex!Miss(g)
    BY <2>5 DEF GiveUp, End, Goto, Mutex!Miss
  <2>6. ASSUME NEW g \in Holders, EndBody(g)
        PROVE  Mutex!Leave(g)
    BY <2>6 DEF EndBody, Goto, Mutex!Leave
  <2>7. ASSUME NEW g \in Holders, Leave(g)
        PROVE  UNCHANGED Mutex!vars
    BY <2>7 DEF Leave, End, Goto
  <2>8. ASSUME NEW g \in Holders, Crash(g)
        PROVE  Mutex!Leave(g) \/ Mutex!Miss(g) \/ UNCHANGED Mutex!vars
    BY <2>8 DEF Crash, End, Goto, Mutex!Leave, Mutex!Miss
  <2>9. CASE Sweep \/ Tick \/ Finished \/ UNCHANGED lockVars
    BY <2>9 DEF Sweep, Tick, Finished, lockVars
  <2> QED
    BY <2>2, <2>3, <2>4, <2>5, <2>6, <2>7, <2>8, <2>9 DEF Next, Around, Mutex!Next
<1> QED
  BY <1>1, <1>2, TypeCorrect, TimeInvariant, LeaseInvariant, PTL
  DEF Spec, MutexSpec, Mutex!Spec
=============================================================================
