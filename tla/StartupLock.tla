---------------------------- MODULE StartupLock ----------------------------
(***************************************************************************)
(* app/db/startup_lock.py: the lease that serialises what every pod does   *)
(* when it starts (migrations, index sync).  The lease is one document of  *)
(* the Mongo collection _locks, taken with an upserting findAndModify that *)
(* matches only an expired document, polled for until a deadline, and      *)
(* deleted, by its holder only, when the guarded body ends.                *)
(*                                                                         *)
(* A holder is one execution of startup_lock(): its name ends in a fresh   *)
(* uuid4, so a pod that Kubernetes restarts comes back as another holder.  *)
(* Time is in abstract ticks.  Pods stamp a request with their own clock   *)
(* before they send it, and the TTL index is swept on the server's clock:  *)
(* clocks differ by at most MaxSkew.                                       *)
(***************************************************************************)
EXTENDS Integers, FiniteSets

CONSTANTS
    Holders,            \* the executions of startup_lock()
    NoHolder,           \* no lock document
    Mongod,             \* the server, for its clock
    Ttl,                \* startup_lock_ttl_seconds
    WaitTimeout,        \* startup_lock_wait_timeout_seconds
    PollInterval,       \* startup_lock_poll_interval_seconds
    MaxSkew,            \* how far two clocks differ at most
    DelayBound,         \* a request, its answer or a late wake-up takes no longer
    HoldBound,          \* from stamping the winning request to the end of the body
    MaxCrashes,         \* bound: pods that die without running `finally`
    MaxStart,           \* bound: no attempt starts after this time
    MaxTime             \* bound: the clock stops here

ASSUME ConstantsAssumption ==
    /\ NoHolder \notin Holders
    /\ Mongod \notin Holders
    /\ {Ttl, WaitTimeout, PollInterval, MaxSkew, DelayBound, HoldBound,
        MaxCrashes, MaxStart, MaxTime} \subseteq Nat
    /\ PollInterval > 0
    /\ DelayBound =< HoldBound

(* The guarded body, requests included, ends before the lease can expire   *)
(* on anyone's clock.  The sweep deletes at expires_at itself, one instant *)
(* before the filter of _try_acquire would match: hence the strict bound.  *)
LeaseCoversHold == HoldBound + MaxSkew < Ttl

VARIABLES
    now,                \* true time
    skew,               \* what each clock adds to it
    lock,               \* the "startup" document of _locks
    pc,                 \* where each execution is
    stamp,              \* `now` of its latest _try_acquire, on its own clock
    started,            \* when it entered startup_lock(): its deadline counts from it
    wakeAt,             \* when its asyncio.sleep ends
    crashes             \* pods that died so far

lockVars == <<now, skew, lock, pc, stamp, started, wakeAt, crashes>>

NoLock == [holder |-> NoHolder, expires |-> 0]

Ended == {"done", "failed", "timedout", "crashed"}
Active == {"requesting", "refused", "sleeping", "holding", "releasing"}

TypeOK ==
    /\ now \in Nat
    /\ skew \in [Holders \cup {Mongod} -> 0 .. MaxSkew]
    /\ lock \in [holder : Holders \cup {NoHolder}, expires : Nat]
    /\ pc \in [Holders -> {"idle"} \cup Active \cup Ended]
    /\ stamp \in [Holders -> Nat]
    /\ started \in [Holders -> Nat]
    /\ wakeAt \in [Holders -> Nat]
    /\ crashes \in Nat

LockInit ==
    /\ now = 0
    /\ skew \in [Holders \cup {Mongod} -> 0 .. MaxSkew]
    /\ lock = NoLock
    /\ pc = [h \in Holders |-> "idle"]
    /\ stamp = [h \in Holders |-> 0]
    /\ started = [h \in Holders |-> 0]
    /\ wakeAt = [h \in Holders |-> 0]
    /\ crashes = 0

Clock(c) == now + skew[c]

Deadline(h) == started[h] + WaitTimeout

Goto(h, l) == pc' = [pc EXCEPT ![h] = l]

(* An execution that is over has no locals any more.                       *)
End(h, l) ==
    /\ Goto(h, l)
    /\ stamp' = [stamp EXCEPT ![h] = 0]
    /\ started' = [started EXCEPT ![h] = 0]
    /\ wakeAt' = [wakeAt EXCEPT ![h] = 0]

-----------------------------------------------------------------------------
(* Sending _try_acquire: the clock is read before the request leaves.      *)
Request(h) ==
    /\ stamp' = [stamp EXCEPT ![h] = Clock(h)]
    /\ Goto(h, "requesting")

(* The TTL index exists (the call is idempotent), the deadline is set and  *)
(* the first request leaves.                                               *)
Start(h) ==
    /\ pc[h] = "idle"
    /\ now =< MaxStart
    /\ started' = [started EXCEPT ![h] = now]
    /\ Request(h)
    /\ UNCHANGED <<now, skew, lock, wakeAt, crashes>>

(* A definition whose name ends in _Something is a plausible slip in the   *)
(* definition that follows it; the properties are shown to catch them.     *)

(* The filter of findAndModify, or no document for it to collide with.     *)
Reclaimable_Always(t) == TRUE
Reclaimable(t) == lock = NoLock \/ lock.expires < t

(* The lease counts from the stamp, which was taken before the request.    *)
ExpiresAt_NoTtl(h) == stamp[h]
ExpiresAt_Subtracted(h) == stamp[h] - Ttl
ExpiresAt_FromStart(h) == started[h] + Ttl
ExpiresAt_InMillis(h) == stamp[h] + 1000 * Ttl
ExpiresAt(h) == stamp[h] + Ttl

(* The server applies the upsert: the caller is the holder from then on.   *)
Acquire(h) ==
    /\ pc[h] = "requesting"
    /\ Reclaimable(stamp[h])
    /\ lock' = [holder |-> h, expires |-> ExpiresAt(h)]
    /\ Goto(h, "holding")
    /\ UNCHANGED <<now, skew, stamp, started, wakeAt, crashes>>

(* The upsert collides on _id: DuplicateKeyError, False.                   *)
Refuse(h) ==
    /\ pc[h] = "requesting"
    /\ ~Reclaimable(stamp[h])
    /\ Goto(h, "refused")
    /\ UNCHANGED <<now, skew, lock, stamp, started, wakeAt, crashes>>

(* The answer arrives after the deadline: LockTimeoutError, the pod exits. *)
GiveUp(h) ==
    /\ pc[h] = "refused"
    /\ now >= Deadline(h)
    /\ End(h, "timedout")
    /\ UNCHANGED <<now, skew, lock, crashes>>

(* The answer arrives before the deadline: sleep, then ask again.          *)
Sleep_NoDeadline(h) ==
    /\ pc[h] = "refused"
    /\ wakeAt' = [wakeAt EXCEPT ![h] = now + PollInterval]
    /\ Goto(h, "sleeping")
    /\ UNCHANGED <<now, skew, lock, stamp, started, crashes>>

Sleep(h) ==
    /\ pc[h] = "refused"
    /\ now < Deadline(h)
    /\ wakeAt' = [wakeAt EXCEPT ![h] = now + PollInterval]
    /\ Goto(h, "sleeping")
    /\ UNCHANGED <<now, skew, lock, stamp, started, crashes>>

Wake(h) ==
    /\ pc[h] = "sleeping"
    /\ now >= wakeAt[h]
    /\ wakeAt' = [wakeAt EXCEPT ![h] = 0]
    /\ Request(h)
    /\ UNCHANGED <<now, skew, lock, started, crashes>>

(* _release: delete_one on this holder's document.  It leaves a document   *)
(* that someone else has reclaimed, and logs a warning.                    *)
Release_AnyHolder(h) == lock' = NoLock
Release(h) == lock' = IF lock.holder = h THEN NoLock ELSE lock

(* The body ends, normally or by an exception: `finally` sends the request *)
(* of _release, which may find the lease expired on its arrival.           *)
EndBody(h) ==
    /\ pc[h] = "holding"
    /\ Goto(h, "releasing")
    /\ UNCHANGED <<now, skew, lock, stamp, started, wakeAt, crashes>>

(* The server applies it and startup_lock() is over.                       *)
Leave(h) ==
    /\ pc[h] = "releasing"
    /\ Release(h)
    /\ \E l \in {"done", "failed"} : End(h, l)
    /\ UNCHANGED <<now, skew, crashes>>

(* The process dies (SIGKILL, startup probe, lost connection): nothing     *)
(* runs `finally`, the document stays.                                     *)
Crash(h) ==
    /\ pc[h] \in Active
    /\ crashes < MaxCrashes
    /\ crashes' = crashes + 1
    /\ End(h, "crashed")
    /\ UNCHANGED <<now, skew, lock>>

(* Mongo's TTL monitor deletes the expired document.                       *)
Sweep ==
    /\ lock # NoLock
    /\ lock.expires =< Clock(Mongod)
    /\ lock' = NoLock
    /\ UNCHANGED <<now, skew, pc, stamp, started, wakeAt, crashes>>

(* Nobody is late: what time may pass over.                                *)
OnTime(h) ==
    /\ pc[h] \in {"requesting", "refused"} => Clock(h) - stamp[h] < DelayBound
    /\ pc[h] = "sleeping" => now < wakeAt[h] + DelayBound
    /\ pc[h] = "holding" => Clock(h) - stamp[h] < HoldBound
    /\ pc[h] = "releasing" => Clock(h) - stamp[h] < HoldBound + DelayBound

Tick ==
    /\ now < MaxTime
    /\ \A h \in Holders : OnTime(h)
    /\ now' = now + 1
    /\ UNCHANGED <<skew, lock, pc, stamp, started, wakeAt, crashes>>

(* Every attempt is over and the clock has reached its bound.              *)
Finished ==
    /\ now = MaxTime
    /\ \A h \in Holders : pc[h] \in Ended \cup {"idle"}
    /\ UNCHANGED lockVars

(* What happens around the guarded body.                                   *)
Around(h) ==
    \/ Start(h) \/ Acquire(h) \/ Refuse(h) \/ GiveUp(h) \/ Sleep(h)
    \/ Wake(h) \/ Crash(h)

Next ==
    \/ \E h \in Holders : Around(h) \/ EndBody(h) \/ Leave(h)
    \/ Sweep
    \/ Tick
    \/ Finished

Spec == LockInit /\ [][Next]_lockVars

(* The event loop runs what is ready, the server answers, the body ends,   *)
(* the TTL monitor runs every minute and time passes.  Nothing makes an    *)
(* attempt start or a pod crash.                                           *)
Fairness ==
    /\ \A h \in Holders :
         WF_lockVars(\/ Acquire(h) \/ Refuse(h) \/ GiveUp(h) \/ Sleep(h)
                     \/ Wake(h) \/ EndBody(h) \/ Leave(h))
    /\ WF_lockVars(Sweep)
    /\ WF_lockVars(Tick)

FairSpec == Spec /\ Fairness

-----------------------------------------------------------------------------
Holding == {h \in Holders : pc[h] = "holding"}

(* Two executions are never inside the guarded body together: the claim of *)
(* main.py:67-72 and test_two_concurrent_holders_never_overlap.            *)
MutualExclusion == \A g, h \in Holding : g = h

(* Whoever is inside the body has its own document in _locks, live on      *)
(* every clock: the warning of _release is logged, if ever, for a request  *)
(* that was under way when the lease ended.                                *)
HolderOwnsLiveLock ==
    \A h \in Holding : /\ lock.holder = h
                       /\ lock.expires > now + MaxSkew

(* A document that is still live on every clock goes away only because its *)
(* own holder releases it, even when another release arrives late, after   *)
(* its own document expired and was reclaimed.                             *)
LiveLockIsKept ==
    [][ \A h \in Holders :
          (lock.holder = h /\ lock.expires > now + MaxSkew /\ lock'.holder # h)
             => (pc[h] = "releasing" /\ pc'[h] \in {"done", "failed"}) ]_lockVars

(* How long a pod may spend in startup_lock() and its body: what the       *)
(* startup probe of values.yaml:270-277 has to outlast.                    *)
StartupBudget == WaitTimeout + PollInterval + HoldBound + 2 * DelayBound

StartupIsBounded ==
    \A h \in Holders : pc[h] \in Active => now - started[h] < StartupBudget

(* The document of a pod that died does not outlive its lease for good.    *)
StaleLockGoes ==
    \A h \in Holders : (pc[h] = "crashed" /\ lock.holder = h) ~> (lock.holder # h)

(* The abstract mutual exclusion this implements.                          *)
Mutex == INSTANCE StartupMutex WITH
    inside <- Holding,
    left <- {h \in Holders : pc[h] \in Ended \cup {"releasing"}}

MutexSpec == Mutex!Spec
=============================================================================
