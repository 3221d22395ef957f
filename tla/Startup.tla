------------------------------ MODULE Startup ------------------------------
(***************************************************************************)
(* app/main.py, lifespan(): what a pod does before it takes requests.      *)
(* Inside the startup lock it runs the migrations and then the index sync. *)
(* The lock is the abstract mutual exclusion that StartupLock implements   *)
(* as long as the body ends within its lease.  Pods of several releases    *)
(* may start in any order, as in a rollout that is rolled back: releases   *)
(* with the same migrations and different index files.                     *)
(***************************************************************************)
EXTENDS Migrations

CONSTANTS Releases, Configs, NoName         \* as in IndexSync

ASSUME ConfigsAssumption ==
    /\ DOMAIN Configs = Releases
    /\ \A r \in Releases : NoName \notin DOMAIN Configs[r]

VARIABLES
    inside, left,       \* the startup lock: who holds it, whose attempt is over
    serving,            \* pods that got past the lock and take requests
    release, config, sync, torn             \* as in IndexSync

lockVars == <<inside, left>>
vars == <<lockVars, serving, indexes, migrationVars, release, config, sync, torn>>

Lock == INSTANCE StartupMutex
Sync == INSTANCE IndexSync

-----------------------------------------------------------------------------
NoConfig == [n \in {} |-> NoName]

(* Any database of MigrationsInit, with no index synced yet or those of an *)
(* earlier release, and the index that migration 0010 made, unless the     *)
(* sync of that release has replaced it by another one since.              *)
Init ==
    /\ MigrationsInit
    /\ Lock!Init
    /\ serving = {}
    /\ release \in [Holders -> Releases]
    /\ config \in {NoConfig} \cup {Configs[r] : r \in Releases}
    /\ indexes = IF "0010" \in recorded /\ ~IndexConflicts(config)
                  THEN Put(config, ProductIndex, ProductKeys)
                  ELSE config
    /\ sync = [h \in Holders |-> Sync!NotSyncing]
    /\ torn = [n \in Sync!Names |-> {}]

(* The lock is free.  The slip: nothing serialises the pods.               *)
EnterBody_NoLock(h) ==
    /\ h \notin inside \cup left
    /\ inside' = inside \cup {h}
    /\ UNCHANGED <<left, serving, indexes, migrationVars, release, config, sync, torn>>
EnterBody(h) ==
    /\ Lock!Enter(h)
    /\ h \notin inside
    /\ UNCHANGED <<serving, indexes, migrationVars, release, config, sync, torn>>

RunMigrations(h) ==
    /\ h \in inside
    /\ MigrationStep(h)
    /\ UNCHANGED <<lockVars, serving, release, config, sync, torn>>

SyncIndexes(h) ==
    /\ h \in inside
    /\ at[h] = End
    /\ Sync!SyncStep(h)
    /\ UNCHANGED <<lockVars, serving, migrationVars, release>>

(* The body is over: the lock is released and the pod takes requests.      *)
Serve(h) ==
    /\ sync[h].at = "synced"
    /\ Lock!Leave(h)
    /\ serving' = serving \cup {h}
    /\ Forget(h)
    /\ sync' = [sync EXCEPT ![h] = Sync!NotSyncing]
    /\ UNCHANGED <<docs, indexes, recorded, release, config, torn>>

(* A call raises, the duplicate key of Collides and the conflicts of the   *)
(* indexes included, or the pod dies; the release or the end of the       *)
(* lease frees the lock.                                                   *)
Fail(h) ==
    /\ Lock!Leave(h)
    /\ Forget(h)
    /\ Sync!Abort(h)
    /\ UNCHANGED <<serving, docs, indexes, recorded, release, config>>

(* The wait for the lock times out.                                        *)
GiveUp(h) ==
    /\ inside # {}
    /\ Lock!Miss(h)
    /\ UNCHANGED <<serving, indexes, migrationVars, release, config, sync, torn>>

Finished == left = Holders /\ UNCHANGED vars

Next ==
    \/ \E h \in Holders :
         \/ EnterBody(h) \/ RunMigrations(h) \/ SyncIndexes(h)
         \/ Serve(h) \/ Fail(h) \/ GiveUp(h)
    \/ Finished

Spec == Init /\ [][Next]_vars

-----------------------------------------------------------------------------
TypeOK ==
    /\ inside \subseteq Holders /\ left \subseteq Holders /\ serving \subseteq left
    /\ MigrationsTypeOK
    /\ Sync!SyncTypeOK

(* Once a pod takes requests the database holds what an undisturbed run of *)
(* all the migrations would have made, whatever died on the way.           *)
ServingPodsAreMigrated == serving # {} => FullyMigrated

(* A pod begins to take requests with the indexes of its release, whoever  *)
(* died in the middle of a sync before it, unless that was a pod of        *)
(* another release between a drop and its record: then this release finds  *)
(* its own record, and trusts it.                                          *)
ServesWhatItConfigured ==
    [][ \A h \in serving' \ serving : \A n \in Sync!Names :
          torn[n] \subseteq {release[h]} => Sync!Synced(h, n) ]_vars
============================================================================
