----------------------------- MODULE IndexSync -----------------------------
(***************************************************************************)
(* app/db/index_sync.py: sync_indexes() brings the Mongo indexes in line   *)
(* with the JSON files of a release.  What it has built it remembers in    *)
(* the collection _index_config; it trusts that record and never looks at  *)
(* the indexes themselves.  Every line with an `await` is an action: the   *)
(* pod may die, or the call may fail, before the next one.                 *)
(*                                                                         *)
(* Indexes are known by their names, as if all were of one collection; a   *)
(* spec (keys and options) is a value.                                     *)
(***************************************************************************)
EXTENDS FiniteSets

CONSTANTS
    Holders,            \* the pods, as in Startup
    Releases,           \* releases of eve-build that pods may run
    Configs,            \* per release: load_index_configs(), from names to specs
    NoName              \* no index under way

VARIABLES
    release,            \* the release each pod runs
    indexes,            \* the indexes there are: from names to specs
    config,             \* _index_config: from names to the specs recorded
    sync,               \* per pod: where it is, what is left to do, the index under way
    torn                \* history, per name: releases of pods that died on it

syncVars == <<config, sync, torn>>

Names == UNION {DOMAIN Configs[r] : r \in Releases}
Wanted(h) == Configs[release[h]]

Without(f, n) == [m \in DOMAIN f \ {n} |-> f[m]]
With(f, n, spec) == [m \in DOMAIN f \cup {n} |-> IF m = n THEN spec ELSE f[m]]

NotSyncing == [at |-> "off", todo |-> {}, name |-> NoName]

At(h, l) == sync[h].at = l
GoOn(h, l, todo, n) == sync' = [sync EXCEPT ![h] = [at |-> l, todo |-> todo, name |-> n]]
Goto(h, l) == sync' = [sync EXCEPT ![h].at = l]

(* The files of the release are read.                                      *)
StartSync(h) ==
    /\ At(h, "off")
    /\ GoOn(h, "lookup", DOMAIN Wanted(h), NoName)
    /\ UNCHANGED <<indexes, config, torn>>

(* find_one: an equal record ends the matter.                              *)
Matches_ByName(h, n) == n \in DOMAIN config
Matches(h, n) == n \in DOMAIN config /\ config[n] = Wanted(h)[n]

Lookup(h) ==
    /\ At(h, "lookup")
    /\ \E n \in sync[h].todo :
         IF Matches(h, n) THEN GoOn(h, "lookup", sync[h].todo \ {n}, NoName)
                          ELSE GoOn(h, "drop", sync[h].todo, n)
    /\ UNCHANGED <<indexes, config, torn>>

(* _drop_index_if_exists: a refusal of the server is suppressed.           *)
Drop(h) ==
    /\ sync[h].at \in {"drop", "drop unmanaged"}
    /\ indexes' \in {Without(indexes, sync[h].name), indexes}
    /\ Goto(h, IF At(h, "drop") THEN "create" ELSE "forget")
    /\ UNCHANGED <<config, torn>>

(* The server refuses an index that exists under another name, or another  *)
(* one under this name: the exception ends the start.                      *)
Conflicts(h) ==
    LET n == sync[h].name
    IN  \E m \in DOMAIN indexes : (m = n) # (indexes[m] = Wanted(h)[n])

Create(h) ==
    /\ At(h, "create")
    /\ ~Conflicts(h)
    /\ indexes' = With(indexes, sync[h].name, Wanted(h)[sync[h].name])
    /\ Goto(h, "record")
    /\ UNCHANGED <<config, torn>>

(* replace_one with upsert.  The record and the index agree again.         *)
Record(h) ==
    LET n == sync[h].name
    IN  /\ At(h, "record")
        /\ config' = With(config, n, Wanted(h)[n])
        /\ torn' = [torn EXCEPT ![n] = {}]
        /\ GoOn(h, "lookup", sync[h].todo \ {n}, NoName)
        /\ UNCHANGED indexes

(* The records of indexes that the release does not configure.             *)
FindUnmanaged(h) ==
    /\ At(h, "lookup")
    /\ sync[h].todo = {}
    /\ GoOn(h, "unmanaged", DOMAIN config \ DOMAIN Wanted(h), NoName)
    /\ UNCHANGED <<indexes, config, torn>>

NextUnmanaged(h) ==
    /\ At(h, "unmanaged")
    /\ \E n \in sync[h].todo : GoOn(h, "drop unmanaged", sync[h].todo, n)
    /\ UNCHANGED <<indexes, config, torn>>

Forget(h) ==
    LET n == sync[h].name
    IN  /\ At(h, "forget")
        /\ config' = Without(config, n)
        /\ torn' = [torn EXCEPT ![n] = {}]
        /\ GoOn(h, "unmanaged", sync[h].todo \ {n}, NoName)
        /\ UNCHANGED indexes

EndSync(h) ==
    /\ At(h, "unmanaged")
    /\ sync[h].todo = {}
    /\ GoOn(h, "synced", {}, NoName)
    /\ UNCHANGED <<indexes, config, torn>>

SyncStep(h) ==
    \/ StartSync(h) \/ Lookup(h) \/ Drop(h) \/ Create(h) \/ Record(h)
    \/ FindUnmanaged(h) \/ NextUnmanaged(h) \/ Forget(h) \/ EndSync(h)

(* The pod dies or raises; between the drop and the record the index and   *)
(* its record may disagree from now on.                                    *)
Abort(h) ==
    /\ sync' = [sync EXCEPT ![h] = NotSyncing]
    /\ torn' = IF sync[h].at \in {"create", "record", "forget"}
               THEN [torn EXCEPT ![sync[h].name] = @ \cup {release[h]}]
               ELSE torn

-----------------------------------------------------------------------------
SyncTypeOK ==
    /\ release \in [Holders -> Releases]
    /\ DOMAIN config \subseteq Names
    /\ \A h \in Holders :
         /\ sync[h].todo \subseteq Names
         /\ (sync[h].name = NoName) =
              (sync[h].at \in {"off", "lookup", "unmanaged", "synced"})
    /\ torn \in [Names -> SUBSET Releases]

(* Index n is as the release of pod h wants it, and so is its record.      *)
Synced(h, n) ==
    IF n \in DOMAIN Wanted(h)
    THEN /\ n \in DOMAIN indexes /\ indexes[n] = Wanted(h)[n]
         /\ Matches(h, n)
    ELSE n \notin DOMAIN config
============================================================================
