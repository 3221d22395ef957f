---------------------------- MODULE Migrations ----------------------------
(***************************************************************************)
(* app/migrations: run_migrations() as every pod runs it, with the ten     *)
(* migrations of the repository.  Startup says when a pod runs it: inside  *)
(* the startup lock, before the index sync.                                *)
(*                                                                         *)
(* A collection is a partial function from keys to tags: a key stands for  *)
(* one batch of documents (insert_many is called batch by batch), its tags *)
(* for the dump the documents came from and the fields added later.  The   *)
(* three industryActivity* tables have the same part in the migrations and *)
(* are one here.  Each migration is the list of database calls it awaits:  *)
(* between two of them the pod may die or fail.                            *)
(***************************************************************************)
EXTENDS Integers, Sequences, FiniteSets

CONSTANTS
    Holders,            \* the executions of startup_lock(), as in StartupLock
    NumBatches,         \* bound: batches a table is imported in
    Dump, OldDump       \* the SDE dump this release ships, the one before it

ASSUME DatabaseAssumption ==
    /\ NumBatches \in Nat \ {0}
    /\ {Dump, OldDump} \cap {"volume", "category_id", "activity_id", "twice"} = {}

VARIABLES
    docs,               \* the collections
    indexes,            \* the indexes of sde_blueprints, by name (see IndexSync)
    recorded,           \* the _ids in _migrations
    applied,            \* per pod: the recorded ids it has read (applied_ids, applied_steps)
    seen,               \* per pod: the source documents it has read
    at                  \* per pod: its next call in Script, 0 before it has begun

migrationVars == <<docs, recorded, applied, seen, at>>

-----------------------------------------------------------------------------
Batches == 1 .. NumBatches
ReactionKey == NumBatches + 1           \* reaction formulas, kept beside the blueprints
Keys == 1 .. ReactionKey

Tables == {"industryActivity", "invTypes"}
Collections == Tables \cup
    {"sde_types", "sde_blueprints", "sde_categories", "sde_planet_schematics",
     "market_order_history"}

Tags == {Dump, OldDump, "volume", "category_id", "activity_id", "twice"}

(* The index of migration 0010, under the name Mongo gives it.             *)
ProductIndex == "product_type_id_1"
ProductKeys == "product_type_id"

Empty == [k \in {} |-> {}]
Full(tags) == [k \in Batches |-> tags]
Has(rows, k) == k \in DOMAIN rows
Put(rows, k, tags) == [j \in DOMAIN rows \cup {k} |-> IF j = k THEN tags ELSE rows[j]]

-----------------------------------------------------------------------------
(* The calls a migration awaits, in order.  `unit` is the id under which   *)
(* its completion is recorded; a call is skipped when its migration or its *)
(* unit has been read as applied.                                          *)
Call(op, coll, key, from) == [op |-> op, coll |-> coll, key |-> key, from |-> from]

(* delete_many({}), then insert_many batch by batch: _import_table and     *)
(* every _replace_all.                                                     *)
Replace(coll, from) ==
    <<Call("clear", coll, 0, "none")>> \o [k \in Batches |-> Call("insert", coll, k, from)]

Unit_RecordFirst(id, unit, calls) ==
    LET all == <<Call("record", unit, 0, "none")>> \o calls
    IN  [i \in DOMAIN all |-> [id |-> id, unit |-> unit, call |-> all[i]]]
Unit(id, unit, calls) ==
    LET all == calls \o <<Call("record", unit, 0, "none")>>
    IN  [i \in DOMAIN all |-> [id |-> id, unit |-> unit, call |-> all[i]]]

(* 0001: one recorded step per table, in the order of the file names, then *)
(* the migration itself.                                                   *)
M0001 == LET steps == [id |-> "0001", unit |-> "0001", call |-> Call("steps", "none", 0, "none")]
         IN  <<steps>> \o Unit("0001", "industryActivity", Replace("industryActivity", "dump"))
                       \o Unit("0001", "invTypes", Replace("invTypes", "dump"))
                       \o Unit("0001", "0001", <<>>)

M0002 == Unit("0002", "0002",
    <<Call("read", "invTypes", 0, "none"), Call("read", "industryActivity", 0, "none")>>
      \o Replace("sde_types", "invTypes") \o Replace("sde_blueprints", "industryActivity"))

M0003 == Unit("0003", "0003",
    <<Call("read", "invTypes", 0, "none"), Call("volume", "sde_types", 0, "invTypes")>>)

M0004 == Unit("0004", "0004",
    <<Call("read", "sde_types", 0, "none"), Call("category_id", "sde_types", 0, "sde_types")>>)

M0005 == Unit("0005", "0005", Replace("sde_categories", "dump"))
M0006 == Unit("0006", "0006", Replace("sde_planet_schematics", "dump"))
M0007_Missing == <<>>
M0007 == Unit("0007", "0007", Replace("sde_planet_schematics", "dump"))

M0008 == Unit("0008", "0008",
    <<Call("read", "industryActivity", 0, "none"),
      Call("upsert", "sde_blueprints", ReactionKey, "industryActivity"),
      Call("activity_id", "sde_blueprints", 0, "none")>>)

M0009 == Unit("0009", "0009", <<Call("clear", "market_order_history", 0, "none")>>)
M0010 == Unit("0010", "0010", <<Call("index", "none", 0, "none")>>)

(* _discover_migrations: the modules in the order of their names.          *)
Script == M0001 \o M0002 \o M0003 \o M0004 \o M0005 \o M0006 \o M0007 \o M0008 \o M0009 \o M0010

MigrationIds == {Script[i].id : i \in DOMAIN Script}
Units == {Script[i].unit : i \in DOMAIN Script}
End == Len(Script) + 1

-----------------------------------------------------------------------------
(* The database after the first n migrations ran undisturbed on dump d;    *)
(* `old` is whether market_order_history existed.                          *)
Migrated(n, d, old) ==
    [c \in Collections |->
       CASE c \in Tables -> IF n >= 1 THEN Full({d}) ELSE Empty
         [] c = "sde_types" ->
              IF n >= 2 THEN Full({d} \cup (IF n >= 3 THEN {"volume"} ELSE {})
                                      \cup (IF n >= 4 THEN {"category_id"} ELSE {}))
                        ELSE Empty
         [] c = "sde_blueprints" ->
              IF n >= 8 THEN [k \in Keys |-> {d, "activity_id"}]
              ELSE IF n >= 2 THEN Full({d}) ELSE Empty
         [] c = "sde_categories" -> IF n >= 5 THEN Full({d}) ELSE Empty
         [] c = "sde_planet_schematics" -> IF n >= 6 THEN Full({d}) ELSE Empty
         [] c = "market_order_history" -> IF old /\ n < 9 THEN Full({d}) ELSE Empty]

(* What the first n migrations have recorded.                              *)
Versions == <<"0001", "0002", "0003", "0004", "0005", "0006", "0007", "0008", "0009", "0010">>
RecordedUpTo(n) == {Versions[i] : i \in 1 .. n} \cup (IF n >= 1 THEN Tables ELSE {})

NothingSeen == [c \in Tables \cup {"sde_types"} |-> Empty]

(* A new database, or one that a release with fewer migrations has left,   *)
(* with this dump or the previous one; 0006 as first released recorded     *)
(* itself and imported nothing (0007_rebuild_sde_planet_schematics.py).    *)
MigrationsInit ==
    /\ \E n \in 0 .. Len(Versions), d \in {Dump, OldDump}, old \in BOOLEAN :
         /\ recorded = RecordedUpTo(n)
         /\ docs \in {Migrated(n, d, old)} \cup
                     (IF n = 6 THEN {[Migrated(n, d, old) EXCEPT !["sde_planet_schematics"] = Empty]}
                               ELSE {})
    /\ applied = [h \in Holders |-> {}]
    /\ seen = [h \in Holders |-> NothingSeen]
    /\ at = [h \in Holders |-> 0]

-----------------------------------------------------------------------------
(* The next call that is not skipped, given the ids read as applied.       *)
After(i, ids) ==
    CHOOSE j \in (i + 1) .. End :
      /\ j = End \/ {Script[j].id, Script[j].unit} \cap ids = {}
      /\ \A k \in (i + 1) .. (j - 1) : {Script[k].id, Script[k].unit} \cap ids # {}

(* Pod h is in run_migrations, before a call of kind `op`.                 *)
Running(h) == at[h] \in 1 .. End - 1
CallOf(h) == Script[at[h]].call
Doing(h, ops) == Running(h) /\ CallOf(h).op \in ops

Advance(h) == at' = [at EXCEPT ![h] = After(at[h], applied'[h])]

(* run_migrations reads applied_ids once, before its loop.                 *)
Begin(h) ==
    /\ at[h] = 0
    /\ applied' = [applied EXCEPT ![h] = recorded \ Tables]
    /\ at' = [at EXCEPT ![h] = After(0, applied'[h])]
    /\ UNCHANGED <<docs, indexes, recorded, seen>>

(* 0001 reads which of its tables are recorded.                            *)
ReadSteps(h) ==
    /\ Doing(h, {"steps"})
    /\ applied' = [applied EXCEPT ![h] = @ \cup (recorded \cap Tables)]
    /\ Advance(h)
    /\ UNCHANGED <<docs, indexes, recorded, seen>>

(* The documents a migration computes from are read before it writes.      *)
Read(h) ==
    /\ Doing(h, {"read"})
    /\ LET c == CallOf(h).coll IN seen' = [seen EXCEPT ![h][c] = docs[c]]
    /\ applied' = applied
    /\ Advance(h)
    /\ UNCHANGED <<docs, indexes, recorded>>

Clear(h) ==
    /\ Doing(h, {"clear"})
    /\ docs' = [docs EXCEPT ![CallOf(h).coll] = Empty]
    /\ applied' = applied
    /\ Advance(h)
    /\ UNCHANGED <<indexes, recorded, seen>>

(* The documents of one batch: those of the dump, or those built from what *)
(* was read.  None when the source had none.                               *)
Source(h) == LET call == CallOf(h)
             IN  IF call.from = "dump" THEN Full({Dump}) ELSE seen[h][call.from]

(* The call hits a unique key: _id in the sde_* collections and _migrations *)
(* (a table imported twice has its documents twice, and so has what is     *)
(* built from it).  The raw tables have no unique key.                     *)
Collides(h) ==
    LET call == CallOf(h)
    IN  \/ call.op = "record" /\ call.coll \in recorded
        \/ /\ call.op = "insert" /\ call.coll \notin Tables
           /\ Has(Source(h), call.key)
           /\ Has(docs[call.coll], call.key) \/ "twice" \in Source(h)[call.key]

Insert(h) ==
    /\ Doing(h, {"insert"})
    /\ ~Collides(h)
    /\ LET call == CallOf(h)
           rows == docs[call.coll]
           twice == IF Has(rows, call.key) THEN {"twice"} ELSE {}
       IN  docs' = IF Has(Source(h), call.key)
                   THEN [docs EXCEPT ![call.coll] =
                           Put(rows, call.key, Source(h)[call.key] \cup twice)]
                   ELSE docs
    /\ applied' = applied
    /\ Advance(h)
    /\ UNCHANGED <<indexes, recorded, seen>>

(* UpdateMany by the ids that were read; update_many when there are none.  *)
SetField(h) ==
    /\ Doing(h, {"volume", "category_id", "activity_id"})
    /\ LET call == CallOf(h)
           rows == docs[call.coll]
           ids == IF call.from = "none" THEN DOMAIN rows ELSE DOMAIN seen[h][call.from]
       IN  docs' = [docs EXCEPT ![call.coll] =
                      [k \in DOMAIN rows |-> IF k \in ids THEN rows[k] \cup {call.op} ELSE rows[k]]]
    /\ applied' = applied
    /\ Advance(h)
    /\ UNCHANGED <<indexes, recorded, seen>>

(* 0008 upserts each reaction formula it found, with its activity_id.      *)
Upsert(h) ==
    /\ Doing(h, {"upsert"})
    /\ LET call == CallOf(h)
           formulas == seen[h][call.from]
       IN  docs' = IF Has(formulas, NumBatches)
                   THEN [docs EXCEPT ![call.coll] =
                           Put(@, call.key, (formulas[NumBatches] \ {"twice"}) \cup {"activity_id"})]
                   ELSE docs
    /\ applied' = applied
    /\ Advance(h)
    /\ UNCHANGED <<indexes, recorded, seen>>

(* 0010 gives no name, Mongo does; an index that is there already stays.   *)
(* The server refuses an index that exists under another name, or another  *)
(* one under this name: the exception ends the start.                      *)
IndexConflicts(idx) == \E n \in DOMAIN idx : (n = ProductIndex) # (idx[n] = ProductKeys)

CreateIndex(h) ==
    /\ Doing(h, {"index"})
    /\ ~IndexConflicts(indexes)
    /\ indexes' = Put(indexes, ProductIndex, ProductKeys)
    /\ applied' = applied
    /\ Advance(h)
    /\ UNCHANGED <<docs, recorded, seen>>

(* insert_one into _migrations, once the unit's calls are done.            *)
Record_WrongId(h) ==
    /\ Doing(h, {"record"})
    /\ ~Collides(h)
    /\ recorded' = recorded \cup {CallOf(h).op}
    /\ applied' = applied
    /\ Advance(h)
    /\ UNCHANGED <<docs, indexes, seen>>
Record(h) ==
    /\ Doing(h, {"record"})
    /\ ~Collides(h)
    /\ recorded' = recorded \cup {CallOf(h).coll}
    /\ applied' = applied
    /\ Advance(h)
    /\ UNCHANGED <<docs, indexes, seen>>

(* The locals of run_migrations are gone.                                  *)
Forget(h) ==
    /\ applied' = [applied EXCEPT ![h] = {}]
    /\ seen' = [seen EXCEPT ![h] = NothingSeen]
    /\ at' = [at EXCEPT ![h] = 0]

Step(h) ==
    \/ ReadSteps(h) \/ Read(h) \/ Clear(h) \/ Insert(h) \/ SetField(h)
    \/ Upsert(h) \/ CreateIndex(h) \/ Record(h)

MigrationStep(h) == Begin(h) \/ Step(h)

-----------------------------------------------------------------------------
MigrationsTypeOK ==
    /\ DOMAIN docs = Collections
    /\ \A c \in Collections : DOMAIN docs[c] \subseteq Keys
    /\ \A c \in Collections : \A k \in DOMAIN docs[c] : docs[c][k] \subseteq Tags
    /\ recorded \subseteq Units
    /\ applied \in [Holders -> SUBSET Units]
    /\ at \in [Holders -> 0 .. End]

(* The fields of a collection, whichever dump they came from.              *)
Fields(rows) == [k \in DOMAIN rows |-> rows[k] \ {Dump, OldDump}]
SameFields(a, b, c) == Fields(a[c]) = Fields(b[c])

Complete(c, tags) ==
    /\ Batches \subseteq DOMAIN docs[c]
    /\ \A k \in DOMAIN docs[c] : tags \subseteq docs[c][k]

(* What the completion of a unit promises to everything after it.          *)
InEffect(u) ==
    CASE u \in Tables -> Complete(u, {})
      [] u = "0001" -> \A t \in Tables : Complete(t, {})
      [] u = "0002" -> Complete("sde_types", {}) /\ Complete("sde_blueprints", {})
      [] u = "0003" -> Complete("sde_types", {"volume"})
      [] u = "0004" -> Complete("sde_types", {"category_id"})
      [] u = "0005" -> Complete("sde_categories", {})
      [] u = "0006" -> "0007" \in recorded => Complete("sde_planet_schematics", {})
      [] u = "0007" -> Complete("sde_planet_schematics", {})
      [] u = "0008" -> ReactionKey \in DOMAIN docs["sde_blueprints"]
                         /\ Complete("sde_blueprints", {"activity_id"})
      [] u = "0009" -> docs["market_order_history"] = Empty
      [] u = "0010" -> TRUE     \* its index belongs to the index sync from then on

(* A migration that is recorded, and will be skipped by every later start, *)
(* is in effect, wherever pods died, failed or resumed.                    *)
RecordedIsInEffect == \A u \in recorded : InEffect(u)

(* What an undisturbed run of all the migrations would have made, field by *)
(* field and row by row, whichever dump the documents came from.           *)
FullyMigrated ==
    /\ MigrationIds \subseteq recorded
    /\ \A c \in Collections : SameFields(docs, Migrated(Len(Versions), Dump, FALSE), c)

(* main.py:67-72: thanks to the lock no pod runs into a DuplicateKeyError  *)
(* of a migration that another one is applying.                            *)
NoDuplicateKey == \A h \in Holders : Running(h) => ~Collides(h)
===========================================================================
