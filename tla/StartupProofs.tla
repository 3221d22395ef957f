--------------------------- MODULE StartupProofs ---------------------------
(***************************************************************************)
(* Theorems about Startup, for any number of pods, releases, index files   *)
(* and batches: with which indexes a pod takes requests, that recorded     *)
(* migrations are in effect whatever died on the way, and on which data a  *)
(* pod takes requests.                                                     *)
(***************************************************************************)
EXTENDS Startup, NaturalsInduction, SequenceTheorems, WellFoundedInduction, TLAPS

-----------------------------------------------------------------------------
(* The lock and the index sync.  The pods inside are the only ones that    *)
(* have anything under way.                                                *)
Labels ==
    {"off", "lookup", "drop", "create", "record", "unmanaged", "drop unmanaged", "forget", "synced"}
Resting == {"off", "lookup", "unmanaged", "synced"}

SyncTypes ==
    /\ release \in [Holders -> Releases]
    /\ DOMAIN config \subseteq Sync!Names
    /\ sync \in [Holders -> [at : Labels, todo : SUBSET Sync!Names, name : Sync!Names \cup {NoName}]]
    /\ \A h \in Holders : (sync[h].name = NoName) = (sync[h].at \in Resting)
    /\ torn \in [Sync!Names -> SUBSET Releases]

LockInv ==
    /\ inside \subseteq Holders /\ left \subseteq Holders /\ serving \subseteq left
    /\ \A g, h \in inside : g = h
    /\ \A h \in Holders : sync[h].at # "off" => h \in inside

(* How far a pod has come with the files of its release.                   *)
Progress(h) ==
    LET s == sync[h]
        wanted == DOMAIN Sync!Wanted(h)
    IN  /\ s.at \in {"lookup", "drop", "create", "record"} =>
             s.todo \subseteq wanted /\ \A n \in wanted \ s.todo : Sync!Matches(h, n)
        /\ s.at \in {"drop", "create", "record"} => s.name \in wanted /\ ~Sync!Matches(h, s.name)
        /\ s.at = "record" =>
             s.name \in DOMAIN indexes /\ indexes[s.name] = Sync!Wanted(h)[s.name]
        /\ s.at \in {"unmanaged", "drop unmanaged", "forget", "synced"} =>
             /\ \A n \in wanted : Sync!Matches(h, n)
             /\ s.todo \cap wanted = {} /\ DOMAIN config \subseteq wanted \cup s.todo
        /\ s.at \in {"drop unmanaged", "forget"} => s.name \notin wanted
        /\ s.at = "synced" => s.todo = {}

(* A record is true of its index, or a pod has died while it replaced the  *)
(* index, and what it wanted is not what is recorded, or one is at it.     *)
Agree(n) == n \in DOMAIN config => n \in DOMAIN indexes /\ indexes[n] = config[n]
Differs(r, n) == ~(n \in DOMAIN Configs[r] /\ n \in DOMAIN config /\ config[n] = Configs[r][n])
Excused(n) == \E r \in torn[n] : Differs(r, n)
Replaces(h, n) == sync[h].at \in {"create", "record", "forget"} /\ sync[h].name = n

IndexInv ==
    /\ \A n \in Sync!Names : Agree(n) \/ Excused(n) \/ \E h \in Holders : Replaces(h, n)
    /\ \A h \in Holders : Progress(h)

SyncInv == SyncTypes /\ LockInv /\ IndexInv

-----------------------------------------------------------------------------
(* What there is to show of a step of the pod that is inside: the others   *)
(* have nothing under way.                                                 *)
LEMMA SyncMoves ==
    ASSUME SyncInv, NEW h \in inside, NEW s, sync' = [sync EXCEPT ![h] = s],
           s \in [at : Labels, todo : SUBSET Sync!Names, name : Sync!Names \cup {NoName}],
           (s.name = NoName) = (s.at \in Resting),
           UNCHANGED <<inside, left, serving, release>>,
           DOMAIN config' \subseteq Sync!Names, torn' \in [Sync!Names -> SUBSET Releases],
           \A n \in Sync!Names : (Agree(n) \/ Excused(n) \/ Replaces(h, n)) => (Agree(n) \/ Excused(n) \/ Replaces(h, n))',
           Progress(h)'
    PROVE  SyncInv'
<1>1. h \in Holders /\ \A g \in Holders : sync'[g] = IF g = h THEN s ELSE sync[g]
  BY DEF SyncInv, SyncTypes, LockInv
<1>2. \A g \in Holders \ {h} : sync[g].at = "off"
  BY DEF SyncInv, LockInv
<1>3. SyncTypes'
  BY <1>1 DEF SyncInv, SyncTypes
<1>4. LockInv'
  BY <1>1 DEF SyncInv, LockInv
<1>5. ASSUME NEW n \in Sync!Names
      PROVE  (Agree(n) \/ Excused(n) \/ \E g \in Holders : Replaces(g, n))'
  <2>1. Agree(n) \/ Excused(n) \/ \E g \in Holders : Replaces(g, n)
    BY DEF SyncInv, IndexInv
  <2>2. \A g \in Holders \ {h} : ~Replaces(g, n)
    BY <1>2 DEF Replaces
  <2>3. (Agree(n) \/ Excused(n) \/ Replaces(h, n))'
    BY <1>1, <2>1, <2>2
  <2>4. QED  BY <1>1, <2>3
<1>6. ASSUME NEW g \in Holders \ {h} PROVE Progress(g)'
  BY <1>1, <1>2, ZenonT(30) DEF Progress
<1>7. QED  BY <1>3, <1>4, <1>5, <1>6 DEF SyncInv, IndexInv

(* The names of a release are names, and its pods want them.               *)
LEMMA WantedNames ==
    ASSUME SyncInv, NEW h \in Holders
    PROVE  /\ release[h] \in Releases /\ DOMAIN Sync!Wanted(h) \subseteq Sync!Names
           /\ NoName \notin Sync!Names
BY ConfigsAssumption DEF SyncInv, SyncTypes, Sync!Wanted, Sync!Names

(* The calls that neither change an index nor a record.                    *)
LEMMA LookingKeeps ==
    ASSUME SyncInv, NEW h \in inside, UNCHANGED <<inside, left, serving, release>>,
           \/ Sync!StartSync(h) \/ Sync!Lookup(h) \/ Sync!FindUnmanaged(h)
           \/ Sync!NextUnmanaged(h) \/ Sync!EndSync(h)
    PROVE  SyncInv'
<1> DEFINE o == sync[h]
           wanted == DOMAIN Sync!Wanted(h)
<1>0. /\ h \in Holders /\ UNCHANGED <<indexes, config, torn>>
      /\ o \in [at : Labels, todo : SUBSET Sync!Names, name : Sync!Names \cup {NoName}]
      /\ (o.name = NoName) = (o.at \in Resting)
      /\ DOMAIN config \subseteq Sync!Names /\ torn \in [Sync!Names -> SUBSET Releases]
      /\ Progress(h) /\ wanted \subseteq Sync!Names /\ NoName \notin Sync!Names
  BY WantedNames DEF SyncInv, SyncTypes, LockInv, IndexInv, Sync!StartSync, Sync!Lookup, Sync!FindUnmanaged,
     Sync!NextUnmanaged, Sync!EndSync
<1>1. \A n : Agree(n)' = Agree(n) /\ Excused(n)' = Excused(n) /\ ~Replaces(h, n)
  BY <1>0 DEF Agree, Excused, Differs, Replaces, Sync!StartSync, Sync!Lookup, Sync!FindUnmanaged,
     Sync!NextUnmanaged, Sync!EndSync, Sync!At
<1>2. PICK l, todo, name :
        /\ sync' = [sync EXCEPT ![h] = [at |-> l, todo |-> todo, name |-> name]]
        /\ \/ l = "lookup" /\ todo = wanted /\ name = NoName
           \/ /\ l = "lookup" /\ name = NoName /\ o.at = "lookup"
              /\ \E n \in o.todo : todo = o.todo \ {n} /\ Sync!Matches(h, n)
           \/ l = "drop" /\ o.at = "lookup" /\ todo = o.todo /\ name \in todo /\ ~Sync!Matches(h, name)
           \/ /\ l = "unmanaged" /\ o.at = "lookup" /\ o.todo = {} /\ name = NoName
              /\ todo = DOMAIN config \ wanted
           \/ l = "drop unmanaged" /\ o.at = "unmanaged" /\ todo = o.todo /\ name \in todo
           \/ l = "synced" /\ o.at = "unmanaged" /\ o.todo = {} /\ todo = {} /\ name = NoName
  BY DEF Sync!StartSync, Sync!Lookup, Sync!FindUnmanaged, Sync!NextUnmanaged, Sync!EndSync, Sync!At, Sync!GoOn
<1> DEFINE s == [at |-> l, todo |-> todo, name |-> name]
<1>3. s.at = l /\ s.todo = todo /\ s.name = name /\ sync' = [sync EXCEPT ![h] = s]
  BY <1>2
<1>4. l \in Labels /\ todo \subseteq Sync!Names /\ name \in Sync!Names \cup {NoName}
  BY <1>0, <1>2 DEF Labels
<1>5. s \in [at : Labels, todo : SUBSET Sync!Names, name : Sync!Names \cup {NoName}]
  BY <1>4
<1>6. (s.name = NoName) = (s.at \in Resting)
  <2>1. CASE l \in {"lookup", "unmanaged", "synced"}
    <3>1. name = NoName
      BY <1>2, <2>1
    <3>2. s.name = NoName /\ s.at \in Resting
      BY <1>3, <2>1, <3>1 DEF Resting
    <3>3. QED  BY <3>2
  <2>2. CASE l \in {"drop", "drop unmanaged"}
    <3>1. name \in Sync!Names
      BY <1>0, <1>2, <2>2
    <3>2. s.name # NoName /\ s.at \notin Resting
      BY <1>0, <1>3, <2>2, <3>1 DEF Resting
    <3>3. QED  BY <3>2
  <2>3. QED  BY <1>2, <2>1, <2>2
<1> HIDE DEF s
<1>7. sync'[h] = s
  BY <1>0, <1>3 DEF SyncInv, SyncTypes
<1>8. Progress(h)'
  <2>1. /\ (Sync!Wanted(h))' = Sync!Wanted(h)
        /\ \A n : Sync!Matches(h, n)' = Sync!Matches(h, n)
    BY <1>0 DEF Sync!Wanted, Sync!Matches
  <2>2. CASE l \in {"lookup", "drop"}
    BY <1>0, <1>2, <1>3, <1>7, <2>1, <2>2, ZenonT(30) DEF Progress
  <2>3. CASE l \in {"unmanaged", "drop unmanaged", "synced"}
    BY <1>0, <1>2, <1>3, <1>7, <2>1, <2>3 DEF Progress
  <2>4. QED  BY <1>2, <2>2, <2>3
<1>9. QED  BY <1>0, <1>1, <1>3, <1>5, <1>6, <1>8, SyncMoves

(* The calls that replace an index and its record, or remove both.         *)
LEMMA ReplacingKeeps ==
    ASSUME SyncInv, NEW h \in inside, UNCHANGED <<inside, left, serving, release>>,
           Sync!Drop(h) \/ Sync!Create(h) \/ Sync!Record(h) \/ Sync!Forget(h)
    PROVE  SyncInv'
<1> DEFINE o == sync[h]
           k == o.name
           wanted == DOMAIN Sync!Wanted(h)
<1>0. /\ h \in Holders
      /\ o \in [at : Labels, todo : SUBSET Sync!Names, name : Sync!Names \cup {NoName}]
      /\ (o.name = NoName) = (o.at \in Resting)
      /\ DOMAIN config \subseteq Sync!Names /\ torn \in [Sync!Names -> SUBSET Releases]
      /\ Progress(h) /\ wanted \subseteq Sync!Names /\ NoName \notin Sync!Names
  BY WantedNames DEF SyncInv, SyncTypes, LockInv, IndexInv
<1>1. /\ (Sync!Wanted(h))' = Sync!Wanted(h)
      /\ \A n : n \in DOMAIN config' /\ config'[n] = Sync!Wanted(h)[n] => Sync!Matches(h, n)'
      /\ UNCHANGED config => \A n : Sync!Matches(h, n)' = Sync!Matches(h, n)
  BY DEF Sync!Wanted, Sync!Matches
<1>2. CASE Sync!Drop(h)
  <2> DEFINE l == IF o.at = "drop" THEN "create" ELSE "forget"
             s == [o EXCEPT !.at = l]
  <2>1. sync' = [sync EXCEPT ![h] = s] /\ UNCHANGED <<config, torn>> /\ o.at \in {"drop", "drop unmanaged"}
    BY <1>0, <1>2 DEF Sync!Drop, Sync!Goto, Sync!At, SyncInv, SyncTypes
  <2>2. s.at = l /\ s.todo = o.todo /\ s.name = k /\ l \in {"create", "forget"}
    BY <1>0
  <2>3. k # NoName /\ k \in Sync!Names
    BY <1>0, <2>1 DEF Resting
  <2>4. s \in [at : Labels, todo : SUBSET Sync!Names, name : Sync!Names \cup {NoName}]
    BY <1>0, <2>2 DEF Labels
  <2>5. (s.name = NoName) = (s.at \in Resting)
    BY <2>2, <2>3 DEF Resting
  <2> HIDE DEF s
  <2>6. sync'[h] = s
    BY <1>0, <2>1 DEF SyncInv, SyncTypes
  <2>7. ASSUME NEW n \in Sync!Names
        PROVE  (Agree(n) \/ Excused(n) \/ Replaces(h, n)) => (Agree(n) \/ Excused(n) \/ Replaces(h, n))'
    <3>1. CASE n = k
      BY <2>2, <2>6, <3>1 DEF Replaces
    <3>2. CASE n # k
      <4>1. n \in DOMAIN indexes => n \in DOMAIN indexes' /\ indexes'[n] = indexes[n]
        BY <1>2, <3>2 DEF Sync!Drop, Sync!Without
      <4>2. QED  BY <2>1, <3>2, <4>1 DEF Agree, Excused, Differs, Replaces
    <3>3. QED  BY <3>1, <3>2
  <2>8. Progress(h)'
    BY <1>0, <1>1, <2>1, <2>2, <2>6, ZenonT(30) DEF Progress
  <2>9. QED  BY <1>0, <2>1, <2>4, <2>5, <2>7, <2>8, SyncMoves
<1>3. CASE Sync!Create(h)
  <2> DEFINE s == [o EXCEPT !.at = "record"]
  <2>1. /\ sync' = [sync EXCEPT ![h] = s] /\ UNCHANGED <<config, torn>> /\ o.at = "create"
        /\ indexes' = Sync!With(indexes, k, Sync!Wanted(h)[k])
    BY <1>0, <1>3 DEF Sync!Create, Sync!Goto, Sync!At, SyncInv, SyncTypes
  <2>2. s.at = "record" /\ s.todo = o.todo /\ s.name = k
    BY <1>0
  <2>3. k # NoName /\ k \in Sync!Names
    BY <1>0, <2>1 DEF Resting
  <2>4. s \in [at : Labels, todo : SUBSET Sync!Names, name : Sync!Names \cup {NoName}]
    BY <1>0, <2>2 DEF Labels
  <2>5. (s.name = NoName) = (s.at \in Resting)
    BY <2>2, <2>3 DEF Resting
  <2> HIDE DEF s
  <2>6. sync'[h] = s
    BY <1>0, <2>1 DEF SyncInv, SyncTypes
  <2>7. ASSUME NEW n \in Sync!Names
        PROVE  (Agree(n) \/ Excused(n) \/ Replaces(h, n)) => (Agree(n) \/ Excused(n) \/ Replaces(h, n))'
    <3>1. CASE n = k
      BY <2>2, <2>6, <3>1 DEF Replaces
    <3>2. CASE n # k
      <4>1. n \in DOMAIN indexes => n \in DOMAIN indexes' /\ indexes'[n] = indexes[n]
        BY <2>1, <3>2 DEF Sync!With
      <4>2. QED  BY <2>1, <3>2, <4>1 DEF Agree, Excused, Differs, Replaces
    <3>3. QED  BY <3>1, <3>2
  <2>8. k \in DOMAIN indexes' /\ indexes'[k] = Sync!Wanted(h)[k]
    BY <2>1 DEF Sync!With
  <2>9. Progress(h)'
    BY <1>0, <1>1, <2>1, <2>2, <2>6, <2>8 DEF Progress
  <2>10. QED  BY <1>0, <2>1, <2>4, <2>5, <2>7, <2>9, SyncMoves
<1>4. CASE Sync!Record(h)
  <2> DEFINE s == [at |-> "lookup", todo |-> o.todo \ {k}, name |-> NoName]
  <2>1. /\ sync' = [sync EXCEPT ![h] = s] /\ UNCHANGED indexes /\ o.at = "record"
        /\ config' = Sync!With(config, k, Sync!Wanted(h)[k]) /\ torn' = [torn EXCEPT ![k] = {}]
    BY <1>4 DEF Sync!Record, Sync!GoOn, Sync!At
  <2>2. s.at = "lookup" /\ s.todo = o.todo \ {k} /\ s.name = NoName
    OBVIOUS
  <2>3. k # NoName /\ k \in Sync!Names
    BY <1>0, <2>1 DEF Resting
  <2>4. s \in [at : Labels, todo : SUBSET Sync!Names, name : Sync!Names \cup {NoName}]
    BY <1>0, <2>2 DEF Labels
  <2>5. (s.name = NoName) = (s.at \in Resting)
    BY <2>2 DEF Resting
  <2> HIDE DEF s
  <2>6. sync'[h] = s
    BY <1>0, <2>1 DEF SyncInv, SyncTypes
  <2>7. /\ DOMAIN config' = DOMAIN config \cup {k}
        /\ config'[k] = Sync!Wanted(h)[k]
        /\ \A n \in DOMAIN config \ {k} : config'[n] = config[n]
    BY <2>1 DEF Sync!With
  <2>8. ASSUME NEW n \in Sync!Names
        PROVE  (Agree(n) \/ Excused(n) \/ Replaces(h, n)) => (Agree(n) \/ Excused(n) \/ Replaces(h, n))'
    <3>1. CASE n = k
      <4>1. k \in DOMAIN indexes /\ indexes[k] = Sync!Wanted(h)[k]
        BY <1>0, <2>1 DEF Progress
      <4>2. QED  BY <2>1, <2>7, <3>1, <4>1 DEF Agree
    <3>2. CASE n # k
      <4>1. torn'[n] = torn[n]
        BY <1>0, <2>1, <3>2
      <4>2. QED  BY <2>1, <2>7, <3>2, <4>1 DEF Agree, Excused, Differs, Replaces
    <3>3. QED  BY <3>1, <3>2
  <2>9. Progress(h)'
    <3>1. k \in wanted /\ o.todo \subseteq wanted /\ \A n \in wanted \ o.todo : Sync!Matches(h, n)
      BY <1>0, <2>1 DEF Progress
    <3>2. \A n \in wanted \ s.todo : n \in DOMAIN config' /\ config'[n] = Sync!Wanted(h)[n]
      BY <2>2, <2>7, <3>1 DEF Sync!Matches
    <3>3. \A n \in wanted \ s.todo : Sync!Matches(h, n)'
      BY <1>1, <3>2
    <3>4. QED  BY <1>1, <2>2, <2>6, <3>1, <3>3 DEF Progress
  <2>10. DOMAIN config' \subseteq Sync!Names /\ torn' \in [Sync!Names -> SUBSET Releases]
    BY <1>0, <2>1, <2>3, <2>7
  <2>11. QED  BY <2>1, <2>4, <2>5, <2>8, <2>9, <2>10, SyncMoves
<1>5. CASE Sync!Forget(h)
  <2> DEFINE s == [at |-> "unmanaged", todo |-> o.todo \ {k}, name |-> NoName]
  <2>1. /\ sync' = [sync EXCEPT ![h] = s] /\ UNCHANGED indexes /\ o.at = "forget"
        /\ config' = Sync!Without(config, k) /\ torn' = [torn EXCEPT ![k] = {}]
    BY <1>5 DEF Sync!Forget, Sync!GoOn, Sync!At
  <2>2. s.at = "unmanaged" /\ s.todo = o.todo \ {k} /\ s.name = NoName
    OBVIOUS
  <2>3. k # NoName /\ k \in Sync!Names
    BY <1>0, <2>1 DEF Resting
  <2>4. s \in [at : Labels, todo : SUBSET Sync!Names, name : Sync!Names \cup {NoName}]
    BY <1>0, <2>2 DEF Labels
  <2>5. (s.name = NoName) = (s.at \in Resting)
    BY <2>2 DEF Resting
  <2> HIDE DEF s
  <2>6. sync'[h] = s
    BY <1>0, <2>1 DEF SyncInv, SyncTypes
  <2>7. /\ DOMAIN config' = DOMAIN config \ {k}
        /\ \A n \in DOMAIN config \ {k} : config'[n] = config[n]
    BY <2>1 DEF Sync!Without
  <2>8. ASSUME NEW n \in Sync!Names
        PROVE  (Agree(n) \/ Excused(n) \/ Replaces(h, n)) => (Agree(n) \/ Excused(n) \/ Replaces(h, n))'
    <3>1. CASE n = k
      BY <2>7, <3>1 DEF Agree
    <3>2. CASE n # k
      <4>1. torn'[n] = torn[n]
        BY <1>0, <2>1, <3>2
      <4>2. QED  BY <2>1, <2>7, <3>2, <4>1 DEF Agree, Excused, Differs, Replaces
    <3>3. QED  BY <3>1, <3>2
  <2>9. Progress(h)'
    <3>1. /\ k \notin wanted /\ o.todo \cap wanted = {} /\ DOMAIN config \subseteq wanted \cup o.todo
          /\ \A n \in wanted : Sync!Matches(h, n)
      BY <1>0, <2>1 DEF Progress
    <3>2. \A n \in wanted : Sync!Matches(h, n)'
      BY <1>1, <2>7, <3>1 DEF Sync!Matches
    <3>3. DOMAIN config' \subseteq wanted \cup s.todo /\ s.todo \cap wanted = {}
      BY <2>2, <2>7, <3>1
    <3>4. QED  BY <1>1, <2>2, <2>6, <3>2, <3>3 DEF Progress
  <2>10. DOMAIN config' \subseteq Sync!Names /\ torn' \in [Sync!Names -> SUBSET Releases]
    BY <1>0, <2>1, <2>3, <2>7
  <2>11. QED  BY <2>1, <2>4, <2>5, <2>8, <2>9, <2>10, SyncMoves
<1>6. QED  BY <1>2, <1>3, <1>4, <1>5

-----------------------------------------------------------------------------
(* An index of migration 0010 is new, or was there and the same.           *)
LEMMA MigrationKeepsIndexes ==
    ASSUME NEW h, MigrationStep(h)
    PROVE  \A n \in DOMAIN indexes : n \in DOMAIN indexes' /\ indexes'[n] = indexes[n]
<1>1. CASE CreateIndex(h)
  BY <1>1 DEF CreateIndex, IndexConflicts, Put
<1>2. CASE ~CreateIndex(h)
  BY <1>2 DEF MigrationStep, Begin, Step, ReadSteps, Read, Clear, Insert, SetField, Upsert, Record
<1>3. QED  BY <1>1, <1>2

(* A pod that stops, at its end or in the middle, leaves nothing under     *)
(* way; what it was replacing is excused from then on.                     *)
LEMMA StoppingKeeps ==
    ASSUME SyncInv, NEW h \in Holders, h \in inside, Serve(h) \/ Fail(h)
    PROVE  SyncInv'
<1> DEFINE o == sync[h]
           k == o.name
<1>1. /\ sync' = [sync EXCEPT ![h] = Sync!NotSyncing] /\ UNCHANGED <<indexes, config, release>>
      /\ inside' = inside \ {h} /\ left' = left \cup {h} /\ serving' \subseteq serving \cup {h}
      /\ serving \subseteq serving'
      /\ torn' = IF o.at \in {"create", "record", "forget"}
                 THEN [torn EXCEPT ![k] = torn[k] \cup {release[h]}] ELSE torn
  <2>1. CASE Serve(h)
    BY <2>1 DEF Serve, Lock!Leave
  <2>2. CASE Fail(h)
    BY <2>2 DEF Fail, Lock!Leave, Sync!Abort
  <2>3. QED  BY <2>1, <2>2
<1>2. \A g \in Holders : sync'[g] = IF g = h THEN Sync!NotSyncing ELSE sync[g]
  BY <1>1 DEF SyncInv, SyncTypes
<1>3. \A g \in Holders : sync'[g].at = "off"
  BY <1>2 DEF SyncInv, LockInv, Sync!NotSyncing
<1>4. LockInv'
  BY <1>1, <1>3 DEF SyncInv, LockInv
<1>5. /\ release[h] \in Releases /\ o.name \in Sync!Names \cup {NoName}
      /\ o.at \in {"create", "record", "forget"} => k \in Sync!Names
      /\ torn \in [Sync!Names -> SUBSET Releases]
  BY DEF SyncInv, SyncTypes, Resting
<1>6. torn' \in [Sync!Names -> SUBSET Releases]
  BY <1>1, <1>5
<1>7. SyncTypes'
  <2>1. Sync!NotSyncing \in [at : Labels, todo : SUBSET Sync!Names, name : Sync!Names \cup {NoName}]
    BY DEF Sync!NotSyncing, Labels
  <2>2. (Sync!NotSyncing.name = NoName) = (Sync!NotSyncing.at \in Resting)
    BY DEF Sync!NotSyncing, Resting
  <2>3. sync' \in [Holders -> [at : Labels, todo : SUBSET Sync!Names, name : Sync!Names \cup {NoName}]]
    BY <1>1, <2>1 DEF SyncInv, SyncTypes
  <2> HIDE <1>6, <1>5
  <2>4. \A g \in Holders : (sync'[g].name = NoName) = (sync'[g].at \in Resting)
    BY <1>2, <2>2 DEF SyncInv, SyncTypes
  <2>5. QED  BY <1>1, <1>6, <2>3, <2>4 DEF SyncInv, SyncTypes
<1>8. ASSUME NEW n \in Sync!Names PROVE (Agree(n) \/ Excused(n))'
  <2>1. torn[n] \subseteq torn'[n]
    BY <1>1, <1>5
  <2>2. CASE Agree(n) \/ Excused(n)
    BY <1>1, <2>1, <2>2 DEF Agree, Excused, Differs
  <2>3. CASE ~Agree(n) /\ ~Excused(n)
    <3>1. Replaces(h, n)
      BY <2>3 DEF SyncInv, IndexInv, LockInv, Replaces
    <3>2. release[h] \in torn'[n]
      BY <1>1, <1>5, <3>1 DEF Replaces
    <3>3. Differs(release[h], n)
      BY <3>1 DEF SyncInv, IndexInv, Progress, Replaces, Differs, Sync!Wanted, Sync!Matches
    <3>4. QED  BY <1>1, <3>2, <3>3 DEF Excused, Differs
  <2>4. QED  BY <2>2, <2>3
<1>9. \A g \in Holders : Progress(g)'
  BY <1>3 DEF Progress
<1>10. QED  BY <1>4, <1>7, <1>8, <1>9 DEF SyncInv, IndexInv

(* At most one pod is inside the lock and only it has anything under way;  *)
(* what it has come through of its release's files stands in the indexes   *)
(* and in the records, save where another release died between the two     *)
(* (db/index_sync.py:56-103).                                              *)
THEOREM SyncInvariant == Spec => []SyncInv
<1>1. Init => SyncInv
  <2> SUFFICES ASSUME Init PROVE SyncInv
    OBVIOUS
  <2>1. /\ \A h \in Holders : sync[h] = Sync!NotSyncing
        /\ sync = [h \in Holders |-> Sync!NotSyncing]
        /\ inside = {} /\ left = {} /\ serving = {} /\ release \in [Holders -> Releases]
        /\ torn = [n \in Sync!Names |-> {}]
    BY DEF Init, Lock!Init
  <2>2. /\ Sync!NotSyncing \in [at : Labels, todo : SUBSET Sync!Names, name : Sync!Names \cup {NoName}]
        /\ (Sync!NotSyncing.name = NoName) = (Sync!NotSyncing.at \in Resting)
        /\ Sync!NotSyncing.at = "off"
    BY DEF Sync!NotSyncing, Labels, Resting
  <2>3. DOMAIN config \subseteq Sync!Names
    BY ConfigsAssumption DEF Init, NoConfig, Sync!Names
  <2>4. SyncTypes
    BY <2>1, <2>2, <2>3 DEF SyncTypes
  <2>5. LockInv
    BY <2>1, <2>2 DEF LockInv
  <2>6. \A n \in DOMAIN config : n \in DOMAIN indexes /\ indexes[n] = config[n]
    BY DEF Init, IndexConflicts, Put
  <2>7. QED  BY <2>1, <2>2, <2>4, <2>5, <2>6 DEF SyncInv, IndexInv, Agree, Progress
<1>2. SyncInv /\ [Next]_vars => SyncInv'
  <2> SUFFICES ASSUME SyncInv, [Next]_vars PROVE SyncInv'
    OBVIOUS
  <2>1. ASSUME UNCHANGED <<release, config, sync, torn>>, LockInv',
               \A n \in DOMAIN indexes : n \in DOMAIN indexes' /\ indexes'[n] = indexes[n]
        PROVE  SyncInv'
    <3>1. SyncTypes'
      BY <2>1 DEF SyncInv, SyncTypes
    <3>2. \A n \in Sync!Names : (Agree(n) => Agree(n)') /\ (Excused(n) => Excused(n)')
      BY <2>1 DEF Agree, Excused, Differs
    <3>3. \A h \in Holders : Progress(h)'
      <4> TAKE h \in Holders
      <4>1. (Sync!Wanted(h))' = Sync!Wanted(h) /\ \A n : Sync!Matches(h, n)' = Sync!Matches(h, n)
        BY <2>1 DEF Sync!Wanted, Sync!Matches
      <4>2. Progress(h)
        BY DEF SyncInv, IndexInv
      <4>3. QED  BY <2>1, <4>1, <4>2 DEF Progress
    <3>4. IndexInv'
      <4>1. ASSUME NEW n \in Sync!Names
            PROVE  (Agree(n) \/ Excused(n) \/ \E h \in Holders : Replaces(h, n))'
        <5>1. Agree(n) \/ Excused(n) \/ \E h \in Holders : Replaces(h, n)
          BY DEF SyncInv, IndexInv
        <5>2. (\E h \in Holders : Replaces(h, n)) => (\E h \in Holders : Replaces(h, n))'
          BY <2>1 DEF Replaces
        <5>3. QED  BY <3>2, <5>1, <5>2
      <4>2. QED  BY <3>3, <4>1 DEF IndexInv
    <3>5. QED  BY <2>1, <3>1, <3>4 DEF SyncInv
  <2>2. CASE UNCHANGED vars
    BY <2>1, <2>2 DEF vars, lockVars, SyncInv, LockInv
  <2>3. ASSUME NEW h \in Holders, EnterBody(h) PROVE SyncInv'
    BY <2>1, <2>3 DEF EnterBody, Lock!Enter, SyncInv, LockInv
  <2>4. ASSUME NEW h \in Holders, RunMigrations(h) PROVE SyncInv'
    BY <2>1, <2>4, MigrationKeepsIndexes DEF RunMigrations, lockVars, SyncInv, LockInv
  <2>5. ASSUME NEW h \in Holders, SyncIndexes(h) PROVE SyncInv'
    BY <2>5, LookingKeeps, ReplacingKeeps DEF SyncIndexes, Sync!SyncStep, lockVars
  <2>6. ASSUME NEW h \in Holders, Serve(h) \/ Fail(h) PROVE SyncInv'
    BY <2>6, StoppingKeeps DEF Serve, Fail, Lock!Leave
  <2>7. ASSUME NEW h \in Holders, GiveUp(h) PROVE SyncInv'
    BY <2>1, <2>7 DEF GiveUp, Lock!Miss, SyncInv, LockInv
  <2>8. QED  BY <2>2, <2>3, <2>4, <2>5, <2>6, <2>7 DEF Next, Finished
<1>3. QED  BY <1>1, <1>2, PTL DEF Spec

(* A pod takes requests with the indexes of its release: the records that  *)
(* sync_indexes trusts are true, but where a pod of another release died   *)
(* between the drop of an index and its record (db/index_sync.py).         *)
THEOREM ServedAsConfigured == Spec => ServesWhatItConfigured
<1> DEFINE A == \A h \in serving' \ serving : \A n \in Sync!Names :
                  torn[n] \subseteq {release[h]} => Sync!Synced(h, n)
<1>1. SyncInv /\ [Next]_vars => [A]_vars
  <2> SUFFICES ASSUME SyncInv, Next, NEW h \in serving' \ serving, NEW n \in Sync!Names,
                      torn[n] \subseteq {release[h]}
               PROVE  Sync!Synced(h, n)
    OBVIOUS
  <2>1. h \in Holders /\ h \in inside /\ sync[h].at = "synced"
    BY DEF Next, EnterBody, RunMigrations, SyncIndexes, Serve, Fail, GiveUp, Finished, vars, lockVars, Lock!Leave
  <2>2. ~\E g \in Holders : Replaces(g, n)
    BY <2>1 DEF SyncInv, LockInv, Replaces
  <2>3. Agree(n) \/ Excused(n)
    BY <2>2 DEF SyncInv, IndexInv
  <2>4. /\ \A m \in DOMAIN Sync!Wanted(h) : Sync!Matches(h, m)
        /\ DOMAIN config \subseteq DOMAIN Sync!Wanted(h)
    BY <2>1 DEF SyncInv, IndexInv, Progress
  <2>5. n \in DOMAIN Sync!Wanted(h) => ~Excused(n)
    BY <2>4 DEF Excused, Differs, Sync!Matches, Sync!Wanted
  <2>6. QED  BY <2>3, <2>4, <2>5 DEF Agree, Sync!Synced, Sync!Matches
<1>2. QED  BY <1>1, SyncInvariant, PTL DEF Spec, ServesWhatItConfigured

-----------------------------------------------------------------------------
(* The script of the migrations.  What is recorded, in this order; a step  *)
(* of it; the calls there are in the part of it that ends with u's record. *)
AllUnits ==
    {"industryActivity", "invTypes",
     "0001", "0002", "0003", "0004", "0005", "0006", "0007", "0008", "0009", "0010"}
Rank(u) ==
    CASE u = "industryActivity" -> 1 [] u = "invTypes" -> 2 [] u = "0001" -> 3
      [] u = "0002" -> 4 [] u = "0003" -> 5 [] u = "0004" -> 6 [] u = "0005" -> 7
      [] u = "0006" -> 8 [] u = "0007" -> 9 [] u = "0008" -> 10 [] u = "0009" -> 11
      [] u = "0010" -> 12
IdOf(u) == IF u \in Tables THEN "0001" ELSE u

StepOf(u, call) == [id |-> IdOf(u), unit |-> u, call |-> call]
ClearCall(c) == Call("clear", c, 0, "none")
ReadCall(c) == Call("read", c, 0, "none")
RecordCall(u) == Call("record", u, 0, "none")
StepsCall == Call("steps", "none", 0, "none")
Copying(c, from) == {ClearCall(c)} \cup {Call("insert", c, k, from) : k \in Batches}

Calls(u) == {RecordCall(u)} \cup
    CASE u = "industryActivity" -> Copying("industryActivity", "dump")
      [] u = "invTypes" -> Copying("invTypes", "dump")
      [] u = "0001" -> {StepsCall}
      [] u = "0002" -> {ReadCall("invTypes"), ReadCall("industryActivity")}
                         \cup Copying("sde_types", "invTypes")
                         \cup Copying("sde_blueprints", "industryActivity")
      [] u = "0003" -> {ReadCall("invTypes"), Call("volume", "sde_types", 0, "invTypes")}
      [] u = "0004" -> {ReadCall("sde_types"), Call("category_id", "sde_types", 0, "sde_types")}
      [] u = "0005" -> Copying("sde_categories", "dump")
      [] u = "0006" -> Copying("sde_planet_schematics", "dump")
      [] u = "0007" -> Copying("sde_planet_schematics", "dump")
      [] u = "0008" -> {ReadCall("industryActivity"),
                        Call("upsert", "sde_blueprints", ReactionKey, "industryActivity"),
                        Call("activity_id", "sde_blueprints", 0, "none")}
      [] u = "0009" -> {ClearCall("market_order_history")}
      [] u = "0010" -> {Call("index", "none", 0, "none")}

Steps == UNION {{StepOf(u, call) : call \in Calls(u)} : u \in AllUnits}

First(u) ==
    CASE u = "industryActivity" -> ClearCall("industryActivity")
      [] u = "invTypes" -> ClearCall("invTypes")
      [] u = "0001" -> RecordCall("0001")
      [] u = "0002" -> ReadCall("invTypes")
      [] u = "0003" -> ReadCall("invTypes")
      [] u = "0004" -> ReadCall("sde_types")
      [] u = "0005" -> ClearCall("sde_categories")
      [] u = "0006" -> ClearCall("sde_planet_schematics")
      [] u = "0007" -> ClearCall("sde_planet_schematics")
      [] u = "0008" -> ReadCall("industryActivity")
      [] u = "0009" -> ClearCall("market_order_history")
      [] u = "0010" -> Call("index", "none", 0, "none")

(* Call b comes after call a in the part of u, step y after step x.        *)
Inner(u, a, b) ==
    \/ /\ a.op = "clear" /\ u # "0009"
       /\ b.op = "insert" /\ b.coll = a.coll /\ b.key = 1
    \/ /\ a.op = "insert" /\ a.key < NumBatches
       /\ b.op = "insert" /\ b.coll = a.coll /\ b.key = a.key + 1
    \/ /\ a.op = "insert" /\ a.key = NumBatches
       /\ b = IF u = "0002" /\ a.coll = "sde_types" THEN ClearCall("sde_blueprints") ELSE RecordCall(u)
    \/ u = "0002" /\ a = ReadCall("invTypes") /\ b = ReadCall("industryActivity")
    \/ u = "0002" /\ a = ReadCall("industryActivity") /\ b = ClearCall("sde_types")
    \/ u = "0003" /\ a.op = "read" /\ b.op = "volume"
    \/ u = "0004" /\ a.op = "read" /\ b.op = "category_id"
    \/ u = "0008" /\ a.op = "read" /\ b.op = "upsert"
    \/ u = "0008" /\ a.op = "upsert" /\ b.op = "activity_id"
    \/ a.op \in {"volume", "category_id", "activity_id", "index"} /\ b = RecordCall(u)
    \/ u = "0009" /\ a.op = "clear" /\ b = RecordCall(u)

Follows(x, y) ==
    \/ x.unit = y.unit /\ x.call # StepsCall /\ Inner(x.unit, x.call, y.call)
    \/ /\ x.call = RecordCall(x.unit) /\ Rank(y.unit) = Rank(x.unit) + 1
       /\ y.call = First(y.unit)
    \/ x.call = StepsCall /\ y = StepOf("industryActivity", ClearCall("industryActivity"))

(* s is a part of the script, from step x to step y, for the units us.     *)
Part(s, x, y, us) ==
    /\ s \in Seq(Steps) /\ Len(s) > 0 /\ s[1] = x /\ s[Len(s)] = y
    /\ \A i \in 1 .. Len(s) - 1 : Follows(s[i], s[i + 1])
    /\ us = {s[i].unit : i \in 1 .. Len(s)}

(* Two chains of calls, one after the other, are one chain.                *)
LEMMA PartsJoin ==
    ASSUME NEW s, NEW t, NEW a, NEW b, NEW c, NEW d, NEW us, NEW vs,
           Part(s, a, b, us), Part(t, c, d, vs), Follows(b, c)
    PROVE  Part(s \o t, a, d, us \cup vs)
<1> DEFINE r == s \o t
           m == Len(s)
           n == Len(t)
<1>1. /\ r \in Seq(Steps) /\ m \in Nat /\ n \in Nat /\ m > 0 /\ n > 0 /\ Len(r) = m + n
      /\ \A i \in 1 .. m : r[i] = s[i]
      /\ \A i \in 1 .. n : r[m + i] = t[i]
  <2>1. s \in Seq(Steps) /\ t \in Seq(Steps) /\ Len(s) > 0 /\ Len(t) > 0
    BY DEF Part
  <2>2. /\ r \in Seq(Steps) /\ Len(r) = m + n
        /\ \A i \in 1 .. m + n : r[i] = IF i =< m THEN s[i] ELSE t[i - m]
    BY <2>1, ConcatProperties
  <2>3. m \in Nat /\ n \in Nat /\ m > 0 /\ n > 0
    BY <2>1, LenProperties
  <2> HIDE DEF r, m, n
  <2>4. \A i \in 1 .. m : i \in 1 .. m + n /\ i =< m
    BY <2>3
  <2>5. \A i \in 1 .. n : m + i \in 1 .. m + n /\ ~(m + i =< m) /\ (m + i) - m = i
    BY <2>3
  <2>6. QED  BY <2>2, <2>3, <2>4, <2>5
<1> HIDE DEF r, m, n
<1>2. \A i \in m + 1 .. m + n : i - m \in 1 .. n /\ r[i] = t[i - m]
  <2> TAKE i \in m + 1 .. m + n
  <2>1. i - m \in 1 .. n /\ m + (i - m) = i
    BY <1>1
  <2>2. QED  BY <1>1, <2>1
<1>3. ASSUME NEW i \in 1 .. Len(r) - 1 PROVE Follows(r[i], r[i + 1])
  <2>0. i \in 1 .. m + n - 1
    BY <1>1
  <2>1. CASE i < m
    <3>1. i \in 1 .. m - 1 /\ i \in 1 .. m /\ i + 1 \in 1 .. m
      BY <1>1, <2>0, <2>1
    <3>2. Follows(s[i], s[i + 1])
      BY <3>1 DEF Part, m
    <3>3. QED  BY <1>1, <3>1, <3>2
  <2>2. CASE i = m
    BY <1>1, <2>2 DEF Part, m
  <2>3. CASE i > m
    <3>1. r[i] = t[i - m] /\ r[i + 1] = t[(i + 1) - m] /\ i - m \in 1 .. n - 1 /\ (i + 1) - m = (i - m) + 1
      BY <1>1, <1>2, <2>0, <2>3
    <3>2. Follows(t[i - m], t[(i - m) + 1])
      BY <3>1 DEF Part, n
    <3>3. QED  BY <3>1, <3>2
  <2>4. QED  BY <1>1, <2>0, <2>1, <2>2, <2>3
<1>4. r[1] = a /\ r[m + n] = d
  BY <1>1 DEF Part, m, n
<1>5. us \cup vs = {r[i].unit : i \in 1 .. m + n}
  <2>1. us = {s[i].unit : i \in 1 .. m} /\ vs = {t[i].unit : i \in 1 .. n}
    BY DEF Part, m, n
  <2>2. us \subseteq {r[i].unit : i \in 1 .. m + n}
    BY <1>1, <2>1
  <2>3. vs \subseteq {r[i].unit : i \in 1 .. m + n}
    <3>1. \A i \in 1 .. n : t[i] = r[m + i] /\ m + i \in 1 .. m + n
      BY <1>1
    <3>2. QED  BY <2>1, <3>1
  <2>4. \A i \in 1 .. m + n : r[i].unit \in us \cup vs
    <3>1. \A i \in 1 .. m : r[i].unit \in us
      BY <1>1, <2>1
    <3>2. \A i \in m + 1 .. m + n : r[i].unit \in vs
      BY <1>2, <2>1
    <3>3. \A i \in 1 .. m + n : i \in 1 .. m \/ i \in m + 1 .. m + n
      BY <1>1
    <3>4. QED  BY <3>1, <3>2, <3>3
  <2>5. QED  BY <2>2, <2>3, <2>4
<1>6. Part(r, a, d, us \cup vs)
  <2>1. Len(r) = m + n /\ Len(r) > 0
    BY <1>1
  <2>2. \A i \in 1 .. Len(r) - 1 : Follows(r[i], r[i + 1])
    BY <1>3
  <2>3. us \cup vs = {r[i].unit : i \in 1 .. Len(r)}
    BY Zenon, <1>5, <2>1
  <2>4. r \in Seq(Steps) /\ r[1] = a /\ r[Len(r)] = d
    BY Zenon, <1>1, <1>4
  <2>5. QED  BY Zenon, <2>1, <2>2, <2>3, <2>4 DEF Part
<1>7. QED  BY <1>6 DEF r

(* What Unit makes of the calls of a migration.                            *)
LEMMA UnitSteps ==
    ASSUME NEW u \in AllUnits, NEW calls \in Seq(Calls(u))
    PROVE  /\ Unit(IdOf(u), u, calls) \in Seq(Steps) /\ Len(Unit(IdOf(u), u, calls)) = Len(calls) + 1
           /\ \A i \in 1 .. Len(calls) : Unit(IdOf(u), u, calls)[i] = StepOf(u, calls[i])
           /\ Unit(IdOf(u), u, calls)[Len(calls) + 1] = StepOf(u, RecordCall(u))
<1> DEFINE all == calls \o <<RecordCall(u)>>
           n == Len(calls)
           t == [i \in 1 .. n + 1 |-> StepOf(u, all[i])]
<1>1. RecordCall(u) \in Calls(u) /\ n \in Nat
  <2>1. RecordCall(u) \in Calls(u)
    BY Zenon DEF Calls
  <2>2. n \in Nat
    BY LenProperties
  <2>3. QED  BY <2>1, <2>2
<1>2. <<RecordCall(u)>> \in Seq(Calls(u)) /\ Len(<<RecordCall(u)>>) = 1 /\ <<RecordCall(u)>>[1] = RecordCall(u)
  BY <1>1
<1>3. /\ all \in Seq(Calls(u)) /\ Len(all) = n + 1
      /\ \A i \in 1 .. n + 1 : all[i] = IF i =< n THEN calls[i] ELSE <<RecordCall(u)>>[i - n]
  BY <1>2, ConcatProperties
<1>4. all[n + 1] = RecordCall(u) /\ \A i \in 1 .. n : all[i] = calls[i]
  BY <1>1, <1>2, <1>3
<1>5. DOMAIN all = 1 .. n + 1 /\ \A i \in 1 .. n + 1 : all[i] \in Calls(u)
  BY <1>1, <1>3, LenProperties, ElementOfSeq
<1>6. Unit(IdOf(u), u, calls) = t
  <2>1. Call("record", u, 0, "none") = RecordCall(u)
    BY DEF RecordCall
  <2>2. Unit(IdOf(u), u, calls) = [i \in DOMAIN all |-> [id |-> IdOf(u), unit |-> u, call |-> all[i]]]
    BY <2>1 DEF Unit
  <2>3. QED  BY <1>5, <2>2 DEF StepOf
<1>7. \A i \in 1 .. n + 1 : StepOf(u, all[i]) \in Steps
  BY <1>5 DEF Steps
<1> HIDE DEF all
<1>8. t \in Seq(Steps) /\ Len(t) = n + 1
  BY <1>1, <1>7
<1>9. n + 1 \in 1 .. n + 1 /\ \A i \in 1 .. n : i \in 1 .. n + 1
  BY <1>1
<1>10. QED  BY <1>4, <1>6, <1>8, <1>9

(* The calls of a unit and the record of it are a chain, whatever the      *)
(* calls are.                                                              *)
LEMMA UnitPart ==
    ASSUME NEW u \in AllUnits, NEW calls \in Seq(Calls(u)), NEW first,
           first = IF Len(calls) = 0 THEN RecordCall(u) ELSE calls[1],
           \A i \in 1 .. Len(calls) - 1 : calls[i] # StepsCall /\ Inner(u, calls[i], calls[i + 1]),
           Len(calls) > 0 => calls[Len(calls)] # StepsCall /\ Inner(u, calls[Len(calls)], RecordCall(u))
    PROVE  Part(Unit(IdOf(u), u, calls), StepOf(u, first), StepOf(u, RecordCall(u)), {u})
<1> DEFINE t == Unit(IdOf(u), u, calls)
           n == Len(calls)
<1>1. /\ t \in Seq(Steps) /\ Len(t) = n + 1 /\ n \in Nat
      /\ \A i \in 1 .. n : t[i] = StepOf(u, calls[i])
      /\ t[n + 1] = StepOf(u, RecordCall(u))
  BY UnitSteps, LenProperties
<1>2. \A call : StepOf(u, call).unit = u /\ StepOf(u, call).call = call
  BY DEF StepOf
<1> HIDE DEF t
<1>3. ASSUME NEW i \in 1 .. n PROVE Follows(t[i], t[i + 1])
  <2>1. CASE i = n
    BY <1>1, <1>2, <2>1 DEF Follows
  <2>2. CASE i < n
    <3>1. i \in 1 .. n - 1 /\ i + 1 \in 1 .. n
      BY <1>1, <2>2
    <3>2. t[i] = StepOf(u, calls[i]) /\ t[i + 1] = StepOf(u, calls[i + 1])
      BY <1>1, <3>1
    <3>3. QED  BY <1>2, <3>1, <3>2 DEF Follows
  <2>3. QED  BY <1>1, <2>1, <2>2
<1>4. t[1] = StepOf(u, first)
  BY <1>1
<1>5. {t[i].unit : i \in 1 .. n + 1} = {u}
  <2>1. \A i \in 1 .. n + 1 : i \in 1 .. n \/ i = n + 1
    BY <1>1
  <2>2. \A i \in 1 .. n + 1 : t[i].unit = u
    BY <1>1, <1>2, <2>1
  <2>3. 1 \in 1 .. n + 1
    BY <1>1
  <2>4. QED  BY <2>2, <2>3
<1>6. Part(t, StepOf(u, first), StepOf(u, RecordCall(u)), {u})
  <2>1. Len(t) = n + 1 /\ Len(t) > 0 /\ (n + 1) - 1 = n
    BY <1>1
  <2>2. \A i \in 1 .. Len(t) - 1 : Follows(t[i], t[i + 1])
    BY <1>3, <2>1
  <2>3. QED  BY <1>1, <1>4, <1>5, <2>1, <2>2 DEF Part
<1>7. QED  BY <1>6 DEF t

(* delete_many and the batches, one after the other.                       *)
LEMMA ReplaceCalls ==
    ASSUME NEW c, NEW from, NEW S, Copying(c, from) \subseteq S
    PROVE  /\ Replace(c, from) \in Seq(S) /\ Len(Replace(c, from)) = NumBatches + 1
           /\ Replace(c, from)[1] = ClearCall(c)
           /\ \A k \in Batches : Replace(c, from)[k + 1] = Call("insert", c, k, from)
<1> DEFINE s == <<ClearCall(c)>>
           t == [k \in Batches |-> Call("insert", c, k, from)]
           r == s \o t
<1>1. NumBatches \in Nat
  BY DatabaseAssumption
<1>2. ClearCall(c) \in S /\ \A k \in Batches : Call("insert", c, k, from) \in S
  BY DEF Copying
<1>3. s \in Seq(S) /\ Len(s) = 1 /\ s[1] = ClearCall(c)
  BY <1>2
<1>4. t \in Seq(S) /\ Len(t) = NumBatches
  BY <1>1, <1>2 DEF Batches
<1>5. \A k \in Batches : t[k] = Call("insert", c, k, from)
  OBVIOUS
<1> HIDE DEF s, t
<1>6. /\ r \in Seq(S) /\ Len(r) = 1 + NumBatches
      /\ \A i \in 1 .. 1 + NumBatches : r[i] = IF i =< 1 THEN s[i] ELSE t[i - 1]
  <2>1. /\ r \in Seq(S) /\ Len(r) = Len(s) + Len(t)
        /\ \A i \in 1 .. Len(s) + Len(t) : r[i] = IF i =< Len(s) THEN s[i] ELSE t[i - Len(s)]
    BY <1>3, <1>4, ConcatProperties
  <2>2. Len(s) = 1 /\ Len(t) = NumBatches
    BY <1>3, <1>4
  <2> HIDE DEF r
  <2>3. QED  BY Zenon, <2>1, <2>2
<1> HIDE DEF r
<1>7. r[1] = ClearCall(c)
  BY <1>1, <1>3, <1>6
<1>8. ASSUME NEW k \in Batches PROVE r[k + 1] = Call("insert", c, k, from)
  <2>1. k + 1 \in 1 .. 1 + NumBatches /\ ~(k + 1 =< 1) /\ (k + 1) - 1 = k
    BY <1>1 DEF Batches
  <2>2. r[k + 1] = t[k]
    BY <1>6, <2>1
  <2>3. QED  BY <1>5, <2>2
<1>9. r = Replace(c, from)
  BY DEF r, s, t, Replace, ClearCall
<1>10. 1 + NumBatches = NumBatches + 1
  BY <1>1
<1>11. QED  BY <1>6, <1>7, <1>8, <1>9, <1>10

(* The fields of a call.                                                   *)
LEMMA CallFields ==
    ASSUME NEW op, NEW c, NEW k, NEW from, NEW a, a = Call(op, c, k, from)
    PROVE  a.op = op /\ a.coll = c /\ a.key = k /\ a.from = from
BY DEF Call

(* The migrations that do nothing but replace a collection.                *)
LEMMA CopyPart ==
    ASSUME NEW u \in AllUnits, NEW c, NEW from, Copying(c, from) \subseteq Calls(u), u # "0009",
           ~(u = "0002" /\ c = "sde_types")
    PROVE  Part(Unit(IdOf(u), u, Replace(c, from)), StepOf(u, ClearCall(c)), StepOf(u, RecordCall(u)), {u})
<1> DEFINE s == Replace(c, from)
<1>0. StepsCall.op = "steps"
  BY DEF StepsCall, Call
<1>1. /\ s \in Seq(Calls(u)) /\ Len(s) = NumBatches + 1 /\ s[1] = ClearCall(c)
      /\ \A k \in Batches : s[k + 1] = Call("insert", c, k, from)
  BY ReplaceCalls
<1>2. NumBatches \in Nat \ {0}
  BY DatabaseAssumption
<1> HIDE DEF s
<1>3. s[1].op = "clear" /\ s[1].coll = c
  <2>1. s[1] = Call("clear", c, 0, "none")
    BY <1>1 DEF ClearCall
  <2> DEFINE a == s[1]
  <2>2. a = Call("clear", c, 0, "none")
    BY <2>1
  <2> HIDE DEF a
  <2>3. a.op = "clear" /\ a.coll = c
    BY <2>2, CallFields
  <2>4. QED  BY <2>3 DEF a
<1>4. ASSUME NEW k \in Batches
      PROVE  s[k + 1].op = "insert" /\ s[k + 1].coll = c /\ s[k + 1].key = k
  <2>1. s[k + 1] = Call("insert", c, k, from)
    BY <1>1
  <2> DEFINE a == s[k + 1]
  <2>2. a = Call("insert", c, k, from)
    BY <2>1
  <2> HIDE DEF a
  <2>3. a.op = "insert" /\ a.coll = c /\ a.key = k
    BY <2>2, CallFields
  <2>4. QED  BY <2>3 DEF a
<1>5. \A i \in 1 .. Len(s) - 1 : Inner(u, s[i], s[i + 1])
  <2> TAKE i \in 1 .. Len(s) - 1
  <2>1. i \in Batches /\ i \in Nat
    BY <1>1, <1>2 DEF Batches
  <2>2. s[i + 1].op = "insert" /\ s[i + 1].coll = c /\ s[i + 1].key = i
    BY <1>4, <2>1
  <2>3. CASE i = 1
    BY <1>3, <2>2, <2>3 DEF Inner
  <2>4. CASE i # 1
    <3>1. i - 1 \in Batches /\ (i - 1) + 1 = i /\ i - 1 < NumBatches
      BY <1>2, <2>1, <2>4 DEF Batches
    <3>2. s[i].op = "insert" /\ s[i].coll = c /\ s[i].key = i - 1
      BY <1>4, <3>1
    <3>3. QED  BY <2>2, <3>1, <3>2 DEF Inner
  <2>5. QED  BY <2>3, <2>4
<1>6. s[Len(s)].op = "insert" /\ s[Len(s)].coll = c /\ s[Len(s)].key = NumBatches
  <2>1. NumBatches \in Batches
    BY <1>2 DEF Batches
  <2>2. QED  BY <1>1, <1>4, <2>1
<1>7. Inner(u, s[Len(s)], RecordCall(u))
  BY <1>6 DEF Inner
<1>8. \A i \in 1 .. Len(s) : s[i] # StepsCall
  <2> TAKE i \in 1 .. Len(s)
  <2>1. CASE i = 1
    BY <1>0, <1>3, <2>1
  <2>2. CASE i # 1
    <3>1. i - 1 \in Batches /\ (i - 1) + 1 = i
      BY <1>1, <1>2, <2>2 DEF Batches
    <3>2. s[i].op = "insert"
      BY <1>4, <3>1
    <3>3. QED  BY <1>0, <3>2
  <2>3. QED  BY <2>1, <2>2
<1>9. Part(Unit(IdOf(u), u, s), StepOf(u, ClearCall(c)), StepOf(u, RecordCall(u)), {u})
  <2>1. Len(s) \in Nat /\ Len(s) > 0
    BY <1>1, <1>2
  <2>2. s[1] = IF Len(s) = 0 THEN RecordCall(u) ELSE s[1]
    BY <2>1
  <2>3. /\ \A i \in 1 .. Len(s) - 1 : s[i] # StepsCall /\ Inner(u, s[i], s[i + 1])
        /\ s[Len(s)] # StepsCall
    BY <1>5, <1>8, <2>1
  <2>4. QED  BY <1>1, <1>7, <2>2, <2>3, UnitPart
<1>10. QED  BY <1>9 DEF s

(* The ones with one call and with two or three.                           *)
LEMMA ShortPart ==
    ASSUME NEW u \in AllUnits, NEW a, NEW b, NEW c, NEW calls, calls \in {<<a>>, <<a, b>>, <<a, b, c>>},
           a \in Calls(u) \ {StepsCall},
           calls # <<a>> => b \in Calls(u) \ {StepsCall} /\ Inner(u, a, b),
           calls = <<a, b, c>> => c \in Calls(u) \ {StepsCall} /\ Inner(u, b, c),
           Inner(u, calls[Len(calls)], RecordCall(u))
    PROVE  Part(Unit(IdOf(u), u, calls), StepOf(u, a), StepOf(u, RecordCall(u)), {u})
<1>1. /\ calls \in Seq(Calls(u)) /\ Len(calls) \in 1 .. 3 /\ a = calls[1]
      /\ Len(calls) > 1 => b = calls[2] /\ b # StepsCall /\ Inner(u, a, b)
      /\ Len(calls) > 2 => c = calls[3] /\ c # StepsCall /\ Inner(u, b, c)
  <2>1. CASE calls = <<a>>
    BY <2>1
  <2>2. CASE calls = <<a, b>>
    <3>1. calls # <<a>> /\ calls # <<a, b, c>>
      BY <2>2
    <3>2. QED  BY <2>2, <3>1
  <2>3. CASE calls = <<a, b, c>>
    <3>1. calls # <<a>>
      BY <2>3
    <3>2. QED  BY <2>3, <3>1
  <2>4. QED  BY <2>1, <2>2, <2>3
<1>2. \A i \in 1 .. Len(calls) - 1 : calls[i] # StepsCall /\ Inner(u, calls[i], calls[i + 1])
  <2> TAKE i \in 1 .. Len(calls) - 1
  <2>1. (i = 1 /\ Len(calls) > 1) \/ (i = 2 /\ Len(calls) > 2)
    BY <1>1
  <2>2. CASE i = 1 /\ Len(calls) > 1
    BY <1>1, <2>2
  <2>3. CASE i = 2 /\ Len(calls) > 2
    BY <1>1, <2>3
  <2>4. QED  BY <2>1, <2>2, <2>3
<1>3. calls[Len(calls)] # StepsCall
  BY <1>1
<1>4. a = IF Len(calls) = 0 THEN RecordCall(u) ELSE calls[1]
  BY <1>1
<1>5. QED  BY <1>1, <1>2, <1>3, <1>4, UnitPart

(* The units of the script, each as one chain.                             *)
LEMMA PartsOfScript ==
    /\ Part(Unit("0001", "0001", <<>>), StepOf("0001", First("0001")), StepOf("0001", RecordCall("0001")), {"0001"})
    /\ Part(M0003, StepOf("0003", First("0003")), StepOf("0003", RecordCall("0003")), {"0003"})
    /\ Part(M0004, StepOf("0004", First("0004")), StepOf("0004", RecordCall("0004")), {"0004"})
    /\ Part(M0005, StepOf("0005", First("0005")), StepOf("0005", RecordCall("0005")), {"0005"})
    /\ Part(M0006, StepOf("0006", First("0006")), StepOf("0006", RecordCall("0006")), {"0006"})
    /\ Part(M0007, StepOf("0007", First("0007")), StepOf("0007", RecordCall("0007")), {"0007"})
    /\ Part(M0008, StepOf("0008", First("0008")), StepOf("0008", RecordCall("0008")), {"0008"})
    /\ Part(M0009, StepOf("0009", First("0009")), StepOf("0009", RecordCall("0009")), {"0009"})
    /\ Part(M0010, StepOf("0010", First("0010")), StepOf("0010", RecordCall("0010")), {"0010"})
    /\ \A t \in Tables : Part(Unit("0001", t, Replace(t, "dump")), StepOf(t, First(t)), StepOf(t, RecordCall(t)), {t})
<1>1. Part(M0003, StepOf("0003", First("0003")), StepOf("0003", RecordCall("0003")), {"0003"})
  <2> DEFINE a == ReadCall("invTypes")
             b == Call("volume", "sde_types", 0, "invTypes")
             calls == <<a, b>>
  <2>1. /\ "0003" \in AllUnits
        /\ a \in Calls("0003") \ {StepsCall}
        /\ b \in Calls("0003") \ {StepsCall}
    BY DEF AllUnits, Calls, ClearCall, ReadCall, StepsCall, Call
  <2>2. Inner("0003", a, b) /\ Inner("0003", b, RecordCall("0003"))
    BY DEF Inner, ClearCall, ReadCall, Call
  <2>3. Len(calls) = 2 /\ calls[2] = b
    OBVIOUS
  <2>4. M0003 = Unit("0003", "0003", calls) /\ First("0003") = a
    BY DEF M0003, ClearCall, ReadCall, First
  <2> HIDE DEF a, b
  <2>5. calls # <<a, b, b>> /\ calls # <<a>>
    OBVIOUS
  <2>6. Part(Unit(IdOf("0003"), "0003", calls), StepOf("0003", a), StepOf("0003", RecordCall("0003")), {"0003"})
    BY <2>1, <2>2, <2>3, <2>5, ShortPart
  <2>7. IdOf("0003") = "0003"
    BY DEF IdOf, Tables
  <2>8. QED  BY <2>4, <2>6, <2>7
<1>2. Part(M0004, StepOf("0004", First("0004")), StepOf("0004", RecordCall("0004")), {"0004"})
  <2> DEFINE a == ReadCall("sde_types")
             b == Call("category_id", "sde_types", 0, "sde_types")
             calls == <<a, b>>
  <2>1. /\ "0004" \in AllUnits
        /\ a \in Calls("0004") \ {StepsCall}
        /\ b \in Calls("0004") \ {StepsCall}
    BY DEF AllUnits, Calls, ClearCall, ReadCall, StepsCall, Call
  <2>2. Inner("0004", a, b) /\ Inner("0004", b, RecordCall("0004"))
    BY DEF Inner, ClearCall, ReadCall, Call
  <2>3. Len(calls) = 2 /\ calls[2] = b
    OBVIOUS
  <2>4. M0004 = Unit("0004", "0004", calls) /\ First("0004") = a
    BY DEF M0004, ClearCall, ReadCall, First
  <2> HIDE DEF a, b
  <2>5. calls # <<a, b, b>> /\ calls # <<a>>
    OBVIOUS
  <2>6. Part(Unit(IdOf("0004"), "0004", calls), StepOf("0004", a), StepOf("0004", RecordCall("0004")), {"0004"})
    BY <2>1, <2>2, <2>3, <2>5, ShortPart
  <2>7. IdOf("0004") = "0004"
    BY DEF IdOf, Tables
  <2>8. QED  BY <2>4, <2>6, <2>7
<1>3. Part(M0008, StepOf("0008", First("0008")), StepOf("0008", RecordCall("0008")), {"0008"})
  <2> DEFINE a == ReadCall("industryActivity")
             b == Call("upsert", "sde_blueprints", ReactionKey, "industryActivity")
             c == Call("activity_id", "sde_blueprints", 0, "none")
             calls == <<a, b, c>>
  <2>1. /\ "0008" \in AllUnits
        /\ a \in Calls("0008") \ {StepsCall}
        /\ b \in Calls("0008") \ {StepsCall}
        /\ c \in Calls("0008") \ {StepsCall}
    BY DEF AllUnits, Calls, ClearCall, ReadCall, StepsCall, Call
  <2>2. Inner("0008", a, b) /\ Inner("0008", b, c) /\ Inner("0008", c, RecordCall("0008"))
    BY DEF Inner, ClearCall, ReadCall, Call
  <2>3. Len(calls) = 3 /\ calls[3] = c
    OBVIOUS
  <2>4. M0008 = Unit("0008", "0008", calls) /\ First("0008") = a
    BY DEF M0008, ClearCall, ReadCall, First
  <2> HIDE DEF a, b, c
  <2>5. calls # <<a>>
    OBVIOUS
  <2>6. Part(Unit(IdOf("0008"), "0008", calls), StepOf("0008", a), StepOf("0008", RecordCall("0008")), {"0008"})
    BY <2>1, <2>2, <2>3, <2>5, ShortPart
  <2>7. IdOf("0008") = "0008"
    BY DEF IdOf, Tables
  <2>8. QED  BY <2>4, <2>6, <2>7
<1>4. Part(M0009, StepOf("0009", First("0009")), StepOf("0009", RecordCall("0009")), {"0009"})
  <2> DEFINE a == ClearCall("market_order_history")
             calls == <<a>>
  <2>1. /\ "0009" \in AllUnits
        /\ a \in Calls("0009") \ {StepsCall}
    BY DEF AllUnits, Calls, ClearCall, ReadCall, StepsCall, Call
  <2>2. Inner("0009", a, RecordCall("0009"))
    BY DEF Inner, ClearCall, ReadCall, Call
  <2>3. Len(calls) = 1 /\ calls[1] = a
    OBVIOUS
  <2>4. M0009 = Unit("0009", "0009", calls) /\ First("0009") = a
    BY DEF M0009, ClearCall, ReadCall, First
  <2> HIDE DEF a
  <2>5. calls # <<a, a>> /\ calls # <<a, a, a>>
    OBVIOUS
  <2>6. Part(Unit(IdOf("0009"), "0009", calls), StepOf("0009", a), StepOf("0009", RecordCall("0009")), {"0009"})
    BY <2>1, <2>2, <2>3, <2>5, ShortPart
  <2>7. IdOf("0009") = "0009"
    BY DEF IdOf, Tables
  <2>8. QED  BY <2>4, <2>6, <2>7
<1>5. Part(M0010, StepOf("0010", First("0010")), StepOf("0010", RecordCall("0010")), {"0010"})
  <2> DEFINE a == Call("index", "none", 0, "none")
             calls == <<a>>
  <2>1. /\ "0010" \in AllUnits
        /\ a \in Calls("0010") \ {StepsCall}
    BY DEF AllUnits, Calls, ClearCall, ReadCall, StepsCall, Call
  <2>2. Inner("0010", a, RecordCall("0010"))
    BY DEF Inner, ClearCall, ReadCall, Call
  <2>3. Len(calls) = 1 /\ calls[1] = a
    OBVIOUS
  <2>4. M0010 = Unit("0010", "0010", calls) /\ First("0010") = a
    BY DEF M0010, ClearCall, ReadCall, First
  <2> HIDE DEF a
  <2>5. calls # <<a, a>> /\ calls # <<a, a, a>>
    OBVIOUS
  <2>6. Part(Unit(IdOf("0010"), "0010", calls), StepOf("0010", a), StepOf("0010", RecordCall("0010")), {"0010"})
    BY <2>1, <2>2, <2>3, <2>5, ShortPart
  <2>7. IdOf("0010") = "0010"
    BY DEF IdOf, Tables
  <2>8. QED  BY <2>4, <2>6, <2>7
<1>6. Part(Unit("0001", "0001", <<>>), StepOf("0001", First("0001")), StepOf("0001", RecordCall("0001")), {"0001"})
  <2>1. "0001" \in AllUnits /\ IdOf("0001") = "0001" /\ First("0001") = RecordCall("0001")
    BY DEF AllUnits, IdOf, Tables, First
  <2>2. <<>> \in Seq(Calls("0001")) /\ Len(<<>>) = 0
    OBVIOUS
  <2> DEFINE calls == <<>>
  <2> HIDE DEF calls
  <2>3. calls \in Seq(Calls("0001")) /\ Len(calls) = 0
    BY <2>2 DEF calls
  <2>4. Part(Unit(IdOf("0001"), "0001", calls), StepOf("0001", First("0001")), StepOf("0001", RecordCall("0001")), {"0001"})
    <3>1. First("0001") = IF Len(calls) = 0 THEN RecordCall("0001") ELSE calls[1]
      BY <2>1, <2>3
    <3>2. \A i \in 1 .. Len(calls) - 1 : calls[i] # StepsCall /\ Inner("0001", calls[i], calls[i + 1])
      BY <2>3
    <3>3. Len(calls) > 0 => calls[Len(calls)] # StepsCall /\ Inner("0001", calls[Len(calls)], RecordCall("0001"))
      BY <2>3
    <3>4. QED  BY <2>1, <2>3, <3>1, <3>2, <3>3, UnitPart
  <2>5. QED  BY <2>1, <2>4 DEF calls
<1>7. Part(M0005, StepOf("0005", First("0005")), StepOf("0005", RecordCall("0005")), {"0005"})
  <2>1. "0005" \in AllUnits /\ IdOf("0005") = "0005" /\ First("0005") = ClearCall("sde_categories")
    BY DEF AllUnits, IdOf, Tables, First
  <2>2. Copying("sde_categories", "dump") \subseteq Calls("0005")
    BY DEF Calls
  <2>3. Part(Unit(IdOf("0005"), "0005", Replace("sde_categories", "dump")), StepOf("0005", ClearCall("sde_categories")),
             StepOf("0005", RecordCall("0005")), {"0005"})
    BY <2>1, <2>2, CopyPart
  <2>4. QED  BY <2>1, <2>3 DEF M0005
<1>8. Part(M0006, StepOf("0006", First("0006")), StepOf("0006", RecordCall("0006")), {"0006"})
  <2>1. "0006" \in AllUnits /\ IdOf("0006") = "0006" /\ First("0006") = ClearCall("sde_planet_schematics")
    BY DEF AllUnits, IdOf, Tables, First
  <2>2. Copying("sde_planet_schematics", "dump") \subseteq Calls("0006")
    BY DEF Calls
  <2>3. Part(Unit(IdOf("0006"), "0006", Replace("sde_planet_schematics", "dump")), StepOf("0006", ClearCall("sde_planet_schematics")),
             StepOf("0006", RecordCall("0006")), {"0006"})
    BY <2>1, <2>2, CopyPart
  <2>4. QED  BY <2>1, <2>3 DEF M0006
<1>9. Part(M0007, StepOf("0007", First("0007")), StepOf("0007", RecordCall("0007")), {"0007"})
  <2>1. "0007" \in AllUnits /\ IdOf("0007") = "0007" /\ First("0007") = ClearCall("sde_planet_schematics")
    BY DEF AllUnits, IdOf, Tables, First
  <2>2. Copying("sde_planet_schematics", "dump") \subseteq Calls("0007")
    BY DEF Calls
  <2>3. Part(Unit(IdOf("0007"), "0007", Replace("sde_planet_schematics", "dump")), StepOf("0007", ClearCall("sde_planet_schematics")),
             StepOf("0007", RecordCall("0007")), {"0007"})
    BY <2>1, <2>2, CopyPart
  <2>4. QED  BY <2>1, <2>3 DEF M0007
<1>10. ASSUME NEW t \in Tables
       PROVE  Part(Unit("0001", t, Replace(t, "dump")), StepOf(t, First(t)), StepOf(t, RecordCall(t)), {t})
  <2>1. t \in AllUnits /\ IdOf(t) = "0001" /\ First(t) = ClearCall(t)
    BY DEF AllUnits, IdOf, Tables, First
  <2>2. Copying(t, "dump") \subseteq Calls(t)
    BY DEF Calls, Tables
  <2>3. t # "0009" /\ t # "0002"
    BY DEF Tables
  <2>4. Part(Unit(IdOf(t), t, Replace(t, "dump")), StepOf(t, ClearCall(t)), StepOf(t, RecordCall(t)), {t})
    BY <2>1, <2>2, <2>3, CopyPart
  <2>5. QED  BY <2>1, <2>4
<1>11. QED  BY <1>1, <1>2, <1>3, <1>4, <1>5, <1>6, <1>7, <1>8, <1>9, <1>10

(* 0002 reads both tables and replaces two collections.                    *)
LEMMA LookupPart == Part(M0002, StepOf("0002", First("0002")), StepOf("0002", RecordCall("0002")), {"0002"})
<1> DEFINE u == "0002"
           a == ReadCall("invTypes")
           b == ReadCall("industryActivity")
           s == Replace("sde_types", "invTypes")
           t == Replace("sde_blueprints", "industryActivity")
           r == <<a, b>> \o s
           calls == r \o t
           n == NumBatches + 1
<1>1. /\ u \in AllUnits /\ IdOf(u) = u /\ First(u) = a /\ M0002 = Unit(u, u, calls)
      /\ a \in Calls(u) /\ b \in Calls(u)
      /\ Copying("sde_types", "invTypes") \subseteq Calls(u)
      /\ Copying("sde_blueprints", "industryActivity") \subseteq Calls(u)
  BY DEF AllUnits, IdOf, Tables, First, M0002, Calls, ReadCall
<1>2. n \in Nat /\ n > 1 /\ NumBatches \in Nat /\ NumBatches = n - 1
  BY DatabaseAssumption
<1>3. /\ s \in Seq(Calls(u)) /\ Len(s) = n /\ s[1] = ClearCall("sde_types")
      /\ \A k \in Batches : s[k + 1] = Call("insert", "sde_types", k, "invTypes")
  BY <1>1, ReplaceCalls
<1>4. /\ t \in Seq(Calls(u)) /\ Len(t) = n /\ t[1] = ClearCall("sde_blueprints")
      /\ \A k \in Batches : t[k + 1] = Call("insert", "sde_blueprints", k, "industryActivity")
  BY <1>1, ReplaceCalls
<1> HIDE DEF s, t, a, b, u
<1>5. /\ r \in Seq(Calls(u)) /\ Len(r) = 2 + n /\ r[1] = a /\ r[2] = b
      /\ \A i \in 1 .. n : r[2 + i] = s[i]
  <2>1. <<a, b>> \in Seq(Calls(u)) /\ Len(<<a, b>>) = 2 /\ <<a, b>>[1] = a /\ <<a, b>>[2] = b
    BY <1>1
  <2>2. /\ r \in Seq(Calls(u)) /\ Len(r) = Len(<<a, b>>) + Len(s)
        /\ \A i \in 1 .. Len(<<a, b>>) + Len(s) :
             r[i] = IF i =< Len(<<a, b>>) THEN <<a, b>>[i] ELSE s[i - Len(<<a, b>>)]
    BY <1>3, <2>1, ConcatProperties
  <2> HIDE DEF r, n
  <2>3. Len(r) = 2 + n /\ \A i \in 1 .. 2 + n : r[i] = IF i =< 2 THEN <<a, b>>[i] ELSE s[i - 2]
    BY Zenon, <1>3, <2>1, <2>2
  <2>4. 1 \in 1 .. 2 + n /\ 2 \in 1 .. 2 + n
    BY <1>2
  <2>5. \A i \in 1 .. n : 2 + i \in 1 .. 2 + n /\ ~(2 + i =< 2) /\ (2 + i) - 2 = i
    BY <1>2
  <2>6. QED  BY <2>1, <2>2, <2>3, <2>4, <2>5
<1> HIDE DEF r
<1>6. /\ calls \in Seq(Calls(u)) /\ Len(calls) = 2 + n + n
      /\ \A i \in 1 .. 2 + n : calls[i] = r[i]
      /\ \A i \in 1 .. n : calls[2 + n + i] = t[i]
  <2>1. /\ calls \in Seq(Calls(u)) /\ Len(calls) = Len(r) + Len(t)
        /\ \A i \in 1 .. Len(r) + Len(t) : calls[i] = IF i =< Len(r) THEN r[i] ELSE t[i - Len(r)]
    BY <1>4, <1>5, ConcatProperties
  <2> HIDE DEF calls, n
  <2>2. Len(calls) = 2 + n + n /\ \A i \in 1 .. 2 + n + n : calls[i] = IF i =< 2 + n THEN r[i] ELSE t[i - (2 + n)]
    BY Zenon, <1>4, <1>5, <2>1
  <2>3. \A i \in 1 .. 2 + n : i \in 1 .. 2 + n + n /\ i =< 2 + n
    BY <1>2
  <2>4. \A i \in 1 .. n : 2 + n + i \in 1 .. 2 + n + n /\ ~(2 + n + i =< 2 + n) /\ (2 + n + i) - (2 + n) = i
    BY <1>2
  <2>5. QED  BY <2>1, <2>2, <2>3, <2>4
<1> HIDE DEF calls, n
<1>7. /\ calls[1] = a /\ calls[2] = b /\ calls[3] = ClearCall("sde_types")
      /\ calls[3 + n] = ClearCall("sde_blueprints")
      /\ \A k \in Batches : /\ calls[3 + k] = Call("insert", "sde_types", k, "invTypes")
                             /\ calls[3 + n + k] = Call("insert", "sde_blueprints", k, "industryActivity")
  <2>1. 1 \in 1 .. n /\ \A k \in Batches : k + 1 \in 1 .. n
    BY <1>2 DEF Batches
  <2>2. \A i \in 1 .. n : calls[2 + i] = s[i]
    <3>1. \A i \in 1 .. n : 2 + i \in 1 .. 2 + n
      BY <1>2
    <3>2. QED  BY <1>5, <1>6, <3>1
  <2>3. calls[2 + 1] = s[1] /\ calls[2 + n + 1] = t[1]
    BY <1>6, <2>1, <2>2
  <2>4. ASSUME NEW k \in Batches
        PROVE  calls[2 + (k + 1)] = s[k + 1] /\ calls[2 + n + (k + 1)] = t[k + 1]
    BY <1>6, <2>1, <2>2
  <2>5. 2 + 1 = 3 /\ 2 + n + 1 = 3 + n /\ \A k \in Batches : 2 + (k + 1) = 3 + k /\ 2 + n + (k + 1) = 3 + n + k
    BY <1>2 DEF Batches
  <2>6. calls[1] = r[1] /\ calls[2] = r[2]
    BY <1>2, <1>6
  <2>7. QED  BY <1>3, <1>4, <1>5, <2>3, <2>4, <2>5, <2>6
<1>8. ASSUME NEW i \in 1 .. 2 + n + n
      PROVE  /\ calls[i] # StepsCall
             /\ i < 2 + n + n => Inner(u, calls[i], calls[i + 1])
             /\ i = 2 + n + n => Inner(u, calls[i], RecordCall(u))
  <2>1. CASE i = 1
    BY <1>2, <1>7, <2>1 DEF a, b, u, Inner, StepsCall, ReadCall, Call
  <2>2. CASE i = 2
    BY <1>2, <1>7, <2>2 DEF a, b, u, Inner, StepsCall, ReadCall, Call
  <2>3. CASE i = 3 \/ i = 3 + n
    <3>1. 1 \in Batches
      BY <1>2 DEF Batches
    <3>2. /\ calls[3 + 1] = Call("insert", "sde_types", 1, "invTypes")
          /\ calls[3 + n + 1] = Call("insert", "sde_blueprints", 1, "industryActivity")
      BY <1>7, <3>1
    <3>3. PICK c : calls[i] = ClearCall(c) /\ calls[i + 1].op = "insert" /\ calls[i + 1].coll = c /\ calls[i + 1].key = 1
      <4>1. CASE i = 3
        BY <1>7, <3>2, <4>1 DEF Call
      <4>2. CASE i = 3 + n
        BY <1>7, <3>2, <4>2 DEF Call
      <4>3. QED  BY <2>3, <4>1, <4>2
    <3>4. i < 2 + n + n
      BY <1>2, <2>3
    <3>5. calls[i].op = "clear" /\ calls[i].coll \in {c}
      BY <3>3 DEF ClearCall, Call
    <3>6. StepsCall.op = "steps" /\ u # "0009"
      BY DEF StepsCall, Call, u
    <3>7. QED  BY <3>3, <3>4, <3>5, <3>6 DEF Inner
  <2>4. CASE i \in 4 .. 2 + n \/ i \in 4 + n .. 2 + n + n
    <3>1. PICK k \in Batches, c \in {"sde_types", "sde_blueprints"} :
            /\ calls[i].op = "insert" /\ calls[i].coll = c /\ calls[i].key = k
            /\ c = "sde_types" => i = 3 + k
            /\ c = "sde_blueprints" => i = 3 + n + k
      <4>1. CASE i \in 4 .. 2 + n
        <5>1. i - 3 \in Batches /\ i = 3 + (i - 3)
          BY <1>2, <4>1 DEF Batches
        <5>2. calls[i] = Call("insert", "sde_types", i - 3, "invTypes")
          BY <1>7, <5>1
        <5>3. QED  BY <5>1, <5>2 DEF Call
      <4>2. CASE i \in 4 + n .. 2 + n + n
        <5>1. i - (3 + n) \in Batches /\ i = 3 + n + (i - (3 + n))
          BY <1>2, <4>2 DEF Batches
        <5>2. calls[i] = Call("insert", "sde_blueprints", i - (3 + n), "industryActivity")
          BY <1>7, <5>1
        <5>3. QED  BY <5>1, <5>2 DEF Call
      <4>3. QED  BY <2>4, <4>1, <4>2
    <3>2. StepsCall.op = "steps"
      BY DEF StepsCall, Call
    <3>3. CASE k < NumBatches
      <4>1. k + 1 \in Batches /\ i < 2 + n + n
        BY <1>2, <3>1, <3>3 DEF Batches
      <4>2. calls[i + 1].op = "insert" /\ calls[i + 1].coll = c /\ calls[i + 1].key = k + 1
        <5>1. /\ calls[3 + (k + 1)] = Call("insert", "sde_types", k + 1, "invTypes")
              /\ calls[3 + n + (k + 1)] = Call("insert", "sde_blueprints", k + 1, "industryActivity")
          BY <1>7, <4>1
        <5>2. 3 + (k + 1) = (3 + k) + 1 /\ 3 + n + (k + 1) = (3 + n + k) + 1
          BY <1>2 DEF Batches
        <5>3. QED  BY <3>1, <5>1, <5>2 DEF Call
      <4>3. QED  BY <3>1, <3>2, <3>3, <4>1, <4>2 DEF Inner
    <3>4. CASE k = NumBatches
      <4>1. CASE c = "sde_types"
        <5>1. i + 1 = 3 + n /\ i < 2 + n + n
          BY <1>2, <3>1, <3>4, <4>1
        <5>2. calls[i + 1] = ClearCall("sde_blueprints")
          BY <1>7, <5>1
        <5>3. QED  BY <3>1, <3>2, <3>4, <4>1, <5>1, <5>2 DEF Inner, u
      <4>2. CASE c = "sde_blueprints"
        <5>1. i = 2 + n + n
          BY <1>2, <3>1, <3>4, <4>2
        <5>2. QED  BY <3>1, <3>2, <3>4, <4>2, <5>1 DEF Inner
      <4>3. QED  BY <4>1, <4>2
    <3>5. QED  BY <1>2, <3>3, <3>4 DEF Batches
  <2>5. QED  BY <1>2, <2>1, <2>2, <2>3, <2>4
<1>9. Part(Unit(IdOf(u), u, calls), StepOf(u, a), StepOf(u, RecordCall(u)), {u})
  <2>1. \A i \in 1 .. Len(calls) - 1 : calls[i] # StepsCall /\ Inner(u, calls[i], calls[i + 1])
    BY <1>2, <1>6, <1>8
  <2>2. calls[Len(calls)] # StepsCall /\ Inner(u, calls[Len(calls)], RecordCall(u))
    BY <1>2, <1>6, <1>8
  <2>3. a = IF Len(calls) = 0 THEN RecordCall(u) ELSE calls[1]
    BY <1>2, <1>6, <1>7
  <2>4. QED  BY <1>1, <1>6, <2>1, <2>2, <2>3, UnitPart
<1>10. QED  BY <1>1, <1>9 DEF u, calls

(* The whole of it.                                                        *)
LEMMA ScriptIsOnePart == Part(Script, StepOf("0001", StepsCall), StepOf("0010", RecordCall("0010")), AllUnits)
<1> DEFINE From(u) == StepOf(u, First(u))
           To(u) == StepOf(u, RecordCall(u))
           s0 == <<StepOf("0001", StepsCall)>>
           s1 == Unit("0001", "industryActivity", Replace("industryActivity", "dump"))
           s2 == Unit("0001", "invTypes", Replace("invTypes", "dump"))
           s3 == Unit("0001", "0001", <<>>)
<1>1. \A u, v \in AllUnits : Rank(v) = Rank(u) + 1 => Follows(To(u), From(v))
  BY DEF StepOf, Follows
<1>2. /\ Rank("industryActivity") = 1 /\ Rank("invTypes") = 2 /\ Rank("0001") = 3 /\ Rank("0002") = 4
      /\ Rank("0003") = 5 /\ Rank("0004") = 6 /\ Rank("0005") = 7 /\ Rank("0006") = 8 /\ Rank("0007") = 9
      /\ Rank("0008") = 10 /\ Rank("0009") = 11 /\ Rank("0010") = 12
  BY DEF Rank
<1>3. Follows(StepOf("0001", StepsCall), From("industryActivity"))
  BY DEF Follows, StepOf, First
<1>4. Part(s0, StepOf("0001", StepsCall), StepOf("0001", StepsCall), {"0001"})
  <2> DEFINE x == StepOf("0001", StepsCall)
  <2>1. x \in Steps /\ x.unit = "0001"
    BY DEF Steps, AllUnits, Calls, StepOf
  <2> HIDE DEF x
  <2>2. <<x>> \in Seq(Steps) /\ Len(<<x>>) = 1 /\ <<x>>[1] = x
    BY <2>1
  <2>3. {<<x>>[i].unit : i \in 1 .. Len(<<x>>)} = {"0001"}
    BY <2>1, <2>2
  <2>4. Part(<<x>>, x, x, {"0001"})
    BY <2>2, <2>3 DEF Part
  <2>5. QED  BY <2>4 DEF x
<1>5. /\ Part(s1, From("industryActivity"), To("industryActivity"), {"industryActivity"})
      /\ Part(s2, From("invTypes"), To("invTypes"), {"invTypes"})
      /\ Part(s3, From("0001"), To("0001"), {"0001"})
      /\ Part(M0002, From("0002"), To("0002"), {"0002"}) /\ Part(M0003, From("0003"), To("0003"), {"0003"})
      /\ Part(M0004, From("0004"), To("0004"), {"0004"}) /\ Part(M0005, From("0005"), To("0005"), {"0005"})
      /\ Part(M0006, From("0006"), To("0006"), {"0006"}) /\ Part(M0007, From("0007"), To("0007"), {"0007"})
      /\ Part(M0008, From("0008"), To("0008"), {"0008"}) /\ Part(M0009, From("0009"), To("0009"), {"0009"})
      /\ Part(M0010, From("0010"), To("0010"), {"0010"})
  BY PartsOfScript, LookupPart DEF Tables
<1>6. M0001 = ((s0 \o s1) \o s2) \o s3
  BY DEF M0001, StepOf, StepsCall, IdOf, Tables
<1> HIDE DEF From, To
<1>8. /\ Follows(To("industryActivity"), From("invTypes"))
      /\ Follows(To("invTypes"), From("0001"))
      /\ Follows(To("0001"), From("0002"))
      /\ Follows(To("0002"), From("0003"))
      /\ Follows(To("0003"), From("0004"))
      /\ Follows(To("0004"), From("0005"))
      /\ Follows(To("0005"), From("0006"))
      /\ Follows(To("0006"), From("0007"))
      /\ Follows(To("0007"), From("0008"))
      /\ Follows(To("0008"), From("0009"))
      /\ Follows(To("0009"), From("0010"))
  BY <1>1, <1>2 DEF AllUnits
<1> DEFINE S == StepOf("0001", StepsCall)
           r0 == s0   v0 == {"0001"}
           r1 == r0 \o s1   v1 == v0 \cup {"industryActivity"}
           r2 == r1 \o s2   v2 == v1 \cup {"invTypes"}
           r3 == r2 \o s3   v3 == v2 \cup {"0001"}
           r4 == r3 \o M0002   v4 == v3 \cup {"0002"}
           r5 == r4 \o M0003   v5 == v4 \cup {"0003"}
           r6 == r5 \o M0004   v6 == v5 \cup {"0004"}
           r7 == r6 \o M0005   v7 == v6 \cup {"0005"}
           r8 == r7 \o M0006   v8 == v7 \cup {"0006"}
           r9 == r8 \o M0007   v9 == v8 \cup {"0007"}
           r10 == r9 \o M0008   v10 == v9 \cup {"0008"}
           r11 == r10 \o M0009   v11 == v10 \cup {"0009"}
           r12 == r11 \o M0010   v12 == v11 \cup {"0010"}
<1>9. Script = r12
  BY <1>6 DEF Script
<1>10. v12 = AllUnits
  BY DEF AllUnits
<1> HIDE DEF S, s0, s1, s2, s3, r1, v1, r2, v2, r3, v3, r4, v4, r5, v5, r6, v6, r7, v7, r8, v8, r9, v9, r10, v10, r11, v11, r12, v12
<1>11. Part(r1, S, To("industryActivity"), v1)
  BY <1>4, <1>5, <1>3, PartsJoin DEF S, r1, v1
<1>12. Part(r2, S, To("invTypes"), v2)
  BY <1>11, <1>5, <1>8, PartsJoin DEF r2, v2
<1>13. Part(r3, S, To("0001"), v3)
  BY <1>12, <1>5, <1>8, PartsJoin DEF r3, v3
<1>14. Part(r4, S, To("0002"), v4)
  BY <1>13, <1>5, <1>8, PartsJoin DEF r4, v4
<1>15. Part(r5, S, To("0003"), v5)
  BY <1>14, <1>5, <1>8, PartsJoin DEF r5, v5
<1>16. Part(r6, S, To("0004"), v6)
  BY <1>15, <1>5, <1>8, PartsJoin DEF r6, v6
<1>17. Part(r7, S, To("0005"), v7)
  BY <1>16, <1>5, <1>8, PartsJoin DEF r7, v7
<1>18. Part(r8, S, To("0006"), v8)
  BY <1>17, <1>5, <1>8, PartsJoin DEF r8, v8
<1>19. Part(r9, S, To("0007"), v9)
  BY <1>18, <1>5, <1>8, PartsJoin DEF r9, v9
<1>20. Part(r10, S, To("0008"), v10)
  BY <1>19, <1>5, <1>8, PartsJoin DEF r10, v10
<1>21. Part(r11, S, To("0009"), v11)
  BY <1>20, <1>5, <1>8, PartsJoin DEF r11, v11
<1>22. Part(r12, S, To("0010"), v12)
  BY <1>21, <1>5, <1>8, PartsJoin DEF r12, v12
<1>23. QED  BY <1>9, <1>10, <1>22 DEF S, To

-----------------------------------------------------------------------------
(* The migrations.  What may be in a collection, whatever has run.         *)
Sources == Tables \cup {"sde_types"}
RowsOf(c) == IF c = "sde_blueprints" THEN Keys ELSE Batches
Extra(c) == {t \in {"volume", "category_id"} : c = "sde_types"} \cup {t \in {"activity_id"} : c = "sde_blueprints"}
Pure(c, rows) ==
    /\ DOMAIN rows \subseteq RowsOf(c)
    /\ \A k \in DOMAIN rows : rows[k] \subseteq {Dump, OldDump} \cup Extra(c)

PureDocuments ==
    /\ DOMAIN docs = Collections /\ \A c \in Collections : Pure(c, docs[c])
    /\ DOMAIN seen = Holders
    /\ \A h \in Holders : DOMAIN seen[h] = Sources /\ \A c \in Sources : Pure(c, seen[h][c])

MigrationTypes ==
    /\ PureDocuments
    /\ applied \in [Holders -> SUBSET AllUnits]
    /\ at \in [Holders -> 0 .. End]

(* What the completed units have left in the collections d.                *)
Effects(d, units) ==
    /\ \A t \in Tables : t \in units => DOMAIN d[t] = Batches
    /\ "0002" \in units => DOMAIN d["sde_types"] = Batches /\ Batches \subseteq DOMAIN d["sde_blueprints"]
    /\ "0003" \in units => \A k \in DOMAIN d["sde_types"] : "volume" \in d["sde_types"][k]
    /\ "0004" \in units => \A k \in DOMAIN d["sde_types"] : "category_id" \in d["sde_types"][k]
    /\ "0005" \in units => DOMAIN d["sde_categories"] = Batches
    /\ "0007" \in units => DOMAIN d["sde_planet_schematics"] = Batches
    /\ "0008" \in units => /\ DOMAIN d["sde_blueprints"] = Keys
                           /\ \A k \in Keys : "activity_id" \in d["sde_blueprints"][k]
    /\ "0009" \in units => d["market_order_history"] = Empty

(* What the calls of unit u before `call` have made of the collections d   *)
(* and of s, the documents that were read.                                 *)
Ready(u, call, d, s) ==
    /\ call.op = "insert" => DOMAIN d[call.coll] = 1 .. call.key - 1
    /\ call.from \in Sources => DOMAIN s[call.from] = Batches
    /\ u = "0002" =>
         /\ call = ReadCall("industryActivity") \/ call.op \in {"clear", "insert"} =>
              DOMAIN s["invTypes"] = Batches
         /\ call.op \in {"clear", "insert"} => DOMAIN s["industryActivity"] = Batches
         /\ call.op \in {"clear", "insert"} /\ call.coll = "sde_blueprints" =>
              DOMAIN d["sde_types"] = Batches
    /\ call.op = "activity_id" => DOMAIN d["sde_blueprints"] = Keys
    /\ call.op = "record" => Effects(d, {u})

(* The units come one after the other; a pod that runs the calls of one    *)
(* finds all the units before it recorded, and no other.                   *)
Done(r) == {u \in AllUnits : Rank(u) < r}

Position(h) ==
    /\ at[h] # 0 => h \in inside
    /\ at[h] = 1 => applied[h] = {} /\ "0001" \notin recorded
    /\ at[h] \in 2 .. End - 1 =>
         /\ recorded = Done(Rank(Script[at[h]].unit))
         /\ applied[h] \subseteq recorded
         /\ Ready(Script[at[h]].unit, Script[at[h]].call, docs, seen[h])
    /\ at[h] = End => recorded = AllUnits

MigInv ==
    /\ MigrationTypes
    /\ \E r \in 1 .. 13 : recorded = Done(r)
    /\ Effects(docs, recorded)
    /\ \A h \in Holders : Position(h) /\ (sync[h].at # "off" => at[h] = End)
    /\ serving # {} => recorded = AllUnits

-----------------------------------------------------------------------------
(* The order of the naturals, as a relation.                               *)
LEMMA Below == ASSUME NEW m \in Nat, NEW n \in Nat, m < n PROVE <<m, n>> \in OpToRel(<, Nat)
BY DEF OpToRel

(* Naturals have a least one among them.                                   *)
LEMMA LeastNatural ==
    ASSUME NEW S \in SUBSET Nat, S # {}
    PROVE  \E m \in S : \A k \in S : m =< k
<1> DEFINE R == OpToRel(<, Nat)
<1>1. IsWellFoundedOn(R, Nat)
  BY NatLessThanWellFounded
<1> HIDE DEF R
<1>2. PICK m \in S : \A k \in S : ~(<<k, m>> \in R)
  BY <1>1, WFMin
<1>3. \A k \in S : k < m => <<k, m>> \in R
  BY Below DEF R
<1>4. ASSUME NEW k \in S PROVE m =< k
  <2>1. ~(k < m)
    BY <1>2, <1>3
  <2>2. m \in Nat /\ k \in Nat
    OBVIOUS
  <2> HIDE <1>1, <1>2, <1>3
  <2>3. QED  BY <2>1, <2>2
<1>5. QED  BY <1>4

(* Which unit comes when.                                                  *)
LEMMA Ranks ==
    /\ Rank("industryActivity") = 1 /\ Rank("invTypes") = 2 /\ Rank("0001") = 3 /\ Rank("0002") = 4
    /\ Rank("0003") = 5 /\ Rank("0004") = 6 /\ Rank("0005") = 7 /\ Rank("0006") = 8 /\ Rank("0007") = 9
    /\ Rank("0008") = 10 /\ Rank("0009") = 11 /\ Rank("0010") = 12
BY DEF Rank

(* No two units have the same rank; 0010 comes last.                       *)
LEMMA UnitFacts ==
    ASSUME NEW u \in AllUnits
    PROVE  /\ Rank(u) \in 1 .. 12 /\ (Rank(u) = 12 => u = "0010")
           /\ IdOf(u) \in AllUnits \ Tables
           /\ \A r \in 4 .. 13 : Rank(IdOf(u)) < r <=> Rank(u) < r
           /\ \A v \in AllUnits : Rank(v) = Rank(u) => v = u
<1>1. /\ Rank(u) \in 1 .. 12 /\ (Rank(u) = 12 => u = "0010")
      /\ \A v \in AllUnits : Rank(v) = Rank(u) => v = u
  BY Ranks DEF AllUnits
<1>2. CASE u \in Tables
  BY <1>1, <1>2, Ranks DEF IdOf, AllUnits, Tables
<1>3. CASE u \notin Tables
  BY <1>1, <1>3 DEF IdOf
<1>4. QED  BY <1>2, <1>3

(* What there is at the positions of the script.                           *)
LEMMA ScriptFacts ==
    /\ Len(Script) \in Nat /\ Len(Script) > 1 /\ End = Len(Script) + 1
    /\ DOMAIN Script = 1 .. Len(Script)
    /\ Script[1] = StepOf("0001", StepsCall)
    /\ Script[Len(Script)] = StepOf("0010", RecordCall("0010"))
    /\ \A i \in 1 .. Len(Script) :
         /\ Script[i].unit \in AllUnits /\ Script[i].call \in Calls(Script[i].unit)
         /\ Script[i].id = IdOf(Script[i].unit)
    /\ \A i \in 1 .. Len(Script) - 1 : Follows(Script[i], Script[i + 1])
    /\ \A i \in 2 .. Len(Script) : Script[i].call # StepsCall
    /\ Units = AllUnits /\ MigrationIds \subseteq AllUnits
<1> DEFINE n == Len(Script)
<1>1. /\ Script \in Seq(Steps) /\ n > 0
      /\ Script[1] = StepOf("0001", StepsCall) /\ Script[n] = StepOf("0010", RecordCall("0010"))
      /\ \A i \in 1 .. n - 1 : Follows(Script[i], Script[i + 1])
      /\ AllUnits = {Script[i].unit : i \in 1 .. n}
  BY ScriptIsOnePart DEF Part
<1>2. n \in Nat /\ DOMAIN Script = 1 .. n
  BY <1>1, LenProperties
<1>3. \A i \in 1 .. n : Script[i] \in Steps
  BY <1>1, ElementOfSeq
<1>4. StepsCall.op = "steps" /\ \A u : RecordCall(u).op = "record"
  BY DEF StepsCall, RecordCall, Call
<1>5. n # 1
  <2>1. StepOf("0001", StepsCall).call = StepsCall /\ StepOf("0010", RecordCall("0010")).call = RecordCall("0010")
    BY DEF StepOf
  <2>2. QED  BY <1>1, <1>4, <2>1
<1>6. ASSUME NEW i \in 1 .. n
      PROVE  /\ Script[i].unit \in AllUnits /\ Script[i].call \in Calls(Script[i].unit)
             /\ Script[i].id = IdOf(Script[i].unit)
  BY <1>3 DEF Steps, StepOf
<1>7. ASSUME NEW i \in 2 .. n PROVE Script[i].call # StepsCall
  <2> DEFINE x == Script[i - 1]
             y == Script[i]
  <2>1. i - 1 \in 1 .. n - 1 /\ (i - 1) + 1 = i /\ i \in 1 .. n
    BY <1>2
  <2>2. Follows(x, y) /\ y.unit \in AllUnits
    BY <1>1, <1>6, <2>1
  <2> HIDE DEF x, y
  <2>3. /\ \A u, a, b : Inner(u, a, b) => b.op # "steps"
        /\ \A u \in AllUnits : First(u).op # "steps"
    BY DEF Inner, First, AllUnits, ReadCall, ClearCall, RecordCall, Call
  <2>4. y.call.op # "steps"
    BY <2>2, <2>3 DEF Follows, StepOf, ClearCall, Call
  <2>5. QED  BY <1>4, <2>4 DEF y
<1>8. Units = AllUnits
  BY <1>1, <1>2 DEF Units
<1>9. MigrationIds \subseteq AllUnits
  BY <1>2, <1>6, UnitFacts DEF MigrationIds
<1>10. n > 1 /\ End = n + 1
  BY <1>1, <1>2, <1>5 DEF End
<1> HIDE DEF n
<1>11. QED  BY Zenon, <1>1, <1>2, <1>6, <1>7, <1>8, <1>9, <1>10 DEF n

(* A call is not skipped before its unit is recorded.                      *)
LEMMA NotSkipped ==
    ASSUME NEW u \in AllUnits, NEW r \in 1 .. 13, r =< Rank(u), NEW ids, ids \subseteq Done(r)
    PROVE  {IdOf(u), u} \cap ids = {}
<1>1. Rank(u) \in 1 .. 12 /\ Rank(u) =< Rank(IdOf(u))
  BY UnitFacts, Ranks DEF IdOf, Tables
<1>2. \A v \in Done(r) : Rank(v) \in 1 .. 12 /\ Rank(v) < r
  BY UnitFacts DEF Done
<1>3. u \notin ids /\ IdOf(u) \notin ids
  BY <1>1, <1>2
<1>4. QED  BY <1>3

(* In the middle of the script nothing is skipped any more.                *)
LEMMA NextCall ==
    ASSUME NEW i \in 2 .. End - 1, NEW ids, ids \subseteq Done(Rank(Script[i].unit) + 1),
           Script[i].call # RecordCall(Script[i].unit) => ids \subseteq Done(Rank(Script[i].unit))
    PROVE  After(i, ids) = i + 1
<1> DEFINE Wanted(j) == j = End \/ {Script[j].id, Script[j].unit} \cap ids = {}
           P(j) == Wanted(j) /\ \A k \in (i + 1) .. (j - 1) : {Script[k].id, Script[k].unit} \cap ids # {}
<1>1. i \in Nat /\ End \in Nat /\ i + 1 \in (i + 1) .. End /\ i \in 1 .. Len(Script)
  BY ScriptFacts
<1>2. Wanted(i + 1)
  <2>1. CASE i + 1 # End
    <3> DEFINE u == Script[i].unit
               v == Script[i + 1].unit
    <3>1. /\ Follows(Script[i], Script[i + 1]) /\ u \in AllUnits /\ v \in AllUnits
          /\ Script[i + 1].id = IdOf(v) /\ Script[i].call # StepsCall
      BY <1>1, <2>1, ScriptFacts
    <3> HIDE DEF u, v
    <3>2. PICK r \in 1 .. 13 : ids \subseteq Done(r) /\ r =< Rank(v)
      <4>1. Rank(u) \in 1 .. 12 /\ Rank(v) \in 1 .. 12
        BY <3>1, UnitFacts
      <4>2. CASE u = v /\ Script[i].call # RecordCall(u)
        BY <4>1, <4>2 DEF u
      <4>3. CASE Rank(v) = Rank(u) + 1
        BY <4>1, <4>3 DEF u
      <4>4. CASE Script[i].call = RecordCall(u)
        <5>1. \A b : ~Inner(u, RecordCall(u), b)
          BY DEF Inner, RecordCall, ReadCall, Call
        <5>2. Rank(v) = Rank(u) + 1
          BY <3>1, <4>4, <5>1 DEF Follows, u, v
        <5>3. QED  BY <4>3, <5>2
      <4>5. QED  BY <3>1, <4>2, <4>3, <4>4 DEF Follows, u, v
    <3>3. {IdOf(v), v} \cap ids = {}
      BY <3>1, <3>2, NotSkipped
    <3>4. QED  BY <3>1, <3>3 DEF v
  <2>2. QED  BY <2>1
<1>3. P(i + 1)
  BY <1>1, <1>2
<1>4. ASSUME NEW j \in (i + 1) .. End, P(j) PROVE j = i + 1
  <2>1. CASE j # i + 1
    <3>1. i + 1 \in (i + 1) .. (j - 1) /\ i + 1 # End
      BY <1>1, <2>1
    <3>2. QED  BY <1>2, <1>4, <3>1
  <2>2. QED  BY <2>1
<1>5. After(i, ids) = CHOOSE j \in (i + 1) .. End : P(j)
  BY DEF After
<1> HIDE DEF P
<1>6. QED  BY <1>1, <1>3, <1>4, <1>5

(* A pod that begins goes to the first call of the first unit that is not  *)
(* recorded, by way of the reading of the recorded steps of 0001.          *)
StandsAt(j, r) ==
    \/ r = 13 /\ j = End
    \/ /\ j \in 2 .. End - 1 /\ Rank(Script[j].unit) = r
       /\ Script[j].call = First(Script[j].unit)

(* With the units below r recorded, After stops at the first call of unit  *)
(* r.                                                                      *)
LEMMA FirstCall ==
    ASSUME NEW i \in {0, 1}, NEW ids, NEW r \in 1 .. 13, i = 0 => r > 3,
           \A u \in AllUnits : {IdOf(u), u} \cap ids # {} <=> Rank(u) < r
    PROVE  StandsAt(After(i, ids), r)
<1> DEFINE Skipped(k) == {Script[k].id, Script[k].unit} \cap ids # {}
           P(j) == (j = End \/ ~Skipped(j)) /\ \A k \in (i + 1) .. (j - 1) : Skipped(k)
           S == {j \in (i + 1) .. End : j = End \/ ~Skipped(j)}
<1>1. End \in Nat /\ End > 2 /\ i \in Nat /\ \A k \in 1 .. End - 1 : k \in 1 .. Len(Script)
  BY ScriptFacts
<1>2. \A k \in 1 .. End - 1 : Rank(Script[k].unit) \in 1 .. 12 /\ (Skipped(k) <=> Rank(Script[k].unit) < r)
  BY <1>1, ScriptFacts, UnitFacts
<1> HIDE DEF Skipped
<1>3. \E j \in (i + 1) .. End : P(j)
  <2>1. S \in SUBSET Nat /\ End \in S
    BY <1>1
  <2>2. PICK m \in S : \A k \in S : m =< k
    BY <2>1, LeastNatural
  <2>3. \A k \in (i + 1) .. (m - 1) : k \in (i + 1) .. End /\ k # End /\ ~(m =< k)
    BY <1>1, <2>2
  <2>4. P(m)
    BY <2>2, <2>3
  <2>5. QED  BY <2>2, <2>4
<1> DEFINE j == After(i, ids)
<1>4. j \in (i + 1) .. End /\ P(j)
  <2>1. j = CHOOSE k \in (i + 1) .. End : P(k)
    BY DEF After, Skipped
  <2> HIDE DEF P, j
  <2>2. QED  BY <1>3, <2>1
<1> HIDE DEF j
<1>5. CASE j = End
  <2>1. End - 1 \in (i + 1) .. (j - 1) /\ End - 1 \in 1 .. End - 1 /\ End - 1 = Len(Script)
    BY <1>1, <1>5, ScriptFacts
  <2>2. Script[End - 1].unit = "0010"
    BY <2>1, ScriptFacts DEF StepOf
  <2>3. 12 < r
    BY <1>2, <1>4, <2>1, <2>2, Ranks
  <2>4. QED  BY <1>5, <2>3 DEF StandsAt, j
<1>6. CASE j # End
  <2> DEFINE y == Script[j]
             x == Script[j - 1]
  <2>1. j \in 1 .. End - 1 /\ r =< Rank(y.unit) /\ Rank(y.unit) \in 1 .. 12
    BY <1>1, <1>2, <1>4, <1>6
  <2>2. j > 1
    <3>1. Script[1].unit = "0001"
      BY ScriptFacts DEF StepOf
    <3>2. CASE j = 1
      BY <1>4, <2>1, <3>1, <3>2, Ranks
    <3>3. QED  BY <2>1, <3>2
  <2>3. /\ j - 1 \in 1 .. Len(Script) - 1 /\ (j - 1) + 1 = j /\ j - 1 \in 1 .. End - 1
        /\ j - 1 >= i /\ j \in 2 .. End - 1
    BY <1>1, <1>4, <2>1, <2>2, ScriptFacts
  <2>4. Follows(x, y)
    BY <2>3, ScriptFacts
  <2>5. CASE j - 1 > i
    <3>1. Rank(x.unit) < r /\ Rank(x.unit) \in 1 .. 12
      BY <1>1, <1>2, <1>4, <2>3, <2>5
    <3> HIDE DEF x, y
    <3>2. x.unit # y.unit
      BY <2>1, <3>1
    <3>3. CASE Rank(y.unit) = Rank(x.unit) + 1 /\ y.call = First(y.unit)
      BY <2>1, <2>3, <3>1, <3>3, SMTT(30) DEF StandsAt, j, y
    <3>4. CASE x.call = StepsCall /\ y = StepOf("industryActivity", ClearCall("industryActivity"))
      <4>1. y.unit = "industryActivity" /\ y.call = First("industryActivity") /\ Rank(y.unit) = 1
        BY <3>4, Ranks DEF StepOf, First
      <4>2. QED  BY <2>1, <2>3, <4>1 DEF StandsAt, j, y
    <3>5. QED  BY <2>4, <3>2, <3>3, <3>4 DEF Follows
  <2>6. CASE j - 1 = i
    <3>1. i = 1 /\ x = StepOf("0001", StepsCall)
      <4>1. i = 1 /\ j - 1 = 1
        BY <2>1, <2>2, <2>6
      <4>2. QED  BY <4>1, ScriptFacts
    <3> HIDE DEF x, y
    <3>2. x.call = StepsCall /\ StepsCall # RecordCall("0001") /\ x.unit = "0001"
      BY <3>1 DEF StepOf, StepsCall, RecordCall, Call
    <3>3. y = StepOf("industryActivity", ClearCall("industryActivity"))
      BY <2>4, <3>2 DEF Follows
    <3>4. y.unit = "industryActivity" /\ y.call = First("industryActivity") /\ Rank(y.unit) = 1
      BY <3>3, Ranks DEF StepOf, First
    <3>5. QED  BY <2>1, <2>3, <3>4 DEF StandsAt, j, y
  <2>7. QED  BY <2>3, <2>5, <2>6
<1>7. QED  BY <1>5, <1>6

(* What a unit calls, kind by kind.                                        *)
Copies ==
    {<<"industryActivity", "industryActivity", "dump">>, <<"invTypes", "invTypes", "dump">>,
     <<"0002", "sde_types", "invTypes">>, <<"0002", "sde_blueprints", "industryActivity">>,
     <<"0005", "sde_categories", "dump">>, <<"0006", "sde_planet_schematics", "dump">>,
     <<"0007", "sde_planet_schematics", "dump">>}
Reads ==
    {<<"0002", "invTypes">>, <<"0002", "industryActivity">>, <<"0003", "invTypes">>,
     <<"0004", "sde_types">>, <<"0008", "industryActivity">>}

CallCase(u, a) ==
    \/ a = RecordCall(u)
    \/ a = StepsCall /\ u = "0001"
    \/ \E c, from : a = ClearCall(c) /\ <<u, c, from>> \in Copies
    \/ \E c, from, k : k \in Batches /\ a = Call("insert", c, k, from) /\ <<u, c, from>> \in Copies
    \/ a = ClearCall("market_order_history") /\ u = "0009"
    \/ \E c : a = ReadCall(c) /\ <<u, c>> \in Reads
    \/ a = Call("volume", "sde_types", 0, "invTypes") /\ u = "0003"
    \/ a = Call("category_id", "sde_types", 0, "sde_types") /\ u = "0004"
    \/ a = Call("upsert", "sde_blueprints", ReactionKey, "industryActivity") /\ u = "0008"
    \/ a = Call("activity_id", "sde_blueprints", 0, "none") /\ u = "0008"
    \/ a = Call("index", "none", 0, "none") /\ u = "0010"

(* The calls of each unit, one by one (app/migrations/0001 to 0010).       *)
LEMMA CallCases == ASSUME NEW u \in AllUnits, NEW a \in Calls(u) PROVE CallCase(u, a)
<1>1. ASSUME NEW c, NEW from, a \in Copying(c, from), <<u, c, from>> \in Copies PROVE CallCase(u, a)
  BY <1>1 DEF Copying, CallCase
<1>2. CASE a = RecordCall(u)
  BY <1>2 DEF CallCase
<1>3. CASE a # RecordCall(u) /\ u \in {"industryActivity", "invTypes", "0005", "0006", "0007"}
  <2>1. PICK c, from : a \in Copying(c, from) /\ <<u, c, from>> \in Copies
    BY <1>3 DEF Calls, Copies
  <2>2. QED  BY <1>1, <2>1
<1>4. CASE a # RecordCall(u) /\ u = "0002"
  <2>1. \/ a \in {ReadCall("invTypes"), ReadCall("industryActivity")}
        \/ a \in Copying("sde_types", "invTypes") \/ a \in Copying("sde_blueprints", "industryActivity")
    BY <1>4 DEF Calls
  <2>2. <<u, "sde_types", "invTypes">> \in Copies /\ <<u, "sde_blueprints", "industryActivity">> \in Copies
    BY <1>4 DEF Copies
  <2>3. <<u, "invTypes">> \in Reads /\ <<u, "industryActivity">> \in Reads
    BY <1>4 DEF Reads
  <2>4. CASE a \in {ReadCall("invTypes"), ReadCall("industryActivity")}
    BY <2>3, <2>4 DEF CallCase
  <2>5. QED  BY <1>1, <2>1, <2>2, <2>4
<1>5. CASE a # RecordCall(u) /\ u \in {"0001", "0003", "0004", "0008", "0009", "0010"}
  <2>1. CASE \E c : a = ReadCall(c) /\ <<u, c>> \in Reads
    BY <2>1 DEF CallCase
  <2>2. CASE ~\E c : a = ReadCall(c) /\ <<u, c>> \in Reads
    BY <1>5, <2>2 DEF Calls, CallCase, Reads
  <2>3. QED  BY <2>1, <2>2
<1>6. QED  BY <1>2, <1>3, <1>4, <1>5 DEF AllUnits

(* The same by the operation of the call.                                  *)
LEMMA OpCases ==
    ASSUME NEW u \in AllUnits, NEW a \in Calls(u)
    PROVE  /\ a.op = "record" => a = RecordCall(u)
           /\ a.op = "steps" => a = StepsCall
           /\ a.op = "clear" => \/ a = ClearCall("market_order_history") /\ u = "0009"
                               \/ \E c, from : a = ClearCall(c) /\ <<u, c, from>> \in Copies
           /\ a.op = "insert" => \E c, from, k : /\ k \in Batches /\ a = Call("insert", c, k, from)
                                               /\ <<u, c, from>> \in Copies
           /\ a.op = "read" => \E c : a = ReadCall(c) /\ <<u, c>> \in Reads
           /\ a.op = "volume" => a = Call("volume", "sde_types", 0, "invTypes") /\ u = "0003"
           /\ a.op = "category_id" => a = Call("category_id", "sde_types", 0, "sde_types") /\ u = "0004"
           /\ a.op = "upsert" =>
                a = Call("upsert", "sde_blueprints", ReactionKey, "industryActivity") /\ u = "0008"
           /\ a.op = "activity_id" => a = Call("activity_id", "sde_blueprints", 0, "none") /\ u = "0008"
           /\ a.op = "index" => a = Call("index", "none", 0, "none") /\ u = "0010"
<1>0. /\ \A op, c, k, from : Call(op, c, k, from).op = op
      /\ RecordCall(u).op = "record" /\ StepsCall.op = "steps"
      /\ \A c : ClearCall(c).op = "clear" /\ ReadCall(c).op = "read"
  BY DEF Call, RecordCall, StepsCall, ClearCall, ReadCall
<1>1. CASE a = RecordCall(u) \/ a = StepsCall
  BY <1>0, <1>1
<1>2. CASE \E c, from : a = ClearCall(c) /\ <<u, c, from>> \in Copies
  <2>1. a.op = "clear"
    BY <1>0, <1>2
  <2>2. QED  BY <1>2, <2>1
<1>3. CASE \E c, from, k : k \in Batches /\ a = Call("insert", c, k, from) /\ <<u, c, from>> \in Copies
  <2>1. a.op = "insert"
    BY <1>0, <1>3
  <2>2. QED  BY <1>3, <2>1
<1>4. CASE a = ClearCall("market_order_history") /\ u = "0009"
  <2>1. a.op = "clear"
    BY <1>0, <1>4
  <2>2. QED  BY <1>4, <2>1
<1>5. CASE \E c : a = ReadCall(c) /\ <<u, c>> \in Reads
  <2>1. a.op = "read"
    BY <1>0, <1>5
  <2>2. QED  BY <1>5, <2>1
<1>6. CASE \/ a = Call("volume", "sde_types", 0, "invTypes") /\ u = "0003"
           \/ a = Call("category_id", "sde_types", 0, "sde_types") /\ u = "0004"
           \/ a = Call("upsert", "sde_blueprints", ReactionKey, "industryActivity") /\ u = "0008"
           \/ a = Call("activity_id", "sde_blueprints", 0, "none") /\ u = "0008"
           \/ a = Call("index", "none", 0, "none") /\ u = "0010"
  BY <1>0, <1>6
<1>7. CallCase(u, a)
  BY CallCases
<1>8. QED  BY <1>1, <1>2, <1>3, <1>4, <1>5, <1>6, <1>7 DEF CallCase

(* The collections a unit fills hold nothing that a unit before it made.   *)
LEMMA CopyKeepsEffects ==
    ASSUME NEW u \in AllUnits, NEW c, NEW from, <<u, c, from>> \in Copies, NEW d, NEW e,
           Effects(d, Done(Rank(u))), \A b \in Collections \ {c} : e[b] = d[b]
    PROVE  Effects(e, Done(Rank(u)))
<1>1. \A v \in AllUnits : v \in Done(Rank(u)) <=> Rank(v) < Rank(u)
  BY DEF Done
<1> DEFINE units == Done(Rank(u))
<1>2. /\ c \in Tables => c \notin units
      /\ c = "sde_types" => "0002" \notin units /\ "0003" \notin units /\ "0004" \notin units
      /\ c = "sde_blueprints" => "0002" \notin units /\ "0008" \notin units
      /\ c = "sde_categories" => "0005" \notin units
      /\ c = "sde_planet_schematics" => "0007" \notin units
      /\ c # "market_order_history"
  BY <1>1, Ranks DEF Copies, AllUnits, Tables
<1> HIDE DEF units
<1>3. Effects(d, units)
  BY DEF units
<1>4. /\ \A t \in Tables \ {c} : e[t] = d[t]
      /\ c # "sde_types" => e["sde_types"] = d["sde_types"]
      /\ c # "sde_blueprints" => e["sde_blueprints"] = d["sde_blueprints"]
      /\ c # "sde_categories" => e["sde_categories"] = d["sde_categories"]
      /\ c # "sde_planet_schematics" => e["sde_planet_schematics"] = d["sde_planet_schematics"]
      /\ e["market_order_history"] = d["market_order_history"]
  BY <1>2 DEF Collections
<1>5. Effects(e, units)
  BY <1>2, <1>3, <1>4 DEF Effects
<1>6. QED  BY <1>5 DEF units

(* The first call of a unit needs nothing from the calls before it.        *)
LEMMA FirstIsReady == ASSUME NEW u \in AllUnits, NEW d, NEW s PROVE Ready(u, First(u), d, s)
<1>1. CASE u = "0001"
  BY <1>1 DEF Ready, First, RecordCall, ReadCall, Call, Effects, Sources, Tables
<1>2. CASE u # "0001"
  <2>1. /\ First(u).op \in {"clear", "read", "index"} /\ First(u).from = "none"
        /\ u = "0002" => First(u).op = "read" /\ First(u).coll = "invTypes"
    BY <1>2 DEF AllUnits, First, ClearCall, ReadCall, Call
  <2>2. ReadCall("industryActivity").coll = "industryActivity"
    BY DEF ReadCall, Call
  <2>3. First(u).from \notin Sources
    BY <2>1 DEF Sources, Tables
  <2>4. QED  BY <2>1, <2>2, <2>3 DEF Ready
<1>3. QED  BY <1>1, <1>2

-----------------------------------------------------------------------------
(* What there is to show of a step of the pod that is inside: the others   *)
(* are not in run_migrations.                                              *)
LEMMA PodMoves ==
    ASSUME SyncInv, MigInv, NEW h \in inside, NEW j \in 0 .. End, at' = [at EXCEPT ![h] = j],
           at[h] # End, UNCHANGED <<inside, serving, sync>>,
           PureDocuments', applied' \in [Holders -> SUBSET AllUnits],
           \E r \in 1 .. 13 : recorded' = Done(r), recorded \subseteq recorded',
           Effects(docs', recorded'), Position(h)'
    PROVE  MigInv'
<1>1. h \in Holders /\ \A g \in Holders : at'[g] = IF g = h THEN j ELSE at[g]
  BY DEF SyncInv, LockInv, MigInv, MigrationTypes
<1>2. ASSUME NEW g \in Holders \ {h} PROVE Position(g)' /\ (sync'[g].at # "off" => at'[g] = End)
  <2>1. g \notin inside
    BY DEF SyncInv, LockInv
  <2>2. at'[g] = 0 /\ sync'[g].at = "off"
    BY <1>1, <2>1 DEF MigInv, Position, SyncInv, LockInv
  <2>3. 0 # End /\ ~(0 \in 2 .. End - 1)
    BY ScriptFacts
  <2>4. QED  BY <2>2, <2>3 DEF Position
<1>3. sync'[h].at = "off"
  BY <1>1 DEF MigInv
<1>4. at' \in [Holders -> 0 .. End]
  BY DEF MigInv, MigrationTypes
<1>5. serving' # {} => recorded' = AllUnits
  BY DEF MigInv, Done
<1>6. \A g \in Holders : Position(g)' /\ (sync'[g].at # "off" => at'[g] = End)
  BY <1>2, <1>3
<1>7. QED  BY <1>4, <1>5, <1>6 DEF MigInv, MigrationTypes

(* A call that is not the last one of its unit.                            *)
LEMMA CallKeeps ==
    ASSUME SyncInv, MigInv, NEW h \in inside, at[h] \in 2 .. End - 1, NEW u, u = Script[at[h]].unit,
           CallOf(h) # RecordCall(u), Advance(h),
           UNCHANGED <<inside, serving, sync, recorded, applied>>,
           PureDocuments', Effects(docs', recorded),
           \A b \in Calls(u) : Inner(u, CallOf(h), b) => Ready(u, b, docs', seen'[h])
    PROVE  MigInv'
<1> DEFINE i == at[h]
           y == Script[i + 1]
<1>1. /\ h \in Holders /\ recorded = Done(Rank(u)) /\ applied[h] \subseteq recorded
      /\ applied \in [Holders -> SUBSET AllUnits] /\ u \in AllUnits
      /\ i \in 1 .. Len(Script) /\ End = Len(Script) + 1 /\ Len(Script) \in Nat
  BY ScriptFacts DEF SyncInv, LockInv, MigInv, MigrationTypes, Position
<1>2. i + 1 \in 2 .. End - 1 /\ i \in 1 .. Len(Script) - 1
  <2>1. CASE i = Len(Script)
    BY <2>1, ScriptFacts DEF CallOf, StepOf
  <2>2. CASE i # Len(Script)
    BY <1>1, <2>2
  <2>3. QED  BY <2>1, <2>2
<1>3. at' = [at EXCEPT ![h] = i + 1]
  <2>1. applied[h] \subseteq Done(Rank(u) + 1)
    <3>1. \A v \in AllUnits : Rank(v) \in 1 .. 12
      BY UnitFacts
    <3>2. \A v \in AllUnits : Rank(v) < Rank(u) => Rank(v) < Rank(u) + 1
      BY <1>1, <3>1, SMTT(30)
    <3>3. QED  BY <1>1, <3>2 DEF Done
  <2>2. After(i, applied[h]) = i + 1
    BY <1>1, <2>1, NextCall
  <2>3. QED  BY <2>2 DEF Advance
<1>4. y.unit = u /\ Inner(u, CallOf(h), y.call) /\ y.call \in Calls(u)
  <2>1. Follows(Script[i], y) /\ CallOf(h) # StepsCall /\ y.call \in Calls(y.unit)
    BY <1>1, <1>2, ScriptFacts DEF CallOf
  <2>2. QED  BY <2>1 DEF Follows, CallOf
<1>5. at'[h] = i + 1
  BY <1>1, <1>3 DEF MigInv, MigrationTypes
<1>6. Position(h)'
  <2>1. i + 1 # 1 /\ i + 1 # End
    BY <1>1, <1>2
  <2>2. Ready(u, y.call, docs', seen'[h])
    BY <1>4
  <2> HIDE DEF y
  <2>3. QED  BY <1>1, <1>2, <1>4, <1>5, <2>1, <2>2 DEF Position, y
<1>7. i + 1 \in 0 .. End /\ i # End
  BY <1>1, <1>2
<1>8. QED  BY <1>1, <1>3, <1>6, <1>7, PodMoves DEF MigInv

(* The insert of the record: its unit is in effect, and is the next one.   *)
LEMMA RecordKeeps ==
    ASSUME SyncInv, MigInv, NEW h \in inside, Record(h), UNCHANGED <<inside, serving, sync>>
    PROVE  MigInv' /\ CallOf(h).coll \in AllUnits
<1> DEFINE i == at[h]
           u == Script[i].unit
           y == Script[i + 1]
<1>1. /\ h \in Holders /\ i \in 1 .. End - 1 /\ CallOf(h).op = "record"
      /\ at' = [at EXCEPT ![h] = After(i, applied[h])] /\ UNCHANGED <<docs, seen, applied>>
      /\ recorded' = recorded \cup {CallOf(h).coll}
  BY DEF Record, Doing, Running, Advance, SyncInv, LockInv
<1>2. /\ i \in 1 .. Len(Script) /\ u \in AllUnits /\ CallOf(h) \in Calls(u)
      /\ End = Len(Script) + 1 /\ Len(Script) \in Nat /\ Len(Script) > 1
  BY <1>1, ScriptFacts DEF CallOf
<1>3. i # 1
  <2>1. CASE i = 1
    BY <1>1, <2>1, ScriptFacts DEF CallOf, StepOf, StepsCall, Call
  <2>2. QED  BY <2>1
<1>4. CallOf(h) = RecordCall(u)
  BY <1>1, <1>2, OpCases
<1>5. RecordCall(u).coll = u /\ RecordCall(u).op = "record"
  BY DEF RecordCall, Call
<1>6. /\ recorded = Done(Rank(u)) /\ applied[h] \subseteq recorded
      /\ Effects(docs, {u}) /\ Effects(docs, recorded) /\ i \in 2 .. End - 1
  <2>1. i \in 2 .. End - 1
    BY <1>1, <1>3
  <2>2. QED  BY <1>1, <1>4, <1>5, <2>1 DEF MigInv, Position, Ready, CallOf
<1> HIDE DEF i, u
<1>7. recorded' = recorded \cup {u} /\ recorded' = Done(Rank(u) + 1) /\ Rank(u) \in 1 .. 12
  <2>1. recorded' = recorded \cup {u} /\ Rank(u) \in 1 .. 12
    BY <1>1, <1>2, <1>4, <1>5, UnitFacts
  <2>2. \A v \in AllUnits : Rank(v) < Rank(u) + 1 <=> Rank(v) < Rank(u) \/ v = u
    <3>1. \A v \in AllUnits : Rank(v) \in 1 .. 12 /\ (Rank(v) = Rank(u) => v = u)
      BY <1>2, UnitFacts
    <3>2. QED  BY <2>1, <3>1
  <2>3. QED  BY <1>2, <1>6, <2>1, <2>2 DEF Done
<1>8. at' = [at EXCEPT ![h] = i + 1]
  <2>1. applied[h] \subseteq Done(Rank(u) + 1)
    BY <1>6, <1>7
  <2>2. After(i, applied[h]) = i + 1
    BY <1>4, <1>6, <2>1, NextCall DEF u, CallOf, i
  <2>3. QED  BY <1>1, <2>2
<1>9. at'[h] = i + 1 /\ i + 1 \in 0 .. End /\ i # End
  BY <1>1, <1>2, <1>8 DEF MigInv, MigrationTypes
<1>10. Effects(docs', recorded')
  BY <1>1, <1>6, <1>7 DEF Effects
<1>11. Position(h)'
  <2>1. CASE i + 1 = End
    <3>1. u = "0010" /\ i + 1 # 1 /\ ~(i + 1 \in 2 .. End - 1)
      BY <1>2, <1>3, <2>1, ScriptFacts DEF u, StepOf
    <3>2. recorded' = AllUnits
      <4>1. \A v \in AllUnits : Rank(v) < 12 + 1
        BY UnitFacts
      <4>2. Rank(u) = 12
        BY <3>1, Ranks
      <4>3. QED  BY <1>7, <4>1, <4>2 DEF Done
    <3>3. QED  BY <1>9, <2>1, <3>1, <3>2 DEF Position
  <2>2. CASE i + 1 # End
    <3>1. i + 1 \in 2 .. End - 1 /\ i \in 1 .. Len(Script) - 1 /\ i + 1 # 1 /\ i + 1 \in 1 .. Len(Script)
      BY <1>2, <1>6, <2>2
    <3>2. Follows(Script[i], y) /\ y.unit \in AllUnits /\ RecordCall(u) # StepsCall
      BY <3>1, ScriptFacts DEF RecordCall, StepsCall, Call
    <3>3. \A b : ~Inner(u, RecordCall(u), b)
      BY DEF Inner, RecordCall, ReadCall, Call
    <3>4. Rank(y.unit) = Rank(u) + 1 /\ y.call = First(y.unit)
      BY <1>4, <3>2, <3>3 DEF Follows, CallOf, u, i
    <3>5. Ready(y.unit, y.call, docs', seen'[h])
      BY <3>2, <3>4, FirstIsReady
    <3> HIDE DEF y
    <3>6. recorded' = Done(Rank(y.unit)) /\ applied'[h] \subseteq recorded'
      BY <1>1, <1>6, <1>7, <3>4
    <3>7. QED  BY <1>1, <1>9, <2>2, <3>1, <3>5, <3>6 DEF Position, y
  <2>3. QED  BY <2>1, <2>2
<1>12. PureDocuments'
  BY <1>1 DEF MigInv, MigrationTypes, PureDocuments
<1>13. MigInv'
  <2>1. applied' \in [Holders -> SUBSET AllUnits]
    BY <1>1 DEF MigInv, MigrationTypes
  <2>2. Rank(u) + 1 \in 1 .. 13 /\ recorded \subseteq recorded'
    BY <1>7
  <2>3. \E r \in 1 .. 13 : recorded' = Done(r)
    BY <1>7, <2>2
  <2>4. at[h] # End
    BY <1>9 DEF i
  <2>5. QED  BY <1>8, <1>9, <1>10, <1>11, <1>12, <2>1, <2>2, <2>3, <2>4, PodMoves
<1>14. QED  BY <1>2, <1>4, <1>5, <1>13

(* A pod that stands at the first call of a unit needs nothing more.       *)
LEMMA StandsWell ==
    ASSUME NEW h, NEW r \in 1 .. 13, StandsAt(at'[h], r), recorded' = Done(r),
           applied'[h] \subseteq recorded', h \in inside'
    PROVE  Position(h)' /\ at'[h] \in 0 .. End
<1>1. End \in Nat /\ End > 2
  BY ScriptFacts
<1>2. CASE r = 13 /\ at'[h] = End
  <2>1. \A v \in AllUnits : Rank(v) < 13
    BY UnitFacts
  <2>2. recorded' = AllUnits
    BY <1>2, <2>1 DEF Done
  <2>3. QED  BY <1>1, <1>2, <2>2 DEF Position
<1>3. CASE /\ at'[h] \in 2 .. End - 1 /\ Rank(Script[at'[h]].unit) = r
           /\ Script[at'[h]].call = First(Script[at'[h]].unit)
  <2>1. at'[h] \in 1 .. Len(Script) /\ at'[h] # 1 /\ at'[h] # End /\ at'[h] \in 0 .. End
    BY <1>1, <1>3, ScriptFacts
  <2>2. Ready(Script[at'[h]].unit, Script[at'[h]].call, docs', seen'[h])
    BY <1>3, <2>1, ScriptFacts, FirstIsReady
  <2>3. QED  BY <1>3, <2>1, <2>2 DEF Position
<1>4. QED  BY <1>2, <1>3 DEF StandsAt

(* run_migrations begins: it skips what it finds recorded.                 *)
LEMMA BeginKeeps ==
    ASSUME SyncInv, MigInv, NEW h \in inside, Begin(h), UNCHANGED <<inside, serving, sync>>
    PROVE  MigInv'
<1> DEFINE ids == recorded \ Tables
           j == After(0, ids)
<1>1. /\ h \in Holders /\ at[h] = 0 /\ applied' = [applied EXCEPT ![h] = ids]
      /\ UNCHANGED <<docs, recorded, seen>>
      /\ applied \in [Holders -> SUBSET AllUnits] /\ at \in [Holders -> 0 .. End]
      /\ Effects(docs, recorded) /\ PureDocuments
  BY DEF Begin, SyncInv, LockInv, MigInv, MigrationTypes
<1>2. PICK r \in 1 .. 13 : recorded = Done(r)
  BY DEF MigInv
<1>3. \A u \in AllUnits : u \in recorded <=> Rank(u) < r
  BY <1>2 DEF Done
<1>4. recorded \subseteq AllUnits
  BY <1>2 DEF Done
<1>5. applied' \in [Holders -> SUBSET AllUnits] /\ applied'[h] = ids
  BY <1>1, <1>4
<1>6. at' = [at EXCEPT ![h] = j] /\ at'[h] = j
  <2>1. at' = [at EXCEPT ![h] = After(0, applied'[h])]
    BY DEF Begin
  <2>2. at' = [at EXCEPT ![h] = j]
    BY <1>5, <2>1
  <2>3. QED  BY <1>1, <2>2
<1>7. End \in Nat /\ End > 2
  BY ScriptFacts
<1> HIDE DEF ids
<1>8. Position(h)' /\ j \in 0 .. End
  <2>1. CASE r > 3
    <3>1. ASSUME NEW u \in AllUnits PROVE {IdOf(u), u} \cap ids # {} <=> Rank(u) < r
      <4>1. IdOf(u) \in AllUnits /\ IdOf(u) \notin Tables /\ (u \in Tables \/ IdOf(u) = u)
        BY UnitFacts DEF IdOf
      <4>2. Rank(IdOf(u)) < r <=> Rank(u) < r
        BY <2>1, UnitFacts
      <4>3. IdOf(u) \in ids <=> Rank(u) < r
        BY <1>3, <4>1, <4>2 DEF ids
      <4>4. u \in ids => IdOf(u) \in ids
        BY <4>1 DEF ids
      <4>5. QED  BY <4>3, <4>4
    <3>2. StandsAt(j, r)
      BY <2>1, <3>1, FirstCall
    <3>3. recorded' = Done(r) /\ applied'[h] \subseteq recorded' /\ h \in inside'
      BY <1>1, <1>2, <1>5 DEF ids
    <3> HIDE DEF j
    <3>4. QED  BY <1>6, <3>2, <3>3, StandsWell
  <2>2. CASE r =< 3
    <3>1. "0001" \notin recorded /\ ids = {}
      <4>1. \A u \in AllUnits \ Tables : Rank(u) >= 3
        BY Ranks DEF AllUnits, Tables
      <4>2. "0001" \in AllUnits \ Tables
        BY DEF AllUnits, Tables
      <4>3. \A u \in AllUnits \ Tables : Rank(u) \in 1 .. 12
        BY UnitFacts
      <4>4. \A u \in AllUnits \ Tables : u \notin recorded
        BY <1>3, <2>2, <4>1, <4>3
      <4>5. QED  BY <1>4, <4>2, <4>4 DEF ids
    <3>2. j = 1
      <4> DEFINE P(k) == /\ k = End \/ {Script[k].id, Script[k].unit} \cap ids = {}
                         /\ \A m \in (0 + 1) .. (k - 1) : {Script[m].id, Script[m].unit} \cap ids # {}
      <4>1. 1 \in (0 + 1) .. End /\ P(1)
        BY <1>7, <3>1
      <4>2. ASSUME NEW k \in (0 + 1) .. End, P(k) PROVE k = 1
        <5>1. k # 1 => 1 \in (0 + 1) .. (k - 1)
          BY <1>7
        <5>2. QED  BY <3>1, <4>2, <5>1
      <4>3. j = CHOOSE k \in (0 + 1) .. End : P(k)
        BY DEF After
      <4> HIDE DEF P, j
      <4>4. QED  BY <4>1, <4>2, <4>3
    <3> HIDE DEF j
    <3>3. at'[h] = 1 /\ applied'[h] = {} /\ "0001" \notin recorded' /\ h \in inside'
      BY <1>1, <1>5, <1>6, <3>1, <3>2
    <3>4. ~(1 \in 2 .. End - 1) /\ 1 # End /\ 1 \in 0 .. End
      BY <1>7
    <3>5. QED  BY <3>2, <3>3, <3>4 DEF Position
  <2>3. QED  BY <2>1, <2>2
<1> HIDE DEF j
<1>9. at[h] # End
  BY <1>1, <1>7
<1>10. PureDocuments'
  BY <1>1 DEF PureDocuments
<1>11. QED  BY <1>1, <1>2, <1>5, <1>6, <1>8, <1>9, <1>10, PodMoves

(* 0001 reads which of its tables are recorded, and skips them.            *)
LEMMA ReadStepsKeeps ==
    ASSUME SyncInv, MigInv, NEW h \in inside, ReadSteps(h), UNCHANGED <<inside, serving, sync>>
    PROVE  MigInv'
<1> DEFINE i == at[h]
<1>1. /\ h \in Holders /\ i \in 1 .. End - 1 /\ Script[i].call.op = "steps"
      /\ UNCHANGED <<docs, recorded, seen>>
      /\ applied \in [Holders -> SUBSET AllUnits] /\ at \in [Holders -> 0 .. End]
      /\ Effects(docs, recorded) /\ PureDocuments /\ Position(h)
      /\ End \in Nat /\ End > 2 /\ Len(Script) = End - 1
  BY ScriptFacts DEF ReadSteps, Doing, Running, CallOf, SyncInv, LockInv, MigInv, MigrationTypes
<1>2. i = 1
  <2>1. i \in 1 .. Len(Script)
    BY <1>1
  <2>2. Script[i].call = StepsCall
    BY <1>1, <2>1, ScriptFacts, OpCases
  <2>3. i \notin 2 .. Len(Script)
    BY <2>2, ScriptFacts
  <2>4. QED  BY <1>1, <2>1, <2>3
<1>3. applied[h] = {} /\ "0001" \notin recorded
  BY <1>1, <1>2 DEF Position
<1>4. PICK r \in 1 .. 13 : recorded = Done(r)
  BY DEF MigInv
<1>5. \A u \in AllUnits : u \in recorded <=> Rank(u) < r
  BY <1>4 DEF Done
<1>6. r =< 3
  <2>1. "0001" \in AllUnits /\ Rank("0001") = 3
    BY Ranks DEF AllUnits
  <2>2. QED  BY <1>3, <1>5, <2>1
<1>7. recorded \subseteq Tables
  <2>1. \A u \in AllUnits \ Tables : Rank(u) >= 3
    BY Ranks DEF AllUnits, Tables
  <2>2. \A u \in AllUnits \ Tables : Rank(u) \in 1 .. 12
    BY UnitFacts
  <2>3. \A u \in AllUnits \ Tables : u \notin recorded
    BY <1>5, <1>6, <2>1, <2>2
  <2>4. recorded \subseteq AllUnits
    BY <1>4 DEF Done
  <2>5. QED  BY <2>3, <2>4
<1>8. applied' = [applied EXCEPT ![h] = recorded]
  <2>1. applied' = [applied EXCEPT ![h] = applied[h] \cup (recorded \cap Tables)]
    BY DEF ReadSteps
  <2>2. applied[h] \cup (recorded \cap Tables) = recorded
    BY <1>3, <1>7
  <2>3. QED  BY <2>1, <2>2
<1>9. applied' \in [Holders -> SUBSET AllUnits] /\ applied'[h] = recorded
  <2>1. recorded \subseteq AllUnits
    BY <1>4 DEF Done
  <2>2. QED  BY <1>1, <1>8, <2>1
<1> DEFINE j == After(1, recorded)
<1>10. at' = [at EXCEPT ![h] = j] /\ at'[h] = j
  <2>1. at' = [at EXCEPT ![h] = After(i, applied'[h])]
    BY DEF ReadSteps, Advance
  <2>2. at' = [at EXCEPT ![h] = j]
    BY <1>2, <1>9, <2>1
  <2>3. QED  BY <1>1, <2>2
<1>11. StandsAt(j, r)
  <2>1. ASSUME NEW u \in AllUnits PROVE {IdOf(u), u} \cap recorded # {} <=> Rank(u) < r
    <3>1. IdOf(u) \notin recorded
      BY <1>7, UnitFacts
    <3>2. QED  BY <1>5, <3>1
  <2>2. QED  BY <2>1, FirstCall
<1> HIDE DEF j
<1>12. Position(h)' /\ j \in 0 .. End
  BY <1>1, <1>4, <1>9, <1>10, <1>11, StandsWell
<1>13. at[h] # End
  BY <1>1, <1>2
<1>14. PureDocuments'
  BY <1>1 DEF PureDocuments
<1>15. QED  BY <1>1, <1>4, <1>9, <1>10, <1>12, <1>13, <1>14, PodMoves

(* What a call leaves to the next one of its unit.                         *)
LEMMA ReadReady ==
    ASSUME NEW u \in AllUnits, NEW c, <<u, c>> \in Reads, NEW d, NEW s, NEW t,
           Effects(d, Done(Rank(u))), Ready(u, ReadCall(c), d, s),
           t[c] = d[c], \A e \in Sources \ {c} : t[e] = s[e],
           NEW b \in Calls(u), Inner(u, ReadCall(c), b)
    PROVE  Ready(u, b, d, t)
<1>1. /\ ReadCall(c).op = "read" /\ ReadCall(c).coll = c /\ (ReadCall("invTypes") = ReadCall("industryActivity") => FALSE)
      /\ \A e : ReadCall(c) = ReadCall(e) => c = e
  BY DEF ReadCall, Call
<1>2. \A v \in AllUnits : Rank(v) < Rank(u) => v \in Done(Rank(u))
  BY DEF Done
<1>3. /\ DOMAIN d["invTypes"] = Batches /\ DOMAIN d["industryActivity"] = Batches
      /\ c = "sde_types" => DOMAIN d["sde_types"] = Batches
  <2>1. /\ "invTypes" \in Done(Rank(u)) /\ "industryActivity" \in Done(Rank(u))
        /\ c = "sde_types" => "0002" \in Done(Rank(u))
    BY <1>2, Ranks DEF Reads, AllUnits
  <2>2. QED  BY <2>1 DEF Effects, Tables
<1>4. DOMAIN t[c] = Batches
  BY <1>3 DEF Reads
<1>5. CASE u = "0002"
  <2>1. CASE c = "invTypes"
    <3>1. b = ReadCall("industryActivity")
      BY <1>1, <1>5, <2>1 DEF Inner
    <3>2. b.op = "read" /\ b.from = "none"
      BY <3>1 DEF ReadCall, Call
    <3>3. QED  BY <1>4, <1>5, <2>1, <3>2 DEF Ready, Sources, Tables
  <2>2. CASE c = "industryActivity"
    <3>1. b = ClearCall("sde_types")
      BY <1>1, <1>5, <2>2 DEF Inner
    <3>2. b.op = "clear" /\ b.from = "none" /\ b.coll = "sde_types"
      BY <3>1 DEF ClearCall, Call
    <3>3. DOMAIN t["invTypes"] = Batches
      BY <1>5, <2>2 DEF Ready, Sources, Tables
    <3>4. QED  BY <1>4, <1>5, <2>2, <3>2, <3>3 DEF Ready, Sources, Tables
  <2>3. QED  BY <1>5, <2>1, <2>2 DEF Reads
<1>6. CASE u # "0002"
  <2>1. b.op \in {"volume", "category_id", "upsert"} /\ b.from = c
    <3>1. \/ u = "0003" /\ b.op = "volume" /\ c = "invTypes"
          \/ u = "0004" /\ b.op = "category_id" /\ c = "sde_types"
          \/ u = "0008" /\ b.op = "upsert" /\ c = "industryActivity"
      BY <1>1, <1>6 DEF Inner, Reads
    <3>2. \/ b = Call("volume", "sde_types", 0, "invTypes") /\ c = "invTypes"
          \/ b = Call("category_id", "sde_types", 0, "sde_types") /\ c = "sde_types"
          \/ b = Call("upsert", "sde_blueprints", ReactionKey, "industryActivity") /\ c = "industryActivity"
      BY <3>1, OpCases
    <3>3. QED  BY <3>2 DEF Call
  <2>2. QED  BY <1>4, <1>6, <2>1 DEF Ready
<1>7. QED  BY <1>5, <1>6

(* delete_many leaves the collection empty for the first batch.            *)
LEMMA ClearReady ==
    ASSUME NEW u \in AllUnits, NEW c, NEW from, <<u, c, from>> \in Copies, NEW d, NEW e, NEW s,
           Ready(u, ClearCall(c), d, s), DOMAIN e[c] = {}, \A a \in Collections \ {c} : e[a] = d[a],
           NEW b \in Calls(u), Inner(u, ClearCall(c), b)
    PROVE  Ready(u, b, e, s)
<1>1. ClearCall(c).op = "clear" /\ ClearCall(c).coll = c
  BY DEF ClearCall, Call
<1>2. ClearCall(c) # ReadCall("invTypes") /\ ClearCall(c) # ReadCall("industryActivity") /\ u # "0009"
  BY DEF ClearCall, ReadCall, Call, Copies
<1>3. b.op = "insert" /\ b.coll = c /\ b.key = 1
  BY <1>1, <1>2 DEF Inner
<1>4. <<u, c, b.from>> \in Copies
  <2>1. PICK g, f, k : b = Call("insert", g, k, f) /\ <<u, g, f>> \in Copies
    BY <1>3, OpCases
  <2>2. b.coll = g /\ b.from = f
    BY <2>1, CallFields
  <2>3. QED  BY <1>3, <2>1, <2>2
<1>5. /\ c \in Collections
      /\ b.from \in Sources => u = "0002" /\ b.from \in {"invTypes", "industryActivity"}
  BY <1>4 DEF Copies, Sources, Collections, Tables
<1>6. u = "0002" => /\ DOMAIN s["invTypes"] = Batches /\ DOMAIN s["industryActivity"] = Batches
                    /\ c = "sde_blueprints" => DOMAIN d["sde_types"] = Batches
  BY <1>1 DEF Ready
<1>7. u = "0002" /\ c = "sde_blueprints" => DOMAIN e["sde_types"] = Batches
  BY <1>6 DEF Collections
<1>8. 1 .. 1 - 1 = {}
  OBVIOUS
<1>9. QED  BY <1>3, <1>5, <1>6, <1>7, <1>8 DEF Ready

(* A batch is followed by the next one, and the last one completes the     *)
(* collection.                                                             *)
LEMMA InsertReady ==
    ASSUME NEW u \in AllUnits, NEW c, NEW from, <<u, c, from>> \in Copies, NEW k \in Batches,
           NEW d, NEW e, NEW s, Ready(u, Call("insert", c, k, from), d, s), DOMAIN e[c] = 1 .. k,
           \A a \in Collections \ {c} : e[a] = d[a],
           NEW b \in Calls(u), Inner(u, Call("insert", c, k, from), b)
    PROVE  Ready(u, b, e, s)
<1> DEFINE a == Call("insert", c, k, from)
<1>1. a.op = "insert" /\ a.coll = c /\ a.key = k /\ a.from = from
  BY CallFields
<1>2. a # ReadCall("invTypes") /\ a # ReadCall("industryActivity")
  BY DEF ReadCall, Call
<1> HIDE DEF a
<1>3. /\ u = "0002" => /\ DOMAIN s["invTypes"] = Batches /\ DOMAIN s["industryActivity"] = Batches
                       /\ c = "sde_blueprints" => DOMAIN d["sde_types"] = Batches
      /\ Inner(u, a, b)
  BY <1>1 DEF Ready, a
<1>4. u = "0002" /\ c = "sde_blueprints" => DOMAIN e["sde_types"] = Batches
  BY <1>3 DEF Collections
<1>5. k \in Nat /\ NumBatches \in Nat /\ k =< NumBatches
  BY DatabaseAssumption DEF Batches
<1>6. CASE k < NumBatches
  <2>1. b.op = "insert" /\ b.coll = c /\ b.key = k + 1
    BY <1>1, <1>2, <1>3, <1>5, <1>6 DEF Inner
  <2>2. <<u, c, b.from>> \in Copies
    <3>1. PICK g, f, m : b = Call("insert", g, m, f) /\ <<u, g, f>> \in Copies
      BY <2>1, OpCases
    <3>2. b.coll = g /\ b.from = f
      BY <3>1, CallFields
    <3>3. QED  BY <2>1, <3>1, <3>2
  <2>3. b.from \in Sources => u = "0002" /\ b.from \in {"invTypes", "industryActivity"}
    BY <2>2 DEF Copies, Sources, Tables
  <2>4. 1 .. (k + 1) - 1 = 1 .. k
    BY <1>5
  <2>5. QED  BY <1>3, <1>4, <2>1, <2>3, <2>4 DEF Ready
<1>7. CASE k = NumBatches
  <2>1. b = IF u = "0002" /\ c = "sde_types" THEN ClearCall("sde_blueprints") ELSE RecordCall(u)
    BY <1>1, <1>2, <1>3, <1>5, <1>7 DEF Inner
  <2>2. DOMAIN e[c] = Batches
    BY <1>7 DEF Batches
  <2>3. CASE u = "0002" /\ c = "sde_types"
    <3>1. b.op = "clear" /\ b.coll = "sde_blueprints" /\ b.from = "none"
      BY <2>1, <2>3 DEF ClearCall, Call
    <3>2. QED  BY <1>3, <2>2, <2>3, <3>1 DEF Ready, Sources, Tables
  <2>4. CASE ~(u = "0002" /\ c = "sde_types")
    <3>1. b.op = "record" /\ b.from = "none" /\ b = RecordCall(u)
      BY <2>1, <2>4 DEF RecordCall, Call
    <3>2. Effects(e, {u})
      BY <1>4, <2>2, <2>4 DEF Effects, Copies, Tables
    <3>3. b # ReadCall("industryActivity")
      BY <3>1 DEF ReadCall, Call
    <3>4. QED  BY <3>1, <3>2, <3>3 DEF Ready, Sources, Tables
  <2>5. QED  BY <2>3, <2>4
<1>8. QED  BY <1>5, <1>6, <1>7

-----------------------------------------------------------------------------
(* A write of known documents keeps the collections free of others.        *)
LEMMA PureWrite ==
    ASSUME PureDocuments, NEW c \in Collections, NEW rows, docs' = [docs EXCEPT ![c] = rows],
           Pure(c, rows), UNCHANGED seen
    PROVE  PureDocuments' /\ docs'[c] = rows /\ \A b \in Collections \ {c} : docs'[b] = docs[b]
<1>1. DOMAIN docs' = Collections /\ \A b \in Collections : docs'[b] = IF b = c THEN rows ELSE docs[b]
  BY DEF PureDocuments
<1>2. \A b \in Collections : Pure(b, docs'[b])
  BY <1>1 DEF PureDocuments
<1>3. QED  BY <1>1, <1>2 DEF PureDocuments

(* A pod at a call that is not the first one of the script.                *)
LEMMA AtCall ==
    ASSUME SyncInv, MigInv, NEW h \in inside, NEW ops, Doing(h, ops), "steps" \notin ops,
           NEW u, u = Script[at[h]].unit
    PROVE  /\ at[h] \in 2 .. End - 1 /\ u \in AllUnits /\ CallOf(h) \in Calls(u) /\ CallOf(h).op \in ops
           /\ recorded = Done(Rank(u)) /\ Effects(docs, Done(Rank(u)))
           /\ Ready(u, CallOf(h), docs, seen[h])
           /\ PureDocuments /\ h \in Holders /\ applied \in [Holders -> SUBSET AllUnits]
<1>1. /\ h \in Holders /\ at[h] \in 1 .. End - 1 /\ CallOf(h).op \in ops
      /\ Effects(docs, recorded) /\ PureDocuments /\ Position(h)
      /\ applied \in [Holders -> SUBSET AllUnits]
  BY DEF Doing, Running, SyncInv, LockInv, MigInv, MigrationTypes
<1>2. at[h] # 1
  <2>1. Script[1].call.op = "steps"
    BY ScriptFacts DEF StepOf, StepsCall, Call
  <2>2. QED  BY <1>1, <2>1 DEF CallOf
<1>3. at[h] \in 2 .. End - 1 /\ at[h] \in 1 .. Len(Script)
  BY <1>1, <1>2, ScriptFacts
<1>4. u \in AllUnits /\ CallOf(h) \in Calls(u)
  BY <1>3, ScriptFacts DEF CallOf
<1>5. recorded = Done(Rank(u)) /\ Ready(u, CallOf(h), docs, seen[h])
  BY <1>1, <1>3 DEF Position, CallOf
<1>6. QED  BY <1>1, <1>3, <1>4, <1>5

(* find: the documents that were read are all there.                       *)
LEMMA ReadKeeps ==
    ASSUME SyncInv, MigInv, NEW h \in inside, Read(h), UNCHANGED <<inside, serving, sync>>
    PROVE  MigInv'
<1> DEFINE u == Script[at[h]].unit
           a == CallOf(h)
           c == a.coll
<1>1. /\ Doing(h, {"read"}) /\ Advance(h) /\ UNCHANGED <<applied, docs, recorded>>
      /\ seen' = [seen EXCEPT ![h] = [seen[h] EXCEPT ![c] = docs[c]]]
  BY DEF Read
<1>2. /\ at[h] \in 2 .. End - 1 /\ u \in AllUnits /\ a \in Calls(u) /\ a.op = "read"
      /\ recorded = Done(Rank(u)) /\ Effects(docs, Done(Rank(u))) /\ Ready(u, a, docs, seen[h])
      /\ PureDocuments /\ h \in Holders
  <2>1. "steps" \notin {"read"}
    OBVIOUS
  <2> HIDE DEF u
  <2>2. QED  BY <1>1, <2>1, AtCall DEF u
<1> HIDE DEF u
<1>3. a = ReadCall(c) /\ <<u, c>> \in Reads
  <2>1. PICK e : a = ReadCall(e) /\ <<u, e>> \in Reads
    BY <1>2, OpCases
  <2>2. a.coll = e
    BY <2>1, CallFields DEF ReadCall
  <2>3. QED  BY <2>1, <2>2
<1> HIDE DEF a
<1>4. c \in Sources /\ c \in Collections
  BY <1>3 DEF Reads, Sources, Collections, Tables
<1>5. /\ DOMAIN seen' = Holders /\ \A g \in Holders \ {h} : seen'[g] = seen[g]
      /\ DOMAIN seen'[h] = Sources /\ seen'[h][c] = docs[c] /\ \A b \in Sources \ {c} : seen'[h][b] = seen[h][b]
  BY <1>1, <1>2, <1>4 DEF PureDocuments
<1>6. PureDocuments'
  <2>1. Pure(c, docs[c])
    BY <1>2, <1>4 DEF PureDocuments
  <2>2. QED  BY <1>1, <1>2, <1>5, <2>1 DEF PureDocuments
<1>7. \A b \in Calls(u) : Inner(u, a, b) => Ready(u, b, docs', seen'[h])
  <2> DEFINE s == seen[h]
             t == seen'[h]
  <2>1. Ready(u, ReadCall(c), docs, s) /\ <<u, c>> \in Reads /\ u \in AllUnits /\ Effects(docs, Done(Rank(u)))
    BY <1>2, <1>3
  <2>2. t[c] = docs[c] /\ \A e \in Sources \ {c} : t[e] = s[e]
    BY <1>5
  <2>3. a = ReadCall(c) /\ docs' = docs
    BY <1>1, <1>3
  <2> HIDE DEF c, s, t
  <2>4. ASSUME NEW b \in Calls(u), Inner(u, ReadCall(c), b) PROVE Ready(u, b, docs, t)
    BY <2>1, <2>2, <2>4, ReadReady
  <2>5. QED  BY <2>3, <2>4 DEF t
<1>8. a # RecordCall(u)
  <2>1. RecordCall(u).op = "record"
    BY DEF RecordCall, Call
  <2>2. QED  BY <1>2, <2>1
<1>9. QED  BY <1>1, <1>2, <1>6, <1>7, <1>8, CallKeeps DEF u, a

(* delete_many: of what is recorded nothing rests on the collection it     *)
(* empties.                                                                *)
LEMMA ClearKeeps ==
    ASSUME SyncInv, MigInv, NEW h \in inside, Clear(h), UNCHANGED <<inside, serving, sync>>
    PROVE  MigInv'
<1> DEFINE u == Script[at[h]].unit
           a == CallOf(h)
           c == a.coll
<1>1. /\ Doing(h, {"clear"}) /\ Advance(h) /\ UNCHANGED <<applied, seen, recorded>>
      /\ docs' = [docs EXCEPT ![c] = Empty]
  BY DEF Clear
<1>2. /\ at[h] \in 2 .. End - 1 /\ u \in AllUnits /\ a \in Calls(u) /\ a.op = "clear"
      /\ recorded = Done(Rank(u)) /\ Effects(docs, Done(Rank(u))) /\ Ready(u, a, docs, seen[h])
      /\ PureDocuments /\ h \in Holders
  <2>1. "steps" \notin {"clear"}
    OBVIOUS
  <2> HIDE DEF u
  <2>2. QED  BY <1>1, <2>1, AtCall DEF u
<1> HIDE DEF u
<1>3. /\ a = ClearCall(c)
      /\ (c = "market_order_history" /\ u = "0009") \/ \E from : <<u, c, from>> \in Copies
  <2>1. PICK e : a = ClearCall(e) /\ ((e = "market_order_history" /\ u = "0009") \/ \E from : <<u, e, from>> \in Copies)
    BY <1>2, OpCases
  <2>2. a.coll = e
    BY <2>1, CallFields DEF ClearCall
  <2>3. QED  BY <2>1, <2>2
<1> HIDE DEF a
<1>4. c \in Collections
  BY <1>3 DEF Copies, Collections, Tables
<1>5. DOMAIN Empty = {} /\ Pure(c, Empty)
  BY DEF Empty, Pure
<1>6. PureDocuments' /\ docs'[c] = Empty /\ \A b \in Collections \ {c} : docs'[b] = docs[b]
  BY <1>1, <1>2, <1>4, <1>5, PureWrite
<1>7. a # RecordCall(u)
  <2>1. RecordCall(u).op = "record"
    BY DEF RecordCall, Call
  <2>2. QED  BY <1>2, <2>1
<1>8. CASE c = "market_order_history" /\ u = "0009"
  <2>1. /\ docs'["sde_types"] = docs["sde_types"] /\ docs'["sde_blueprints"] = docs["sde_blueprints"]
        /\ docs'["sde_categories"] = docs["sde_categories"]
        /\ docs'["sde_planet_schematics"] = docs["sde_planet_schematics"]
        /\ \A t \in Tables : docs'[t] = docs[t]
    BY <1>6, <1>8 DEF Collections, Tables
  <2>2. Effects(docs', recorded) /\ Effects(docs', {u})
    BY <1>2, <1>5, <1>6, <1>8, <2>1 DEF Effects, Tables
  <2>3. ASSUME NEW b \in Calls(u), Inner(u, a, b) PROVE Ready(u, b, docs', seen'[h])
    <3>1. ClearCall(c) # ReadCall("invTypes") /\ ClearCall(c).op = "clear"
      BY DEF ClearCall, ReadCall, Call
    <3>2. b = RecordCall(u)
      BY <1>3, <1>8, <2>3, <3>1 DEF Inner
    <3>3. b.op = "record" /\ b.from = "none"
      BY <3>2 DEF RecordCall, Call
    <3>4. QED  BY <1>8, <2>2, <3>3 DEF Ready, Sources, Tables
  <2>4. QED  BY <1>1, <1>2, <1>6, <1>7, <2>2, <2>3, CallKeeps DEF u, a
<1>9. CASE \E from : <<u, c, from>> \in Copies
  <2>1. Effects(docs', recorded)
    BY <1>2, <1>6, <1>9, CopyKeepsEffects
  <2>2. DOMAIN docs'[c] = {}
    BY <1>5, <1>6
  <2>3. \A b \in Calls(u) : Inner(u, a, b) => Ready(u, b, docs', seen'[h])
    <3> DEFINE s == seen[h]
    <3>1. PICK from : <<u, c, from>> \in Copies
      BY <1>9
    <3>2. Ready(u, ClearCall(c), docs, s) /\ u \in AllUnits
      BY <1>2, <1>3
    <3>3. a = ClearCall(c) /\ s = seen'[h]
      BY <1>1, <1>3
    <3> HIDE DEF c, s
    <3>4. ASSUME NEW b \in Calls(u), Inner(u, ClearCall(c), b) PROVE Ready(u, b, docs', s)
      BY <1>6, <2>2, <3>1, <3>2, <3>4, ClearReady
    <3>5. QED  BY <3>3, <3>4
  <2>4. QED  BY <1>1, <1>2, <1>6, <1>7, <2>1, <2>3, CallKeeps DEF u, a
<1>10. QED  BY <1>3, <1>8, <1>9

(* The documents of a batch: those of the source, which is complete.       *)
LEMMA InsertMakes ==
    ASSUME SyncInv, MigInv, NEW h \in inside, Doing(h, {"insert"}), NEW u, u = Script[at[h]].unit,
           NEW a, a = CallOf(h)
    PROVE  /\ a.key \in Batches /\ <<u, a.coll, a.from>> \in Copies /\ a = Call("insert", a.coll, a.key, a.from)
           /\ a.coll \in Collections /\ DOMAIN docs[a.coll] = 1 .. a.key - 1
           /\ DOMAIN Source(h) = Batches
           /\ Source(h)[a.key] \subseteq {Dump, OldDump} /\ "twice" \notin Source(h)[a.key]
<1>1. /\ at[h] \in 2 .. End - 1 /\ u \in AllUnits /\ a \in Calls(u) /\ a.op = "insert"
      /\ Ready(u, a, docs, seen[h]) /\ PureDocuments /\ h \in Holders
  <2>1. "steps" \notin {"insert"}
    OBVIOUS
  <2>2. QED  BY <2>1, AtCall
<1>2. a.key \in Batches /\ <<u, a.coll, a.from>> \in Copies /\ a = Call("insert", a.coll, a.key, a.from)
  <2>1. PICK e, f, k : k \in Batches /\ a = Call("insert", e, k, f) /\ <<u, e, f>> \in Copies
    BY <1>1, OpCases
  <2>2. a.coll = e /\ a.from = f /\ a.key = k
    BY <2>1, CallFields
  <2>3. QED  BY <2>1, <2>2
<1>3. a.coll \in Collections /\ a.from \in {"dump", "invTypes", "industryActivity"}
  BY <1>2 DEF Copies, Collections, Tables
<1>4. DOMAIN docs[a.coll] = 1 .. a.key - 1
  BY <1>1 DEF Ready
<1>5. "twice" \notin {Dump, OldDump}
  BY DatabaseAssumption
<1>6. CASE a.from = "dump"
  <2>1. Source(h) = Full({Dump})
    BY <1>6 DEF Source
  <2>2. QED  BY <1>2, <1>3, <1>4, <1>5, <2>1 DEF Full
<1>7. CASE a.from # "dump"
  <2>1. Source(h) = seen[h][a.from] /\ a.from \in Sources
    BY <1>3, <1>7 DEF Source, Sources, Tables
  <2>2. DOMAIN seen[h][a.from] = Batches
    BY <1>1, <2>1 DEF Ready
  <2>3. Pure(a.from, seen[h][a.from])
    BY <1>1, <2>1 DEF PureDocuments
  <2>4. seen[h][a.from][a.key] \subseteq {Dump, OldDump}
    BY <1>2, <1>3, <1>7, <2>2, <2>3 DEF Pure, Extra
  <2>5. QED  BY <1>2, <1>3, <1>4, <1>5, <2>1, <2>2, <2>4
<1>8. QED  BY <1>6, <1>7

(* insert_many: a batch.                                                   *)
LEMMA InsertKeeps ==
    ASSUME SyncInv, MigInv, NEW h \in inside, Insert(h), UNCHANGED <<inside, serving, sync>>
    PROVE  MigInv'
<1> DEFINE u == Script[at[h]].unit
           a == CallOf(h)
           c == a.coll
           k == a.key
           new == Put(docs[c], k, Source(h)[k] \cup {})
<1>0. Doing(h, {"insert"}) /\ Advance(h) /\ UNCHANGED <<applied, seen, recorded>>
  BY DEF Insert
<1>1. /\ at[h] \in 2 .. End - 1 /\ u \in AllUnits /\ a \in Calls(u) /\ a.op = "insert"
      /\ recorded = Done(Rank(u)) /\ Effects(docs, Done(Rank(u))) /\ Ready(u, a, docs, seen[h])
      /\ PureDocuments /\ h \in Holders
  <2>1. "steps" \notin {"insert"}
    OBVIOUS
  <2> HIDE DEF u
  <2>2. QED  BY <1>0, <2>1, AtCall DEF u
<1>2. /\ k \in Batches /\ <<u, c, a.from>> \in Copies /\ a = Call("insert", c, k, a.from)
      /\ c \in Collections /\ DOMAIN docs[c] = 1 .. k - 1 /\ DOMAIN Source(h) = Batches
      /\ Source(h)[k] \subseteq {Dump, OldDump}
  <2> HIDE DEF u
  <2>1. QED  BY <1>0, InsertMakes DEF u
<1>3. k \in Nat /\ k > 0 /\ NumBatches \in Nat /\ k =< NumBatches
  BY <1>2, DatabaseAssumption DEF Batches
<1>4. docs' = [docs EXCEPT ![c] = new]
  <2>1. Has(Source(h), k) /\ ~Has(docs[c], k)
    BY <1>2, <1>3 DEF Has
  <2>2. QED  BY <2>1 DEF Insert
<1> HIDE DEF u
<1>5. DOMAIN new = 1 .. k /\ Pure(c, new)
  <2>1. (1 .. k - 1) \cup {k} = 1 .. k
    BY <1>3
  <2>2. DOMAIN new = 1 .. k
    BY <1>2, <2>1 DEF Put
  <2>3. 1 .. k \subseteq RowsOf(c)
    BY <1>3 DEF RowsOf, Batches, Keys, ReactionKey
  <2>4. Pure(c, docs[c])
    BY <1>1, <1>2 DEF PureDocuments
  <2>5. \A j \in 1 .. k : new[j] = IF j = k THEN Source(h)[k] ELSE docs[c][j]
    BY <1>2, <2>1 DEF Put
  <2> HIDE DEF new, c, k
  <2>6. \A j \in 1 .. k : j # k => j \in 1 .. k - 1
    BY <1>3
  <2>7. QED  BY <1>2, <2>2, <2>3, <2>4, <2>5, <2>6 DEF Pure
<1> HIDE DEF new
<1>6. PureDocuments' /\ docs'[c] = new /\ \A b \in Collections \ {c} : docs'[b] = docs[b]
  BY <1>0, <1>1, <1>2, <1>4, <1>5, PureWrite
<1>7. a # RecordCall(u)
  <2>1. RecordCall(u).op = "record"
    BY DEF RecordCall, Call
  <2>2. QED  BY <1>1, <2>1
<1>8. Effects(docs', recorded)
  BY <1>1, <1>2, <1>6, CopyKeepsEffects
<1>9. \A b \in Calls(u) : Inner(u, a, b) => Ready(u, b, docs', seen'[h])
  <2> DEFINE f == a.from
  <2>1. DOMAIN docs'[c] = 1 .. k
    BY <1>5, <1>6
  <2>2. a = Call("insert", c, k, f) /\ Ready(u, Call("insert", c, k, f), docs, seen[h])
    BY <1>1, <1>2
  <2>3. <<u, c, f>> \in Copies /\ u \in AllUnits /\ k \in Batches
    BY <1>1, <1>2
  <2> HIDE DEF c, k, f, a
  <2>4. QED  BY <1>0, <1>6, <2>1, <2>2, <2>3, InsertReady
<1>10. QED  BY <1>0, <1>1, <1>6, <1>7, <1>8, <1>9, CallKeeps DEF u

(* The updates of 0003, 0004 and 0008.                                     *)
LEMMA SetFieldKeeps ==
    ASSUME SyncInv, MigInv, NEW h \in inside, SetField(h), UNCHANGED <<inside, serving, sync>>
    PROVE  MigInv'
<1> DEFINE u == Script[at[h]].unit
           a == CallOf(h)
           c == a.coll
           rows == docs[c]
           ids == IF a.from = "none" THEN DOMAIN rows ELSE DOMAIN seen[h][a.from]
           new == [k \in DOMAIN rows |-> IF k \in ids THEN rows[k] \cup {a.op} ELSE rows[k]]
<1>1. /\ Doing(h, {"volume", "category_id", "activity_id"}) /\ Advance(h)
      /\ UNCHANGED <<applied, seen, recorded>> /\ docs' = [docs EXCEPT ![c] = new]
  BY DEF SetField
<1>2. /\ at[h] \in 2 .. End - 1 /\ u \in AllUnits /\ a \in Calls(u)
      /\ a.op \in {"volume", "category_id", "activity_id"}
      /\ recorded = Done(Rank(u)) /\ Effects(docs, Done(Rank(u))) /\ Ready(u, a, docs, seen[h])
      /\ PureDocuments /\ h \in Holders
  <2>1. "steps" \notin {"volume", "category_id", "activity_id"}
    OBVIOUS
  <2> HIDE DEF u
  <2>2. QED  BY <1>1, <2>1, AtCall DEF u
<1> HIDE DEF u
<1>3. \/ a.op = "volume" /\ a.from = "invTypes" /\ c = "sde_types" /\ u = "0003"
      \/ a.op = "category_id" /\ a.from = "sde_types" /\ c = "sde_types" /\ u = "0004"
      \/ a.op = "activity_id" /\ a.from = "none" /\ c = "sde_blueprints" /\ u = "0008"
  <2>1. \/ a = Call("volume", "sde_types", 0, "invTypes") /\ u = "0003"
        \/ a = Call("category_id", "sde_types", 0, "sde_types") /\ u = "0004"
        \/ a = Call("activity_id", "sde_blueprints", 0, "none") /\ u = "0008"
    BY <1>2, OpCases
  <2> HIDE DEF a
  <2>2. QED  BY <2>1, CallFields
<1> HIDE DEF a
<1>4. DOMAIN new = DOMAIN rows /\ \A k \in DOMAIN rows : rows[k] \subseteq new[k]
  OBVIOUS
<1>5. \A k \in DOMAIN rows : a.op \in new[k]
  <2>1. c \in Collections /\ Pure(c, rows)
    BY <1>2, <1>3 DEF PureDocuments, Collections, Tables
  <2>2. CASE a.from = "none"
    BY <2>2
  <2>3. CASE a.from # "none"
    <3>1. DOMAIN seen[h][a.from] = Batches
      BY <1>2, <1>3, <2>3 DEF Ready, Sources, Tables
    <3>2. DOMAIN rows \subseteq Batches
      BY <1>3, <2>1, <2>3 DEF Pure, RowsOf
    <3>3. QED  BY <2>3, <3>1, <3>2
  <2>4. QED  BY <2>2, <2>3
<1>6. Pure(c, new)
  <2>1. Pure(c, rows) /\ a.op \in Extra(c)
    BY <1>2, <1>3 DEF PureDocuments, Collections, Tables, Extra
  <2>2. QED  BY <2>1 DEF Pure
<1>7. c \in Collections
  BY <1>3 DEF Collections
<1> HIDE DEF new
<1>8. PureDocuments' /\ docs'[c] = new /\ \A b \in Collections \ {c} : docs'[b] = docs[b]
  BY <1>1, <1>2, <1>6, <1>7, PureWrite
<1>9. /\ c # "sde_types" => docs'["sde_types"] = docs["sde_types"]
      /\ c # "sde_blueprints" => docs'["sde_blueprints"] = docs["sde_blueprints"]
      /\ docs'["sde_categories"] = docs["sde_categories"]
      /\ docs'["sde_planet_schematics"] = docs["sde_planet_schematics"]
      /\ docs'["market_order_history"] = docs["market_order_history"]
      /\ \A t \in Tables : docs'[t] = docs[t]
  BY <1>3, <1>8 DEF Collections, Tables
<1>10. Effects(docs', recorded)
  <2>1. /\ c = "sde_blueprints" => "0008" \notin recorded
        /\ Effects(docs, recorded)
    BY <1>2, <1>3, Ranks DEF Done
  <2>2. /\ DOMAIN docs'[c] = DOMAIN docs[c]
        /\ \A k \in DOMAIN docs'[c] : docs[c][k] \subseteq docs'[c][k]
    BY <1>4, <1>8
  <2> HIDE DEF c
  <2>3. CASE c = "sde_types"
    BY <1>9, <2>1, <2>2, <2>3 DEF Effects
  <2>4. CASE c = "sde_blueprints"
    BY <1>9, <2>1, <2>2, <2>4 DEF Effects
  <2>5. QED  BY <1>3, <2>3, <2>4 DEF c
<1>11. Effects(docs', {u})
  <2>1. \A k \in DOMAIN docs'[c] : a.op \in docs'[c][k]
    BY <1>4, <1>5, <1>8
  <2>2. u = "0008" => DOMAIN docs'[c] = Keys
    BY <1>2, <1>3, <1>4, <1>8 DEF Ready
  <2> HIDE DEF c
  <2>3. QED  BY <1>3, <2>1, <2>2 DEF Effects, Tables
<1>12. ASSUME NEW b \in Calls(u), Inner(u, a, b) PROVE Ready(u, b, docs', seen'[h])
  <2>1. a # ReadCall("invTypes") /\ a # ReadCall("industryActivity")
    BY <1>3 DEF ReadCall, Call
  <2>2. b = RecordCall(u)
    BY <1>3, <1>12, <2>1 DEF Inner
  <2>3. b.op = "record" /\ b.from = "none"
    BY <2>2 DEF RecordCall, Call
  <2>4. u # "0002"
    BY <1>3
  <2>5. QED  BY <1>11, <2>3, <2>4 DEF Ready, Sources, Tables
<1>13. a # RecordCall(u)
  <2>1. RecordCall(u).op = "record"
    BY DEF RecordCall, Call
  <2>2. QED  BY <1>3, <2>1
<1>14. QED  BY <1>1, <1>2, <1>8, <1>10, <1>12, <1>13, CallKeeps DEF u, a

(* 0008 upserts the reactions it found in the dump.                        *)
LEMMA UpsertKeeps ==
    ASSUME SyncInv, MigInv, NEW h \in inside, Upsert(h), UNCHANGED <<inside, serving, sync>>
    PROVE  MigInv'
<1> DEFINE u == Script[at[h]].unit
           a == CallOf(h)
           c == "sde_blueprints"
           formulas == seen[h]["industryActivity"]
           new == Put(docs[c], ReactionKey, (formulas[NumBatches] \ {"twice"}) \cup {"activity_id"})
<1>1. Doing(h, {"upsert"}) /\ Advance(h) /\ UNCHANGED <<applied, seen, recorded>>
  BY DEF Upsert
<1>2. /\ at[h] \in 2 .. End - 1 /\ u \in AllUnits /\ a \in Calls(u) /\ a.op = "upsert"
      /\ recorded = Done(Rank(u)) /\ Effects(docs, Done(Rank(u))) /\ Ready(u, a, docs, seen[h])
      /\ PureDocuments /\ h \in Holders
  <2>1. "steps" \notin {"upsert"}
    OBVIOUS
  <2> HIDE DEF u
  <2>2. QED  BY <1>1, <2>1, AtCall DEF u
<1> HIDE DEF u
<1>3. a.coll = c /\ a.key = ReactionKey /\ a.from = "industryActivity" /\ u = "0008"
  <2>1. a = Call("upsert", "sde_blueprints", ReactionKey, "industryActivity") /\ u = "0008"
    BY <1>2, OpCases
  <2> HIDE DEF a
  <2>2. QED  BY <2>1, CallFields
<1>4. NumBatches \in Nat \ {0} /\ NumBatches \in Batches /\ Keys = Batches \cup {ReactionKey}
  BY DatabaseAssumption DEF Batches, Keys, ReactionKey
<1>5. DOMAIN formulas = Batches /\ Pure("industryActivity", formulas)
  BY <1>2, <1>3 DEF Ready, Sources, Tables, PureDocuments
<1>6. docs' = [docs EXCEPT ![c] = new]
  BY <1>3, <1>4, <1>5 DEF Upsert, Has
<1> HIDE DEF a
<1>7. "0002" \in recorded /\ "0008" \notin recorded
  BY <1>2, <1>3, Ranks DEF Done, AllUnits
<1>8. Batches \subseteq DOMAIN docs[c] /\ Pure(c, docs[c])
  BY <1>2, <1>7 DEF Effects, PureDocuments, Collections
<1>9. /\ DOMAIN new = Keys
      /\ \A k \in DOMAIN docs[c] \ {ReactionKey} : new[k] = docs[c][k]
      /\ new[ReactionKey] = (formulas[NumBatches] \ {"twice"}) \cup {"activity_id"}
  BY <1>4, <1>8 DEF Put, Pure, RowsOf
<1>10. Pure(c, new)
  <2>1. formulas[NumBatches] \subseteq {Dump, OldDump}
    BY <1>4, <1>5 DEF Pure, Extra
  <2>2. "activity_id" \in Extra(c)
    BY DEF Extra
  <2>3. \A k \in Keys : k # ReactionKey => k \in DOMAIN docs[c] \ {ReactionKey}
    BY <1>4, <1>8
  <2> HIDE DEF new, formulas
  <2>4. QED  BY <1>8, <1>9, <2>1, <2>2, <2>3 DEF Pure, RowsOf
<1> HIDE DEF new
<1>11. PureDocuments' /\ docs'[c] = new /\ \A b \in Collections \ {c} : docs'[b] = docs[b]
  <2>1. c \in Collections
    BY DEF Collections
  <2>2. QED  BY <1>1, <1>2, <1>6, <1>10, <2>1, PureWrite
<1>12. Effects(docs', recorded)
  <2>1. /\ docs'["sde_types"] = docs["sde_types"] /\ docs'["sde_categories"] = docs["sde_categories"]
        /\ docs'["sde_planet_schematics"] = docs["sde_planet_schematics"]
        /\ docs'["market_order_history"] = docs["market_order_history"]
        /\ \A t \in Tables : docs'[t] = docs[t]
    BY <1>11 DEF Collections, Tables
  <2>2. Batches \subseteq DOMAIN docs'["sde_blueprints"]
    BY <1>4, <1>9, <1>11
  <2>3. Effects(docs, recorded)
    BY <1>2
  <2>4. QED  BY <1>7, <2>1, <2>2, <2>3 DEF Effects
<1>13. ASSUME NEW b \in Calls(u), Inner(u, a, b) PROVE Ready(u, b, docs', seen'[h])
  <2>1. a # ReadCall("invTypes") /\ a # ReadCall("industryActivity")
    BY <1>2 DEF ReadCall, Call
  <2>2. b.op = "activity_id"
    BY <1>2, <1>3, <1>13, <2>1 DEF Inner
  <2>3. b = Call("activity_id", "sde_blueprints", 0, "none")
    BY <1>2, <2>2, OpCases
  <2>4. b.from = "none"
    BY <2>3, CallFields
  <2>5. QED  BY <1>3, <1>9, <1>11, <2>2, <2>4 DEF Ready, Sources, Tables
<1>14. a # RecordCall(u)
  <2>1. RecordCall(u).op = "record"
    BY DEF RecordCall, Call
  <2>2. QED  BY <1>2, <2>1
<1>15. QED  BY <1>1, <1>2, <1>11, <1>12, <1>13, <1>14, CallKeeps DEF u, a

(* create_index of 0010 touches no document.                               *)
LEMMA CreateIndexKeeps ==
    ASSUME SyncInv, MigInv, NEW h \in inside, CreateIndex(h), UNCHANGED <<inside, serving, sync>>
    PROVE  MigInv'
<1> DEFINE u == Script[at[h]].unit
           a == CallOf(h)
<1>1. Doing(h, {"index"}) /\ Advance(h) /\ UNCHANGED <<applied, docs, seen, recorded>>
  BY DEF CreateIndex
<1>2. /\ at[h] \in 2 .. End - 1 /\ u \in AllUnits /\ a \in Calls(u) /\ a.op = "index"
      /\ recorded = Done(Rank(u)) /\ Effects(docs, Done(Rank(u)))
      /\ PureDocuments /\ h \in Holders
  <2>1. "steps" \notin {"index"}
    OBVIOUS
  <2> HIDE DEF u
  <2>2. QED  BY <1>1, <2>1, AtCall DEF u
<1> HIDE DEF u
<1>3. u = "0010"
  BY <1>2, OpCases
<1> HIDE DEF a
<1>4. ASSUME NEW b \in Calls(u), Inner(u, a, b) PROVE Ready(u, b, docs', seen'[h])
  <2>1. a # ReadCall("invTypes") /\ a # ReadCall("industryActivity")
    BY <1>2 DEF ReadCall, Call
  <2>2. b = RecordCall(u)
    BY <1>2, <1>3, <1>4, <2>1 DEF Inner
  <2>3. b.op = "record" /\ b.from = "none"
    BY <2>2 DEF RecordCall, Call
  <2>4. Effects(docs', {u})
    BY <1>3 DEF Effects, Tables
  <2>5. QED  BY <1>3, <2>3, <2>4 DEF Ready, Sources, Tables
<1>5. a # RecordCall(u)
  <2>1. RecordCall(u).op = "record"
    BY DEF RecordCall, Call
  <2>2. QED  BY <1>2, <2>1
<1>6. PureDocuments' /\ Effects(docs', recorded)
  BY <1>1, <1>2 DEF PureDocuments
<1>7. QED  BY <1>1, <1>2, <1>4, <1>5, <1>6, CallKeeps DEF u, a

-----------------------------------------------------------------------------
(* What an earlier release has left.                                       *)
LEMMA RecordedByRelease ==
    ASSUME NEW n \in 0 .. Len(Versions)
    PROVE  /\ n \in 0 .. 10 /\ RecordedUpTo(n) = Done(IF n = 0 THEN 1 ELSE n + 3)
           /\ \A u \in AllUnits \ Tables : u \in RecordedUpTo(n) <=> Rank(u) =< n + 2
           /\ \A t \in Tables : t \in RecordedUpTo(n) <=> n >= 1
<1>1. n \in 0 .. 10 /\ Len(Versions) = 10
  BY DEF Versions
<1>2. \A i \in 1 .. 10 : Versions[i] \in AllUnits \ Tables /\ Rank(Versions[i]) = i + 2
  <2>1. /\ Versions[1] = "0001" /\ Versions[2] = "0002" /\ Versions[3] = "0003" /\ Versions[4] = "0004"
        /\ Versions[5] = "0005" /\ Versions[6] = "0006" /\ Versions[7] = "0007" /\ Versions[8] = "0008"
        /\ Versions[9] = "0009" /\ Versions[10] = "0010"
    BY DEF Versions
  <2>2. \A i \in 1 .. 10 : i \in {1, 2, 3, 4, 5, 6, 7, 8, 9, 10}
    OBVIOUS
  <2>3. \A i \in {1, 2, 3, 4, 5, 6, 7, 8, 9, 10} : Versions[i] \in AllUnits \ Tables /\ Rank(Versions[i]) = i + 2
    BY <2>1, Ranks, SMTT(30) DEF AllUnits, Tables
  <2>4. QED  BY <2>2, <2>3
<1>3. \A u \in AllUnits : Rank(u) \in 1 .. 12 /\ \A v \in AllUnits : Rank(v) = Rank(u) => v = u
  BY UnitFacts
<1>4. \A u \in AllUnits : u \in Tables <=> Rank(u) < 3
  BY Ranks DEF AllUnits, Tables
<1>5. \A u \in AllUnits \ Tables : Rank(u) - 2 \in 1 .. 10 /\ Versions[Rank(u) - 2] = u
  <2> TAKE u \in AllUnits \ Tables
  <2>1. Rank(u) - 2 \in 1 .. 10
    BY <1>3, <1>4
  <2>2. Versions[Rank(u) - 2] \in AllUnits /\ Rank(Versions[Rank(u) - 2]) = Rank(u)
    BY <1>2, <1>3, <2>1, SMTT(30)
  <2>3. QED  BY <1>3, <2>1, <2>2
<1>6. ASSUME NEW u \in AllUnits \ Tables PROVE u \in RecordedUpTo(n) <=> Rank(u) =< n + 2
  <2>1. u \in RecordedUpTo(n) <=> \E i \in 1 .. n : Versions[i] = u
    BY DEF RecordedUpTo
  <2>2. \A i \in 1 .. n : i \in 1 .. 10
    BY <1>1
  <2>3. (\E i \in 1 .. n : Versions[i] = u) => Rank(u) =< n + 2
    BY <1>1, <1>2, <2>2
  <2>4. Rank(u) =< n + 2 => Rank(u) - 2 \in 1 .. n
    BY <1>1, <1>3, <1>5
  <2>5. QED  BY <1>5, <2>1, <2>3, <2>4
<1>7. ASSUME NEW t \in Tables PROVE t \in RecordedUpTo(n) <=> n >= 1
  <2>1. \A i \in 1 .. n : Versions[i] # t
    BY <1>1, <1>2
  <2>2. QED  BY <1>1, <2>1 DEF RecordedUpTo
<1>8. RecordedUpTo(n) \subseteq AllUnits /\ Tables \subseteq AllUnits
  <2>1. Tables \subseteq AllUnits
    BY DEF AllUnits, Tables
  <2>2. \A i \in 1 .. n : Versions[i] \in AllUnits
    BY <1>1, <1>2
  <2>3. QED  BY <2>1, <2>2 DEF RecordedUpTo
<1>9. RecordedUpTo(n) = Done(IF n = 0 THEN 1 ELSE n + 3)
  <2>1. ASSUME NEW u \in AllUnits PROVE u \in RecordedUpTo(n) <=> Rank(u) < IF n = 0 THEN 1 ELSE n + 3
    <3>1. CASE u \in Tables
      BY <1>1, <1>3, <1>4, <1>7, <3>1
    <3>2. CASE u \notin Tables
      BY <1>1, <1>3, <1>4, <1>6, <3>2
    <3>3. QED  BY <3>1, <3>2
  <2>2. QED  BY <1>8, <2>1 DEF Done
<1>10. QED  BY <1>1, <1>6, <1>7, <1>9

(* What an earlier release has left, whichever dump it loaded, agrees with *)
(* what it recorded; sde_planet_schematics of release 6 too, which 0006    *)
(* may have left empty.                                                    *)
LEMMA LeftByRelease ==
    ASSUME NEW n \in 0 .. Len(Versions), NEW d \in {Dump, OldDump}, NEW old \in BOOLEAN,
           NEW e, e \in {Migrated(n, d, old)} \cup
                     (IF n = 6 THEN {[Migrated(n, d, old) EXCEPT !["sde_planet_schematics"] = Empty]}
                               ELSE {})
    PROVE  /\ DOMAIN e = Collections /\ \A c \in Collections : Pure(c, e[c])
           /\ Effects(e, RecordedUpTo(n))
<1> DEFINE m == Migrated(n, d, old)
<1>0. n \in 0 .. 10
  BY RecordedByRelease
<1>1. /\ DOMAIN m = Collections
      /\ \A t \in Tables : m[t] = IF n >= 1 THEN Full({d}) ELSE Empty
      /\ m["sde_types"] = IF n >= 2 THEN Full({d} \cup (IF n >= 3 THEN {"volume"} ELSE {})
                                                    \cup (IF n >= 4 THEN {"category_id"} ELSE {}))
                                    ELSE Empty
      /\ m["sde_blueprints"] = IF n >= 8 THEN [k \in Keys |-> {d, "activity_id"}]
                               ELSE IF n >= 2 THEN Full({d}) ELSE Empty
      /\ m["sde_categories"] = IF n >= 5 THEN Full({d}) ELSE Empty
      /\ m["sde_planet_schematics"] = IF n >= 6 THEN Full({d}) ELSE Empty
      /\ m["market_order_history"] = IF old /\ n < 9 THEN Full({d}) ELSE Empty
  BY DEF Migrated, Collections, Tables
<1> HIDE DEF m
<1>2. /\ DOMAIN e = Collections
      /\ \A c \in Collections : c # "sde_planet_schematics" => e[c] = m[c]
      /\ \/ e["sde_planet_schematics"] = m["sde_planet_schematics"]
         \/ n = 6 /\ e["sde_planet_schematics"] = Empty
  <2>0. DOMAIN m = Collections
    BY <1>1
  <2>1. CASE e = m
    BY <2>0, <2>1
  <2>2. CASE e # m
    <3>1. n = 6 /\ e = [m EXCEPT !["sde_planet_schematics"] = Empty]
      BY <2>2 DEF m
    <3>2. "sde_planet_schematics" \in Collections
      BY DEF Collections
    <3>3. QED  BY <2>0, <3>1, <3>2
  <2>3. QED  BY <2>1, <2>2
<1>3. /\ \A tags : DOMAIN Full(tags) = Batches /\ \A k \in Batches : Full(tags)[k] = tags
      /\ DOMAIN Empty = {} /\ \A c \in Collections : Batches \subseteq RowsOf(c)
      /\ \A c \in Collections : Pure(c, Empty) /\ Pure(c, Full({d}))
      /\ Batches \subseteq Keys
  <2>1. \A tags : DOMAIN Full(tags) = Batches /\ \A k \in Batches : Full(tags)[k] = tags
    BY DEF Full
  <2>2. DOMAIN Empty = {}
    BY DEF Empty
  <2>3. Batches \subseteq Keys
    BY DatabaseAssumption DEF Batches, Keys, ReactionKey
  <2>4. \A c \in Collections : Batches \subseteq RowsOf(c)
    BY <2>3 DEF RowsOf
  <2>5. QED  BY <2>1, <2>2, <2>3, <2>4 DEF Pure
<1>4. \A c \in Collections : Pure(c, e[c])
  <2>1. ASSUME NEW c \in Collections, c \notin {"sde_types", "sde_blueprints"} PROVE Pure(c, e[c])
    <3>1. e[c] = Empty \/ e[c] = Full({d})
      BY <1>1, <1>2, <2>1 DEF Collections
    <3>2. QED  BY <1>3, <2>1, <3>1
  <2>2. Pure("sde_types", e["sde_types"])
    <3>1. "sde_types" \in Collections
      BY DEF Collections
    <3>2. CASE n >= 2
      <4> DEFINE tags == {d} \cup (IF n >= 3 THEN {"volume"} ELSE {})
                             \cup (IF n >= 4 THEN {"category_id"} ELSE {})
      <4>1. e["sde_types"] = Full(tags)
        BY <1>1, <1>2, <3>1, <3>2
      <4>2. tags \subseteq {Dump, OldDump} \cup Extra("sde_types")
        BY DEF Extra
      <4> HIDE DEF tags
      <4>3. QED  BY <1>3, <3>1, <4>1, <4>2 DEF Pure
    <3>3. CASE ~(n >= 2)
      BY <1>1, <1>2, <1>3, <3>1, <3>3
    <3>4. QED  BY <3>2, <3>3
  <2>3. Pure("sde_blueprints", e["sde_blueprints"])
    <3>1. "sde_blueprints" \in Collections
      BY DEF Collections
    <3>2. CASE n >= 8
      <4>1. e["sde_blueprints"] = [k \in Keys |-> {d, "activity_id"}]
        BY <1>1, <1>2, <3>1, <3>2
      <4>2. QED  BY <4>1 DEF Pure, Extra, RowsOf
    <3>3. CASE ~(n >= 8)
      <4>1. e["sde_blueprints"] = Full({d}) \/ e["sde_blueprints"] = Empty
        BY <1>1, <1>2, <3>1, <3>3
      <4>2. QED  BY <1>3, <3>1, <4>1
    <3>4. QED  BY <3>2, <3>3
  <2>4. QED  BY <2>1, <2>2, <2>3
<1>5. /\ \A t \in Tables : t \in RecordedUpTo(n) <=> n >= 1
      /\ "0002" \in RecordedUpTo(n) <=> n >= 2
      /\ "0003" \in RecordedUpTo(n) <=> n >= 3
      /\ "0004" \in RecordedUpTo(n) <=> n >= 4
      /\ "0005" \in RecordedUpTo(n) <=> n >= 5
      /\ "0007" \in RecordedUpTo(n) <=> n >= 7
      /\ "0008" \in RecordedUpTo(n) <=> n >= 8
      /\ "0009" \in RecordedUpTo(n) <=> n >= 9
  <2>1. {"0002", "0003", "0004", "0005", "0007", "0008", "0009"} \subseteq AllUnits \ Tables
    BY DEF AllUnits, Tables
  <2>2. \A u \in AllUnits \ Tables : u \in RecordedUpTo(n) <=> Rank(u) =< n + 2
    BY RecordedByRelease
  <2>3. /\ 4 =< n + 2 <=> n >= 2
        /\ 5 =< n + 2 <=> n >= 3
        /\ 6 =< n + 2 <=> n >= 4
        /\ 7 =< n + 2 <=> n >= 5
        /\ 9 =< n + 2 <=> n >= 7
        /\ 10 =< n + 2 <=> n >= 8
        /\ 11 =< n + 2 <=> n >= 9
    BY <1>0
  <2>4. QED  BY <2>1, <2>2, <2>3, Ranks, RecordedByRelease
<1>6. Effects(e, RecordedUpTo(n))
  <2>1. /\ \A t \in Tables : t \in Collections /\ t # "sde_planet_schematics"
        /\ {"sde_types", "sde_blueprints", "sde_categories", "market_order_history"} \subseteq Collections
    BY DEF Collections, Tables
  <2>2. \A t \in Tables : n >= 1 => DOMAIN e[t] = Batches
    BY <1>1, <1>2, <1>3, <2>1
  <2>3. n >= 2 => DOMAIN e["sde_types"] = Batches /\ Batches \subseteq DOMAIN e["sde_blueprints"]
    BY <1>1, <1>2, <1>3, <2>1
  <2>4. /\ n >= 3 => \A k \in DOMAIN e["sde_types"] : "volume" \in e["sde_types"][k]
        /\ n >= 4 => \A k \in DOMAIN e["sde_types"] : "category_id" \in e["sde_types"][k]
    <3>1. CASE n >= 3
      <4> DEFINE tags == {d} \cup (IF n >= 3 THEN {"volume"} ELSE {})
                             \cup (IF n >= 4 THEN {"category_id"} ELSE {})
      <4>1. e["sde_types"] = Full(tags)
        <5>1. e["sde_types"] = m["sde_types"] /\ n >= 2
          BY <1>0, <1>2, <2>1, <3>1
        <5>2. QED  BY <1>1, <5>1
      <4>2. "volume" \in tags /\ (n >= 4 => "category_id" \in tags)
        BY <3>1
      <4> HIDE DEF tags
      <4>3. DOMAIN e["sde_types"] = Batches /\ \A k \in Batches : e["sde_types"][k] = tags
        BY <1>3, <4>1
      <4>4. QED  BY <4>2, <4>3
    <3>2. CASE ~(n >= 3)
      BY <1>0, <3>2
    <3>3. QED  BY <3>1, <3>2
  <2>5. /\ n >= 5 => DOMAIN e["sde_categories"] = Batches
        /\ n >= 7 => DOMAIN e["sde_planet_schematics"] = Batches
        /\ n >= 9 => e["market_order_history"] = Empty
    BY <1>0, <1>1, <1>2, <1>3, <2>1
  <2>6. n >= 8 => /\ DOMAIN e["sde_blueprints"] = Keys
                  /\ \A k \in Keys : "activity_id" \in e["sde_blueprints"][k]
    <3>1. n >= 8 => e["sde_blueprints"] = [k \in Keys |-> {d, "activity_id"}]
      BY <1>1, <1>2, <2>1
    <3>2. QED  BY <3>1
  <2>7. QED  BY <1>5, <2>2, <2>3, <2>4, <2>5, <2>6 DEF Effects
<1>7. QED  BY <1>2, <1>4, <1>6

(* At the start no pod has begun, and the records are those of an earlier  *)
(* release.                                                                *)
LEMMA MigrationsBegin == ASSUME Init PROVE MigInv
<1>1. PICK n \in 0 .. Len(Versions), d \in {Dump, OldDump}, old \in BOOLEAN :
        /\ recorded = RecordedUpTo(n)
        /\ docs \in {Migrated(n, d, old)} \cup
                    (IF n = 6 THEN {[Migrated(n, d, old) EXCEPT !["sde_planet_schematics"] = Empty]}
                              ELSE {})
  BY DEF Init, MigrationsInit
<1>2. /\ DOMAIN docs = Collections /\ \A c \in Collections : Pure(c, docs[c])
      /\ Effects(docs, recorded)
  BY <1>1, LeftByRelease
<1>3. \E r \in 1 .. 13 : recorded = Done(r)
  <2>1. n \in 0 .. 10 /\ recorded = Done(IF n = 0 THEN 1 ELSE n + 3)
    BY <1>1, RecordedByRelease
  <2>2. (IF n = 0 THEN 1 ELSE n + 3) \in 1 .. 13
    BY <2>1
  <2>3. QED  BY <2>1, <2>2
<1>4. /\ applied = [h \in Holders |-> {}] /\ seen = [h \in Holders |-> NothingSeen]
      /\ at = [h \in Holders |-> 0] /\ serving = {} /\ \A h \in Holders : sync[h].at = "off"
  BY DEF Init, MigrationsInit, Sync!NotSyncing
<1>5. DOMAIN NothingSeen = Sources /\ \A c \in Sources : Pure(c, NothingSeen[c])
  BY DEF NothingSeen, Sources, Pure, Empty
<1>6. End \in Nat /\ End > 2
  BY ScriptFacts
<1>7. MigrationTypes
  <2>1. at \in [Holders -> 0 .. End]
    BY <1>4, <1>6
  <2>2. PureDocuments
    BY <1>2, <1>4, <1>5 DEF PureDocuments
  <2>3. QED  BY <1>4, <2>1, <2>2 DEF MigrationTypes
<1>8. \A h \in Holders : Position(h)
  BY <1>4, <1>6 DEF Position
<1>9. QED  BY <1>2, <1>3, <1>4, <1>7, <1>8 DEF MigInv

(* Every call of a migration.                                              *)
LEMMA MigrationKeeps ==
    ASSUME SyncInv, MigInv, NEW h \in inside, MigrationStep(h), UNCHANGED <<inside, serving, sync>>
    PROVE  MigInv'
BY BeginKeeps, ReadStepsKeeps, ReadKeeps, ClearKeeps, InsertKeeps, SetFieldKeeps, UpsertKeeps, CreateIndexKeeps,
   RecordKeeps DEF MigrationStep, Step

(* A pod that stops forgets; it has finished if it takes requests.         *)
LEMMA StopKeeps ==
    ASSUME SyncInv, MigInv, NEW h \in inside, Serve(h) \/ Fail(h)
    PROVE  MigInv'
<1>1. /\ h \in Holders /\ UNCHANGED <<docs, recorded>> /\ inside' = inside \ {h}
      /\ applied' = [applied EXCEPT ![h] = {}] /\ seen' = [seen EXCEPT ![h] = NothingSeen]
      /\ at' = [at EXCEPT ![h] = 0] /\ sync' = [sync EXCEPT ![h] = Sync!NotSyncing]
      /\ serving' = serving \/ sync[h].at = "synced"
  BY DEF Serve, Fail, Forget, Lock!Leave, Sync!Abort, SyncInv, LockInv
<1>2. /\ applied' \in [Holders -> SUBSET AllUnits] /\ DOMAIN seen' = Holders
      /\ \A g \in Holders : seen'[g] = IF g = h THEN NothingSeen ELSE seen[g]
      /\ \A g \in Holders : at'[g] = IF g = h THEN 0 ELSE at[g]
      /\ \A g \in Holders : sync'[g] = IF g = h THEN Sync!NotSyncing ELSE sync[g]
  BY <1>1 DEF MigInv, MigrationTypes, PureDocuments, SyncInv, SyncTypes
<1>3. DOMAIN NothingSeen = Sources /\ \A c \in Sources : Pure(c, NothingSeen[c])
  BY DEF NothingSeen, Sources, Pure, Empty
<1>4. End \in Nat /\ End > 2
  BY ScriptFacts
<1>5. MigrationTypes'
  <2>1. at' \in [Holders -> 0 .. End]
    BY <1>1, <1>4 DEF MigInv, MigrationTypes
  <2>2. PureDocuments'
    BY <1>1, <1>2, <1>3 DEF MigInv, MigrationTypes, PureDocuments
  <2>3. QED  BY <1>2, <2>1, <2>2 DEF MigrationTypes
<1>6. \A g \in Holders : at'[g] = 0
  BY <1>2 DEF MigInv, Position, SyncInv, LockInv
<1>7. \A g \in Holders : sync'[g].at = "off"
  BY <1>2 DEF SyncInv, LockInv, Sync!NotSyncing
<1>8. \A g \in Holders : Position(g)'
  BY <1>4, <1>6 DEF Position
<1>9. serving' # {} => recorded' = AllUnits
  <2>1. CASE sync[h].at = "synced"
    BY <1>1, <2>1 DEF MigInv, Position
  <2>2. CASE serving' = serving
    BY <1>1, <2>2 DEF MigInv
  <2>3. QED  BY <1>1, <2>1, <2>2
<1>10. QED  BY <1>1, <1>5, <1>7, <1>8, <1>9 DEF MigInv

(* Whatever dies or fails on the way, the units are recorded one after the *)
(* other, and what a pod finds recorded is in effect.                      *)
THEOREM MigrationInvariant == Spec => []MigInv
<1>1. Init => MigInv
  BY MigrationsBegin
<1>2. SyncInv /\ MigInv /\ [Next]_vars => MigInv'
  <2> SUFFICES ASSUME SyncInv, MigInv, [Next]_vars PROVE MigInv'
    OBVIOUS
  <2>1. ASSUME UNCHANGED <<docs, recorded, applied, seen, at, serving>>,
               \A g \in Holders : at[g] # 0 => g \in inside',
               \A g \in Holders : sync'[g].at # "off" => at[g] = End
        PROVE  MigInv'
    <3>1. MigrationTypes'
      BY <2>1 DEF MigInv, MigrationTypes, PureDocuments
    <3>2. \A g \in Holders : Position(g)'
      BY <2>1 DEF MigInv, Position
    <3>3. QED  BY <2>1, <3>1, <3>2 DEF MigInv
  <2>2. CASE UNCHANGED vars
    BY <2>1, <2>2 DEF vars, lockVars, migrationVars, MigInv, Position
  <2>3. ASSUME NEW h \in Holders, EnterBody(h) PROVE MigInv'
    BY <2>1, <2>3 DEF EnterBody, Lock!Enter, migrationVars, MigInv, Position
  <2>4. ASSUME NEW h \in Holders, RunMigrations(h) PROVE MigInv'
    BY <2>4, MigrationKeeps DEF RunMigrations, lockVars
  <2>5. ASSUME NEW h \in Holders, SyncIndexes(h) PROVE MigInv'
    <3>1. \A g \in Holders : g # h => sync'[g] = sync[g]
      BY <2>5 DEF SyncIndexes, Sync!SyncStep, Sync!StartSync, Sync!Lookup, Sync!Drop, Sync!Create, Sync!Record,
         Sync!FindUnmanaged, Sync!NextUnmanaged, Sync!Forget, Sync!EndSync, Sync!GoOn, Sync!Goto,
         SyncInv, SyncTypes
    <3>2. QED  BY <2>1, <2>5, <3>1 DEF SyncIndexes, lockVars, migrationVars, MigInv, Position
  <2>6. ASSUME NEW h \in Holders, Serve(h) \/ Fail(h) PROVE MigInv'
    BY <2>6, StopKeeps DEF Serve, Fail, Lock!Leave
  <2>7. ASSUME NEW h \in Holders, GiveUp(h) PROVE MigInv'
    BY <2>1, <2>7 DEF GiveUp, Lock!Miss, migrationVars, MigInv, Position
  <2>8. QED  BY <2>2, <2>3, <2>4, <2>5, <2>6, <2>7 DEF Next, Finished
<1>3. QED  BY <1>1, <1>2, SyncInvariant, PTL DEF Spec

(* A migration that is recorded, and so skipped by every later start, is   *)
(* in effect (app/migrations/runner.py).                                   *)
THEOREM RecordedTookEffect == Spec => []RecordedIsInEffect
<1>1. MigInv => RecordedIsInEffect
  <2> SUFFICES ASSUME MigInv, NEW u \in recorded PROVE InEffect(u)
    BY DEF RecordedIsInEffect
  <2>1. PICK r \in 1 .. 13 : recorded = Done(r)
    BY DEF MigInv
  <2>2. u \in AllUnits /\ Effects(docs, recorded)
    BY <2>1 DEF Done, MigInv
  <2>3. u = "0001" => Tables \subseteq recorded
    <3>1. u = "0001" => 3 < r
      BY <2>1, Ranks DEF Done
    <3>2. QED  BY <2>1, <3>1, Ranks DEF Done, AllUnits, Tables
  <2>4. \A c : Complete(c, {}) <=> Batches \subseteq DOMAIN docs[c]
    BY DEF Complete
  <2>5. u \in {"0003", "0004"} => "0002" \in recorded
    <3>1. u \in {"0003", "0004"} => 4 < r
      BY <2>1, Ranks DEF Done
    <3>2. QED  BY <2>1, <3>1, Ranks DEF Done, AllUnits
  <2>6. Batches \subseteq Keys /\ ReactionKey \in Keys
    BY DatabaseAssumption DEF Batches, Keys, ReactionKey
  <2>7. CASE u \in Tables \cup {"0001", "0002", "0005", "0006", "0007"}
    BY <2>2, <2>3, <2>4, <2>7 DEF InEffect, Effects, Tables
  <2>8. CASE u \in {"0003", "0004"}
    BY <2>2, <2>5, <2>8 DEF InEffect, Effects, Complete, Tables
  <2>9. CASE u = "0008"
    BY <2>2, <2>6, <2>9 DEF InEffect, Effects, Complete, Tables
  <2>10. CASE u = "0009"
    BY <2>2, <2>10 DEF InEffect, Effects, Tables
  <2>11. CASE u = "0010"
    BY <2>11 DEF InEffect, Tables
  <2>12. QED  BY <2>2, <2>7, <2>8, <2>9, <2>10, <2>11 DEF AllUnits, Tables
<1>2. QED  BY <1>1, MigrationInvariant, PTL

(* No pod runs into a DuplicateKeyError of a migration (main.py:67-72).    *)
THEOREM NothingCollides == Spec => []NoDuplicateKey
<1>1. SyncInv /\ MigInv => NoDuplicateKey
  <2> SUFFICES ASSUME SyncInv, MigInv, NEW h \in Holders, Running(h), Collides(h) PROVE FALSE
    BY DEF NoDuplicateKey
  <2> DEFINE a == CallOf(h)
             u == Script[at[h]].unit
  <2>1. h \in inside
    BY DEF Running, MigInv, Position
  <2>2. Doing(h, {"record", "insert"})
    BY DEF Collides, Doing
  <2>3. /\ u \in AllUnits /\ a \in Calls(u) /\ recorded = Done(Rank(u))
    <3>1. "steps" \notin {"record", "insert"}
      OBVIOUS
    <3> HIDE DEF u
    <3>2. QED  BY <2>1, <2>2, <3>1, AtCall DEF u
  <2>4. CASE a.op = "record"
    <3>1. a.coll = u
      <4>1. a = RecordCall(u)
        BY <2>3, <2>4, OpCases
      <4> HIDE DEF a, u
      <4>2. QED  BY <4>1, CallFields DEF RecordCall
    <3>2. u \notin recorded
      BY <2>3, UnitFacts DEF Done
    <3>3. QED  BY <2>4, <3>1, <3>2 DEF Collides
  <2>5. CASE a.op = "insert"
    <3>1. Doing(h, {"insert"})
      BY <2>2, <2>5 DEF Doing
    <3> HIDE DEF u
    <3>2. /\ a.key \in Batches /\ DOMAIN docs[a.coll] = 1 .. a.key - 1
          /\ "twice" \notin Source(h)[a.key]
      BY <2>1, <3>1, InsertMakes DEF u
    <3>3. ~Has(docs[a.coll], a.key)
      BY <3>2, DatabaseAssumption DEF Has, Batches
    <3>4. QED  BY <2>5, <3>2, <3>3 DEF Collides
  <2>6. QED  BY <2>4, <2>5 DEF Collides
<1>2. QED  BY <1>1, SyncInvariant, MigrationInvariant, PTL

(* A pod takes requests on the database that an undisturbed run of all the *)
(* migrations would have made (main.py runs them before it yields).        *)
THEOREM ServedWhenMigrated == Spec => []ServingPodsAreMigrated
<1>1. MigInv => ServingPodsAreMigrated
  <2> SUFFICES ASSUME MigInv, serving # {} PROVE FullyMigrated
    BY DEF ServingPodsAreMigrated
  <2>1. recorded = AllUnits /\ Effects(docs, AllUnits) /\ PureDocuments
    BY DEF MigInv, MigrationTypes
  <2>2. /\ \A t \in Tables : DOMAIN docs[t] = Batches
        /\ DOMAIN docs["sde_types"] = Batches
        /\ \A k \in Batches : {"volume", "category_id"} \subseteq docs["sde_types"][k]
        /\ DOMAIN docs["sde_blueprints"] = Keys
        /\ \A k \in Keys : "activity_id" \in docs["sde_blueprints"][k]
        /\ DOMAIN docs["sde_categories"] = Batches
        /\ DOMAIN docs["sde_planet_schematics"] = Batches
        /\ docs["market_order_history"] = Empty
    BY <2>1 DEF Effects, AllUnits, Tables
  <2>3. \A c \in Collections : Pure(c, docs[c])
    BY <2>1 DEF PureDocuments
  <2>4. {"volume", "category_id", "activity_id"} \cap {Dump, OldDump} = {}
    BY DatabaseAssumption
  <2> DEFINE m == Migrated(Len(Versions), Dump, FALSE)
  <2>5. /\ \A t \in Tables : m[t] = Full({Dump})
        /\ m["sde_types"] = Full({Dump} \cup {"volume"} \cup {"category_id"})
        /\ m["sde_blueprints"] = [k \in Keys |-> {Dump, "activity_id"}]
        /\ m["sde_categories"] = Full({Dump})
        /\ m["sde_planet_schematics"] = Full({Dump})
        /\ m["market_order_history"] = Empty
    <3>1. Len(Versions) = 10
      BY DEF Versions
    <3> DEFINE n == Len(Versions)
    <3>2. n >= 1 /\ n >= 2 /\ n >= 3 /\ n >= 4 /\ n >= 5 /\ n >= 6 /\ n >= 8
      BY <3>1
    <3> HIDE DEF n
    <3>3. m = Migrated(n, Dump, FALSE)
      BY DEF n
    <3> HIDE DEF m
    <3>4. QED  BY <3>2, <3>3 DEF Migrated, Collections, Tables
  <2> HIDE DEF m
  <2>6. ASSUME NEW c \in Collections, NEW D, NEW tags, DOMAIN docs[c] = D, m[c] = [k \in D |-> tags],
               \A k \in D : docs[c][k] \ {Dump, OldDump} = tags \ {Dump, OldDump}
        PROVE  SameFields(docs, m, c)
    <3>1. Fields(docs[c]) = [k \in D |-> docs[c][k] \ {Dump, OldDump}]
      BY <2>6 DEF Fields
    <3>2. Fields(m[c]) = [k \in D |-> tags \ {Dump, OldDump}]
      BY <2>6 DEF Fields
    <3>3. QED  BY <2>6, <3>1, <3>2 DEF SameFields
  <2>7. \A c \in Collections : \A k \in DOMAIN docs[c] : docs[c][k] \subseteq {Dump, OldDump} \cup Extra(c)
    BY <2>3 DEF Pure
  <2>8. ASSUME NEW c \in Tables \cup {"sde_categories", "sde_planet_schematics"} PROVE SameFields(docs, m, c)
    <3>1. c \in Collections /\ Extra(c) = {} /\ DOMAIN docs[c] = Batches /\ m[c] = [k \in Batches |-> {Dump}]
      BY <2>2, <2>5 DEF Collections, Tables, Extra, Full
    <3>2. \A k \in Batches : docs[c][k] \ {Dump, OldDump} = {Dump} \ {Dump, OldDump}
      BY <2>7, <3>1
    <3>3. QED  BY <2>6, <3>1, <3>2
  <2>9. SameFields(docs, m, "sde_types")
    <3> DEFINE c == "sde_types"
               tags == {Dump} \cup {"volume"} \cup {"category_id"}
    <3>1. c \in Collections /\ Extra(c) = {"volume", "category_id"} /\ m[c] = [k \in Batches |-> tags]
      BY <2>5 DEF Collections, Extra, Full
    <3>2. \A k \in Batches : docs[c][k] \ {Dump, OldDump} = tags \ {Dump, OldDump}
      BY <2>2, <2>4, <2>7, <3>1
    <3>3. DOMAIN docs[c] = Batches
      BY <2>2
    <3> HIDE DEF c, tags
    <3>4. SameFields(docs, m, c)
      BY <2>6, <3>1, <3>2, <3>3
    <3>5. QED  BY <3>4 DEF c
  <2>10. SameFields(docs, m, "sde_blueprints")
    <3> DEFINE c == "sde_blueprints"
               tags == {Dump, "activity_id"}
    <3>1. c \in Collections /\ Extra(c) = {"activity_id"} /\ m[c] = [k \in Keys |-> tags]
      BY <2>5 DEF Collections, Extra
    <3>2. \A k \in Keys : docs[c][k] \ {Dump, OldDump} = tags \ {Dump, OldDump}
      BY <2>2, <2>4, <2>7, <3>1
    <3>3. DOMAIN docs[c] = Keys
      BY <2>2
    <3> HIDE DEF c, tags
    <3>4. SameFields(docs, m, c)
      BY <2>6, <3>1, <3>2, <3>3
    <3>5. QED  BY <3>4 DEF c
  <2>11. SameFields(docs, m, "market_order_history")
    BY <2>2, <2>5 DEF SameFields
  <2>12. MigrationIds \subseteq recorded
    BY <2>1, ScriptFacts
  <2>13. \A c \in Collections : SameFields(docs, m, c)
    BY <2>8, <2>9, <2>10, <2>11 DEF Collections
  <2>14. QED  BY <2>12, <2>13 DEF FullyMigrated, m
<1>2. QED  BY <1>1, MigrationInvariant, PTL

(* The types: the collections hold documents of the dumps, with the fields *)
(* the migrations add, under the keys of the dump, and no others.          *)
THEOREM TypeCorrect == Spec => []TypeOK
<1>1. SyncInv /\ MigInv => TypeOK
  <2> SUFFICES ASSUME SyncInv, MigInv PROVE TypeOK
    OBVIOUS
  <2>1. Batches \subseteq Keys
    BY DatabaseAssumption DEF Batches, Keys, ReactionKey
  <2>2. \A c \in Collections : RowsOf(c) \subseteq Keys /\ {Dump, OldDump} \cup Extra(c) \subseteq Tags
    BY <2>1 DEF RowsOf, Extra, Tags
  <2>3. recorded \subseteq AllUnits
    BY DEF MigInv, Done
  <2>4. MigrationsTypeOK
    BY <2>2, <2>3, ScriptFacts DEF MigInv, MigrationTypes, PureDocuments, Pure, MigrationsTypeOK
  <2>5. Sync!SyncTypeOK
    BY DEF SyncInv, SyncTypes, Sync!SyncTypeOK, Resting
  <2>6. QED  BY <2>4, <2>5 DEF TypeOK, SyncInv, LockInv
<1>2. QED  BY <1>1, SyncInvariant, MigrationInvariant, PTL
=============================================================================
