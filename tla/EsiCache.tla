------------------------------ MODULE EsiCache ------------------------------
(***************************************************************************)
(* What eve-build keeps of ESI's lists (app/services/esi_cache.py,         *)
(* app/services/cache.py, app/services/character_data.py), for one         *)
(* character and its corporation: for each source (assets, blueprints,     *)
(* ...) a Redis key with a time to live, which answers the pages, and the  *)
(* documents of a Mongo collection, which the settings page counts.        *)
(*                                                                         *)
(* A page or a job of tracked_info.py reads the character's document and   *)
(* then looks its sources up one by one; a miss is a fetch and three       *)
(* writes with an await before each.  "Refresh" and "clear my data" of the *)
(* settings page sweep the sources in order.  Nothing is locked.           *)
(*                                                                         *)
(* A list is known by the state of ESI it was read from: esi counts these  *)
(* states.  Anything may end in the middle: by ESI's error or a 401/403    *)
(* while it fetches, by Mongo's, by the death of its pod.                  *)
(***************************************************************************)
EXTENDS Integers, Sequences, FiniteSets

CONSTANTS
    PersonalSources,    \* _PERSONAL_SOURCES, in order
    CorpSources,        \* _CORP_SOURCES, in order
    Requests,           \* bound: pages and jobs under way
    Sweeps,             \* bound: refreshes and clears under way
    MaxEsi              \* bound: states of ESI's data

Personal == {PersonalSources[i] : i \in DOMAIN PersonalSources}
Corp == {CorpSources[i] : i \in DOMAIN CorpSources}
Sources == Personal \cup Corp

ASSUME CacheAssumption ==
    /\ PersonalSources \in Seq(Personal) /\ CorpSources \in Seq(Corp)
    /\ Personal # {} /\ Personal \cap Corp = {}
    /\ IsFiniteSet(Requests)
    /\ MaxEsi \in Nat \ {0}

VARIABLES
    esi,                \* ESI's data is in its esi-th state
    known,              \* the character's document exists
    redis,              \* the list under each source's key
    coll,               \* how many lists each source's collection holds
    req,                \* the pages and jobs under way
    sweep,              \* the refreshes and clears under way
    clean               \* history: esi when a source was last swept undisturbed, or at first

vars == <<esi, known, redis, coll, req, sweep, clean>>

-----------------------------------------------------------------------------
NoList == 0
List == 1 .. MaxEsi

(* todo: sources still to look up; src: the source being filled; entries:  *)
(* the list fetched for it, and empty: whether `if entry_dicts` will fail. *)
Stages == {"idle", "lookup", "fetch", "delete", "insert", "set"}
Request ==
    [at : Stages, todo : SUBSET Sources, src : Sources,
     entries : List \cup {NoList}, empty : BOOLEAN]
Filling(r, s) == req[r].at \in {"delete", "insert", "set"} /\ req[r].src = s
Inserting(s) == {r \in Requests : req[r].at = "insert" /\ req[r].src = s}

Sweep ==
    [at : {"idle", "collection", "key"}, kind : {"refresh", "clear"},
     todo : Seq(Sources)]

TypeOK ==
    /\ esi \in List
    /\ known \in BOOLEAN
    /\ redis \in [Sources -> List \cup {NoList}]
    /\ coll \in [Sources -> Nat]
    /\ req \in [Requests -> Request]
    /\ sweep \in [Sweeps -> Sweep]
    /\ \A w \in Sweeps : sweep[w].at = "key" => sweep[w].todo # <<>>
    /\ clean \in [Sources -> List]

AnySource == CHOOSE s \in Sources : TRUE
IdleRequest ==
    [at |-> "idle", todo |-> {}, src |-> AnySource, entries |-> NoList, empty |-> FALSE]
IdleSweep == [at |-> "idle", kind |-> "refresh", todo |-> <<>>]

Init ==
    /\ esi = 1
    /\ known = TRUE
    /\ redis = [s \in Sources |-> NoList]
    /\ coll = [s \in Sources |-> 0]
    /\ req = [r \in Requests |-> IdleRequest]
    /\ sweep = [w \in Sweeps |-> IdleSweep]
    /\ clean = [s \in Sources |-> esi]

-----------------------------------------------------------------------------
(* Outside: ESI's data changes, Redis lets a key go when its time is up,   *)
(* the player signs in again after a clear.                                *)
Change ==
    /\ esi < MaxEsi
    /\ esi' = esi + 1
    /\ UNCHANGED <<known, redis, coll, req, sweep, clean>>

Expire(s) ==
    /\ redis[s] # NoList
    /\ redis' = [redis EXCEPT ![s] = NoList]
    /\ UNCHANGED <<esi, known, coll, req, sweep, clean>>

LogIn ==
    /\ ~known
    /\ known' = TRUE
    /\ UNCHANGED <<esi, redis, coll, req, sweep, clean>>

-----------------------------------------------------------------------------
Set(r, q) == req' = [req EXCEPT ![r] = q]
LookingUp(todo) == [IdleRequest EXCEPT !.at = "lookup", !.todo = todo]
GoOn(r) == Set(r, LookingUp(req[r].todo))

(* A page or a job: the lists it will want, the character's own only if    *)
(* the document was found.  Corporation lists are wanted by other members  *)
(* too.                                                                    *)
Begin(r, wanted) ==
    /\ req[r].at = "idle"
    /\ wanted # {}
    /\ wanted \cap Personal # {} => known
    /\ Set(r, LookingUp(wanted))
    /\ UNCHANGED <<esi, known, redis, coll, sweep, clean>>

(* The key is there: the list is served from it.                           *)
Hit(r, s) ==
    /\ req[r].at = "lookup" /\ s \in req[r].todo
    /\ redis[s] # NoList
    /\ Set(r, [req[r] EXCEPT !.todo = @ \ {s}])
    /\ UNCHANGED <<esi, known, redis, coll, sweep, clean>>

(* The key is not there; or Redis failed, or the entries under it are of   *)
(* another release's type, which count as a miss.                          *)
Miss_DeletesFirst(r, s) ==
    /\ req[r].at = "lookup" /\ s \in req[r].todo
    /\ coll' = [coll EXCEPT ![s] = 0]
    /\ Set(r, [req[r] EXCEPT !.at = "fetch", !.todo = @ \ {s}, !.src = s])
    /\ UNCHANGED <<esi, known, redis, sweep, clean>>

Miss(r, s) ==
    /\ req[r].at = "lookup" /\ s \in req[r].todo
    /\ Set(r, [req[r] EXCEPT !.at = "fetch", !.todo = @ \ {s}, !.src = s])
    /\ UNCHANGED <<esi, known, redis, coll, sweep, clean>>

Fetch(r) ==
    /\ req[r].at = "fetch"
    /\ \E empty \in BOOLEAN :
          Set(r, [req[r] EXCEPT !.at = "delete", !.entries = esi, !.empty = empty])
    /\ UNCHANGED <<esi, known, redis, coll, sweep, clean>>

(* 401 or 403 for a corporation's list: the page does without it.          *)
Refused(r) ==
    /\ req[r].at = "fetch" /\ req[r].src \in Corp
    /\ GoOn(r)
    /\ UNCHANGED <<esi, known, redis, coll, sweep, clean>>

DeleteMany_OnlyIfEmpty(r) ==
    /\ req[r].at = "delete"
    /\ coll' = IF req[r].empty THEN [coll EXCEPT ![req[r].src] = 0] ELSE coll
    /\ Set(r, [req[r] EXCEPT !.at = IF req[r].empty THEN "set" ELSE "insert",
                             !.empty = FALSE])
    /\ UNCHANGED <<esi, known, redis, sweep, clean>>

DeleteMany(r) ==
    /\ req[r].at = "delete"
    /\ coll' = [coll EXCEPT ![req[r].src] = 0]
    /\ Set(r, [req[r] EXCEPT !.at = IF req[r].empty THEN "set" ELSE "insert",
                             !.empty = FALSE])
    /\ UNCHANGED <<esi, known, redis, sweep, clean>>

(* A part of a list, when the insertion is cut short, counts as a list.    *)
InsertMany(r) ==
    /\ req[r].at = "insert"
    /\ coll' = [coll EXCEPT ![req[r].src] = @ + 1]
    /\ Set(r, [req[r] EXCEPT !.at = "set"])
    /\ UNCHANGED <<esi, known, redis, sweep, clean>>

(* Redis' errors are counted and forgotten.                                *)
SetCached(r) ==
    /\ req[r].at = "set"
    /\ \/ redis' = [redis EXCEPT ![req[r].src] = req[r].entries]
       \/ UNCHANGED redis
    /\ GoOn(r)
    /\ UNCHANGED <<esi, known, coll, sweep, clean>>

(* Answered, failed or dead; an insertion that was cut short has stored    *)
(* some of its list.                                                       *)
Leave(r) ==
    /\ req[r].at # "idle"
    /\ \/ UNCHANGED coll
       \/ /\ req[r].at = "insert"
          /\ coll' = [coll EXCEPT ![req[r].src] = @ + 1]
    /\ Set(r, IdleRequest)
    /\ UNCHANGED <<esi, known, redis, sweep, clean>>

RequestStep(r) ==
    \/ \E s \in Sources : Hit(r, s) \/ Miss(r, s)
    \/ Fetch(r) \/ Refused(r) \/ DeleteMany(r) \/ InsertMany(r) \/ SetCached(r)
    \/ Leave(r)

-----------------------------------------------------------------------------
(* refresh_character_data, with the corporation's sources if the document  *)
(* read at its start was connected; clear_character_data.                  *)
BeginSweep(w, kind, sources) ==
    /\ sweep[w].at = "idle"
    /\ known
    /\ sweep' = [sweep EXCEPT ![w] = [at |-> "collection", kind |-> kind, todo |-> sources]]
    /\ UNCHANGED <<esi, known, redis, coll, req, clean>>

Refresh(w) ==
    \/ BeginSweep(w, "refresh", PersonalSources)
    \/ BeginSweep(w, "refresh", PersonalSources \o CorpSources)

Clear(w) == BeginSweep(w, "clear", PersonalSources)

(* invalidate_*_list: the collection, ...                                  *)
SweepCollection(w) ==
    /\ sweep[w].at = "collection" /\ sweep[w].todo # <<>>
    /\ coll' = [coll EXCEPT ![Head(sweep[w].todo)] = 0]
    /\ sweep' = [sweep EXCEPT ![w].at = "key"]
    /\ UNCHANGED <<esi, known, redis, req, clean>>

(* ... then the key, whose deletion may fail unnoticed.                    *)
SweepKey_OtherKey(w) ==
    /\ sweep[w].at = "key"
    /\ LET s == Head(sweep[w].todo) IN
          clean' = IF \E r \in Requests : Filling(r, s)
                     THEN clean ELSE [clean EXCEPT ![s] = esi]
    /\ sweep' = [sweep EXCEPT ![w].at = "collection", ![w].todo = Tail(@)]
    /\ UNCHANGED <<esi, known, redis, coll, req>>

SweepKey_NextKeyAtOnce(w) ==
    /\ sweep[w].at = "key"
    /\ redis' = [redis EXCEPT ![Head(sweep[w].todo)] = NoList]
    /\ sweep' = [sweep EXCEPT ![w].todo = Tail(@)]
    /\ UNCHANGED <<esi, known, coll, req, clean>>

SweepKey(w) ==
    /\ sweep[w].at = "key"
    /\ LET s == Head(sweep[w].todo) IN
          \/ /\ redis' = [redis EXCEPT ![s] = NoList]
             /\ clean' = IF \E r \in Requests : Filling(r, s)
                           THEN clean ELSE [clean EXCEPT ![s] = esi]
          \/ UNCHANGED <<redis, clean>>
    /\ sweep' = [sweep EXCEPT ![w].at = "collection", ![w].todo = Tail(@)]
    /\ UNCHANGED <<esi, known, coll, req>>

(* The last thing a clear does is to delete the document.                  *)
FinishSweep(w) ==
    /\ sweep[w].at = "collection" /\ sweep[w].todo = <<>>
    /\ known' = IF sweep[w].kind = "clear" THEN FALSE ELSE known
    /\ sweep' = [sweep EXCEPT ![w] = IdleSweep]
    /\ UNCHANGED <<esi, redis, coll, req, clean>>

AbandonSweep(w) ==
    /\ sweep[w].at # "idle"
    /\ sweep' = [sweep EXCEPT ![w] = IdleSweep]
    /\ UNCHANGED <<esi, known, redis, coll, req, clean>>

SweepStep(w) ==
    \/ Refresh(w) \/ Clear(w)
    \/ SweepCollection(w) \/ SweepKey(w) \/ FinishSweep(w) \/ AbandonSweep(w)

-----------------------------------------------------------------------------
Next ==
    \/ Change \/ LogIn
    \/ \E s \in Sources : Expire(s)
    \/ \E r \in Requests, wanted \in SUBSET Sources : Begin(r, wanted)
    \/ \E r \in Requests : RequestStep(r)
    \/ \E w \in Sweeps : SweepStep(w)

Spec == Init /\ [][Next]_vars

-----------------------------------------------------------------------------
(* PROPERTIES                                                              *)

(* However its fills overlap and wherever they die, a collection holds no  *)
(* more copies of its list than there are requests at one time: the        *)
(* delete_many of each fill makes up for the copies of earlier ones        *)
(* (esi_cache.py:45-47, 114-116).                                          *)
CopiesAreBounded == \A s \in Sources : coll[s] <= Cardinality(Requests)

(* A stored list is only given up for another one, or on demand: a         *)
(* collection is emptied by a sweep, or by a request that holds the list   *)
(* to store instead; a fetch that fails leaves the old list                *)
(* (esi_cache.py:41-45).                                                   *)
FailedFetchKeepsList ==
    [][\A s \in Sources :
          coll'[s] < coll[s] =>
             \/ \E r \in Requests : req[r].src = s /\ req[r].entries # NoList
             \/ \E w \in Sweeps : s \in {sweep[w].todo[i] : i \in DOMAIN sweep[w].todo}]_vars

(* "Refresh" works: once a sweep has deleted a source's key with no fill   *)
(* of that source in flight, no page is served a list that is older than   *)
(* the sweep (character_data.py:389).                                      *)
RefreshTakesEffect == \A s \in Sources : redis[s] # NoList => redis[s] >= clean[s]

(* "Deletes everything eve-build has stored about this character: cached   *)
(* personal data ..." (character_data.py:412): without its document, no    *)
(* collection has a list of the character.                                 *)
ClearedIsGone == ~known => \A s \in Personal : coll[s] = 0
=============================================================================
