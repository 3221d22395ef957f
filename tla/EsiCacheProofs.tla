--------------------------- MODULE EsiCacheProofs ---------------------------
(***************************************************************************)
(* Theorems about EsiCache, for any sources, any number of requests and    *)
(* sweeps and any number of changes of ESI's data: types, the bound on the *)
(* copies that a collection can hold, and what a refresh achieves.         *)
(***************************************************************************)
EXTENDS EsiCache, FiniteSetTheorems, TLAPS

(* A list in flight is no older than the last undisturbed sweep of its     *)
(* source, nor is that sweep in the future.                                *)
FlightInv ==
    /\ \A r \in Requests : req[r].at \in {"delete", "insert", "set"} =>
          req[r].entries \in List /\ req[r].entries >= clean[req[r].src]
    /\ \A s \in Sources : clean[s] <= esi

(* Each request that has deleted and will insert has room for its copy: a  *)
(* delete_many leaves nothing but what such requests will add.             *)
RoomInv == \A s \in Sources : coll[s] + Cardinality(Inserting(s)) <= Cardinality(Requests)

CacheInv == TypeOK /\ FlightInv /\ RefreshTakesEffect

-----------------------------------------------------------------------------
LEMMA Constants ==
    /\ MaxEsi \in Nat \ {0} /\ 1 \in List /\ List \subseteq Nat /\ NoList \notin List
    /\ AnySource \in Sources /\ IdleRequest \in Request /\ Personal \cup Corp = Sources
    /\ PersonalSources \in Seq(Sources)
    /\ PersonalSources \o CorpSources \in Seq(Sources)
<1>1. MaxEsi \in Nat \ {0} /\ 1 \in List /\ List \subseteq Nat /\ NoList \notin List
  BY CacheAssumption DEF List, NoList
<1>2. AnySource \in Sources
  <2>1. \E s \in Sources : TRUE
    BY CacheAssumption DEF Sources
  <2>2. QED  BY <2>1 DEF AnySource
<1>3. IdleRequest \in Request
  BY <1>2 DEF IdleRequest, Request, Stages
<1>4. Personal \subseteq Sources /\ Corp \subseteq Sources
  BY DEF Sources
<1>5. PersonalSources \in Seq(Sources) /\ CorpSources \in Seq(Sources)
  BY CacheAssumption, <1>4
<1>6. PersonalSources \o CorpSources \in Seq(Sources)
  BY <1>5
<1>7. QED  BY <1>1, <1>2, <1>3, <1>5, <1>6 DEF Sources

LEMMA TodoIsTyped ==
    ASSUME NEW todo \in SUBSET Sources
    PROVE  LookingUp(todo) \in Request
BY Constants DEF LookingUp, IdleRequest, Request, Stages

LEMMA OneMore ==
    ASSUME NEW S, NEW f \in [S -> Nat], NEW x \in S
    PROVE  [f EXCEPT ![x] = @ + 1] \in [S -> Nat]
OBVIOUS

(* The steps of a request, all but the two that touch no request.          *)
LEMMA RequestKeepsTypes ==
    ASSUME TypeOK, NEW r \in Requests,
           RequestStep(r) \/ \E wanted \in SUBSET Sources : Begin(r, wanted)
    PROVE  TypeOK'
<1> USE Constants, TodoIsTyped
<1>1. /\ req[r] \in Request /\ req[r].src \in Sources /\ req[r].todo \in SUBSET Sources
      /\ req \in [Requests -> Request] /\ coll \in [Sources -> Nat]
      /\ redis \in [Sources -> List \cup {NoList}] /\ esi \in List
  BY DEF TypeOK, Request
<1>2. ASSUME NEW q \in Request, Set(r, q),
             redis' \in [Sources -> List \cup {NoList}], coll' \in [Sources -> Nat],
             UNCHANGED <<esi, known, sweep, clean>>
      PROVE  TypeOK'
  BY <1>1, <1>2 DEF TypeOK, Set
<1>3. ASSUME NEW wanted \in SUBSET Sources, Begin(r, wanted) PROVE TypeOK'
  BY <1>1, <1>2, <1>3 DEF Begin
<1>4. ASSUME NEW s \in Sources, Hit(r, s) PROVE TypeOK'
  <2>1. [req[r] EXCEPT !.todo = @ \ {s}] \in Request
    BY <1>1 DEF Request
  <2>2. QED  BY <1>1, <1>2, <1>4, <2>1 DEF Hit
<1>5. ASSUME NEW s \in Sources, Miss(r, s) PROVE TypeOK'
  <2>1. [req[r] EXCEPT !.at = "fetch", !.todo = @ \ {s}, !.src = s] \in Request
    BY <1>1 DEF Request, Stages
  <2>2. QED  BY <1>1, <1>2, <1>5, <2>1 DEF Miss
<1>6. ASSUME Fetch(r) PROVE TypeOK'
  <2>1. PICK empty \in BOOLEAN :
           Set(r, [req[r] EXCEPT !.at = "delete", !.entries = esi, !.empty = empty])
    BY <1>6 DEF Fetch
  <2>2. [req[r] EXCEPT !.at = "delete", !.entries = esi, !.empty = empty] \in Request
    BY <1>1 DEF Request, Stages
  <2>3. QED  BY <1>1, <1>2, <1>6, <2>1, <2>2 DEF Fetch
<1>7. CASE Refused(r)
  BY <1>1, <1>2, <1>7 DEF Refused, GoOn
<1>8. CASE DeleteMany(r)
  <2> DEFINE q == [req[r] EXCEPT !.at = IF req[r].empty THEN "set" ELSE "insert",
                                 !.empty = FALSE]
  <2>1. q \in Request
    BY <1>1, ZenonT(30) DEF Request, Stages
  <2>2. coll' \in [Sources -> Nat]
    BY <1>1, <1>8 DEF DeleteMany
  <2>3. QED  BY <1>1, <1>2, <1>8, <2>1, <2>2 DEF DeleteMany
<1>9. CASE InsertMany(r)
  <2>1. [req[r] EXCEPT !.at = "set"] \in Request
    BY <1>1 DEF Request, Stages
  <2>2. coll' \in [Sources -> Nat]
    BY <1>1, <1>9, OneMore DEF InsertMany
  <2>3. QED  BY <1>1, <1>2, <1>9, <2>1, <2>2 DEF InsertMany
<1>10. CASE SetCached(r)
  <2>1. redis' \in [Sources -> List \cup {NoList}]
    BY <1>1, <1>10 DEF SetCached, Request
  <2>2. QED  BY <1>1, <1>2, <1>10, <2>1 DEF SetCached, GoOn
<1>11. CASE Leave(r)
  <2>1. coll' = coll \/ coll' = [coll EXCEPT ![req[r].src] = @ + 1]
    BY <1>11 DEF Leave
  <2>2. [coll EXCEPT ![req[r].src] = @ + 1] \in [Sources -> Nat]
    BY <1>1, OneMore
  <2>3. coll' \in [Sources -> Nat]
    BY <1>1, <2>1, <2>2
  <2>4. QED  BY <1>1, <1>2, <1>11, <2>3 DEF Leave
<1>12. QED  BY <1>3, <1>4, <1>5, <1>6, <1>7, <1>8, <1>9, <1>10, <1>11 DEF RequestStep

LEMMA SweepKeepsTypes ==
    ASSUME TypeOK, NEW w \in Sweeps, SweepStep(w)
    PROVE  TypeOK'
<1> USE Constants
<1>1. /\ sweep[w] \in Sweep /\ sweep \in [Sweeps -> Sweep] /\ coll \in [Sources -> Nat]
      /\ redis \in [Sources -> List \cup {NoList}] /\ esi \in List
      /\ clean \in [Sources -> List]
  BY DEF TypeOK
<1>2. ASSUME NEW v \in Sweep, v.at = "key" => v.todo # <<>>, sweep' = [sweep EXCEPT ![w] = v],
             redis' \in [Sources -> List \cup {NoList}], coll' \in [Sources -> Nat],
             clean' \in [Sources -> List], known' \in BOOLEAN,
             UNCHANGED <<esi, req>>
      PROVE  TypeOK'
  BY <1>1, <1>2 DEF TypeOK
<1>3. /\ IdleSweep \in Sweep /\ IdleSweep.at # "key"
      /\ known \in BOOLEAN
  <2>1. <<>> \in Seq(Sources)
    OBVIOUS
  <2>2. QED  BY <2>1 DEF IdleSweep, Sweep, TypeOK
<1>4. ASSUME NEW kind \in {"refresh", "clear"}, NEW todo \in Seq(Sources),
             BeginSweep(w, kind, todo)
      PROVE  TypeOK'
  <2>1. [at |-> "collection", kind |-> kind, todo |-> todo] \in Sweep
    BY DEF Sweep
  <2>2. QED  BY <1>1, <1>2, <1>3, <1>4, <2>1 DEF BeginSweep
<1>5. CASE Refresh(w) \/ Clear(w)
  BY <1>4, <1>5 DEF Refresh, Clear
<1>6. CASE SweepCollection(w)
  <2>1. [sweep[w] EXCEPT !.at = "key"] \in Sweep
    BY <1>1 DEF Sweep
  <2>2. sweep' = [sweep EXCEPT ![w] = [sweep[w] EXCEPT !.at = "key"]]
    BY <1>1, <1>6 DEF SweepCollection
  <2>3. sweep[w].todo # <<>> /\ [sweep[w] EXCEPT !.at = "key"].todo = sweep[w].todo
    BY <1>1, <1>6 DEF SweepCollection, Sweep
  <2>4. coll' \in [Sources -> Nat]
    BY <1>1, <1>6 DEF SweepCollection
  <2>5. QED  BY <1>1, <1>2, <1>3, <1>6, <2>1, <2>2, <2>3, <2>4 DEF SweepCollection
<1>7. CASE SweepKey(w)
  <2> DEFINE v == [sweep[w] EXCEPT !.at = "collection", !.todo = Tail(@)]
  <2>1. sweep[w].todo \in Seq(Sources) /\ sweep[w].todo # <<>>
    BY <1>1, <1>7 DEF SweepKey, Sweep, TypeOK
  <2>2. Tail(sweep[w].todo) \in Seq(Sources)
    BY <2>1
  <2>3. v \in Sweep /\ v.at # "key"
    BY <1>1, <2>2 DEF Sweep
  <2>4. sweep' = [sweep EXCEPT ![w] = v]
    BY <1>1, <1>7 DEF SweepKey
  <2>5. redis' \in [Sources -> List \cup {NoList}] /\ clean' \in [Sources -> List]
    BY <1>1, <1>7, ZenonT(30) DEF SweepKey
  <2>6. QED  BY <1>1, <1>2, <1>3, <1>7, <2>3, <2>4, <2>5 DEF SweepKey
<1>8. CASE FinishSweep(w) \/ AbandonSweep(w)
  BY <1>1, <1>2, <1>3, <1>8 DEF FinishSweep, AbandonSweep
<1>9. QED  BY <1>5, <1>6, <1>7, <1>8 DEF SweepStep

-----------------------------------------------------------------------------
(* Lists in flight.                                                        *)

(* A request may be replaced by one that holds no list, or goes on with a  *)
(* list that is recent enough.                                             *)
LEMMA SetKeepsFlight ==
    ASSUME TypeOK, FlightInv, NEW r \in Requests, NEW q \in Request, Set(r, q),
           q.at \in {"delete", "insert", "set"} =>
              q.entries \in List /\ q.entries >= clean[q.src],
           UNCHANGED <<esi, clean>>
    PROVE  FlightInv'
BY DEF FlightInv, TypeOK, Set

LEMMA RequestKeepsFlight ==
    ASSUME CacheInv, NEW r \in Requests,
           RequestStep(r) \/ \E wanted \in SUBSET Sources : Begin(r, wanted)
    PROVE  FlightInv' /\ RefreshTakesEffect'
<1> USE Constants, TodoIsTyped, SetKeepsFlight
<1>1. /\ TypeOK /\ FlightInv /\ RefreshTakesEffect
      /\ req[r] \in Request /\ req[r].src \in Sources /\ req[r].todo \in SUBSET Sources
  BY DEF CacheInv, TypeOK, Request
<1>2. ASSUME NEW q \in Request, Set(r, q), q.at \in {"idle", "lookup", "fetch"},
             UNCHANGED <<esi, redis, clean>>
      PROVE  FlightInv' /\ RefreshTakesEffect'
  BY <1>1, <1>2 DEF RefreshTakesEffect
<1>3. ASSUME NEW wanted \in SUBSET Sources, Begin(r, wanted)
      PROVE  FlightInv' /\ RefreshTakesEffect'
  BY <1>2, <1>3 DEF Begin, LookingUp, IdleRequest
<1>4. ASSUME NEW s \in Sources, Hit(r, s) \/ Miss(r, s)
      PROVE  FlightInv' /\ RefreshTakesEffect'
  <2>1. /\ [req[r] EXCEPT !.todo = @ \ {s}] \in Request
        /\ [req[r] EXCEPT !.todo = @ \ {s}].at = req[r].at
        /\ [req[r] EXCEPT !.at = "fetch", !.todo = @ \ {s}, !.src = s] \in Request
        /\ [req[r] EXCEPT !.at = "fetch", !.todo = @ \ {s}, !.src = s].at = "fetch"
    BY <1>1 DEF Request, Stages
  <2>2. QED  BY <1>2, <1>4, <2>1 DEF Hit, Miss
<1>5. ASSUME Refused(r) \/ Leave(r) PROVE FlightInv' /\ RefreshTakesEffect'
  BY <1>1, <1>2, <1>5 DEF Refused, Leave, GoOn, LookingUp, IdleRequest
<1>6. ASSUME Fetch(r) PROVE FlightInv' /\ RefreshTakesEffect'
  <2>1. PICK empty \in BOOLEAN :
           Set(r, [req[r] EXCEPT !.at = "delete", !.entries = esi, !.empty = empty])
    BY <1>6 DEF Fetch
  <2> DEFINE q == [req[r] EXCEPT !.at = "delete", !.entries = esi, !.empty = empty]
  <2>2. q \in Request /\ q.entries = esi /\ q.src = req[r].src /\ esi \in List
    BY <1>1 DEF Request, Stages, TypeOK
  <2>3. esi >= clean[q.src]
    BY <1>1, <2>2 DEF FlightInv, TypeOK
  <2>4. QED  BY <1>1, <1>6, <2>1, <2>2, <2>3 DEF Fetch, RefreshTakesEffect
<1>7. ASSUME DeleteMany(r) \/ InsertMany(r) PROVE FlightInv' /\ RefreshTakesEffect'
  <2>1. /\ req[r].at \in {"delete", "insert", "set"}
        /\ req[r].entries \in List /\ req[r].entries >= clean[req[r].src]
    BY <1>1, <1>7 DEF DeleteMany, InsertMany, FlightInv
  <2>2. PICK q \in Request : Set(r, q) /\ q.entries = req[r].entries /\ q.src = req[r].src
    <3> DEFINE d == [req[r] EXCEPT !.at = IF req[r].empty THEN "set" ELSE "insert",
                                   !.empty = FALSE]
               i == [req[r] EXCEPT !.at = "set"]
    <3>1. /\ d \in Request /\ d.entries = req[r].entries /\ d.src = req[r].src
          /\ i \in Request /\ i.entries = req[r].entries /\ i.src = req[r].src
      BY <1>1 DEF Request, Stages
    <3>2. Set(r, d) \/ Set(r, i)
      BY <1>7 DEF DeleteMany, InsertMany
    <3>3. QED  BY <3>1, <3>2
  <2>3. UNCHANGED <<esi, redis, clean>>
    BY <1>7 DEF DeleteMany, InsertMany
  <2>4. QED  BY <1>1, <2>1, <2>2, <2>3 DEF RefreshTakesEffect
<1>8. ASSUME SetCached(r) PROVE FlightInv' /\ RefreshTakesEffect'
  <2>1. /\ req[r].entries >= clean[req[r].src]
        /\ redis' = [redis EXCEPT ![req[r].src] = req[r].entries] \/ redis' = redis
        /\ UNCHANGED <<esi, clean>>
    BY <1>1, <1>8 DEF SetCached, FlightInv
  <2>2. RefreshTakesEffect'
    BY <1>1, <2>1 DEF RefreshTakesEffect, TypeOK
  <2>3. FlightInv'
    BY <1>1, <1>8, <2>1 DEF SetCached, GoOn, LookingUp, IdleRequest
  <2>4. QED  BY <2>2, <2>3
<1>9. QED  BY <1>3, <1>4, <1>5, <1>6, <1>7, <1>8 DEF RequestStep

LEMMA SweepKeepsFlight ==
    ASSUME CacheInv, NEW w \in Sweeps, SweepStep(w)
    PROVE  FlightInv' /\ RefreshTakesEffect'
<1>1. CASE SweepKey(w)
  <2> DEFINE s == Head(sweep[w].todo)
  <2>1. /\ TypeOK /\ FlightInv /\ RefreshTakesEffect
        /\ UNCHANGED <<esi, req>> /\ esi \in Nat /\ List \subseteq Nat
    BY <1>1, Constants DEF CacheInv, SweepKey, TypeOK
  <2>2. \/ UNCHANGED <<redis, clean>>
        \/ redis' = [redis EXCEPT ![s] = NoList] /\ clean' = clean
        \/ /\ redis' = [redis EXCEPT ![s] = NoList]
           /\ clean' = [clean EXCEPT ![s] = esi]
           /\ \A r \in Requests : ~Filling(r, s)
    BY <1>1 DEF SweepKey
  <2>3. RefreshTakesEffect'
    BY <2>1, <2>2 DEF RefreshTakesEffect, TypeOK
  <2>4. \A t \in Sources : clean'[t] <= esi'
    BY <2>1, <2>2 DEF FlightInv, TypeOK
  <2>5. ASSUME NEW r \in Requests, req[r].at \in {"delete", "insert", "set"}
        PROVE  req[r].entries \in List /\ req[r].entries >= clean'[req[r].src]
    <3>1. /\ req[r].entries \in List /\ req[r].entries >= clean[req[r].src]
          /\ req[r].src \in Sources
      BY <2>1, <2>5 DEF FlightInv, TypeOK, Request
    <3>2. clean'[req[r].src] = clean[req[r].src]
      BY <2>1, <2>2, <2>5, <3>1 DEF Filling, TypeOK
    <3>3. QED  BY <3>1, <3>2
  <2>6. QED  BY <2>1, <2>3, <2>4, <2>5 DEF FlightInv
<1>2. CASE ~SweepKey(w)
  <2>1. UNCHANGED <<esi, redis, req, clean>>
    BY <1>2 DEF SweepStep, Refresh, Clear, BeginSweep, SweepCollection, FinishSweep, AbandonSweep
  <2>2. QED  BY <2>1 DEF CacheInv, FlightInv, RefreshTakesEffect
<1>3. QED  BY <1>1, <1>2

LEMMA WorldKeepsCache ==
    ASSUME CacheInv, Change \/ LogIn \/ \E s \in Sources : Expire(s)
    PROVE  CacheInv'
<1>1. CASE Change
  <2>1. esi \in Nat /\ List \subseteq Nat /\ esi' \in List /\ esi' = esi + 1
    BY <1>1, Constants DEF Change, CacheInv, TypeOK, List
  <2>2. UNCHANGED <<known, redis, coll, req, sweep, clean>>
    BY <1>1 DEF Change
  <2>3. TypeOK' /\ RefreshTakesEffect'
    BY <2>1, <2>2 DEF CacheInv, TypeOK, RefreshTakesEffect
  <2>4. ASSUME NEW s \in Sources PROVE clean'[s] <= esi'
    <3>1. clean[s] <= esi /\ clean[s] \in Nat
      BY <2>1 DEF CacheInv, FlightInv, TypeOK
    <3>2. QED  BY <2>1, <2>2, <3>1
  <2>5. QED  BY <2>2, <2>3, <2>4 DEF CacheInv, FlightInv
<1>2. CASE LogIn
  BY <1>2 DEF LogIn, CacheInv, TypeOK, FlightInv, RefreshTakesEffect
<1>3. ASSUME NEW s \in Sources, Expire(s) PROVE CacheInv'
  <2>1. redis' = [redis EXCEPT ![s] = NoList] /\ UNCHANGED <<esi, known, coll, req, sweep, clean>>
    BY <1>3 DEF Expire
  <2>2. TypeOK' /\ RefreshTakesEffect'
    BY <2>1 DEF CacheInv, TypeOK, RefreshTakesEffect
  <2>3. FlightInv'
    BY <2>1 DEF CacheInv, FlightInv
  <2>4. QED  BY <2>2, <2>3 DEF CacheInv
<1>4. QED  BY <1>1, <1>2, <1>3

(* The inductive invariant.                                                *)
THEOREM CacheInvariant == Spec => []CacheInv
<1>1. Init => CacheInv
  <2> SUFFICES ASSUME Init PROVE CacheInv
    OBVIOUS
  <2>1. TypeOK
    <3>1. <<>> \in Seq(Sources)
      OBVIOUS
    <3>2. IdleSweep \in Sweep /\ IdleSweep.at = "idle"
      BY <3>1 DEF IdleSweep, Sweep
    <3>3. QED  BY <3>2, Constants DEF Init, TypeOK
  <2>2. FlightInv /\ RefreshTakesEffect
    BY Constants DEF Init, FlightInv, RefreshTakesEffect, IdleRequest
  <2>3. QED  BY <2>1, <2>2 DEF CacheInv
<1>2. CacheInv /\ [Next]_vars => CacheInv'
  <2> SUFFICES ASSUME CacheInv, [Next]_vars PROVE CacheInv'
    OBVIOUS
  <2>1. CASE UNCHANGED vars
    BY <2>1 DEF vars, CacheInv, TypeOK, FlightInv, RefreshTakesEffect
  <2>2. CASE Change \/ LogIn \/ \E s \in Sources : Expire(s)
    BY <2>2, WorldKeepsCache
  <2>3. ASSUME NEW r \in Requests,
               RequestStep(r) \/ \E wanted \in SUBSET Sources : Begin(r, wanted)
        PROVE  CacheInv'
    BY <2>3, RequestKeepsTypes, RequestKeepsFlight DEF CacheInv
  <2>4. ASSUME NEW w \in Sweeps, SweepStep(w) PROVE CacheInv'
    BY <2>4, SweepKeepsTypes, SweepKeepsFlight DEF CacheInv
  <2>5. QED  BY <2>1, <2>2, <2>3, <2>4 DEF Next
<1>3. QED  BY <1>1, <1>2, PTL DEF Spec

(* Every variable keeps its type; a sweep that deletes a key has a source  *)
(* to delete it for.                                                       *)
THEOREM TypeCorrect == Spec => []TypeOK
BY CacheInvariant, PTL DEF CacheInv

(* After a sweep with no fill of the source in flight, no page is served   *)
(* an older list (refresh_character_data).                                 *)
THEOREM RefreshEffective == Spec => []RefreshTakesEffect
BY CacheInvariant, PTL DEF CacheInv

-----------------------------------------------------------------------------
(* Copies.                                                                 *)

LEMMA RequestsCounted ==
    /\ IsFiniteSet(Requests) /\ Cardinality(Requests) \in Nat
    /\ \A S \in SUBSET Requests :
          /\ IsFiniteSet(S) /\ Cardinality(S) \in Nat
          /\ Cardinality(S) <= Cardinality(Requests)
          /\ \A T \in SUBSET S : Cardinality(T) <= Cardinality(S)
<1>1. IsFiniteSet(Requests) /\ Cardinality(Requests) \in Nat
  BY CacheAssumption, FS_CardinalityType
<1>2. ASSUME NEW S \in SUBSET Requests
      PROVE  /\ IsFiniteSet(S) /\ Cardinality(S) \in Nat
             /\ Cardinality(S) <= Cardinality(Requests)
             /\ \A T \in SUBSET S : Cardinality(T) <= Cardinality(S)
  <2>1. IsFiniteSet(S) /\ Cardinality(S) <= Cardinality(Requests)
    BY <1>1, FS_Subset
  <2>2. Cardinality(S) \in Nat
    BY <2>1, FS_CardinalityType
  <2>3. \A T \in SUBSET S : Cardinality(T) <= Cardinality(S)
    BY <2>1, FS_Subset
  <2>4. QED  BY <2>1, <2>2, <2>3
<1>3. QED  BY <1>1, <1>2

(* There stays room for a source if its collection does not grow and no    *)
(* request begins to insert, if it is emptied, or if it grows by the copy  *)
(* of a request that was inserting.                                        *)
LEMMA RoomStays ==
    ASSUME TypeOK, TypeOK', RoomInv, NEW s \in Sources,
           \/ coll'[s] = 0
           \/ coll'[s] = coll[s] /\ Inserting(s)' \subseteq Inserting(s)
           \/ \E r \in Inserting(s) :
                 coll'[s] = coll[s] + 1 /\ Inserting(s)' \subseteq Inserting(s) \ {r}
    PROVE  coll'[s] + Cardinality(Inserting(s)') <= Cardinality(Requests)
<1>1. /\ Inserting(s) \in SUBSET Requests /\ Inserting(s)' \in SUBSET Requests
      /\ coll[s] \in Nat /\ coll'[s] \in Nat
  BY DEF Inserting, TypeOK
<1>2. coll[s] + Cardinality(Inserting(s)) <= Cardinality(Requests)
  BY DEF RoomInv
<1>3. CASE coll'[s] = 0
  BY <1>1, <1>3, RequestsCounted
<1>4. CASE coll'[s] = coll[s] /\ Inserting(s)' \subseteq Inserting(s)
  <2>1. Cardinality(Inserting(s)') <= Cardinality(Inserting(s))
    BY <1>1, <1>4, RequestsCounted
  <2>2. Cardinality(Inserting(s)) \in Nat /\ Cardinality(Inserting(s)') \in Nat
    BY <1>1, RequestsCounted
  <2>3. QED  BY <1>1, <1>2, <1>4, <2>1, <2>2, RequestsCounted
<1>5. ASSUME NEW r \in Inserting(s),
             coll'[s] = coll[s] + 1, Inserting(s)' \subseteq Inserting(s) \ {r}
      PROVE  coll'[s] + Cardinality(Inserting(s)') <= Cardinality(Requests)
  <2>1. Cardinality(Inserting(s) \ {r}) = Cardinality(Inserting(s)) - 1
    BY <1>1, RequestsCounted, FS_RemoveElement
  <2>2. Cardinality(Inserting(s)') <= Cardinality(Inserting(s) \ {r})
    BY <1>1, <1>5, RequestsCounted
  <2>3. /\ Cardinality(Inserting(s)) \in Nat /\ Cardinality(Inserting(s)') \in Nat
        /\ Cardinality(Requests) \in Nat
    BY <1>1, RequestsCounted
  <2>4. QED  BY <1>1, <1>2, <1>5, <2>1, <2>2, <2>3
<1>6. QED  BY <1>3, <1>4, <1>5

(* However fills overlap, and wherever they and the sweeps die, a          *)
(* collection holds no more copies of its list than there are requests.    *)
THEOREM CopiesBounded == Spec => []CopiesAreBounded
<1>1. Init /\ TypeOK => RoomInv
  <2> SUFFICES ASSUME Init, TypeOK, NEW s \in Sources
               PROVE  coll[s] + Cardinality(Inserting(s)) <= Cardinality(Requests)
    BY DEF RoomInv
  <2>1. coll[s] = 0 /\ Inserting(s) \in SUBSET Requests
    BY DEF Init, Inserting
  <2>2. QED  BY <2>1, RequestsCounted
<1>2. TypeOK /\ TypeOK' /\ RoomInv /\ [Next]_vars => RoomInv'
  <2> SUFFICES ASSUME TypeOK, TypeOK', RoomInv, [Next]_vars, NEW s \in Sources
               PROVE  \/ coll'[s] = 0
                      \/ coll'[s] = coll[s] /\ Inserting(s)' \subseteq Inserting(s)
                      \/ \E r \in Inserting(s) :
                            /\ coll'[s] = coll[s] + 1
                            /\ Inserting(s)' \subseteq Inserting(s) \ {r}
    BY RoomStays DEF RoomInv
  <2>1. CASE UNCHANGED <<coll, req>>
    BY <2>1 DEF Inserting
  <2>2. ASSUME NEW r \in Requests, RequestStep(r) \/ \E wanted \in SUBSET Sources : Begin(r, wanted)
        PROVE  \/ coll'[s] = 0
               \/ coll'[s] = coll[s] /\ Inserting(s)' \subseteq Inserting(s)
               \/ \E q \in Inserting(s) :
                     /\ coll'[s] = coll[s] + 1
                     /\ Inserting(s)' \subseteq Inserting(s) \ {q}
    <3>1. /\ req \in [Requests -> Request] /\ coll \in [Sources -> Nat]
          /\ req[r] \in Request /\ req[r].src \in Sources
      BY DEF TypeOK, Request
    <3>2. ASSUME NEW q, Set(r, q), q.at # "insert", UNCHANGED coll
          PROVE  coll'[s] = coll[s] /\ Inserting(s)' \subseteq Inserting(s)
      BY <3>1, <3>2 DEF Set, Inserting
    <3>3. ASSUME NEW q, Set(r, q), q.at # "insert", req[r].at = "insert",
                 coll' = [coll EXCEPT ![req[r].src] = @ + 1]
          PROVE  \/ coll'[s] = coll[s] /\ Inserting(s)' \subseteq Inserting(s)
                 \/ \E p \in Inserting(s) :
                       coll'[s] = coll[s] + 1 /\ Inserting(s)' \subseteq Inserting(s) \ {p}
      <4>1. CASE req[r].src = s
        <5>1. r \in Inserting(s) /\ coll'[s] = coll[s] + 1
          BY <3>1, <3>3, <4>1 DEF Inserting
        <5>2. Inserting(s)' \subseteq Inserting(s) \ {r}
          BY <3>1, <3>3 DEF Set, Inserting
        <5>3. QED  BY <5>1, <5>2
      <4>2. CASE req[r].src # s
        BY <3>1, <3>3, <4>2 DEF Set, Inserting
      <4>3. QED  BY <4>1, <4>2
    <3>4. ASSUME NEW wanted \in SUBSET Sources, Begin(r, wanted)
          PROVE  coll'[s] = coll[s] /\ Inserting(s)' \subseteq Inserting(s)
      BY <3>2, <3>4 DEF Begin, LookingUp, IdleRequest
    <3>5. ASSUME NEW t \in Sources, Hit(r, t) \/ Miss(r, t)
          PROVE  coll'[s] = coll[s] /\ Inserting(s)' \subseteq Inserting(s)
      <4>1. /\ [req[r] EXCEPT !.todo = @ \ {t}].at = req[r].at
            /\ [req[r] EXCEPT !.at = "fetch", !.todo = @ \ {t}, !.src = t].at = "fetch"
        BY <3>1 DEF Request
      <4>2. QED  BY <3>2, <3>5, <4>1 DEF Hit, Miss
    <3>6. ASSUME Fetch(r)
          PROVE  coll'[s] = coll[s] /\ Inserting(s)' \subseteq Inserting(s)
      <4>1. PICK empty \in BOOLEAN :
               Set(r, [req[r] EXCEPT !.at = "delete", !.entries = esi, !.empty = empty])
        BY <3>6 DEF Fetch
      <4>2. [req[r] EXCEPT !.at = "delete", !.entries = esi, !.empty = empty].at = "delete"
        BY <3>1 DEF Request
      <4>3. QED  BY <3>2, <3>6, <4>1, <4>2 DEF Fetch
    <3>7. ASSUME Refused(r) \/ SetCached(r)
          PROVE  coll'[s] = coll[s] /\ Inserting(s)' \subseteq Inserting(s)
      BY <3>2, <3>7 DEF Refused, SetCached, GoOn, LookingUp, IdleRequest
    <3>8. ASSUME DeleteMany(r)
          PROVE  coll'[s] = 0 \/ (coll'[s] = coll[s] /\ Inserting(s)' \subseteq Inserting(s))
      <4>1. CASE req[r].src = s
        BY <3>1, <3>8, <4>1 DEF DeleteMany
      <4>2. CASE req[r].src # s
        <5>1. [req[r] EXCEPT !.at = IF req[r].empty THEN "set" ELSE "insert",
                             !.empty = FALSE].src = req[r].src
          BY <3>1 DEF Request
        <5>2. QED  BY <3>1, <3>8, <4>2, <5>1 DEF DeleteMany, Set, Inserting
      <4>3. QED  BY <4>1, <4>2
    <3>9. CASE InsertMany(r)
      <4>1. [req[r] EXCEPT !.at = "set"].at = "set"
        BY <3>1 DEF Request
      <4>2. QED  BY <3>3, <3>9, <4>1 DEF InsertMany
    <3>10. CASE Leave(r)
      BY <3>2, <3>3, <3>10 DEF Leave, IdleRequest
    <3>11. QED  BY <2>2, <3>4, <3>5, <3>6, <3>7, <3>8, <3>9, <3>10 DEF RequestStep
  <2>3. ASSUME NEW w \in Sweeps, SweepStep(w)
        PROVE  coll'[s] = 0 \/ (coll'[s] = coll[s] /\ Inserting(s)' \subseteq Inserting(s))
    <3>1. UNCHANGED req
      BY <2>3 DEF SweepStep, Refresh, Clear, BeginSweep, SweepCollection, SweepKey, FinishSweep,
                  AbandonSweep
    <3>2. coll' = coll \/ coll' = [coll EXCEPT ![Head(sweep[w].todo)] = 0]
      BY <2>3 DEF SweepStep, Refresh, Clear, BeginSweep, SweepCollection, SweepKey, FinishSweep,
                  AbandonSweep
    <3>3. QED  BY <3>1, <3>2 DEF Inserting, TypeOK
  <2>4. CASE Change \/ LogIn \/ \E t \in Sources : Expire(t)
    BY <2>1, <2>4 DEF Change, LogIn, Expire
  <2>5. CASE UNCHANGED vars
    BY <2>1, <2>5 DEF vars
  <2>6. QED  BY <2>2, <2>3, <2>4, <2>5 DEF Next
<1>3. TypeOK /\ RoomInv => CopiesAreBounded
  <2> SUFFICES ASSUME TypeOK, RoomInv, NEW s \in Sources
               PROVE  coll[s] <= Cardinality(Requests)
    BY DEF CopiesAreBounded
  <2>1. Inserting(s) \in SUBSET Requests /\ coll[s] \in Nat
    BY DEF Inserting, TypeOK
  <2>2. Cardinality(Inserting(s)) \in Nat /\ Cardinality(Requests) \in Nat
    BY <2>1, RequestsCounted
  <2>3. QED  BY <2>1, <2>2 DEF RoomInv
<1>4. QED  BY <1>1, <1>2, <1>3, TypeCorrect, PTL DEF Spec

-----------------------------------------------------------------------------
(* A collection shrinks in two places only, and by then the request has    *)
(* the list that takes the place of the old one, or the sweep has the      *)
(* source still before it: a fetch that fails deletes nothing              *)
(* (esi_cache.py:41-47).                                                   *)
THEOREM OldListIsKept == Spec => FailedFetchKeepsList
<1> DEFINE Called(s) ==
              \/ \E r \in Requests : req[r].src = s /\ req[r].entries # NoList
              \/ \E w \in Sweeps : s \in {sweep[w].todo[i] : i \in DOMAIN sweep[w].todo}
<1>1. CacheInv /\ [Next]_vars => \A s \in Sources : coll'[s] < coll[s] => Called(s)
  <2> SUFFICES ASSUME CacheInv, [Next]_vars, NEW s \in Sources, coll'[s] < coll[s]
               PROVE  Called(s)
    OBVIOUS
  <2>1. /\ coll \in [Sources -> Nat] /\ coll[s] \in Nat
        /\ \A r \in Requests : req[r].src \in Sources
        /\ \A w \in Sweeps : sweep[w].todo \in Seq(Sources)
    BY DEF CacheInv, TypeOK, Request, Sweep
  <2>2. coll' # coll
    BY <2>1
  <2>3. ASSUME NEW r \in Requests, RequestStep(r) PROVE Called(s)
    <3>1. CASE DeleteMany(r)
      <4>1. req[r].at = "delete" /\ coll' = [coll EXCEPT ![req[r].src] = 0]
        BY <3>1 DEF DeleteMany
      <4>2. req[r].src = s
        BY <2>1, <4>1
      <4>3. req[r].entries # NoList
        BY <4>1, Constants DEF CacheInv, FlightInv
      <4>4. QED  BY <4>2, <4>3
    <3>2. CASE coll' = [coll EXCEPT ![req[r].src] = @ + 1]
      <4>1. coll'[s] = coll[s] \/ coll'[s] = coll[s] + 1
        BY <2>1, <3>2
      <4>2. QED  BY <2>1, <4>1
    <3>3. QED  BY <2>2, <2>3, <3>1, <3>2 DEF RequestStep, Hit, Miss, Fetch, Refused, InsertMany, SetCached, Leave
  <2>4. ASSUME NEW w \in Sweeps, SweepStep(w) PROVE Called(s)
    <3>1. /\ sweep[w].todo # <<>>
          /\ coll' = [coll EXCEPT ![Head(sweep[w].todo)] = 0]
      BY <2>2, <2>4 DEF SweepStep, Refresh, Clear, BeginSweep, SweepCollection, SweepKey, FinishSweep,
                        AbandonSweep
    <3>2. Head(sweep[w].todo) = s
      BY <2>1, <3>1
    <3>3. 1 \in DOMAIN sweep[w].todo /\ sweep[w].todo[1] = s
      BY <2>1, <3>1, <3>2
    <3>4. s \in {sweep[w].todo[i] : i \in DOMAIN sweep[w].todo}
      BY <3>3
    <3>5. QED  BY <3>4
  <2>5. /\ ~UNCHANGED vars /\ ~Change /\ ~LogIn
        /\ \A t \in Sources : ~Expire(t)
        /\ \A r \in Requests, wanted \in SUBSET Sources : ~Begin(r, wanted)
    BY <2>2 DEF vars, Change, LogIn, Expire, Begin
  <2> HIDE DEF Called
  <2>6. QED  BY <2>3, <2>4, <2>5 DEF Next
<1>2. QED  BY <1>1, CacheInvariant, PTL DEF Spec, FailedFetchKeepsList
=============================================================================
