-------------------------- MODULE TrackedInfoProofs --------------------------
(***************************************************************************)
(* Theorems about TrackedInfo, for any workers, characters, kinds, times   *)
(* and bounds: types, and how long a list may stay cold.                   *)
(***************************************************************************)
EXTENDS TrackedInfo, TLAPS

-----------------------------------------------------------------------------
(* A queue of the broker: messages in `ms`, of which consumer w in W holds *)
(* h[w], at most p of them; no message is held twice.                      *)
QueueInv(W, p, ms, q, h) ==
    /\ q \subseteq ms
    /\ h \in [W -> Seq(ms)]
    /\ \A w \in W : Len(h[w]) =< p
    /\ \A w \in W : \A i \in 1 .. Len(h[w]) : h[w][i] \in q
    /\ \A v, w \in W : \A i \in 1 .. Len(h[v]), j \in 1 .. Len(h[w]) :
         h[v][i] = h[w][j] => v = w /\ i = j

LEMMA EmptyQueue ==
    ASSUME NEW W, NEW p \in Nat, NEW ms
    PROVE  QueueInv(W, p, ms, {}, [w \in W |-> <<>>])
BY DEF QueueInv

LEMMA LongerQueue ==
    ASSUME NEW W, NEW p \in Nat, NEW ms, NEW q, NEW h, QueueInv(W, p, ms, q, h),
           NEW m \in ms
    PROVE  QueueInv(W, p, ms, q \cup {m}, h)
BY DEF QueueInv

LEMMA DeliveredQueue ==
    ASSUME NEW W, NEW p \in Nat, NEW ms, NEW q, NEW h, QueueInv(W, p, ms, q, h),
           NEW w \in W, Len(h[w]) < p, NEW m \in q,
           \A v \in W : \A i \in 1 .. Len(h[v]) : h[v][i] # m
    PROVE  QueueInv(W, p, ms, q, [h EXCEPT ![w] = Append(h[w], m)])
<1> DEFINE hw == Append(h[w], m)
           g == [h EXCEPT ![w] = hw]
<1>1. h[w] \in Seq(ms) /\ m \in ms /\ Len(h[w]) \in Nat
  BY DEF QueueInv
<1>2. /\ hw \in Seq(ms)
      /\ Len(hw) = Len(h[w]) + 1
      /\ \A i \in 1 .. Len(h[w]) : hw[i] = h[w][i]
      /\ hw[Len(h[w]) + 1] = m
  BY <1>1
<1> HIDE DEF hw
<1>3. \A i \in 1 .. Len(hw) : i \in 1 .. Len(h[w]) \/ i = Len(h[w]) + 1
  BY <1>1, <1>2
<1>4. g \in [W -> Seq(ms)] /\ \A v \in W : g[v] = IF v = w THEN hw ELSE h[v]
  BY <1>2 DEF QueueInv
<1> HIDE DEF g
<1>5. \A v \in W : Len(g[v]) =< p
  <2>1. Len(hw) =< p
    BY <1>1, <1>2
  <2>2. QED  BY <1>4, <2>1 DEF QueueInv
<1>6. \A v \in W : \A i \in 1 .. Len(g[v]) : g[v][i] \in q
  BY <1>2, <1>3, <1>4 DEF QueueInv
<1>7. ASSUME NEW u \in W, NEW v \in W, NEW i \in 1 .. Len(g[u]), NEW j \in 1 .. Len(g[v]),
             g[u][i] = g[v][j]
      PROVE  u = v /\ i = j
  <2>1. CASE u # w /\ v # w
    BY <1>4, <1>7, <2>1 DEF QueueInv
  <2>2. CASE u = w /\ v # w
    BY <1>2, <1>3, <1>4, <1>7, <2>2, SMTT(30) DEF QueueInv
  <2>3. CASE u # w /\ v = w
    BY <1>2, <1>3, <1>4, <1>7, <2>3 DEF QueueInv
  <2>4. CASE u = w /\ v = w
    BY <1>2, <1>3, <1>4, <1>7, <2>4 DEF QueueInv
  <2>5. QED  BY <2>1, <2>2, <2>3, <2>4
<1>8. QED  BY <1>4, <1>5, <1>6, <1>7 DEF QueueInv, g, hw

LEMMA AckedQueue ==
    ASSUME NEW W, NEW p \in Nat, NEW ms, NEW q, NEW h, QueueInv(W, p, ms, q, h),
           NEW w \in W, h[w] # <<>>
    PROVE  QueueInv(W, p, ms, q \ {Head(h[w])}, [h EXCEPT ![w] = Tail(h[w])])
<1> DEFINE hw == Tail(h[w])
           g == [h EXCEPT ![w] = hw]
<1>1. h[w] \in Seq(ms)
  BY DEF QueueInv
<1>2. /\ hw \in Seq(ms) /\ Len(h[w]) \in Nat \ {0}
      /\ Len(hw) = Len(h[w]) - 1
      /\ \A i \in 1 .. Len(hw) : hw[i] = h[w][i + 1]
      /\ Head(h[w]) = h[w][1]
  BY <1>1
<1> HIDE DEF hw
<1>3. \A i \in 1 .. Len(hw) : i + 1 \in 1 .. Len(h[w]) /\ i + 1 # 1
  BY <1>2
<1>4. g \in [W -> Seq(ms)] /\ \A v \in W : g[v] = IF v = w THEN hw ELSE h[v]
  BY <1>2 DEF QueueInv
<1> HIDE DEF g
<1>5. \A v \in W : Len(g[v]) =< p
  BY <1>2, <1>4 DEF QueueInv
<1>6. 1 \in 1 .. Len(h[w])
  BY <1>2
<1>7. ASSUME NEW v \in W, NEW i \in 1 .. Len(g[v])
      PROVE  g[v][i] \in q \ {h[w][1]}
  <2>1. CASE v = w
    <3>1. i + 1 \in 1 .. Len(h[w]) /\ i + 1 # 1 /\ g[v][i] = h[w][i + 1]
      BY <1>2, <1>3, <1>4, <1>7, <2>1
    <3>2. QED  BY <1>6, <3>1 DEF QueueInv
  <2>2. CASE v # w
    BY <1>4, <1>6, <1>7, <2>2 DEF QueueInv
  <2>3. QED  BY <2>1, <2>2
<1>8. ASSUME NEW u \in W, NEW v \in W, NEW i \in 1 .. Len(g[u]), NEW j \in 1 .. Len(g[v]),
             g[u][i] = g[v][j]
      PROVE  u = v /\ i = j
  <2>1. CASE u # w /\ v # w
    BY <1>4, <1>8, <2>1 DEF QueueInv
  <2>2. CASE u = w /\ v # w
    <3>1. i + 1 \in 1 .. Len(h[w]) /\ j \in 1 .. Len(h[v]) /\ h[v][j] = h[w][i + 1]
      BY <1>2, <1>3, <1>4, <1>8, <2>2
    <3>2. \A k \in 1 .. Len(h[w]) : h[v][j] = h[w][k] => v = w
      BY <3>1 DEF QueueInv
    <3>3. QED  BY <2>2, <3>1, <3>2
  <2>3. CASE u # w /\ v = w
    <3>1. j + 1 \in 1 .. Len(h[w]) /\ i \in 1 .. Len(h[u]) /\ h[u][i] = h[w][j + 1]
      BY <1>2, <1>3, <1>4, <1>8, <2>3
    <3>2. \A k \in 1 .. Len(h[w]) : h[u][i] = h[w][k] => u = w
      BY <3>1 DEF QueueInv
    <3>3. QED  BY <2>3, <3>1, <3>2
  <2>4. CASE u = w /\ v = w
    <3>1. i \in 1 .. Len(hw) /\ j \in 1 .. Len(hw) /\ hw[i] = hw[j]
      BY <1>4, <1>8, <2>4
    <3>2. /\ i + 1 \in 1 .. Len(h[w]) /\ j + 1 \in 1 .. Len(h[w])
          /\ h[w][i + 1] = h[w][j + 1]
      BY <1>2, <1>3, <3>1
    <3>3. i + 1 = j + 1
      <4>1. \A k, l \in 1 .. Len(h[w]) : h[w][k] = h[w][l] => k = l
        BY DEF QueueInv
      <4>2. QED  BY <3>2, <4>1
    <3>4. i \in Nat /\ j \in Nat
      BY <3>1
    <3>5. QED  BY <2>4, <3>3, <3>4
  <2>5. QED  BY <2>1, <2>2, <2>3, <2>4
<1>9. QED  BY <1>2, <1>4, <1>5, <1>7, <1>8 DEF QueueInv, g, hw

LEMMA RequeuedQueue ==
    ASSUME NEW W, NEW p \in Nat, NEW ms, NEW q, NEW h, QueueInv(W, p, ms, q, h),
           NEW w \in W
    PROVE  QueueInv(W, p, ms, q, [h EXCEPT ![w] = <<>>])
BY DEF QueueInv

(* A queue that is as it should be is one as Broker types it.              *)
HeldBy(h, w) == {h[w][i] : i \in DOMAIN h[w]}

LEMMA HeldOnce ==
    ASSUME NEW W, NEW p \in Nat, NEW ms, NEW q, NEW h, QueueInv(W, p, ms, q, h),
           NEW v \in W, NEW w \in W
    PROVE  /\ HeldBy(h, w) \subseteq q
           /\ v # w => HeldBy(h, v) \cap HeldBy(h, w) = {}
<1>1. /\ h[v] \in Seq(ms) /\ DOMAIN h[v] = 1 .. Len(h[v])
      /\ h[w] \in Seq(ms) /\ DOMAIN h[w] = 1 .. Len(h[w])
  BY DEF QueueInv
<1>2. \A i \in DOMAIN h[w] : h[w][i] \in q
  BY <1>1 DEF QueueInv
<1>3. \A i \in DOMAIN h[v], j \in DOMAIN h[w] : h[v][i] = h[w][j] => v = w
  BY <1>1 DEF QueueInv
<1>4. QED  BY <1>2, <1>3 DEF HeldBy

-----------------------------------------------------------------------------
Messages == [serial : Nat, body : Jobs]

QueueOK == QueueInv(Workers, Prefetch, Messages, queue, held)

HasJob(w) == held[w] # <<>>
Work(w) == Head(held[w])

Types ==
    /\ clock \in 0 .. Period - 1
    /\ docs \in [Characters -> {"absent", "personal", "corporation"}]
    /\ revoked \subseteq Characters
    /\ life \in [Keys -> Nat] /\ \A k \in Keys : life[k] =< Ttl[k[1]]
    /\ cold \in [Keys -> Nat] /\ \A k \in Keys : life[k] > 0 => cold[k] = 0
    /\ due \in BOOLEAN /\ unsent \subseteq Jobs
    /\ QueueOK
    /\ stage \in [Workers -> {"idle", "personal", "corporation", "done"}]
    /\ \A w \in Workers : stage[w] # "idle" => HasJob(w)
    /\ faults \in 0 .. MaxFaults /\ changes \in 0 .. MaxChanges

(* A list that a job is about has a key in Redis.                          *)
LEMMA KeyOfJob ==
    ASSUME NEW job \in Jobs
    PROVE  KeyOf(job) \in Keys /\ KeyOf(job)[1] = job.kind /\ Ttl[job.kind] \in Nat
BY TrackedAssumption DEF Jobs, KeyOf, Keys, IsCorp

LEMMA KeyTypes ==
    ASSUME NEW k \in Keys
    PROVE  /\ k = <<k[1], k[2]>> /\ Ttl[k[1]] \in Nat
           /\ \/ k[1] \in PersonalKinds /\ k[1] \notin CorpKinds /\ k[2] \in Characters
              \/ k[1] \in CorpKinds /\ k[1] \notin PersonalKinds /\ k[2] = Corporation
<1>1. CASE k \in PersonalKinds \X Characters
  <2>1. k = <<k[1], k[2]>> /\ k[1] \in PersonalKinds /\ k[2] \in Characters
    BY <1>1
  <2>2. QED  BY <2>1, TrackedAssumption
<1>2. CASE k \in CorpKinds \X {Corporation}
  <2>1. k = <<k[1], k[2]>> /\ k[1] \in CorpKinds /\ k[2] = Corporation
    BY <1>2
  <2>2. QED  BY <2>1, TrackedAssumption
<1>3. QED  BY <1>1, <1>2 DEF Keys

(* What a worker works on came from the queue, and no other works on it.   *)
LEMMA WorkIs ==
    ASSUME QueueOK, NEW w \in Workers, HasJob(w)
    PROVE  /\ Work(w) \in queue /\ Work(w).body \in Jobs
           /\ Queue!Current(w) = Work(w).body
           /\ \A v \in Workers \ {w} : HasJob(v) => Work(v) # Work(w)
<1>1. \A v \in Workers : HasJob(v) => /\ 1 \in 1 .. Len(held[v])
                                      /\ Work(v) = held[v][1]
  BY DEF QueueOK, QueueInv, HasJob, Work
<1>2. Work(w) \in queue /\ \A v \in Workers \ {w} : HasJob(v) => Work(v) # Work(w)
  BY <1>1 DEF QueueOK, QueueInv
<1>3. queue \subseteq Messages
  BY DEF QueueOK, QueueInv
<1>4. QED  BY <1>2, <1>3 DEF Messages, Work, HasJob, Queue!Current

(* The broker's operations.                                                *)
LEMMA Sent ==
    ASSUME QueueOK, NEW job \in Jobs, Queue!Send(job)
    PROVE  /\ QueueOK' /\ held' = held
           /\ \E m \in Messages \ queue : m.body = job /\ queue' = queue \cup {m}
<1>1. PICK last \in {0} \cup {m.serial : m \in queue} :
        /\ \A m \in queue : m.serial =< last
        /\ queue' = queue \cup {[serial |-> last + 1, body |-> job]}
  BY DEF Queue!Send
<1>2. \A m \in queue : m.serial \in Nat
  BY DEF QueueOK, QueueInv, Messages
<1>3. last \in Nat
  BY <1>1, <1>2
<1> DEFINE new == [serial |-> last + 1, body |-> job]
<1>4. new \in Messages /\ new.body = job /\ new.serial = last + 1
  BY <1>3 DEF Messages
<1>5. queue' = queue \cup {new}
  BY <1>1
<1> HIDE DEF new
<1>6. new \notin queue
  BY <1>1, <1>2, <1>3, <1>4
<1>7. held' = held
  BY DEF Queue!Send
<1>8. QED  BY <1>4, <1>5, <1>6, <1>7, LongerQueue, TrackedAssumption DEF QueueOK

LEMMA Delivered ==
    ASSUME QueueOK, NEW w \in Workers, Queue!Deliver(w)
    PROVE  /\ QueueOK' /\ queue' = queue
           /\ \A v \in Workers : HasJob(v) => HasJob(v)' /\ Work(v)' = Work(v)
<1>1. PICK m \in Queue!Oldest : held' = [held EXCEPT ![w] = Append(held[w], m)]
  BY DEF Queue!Deliver
<1>2. m \in queue /\ \A v \in Workers : \A i \in DOMAIN held[v] : held[v][i] # m
  BY <1>1 DEF Queue!Oldest, Queue!Ready, Queue!Held
<1>3. \A v \in Workers : held[v] \in Seq(Messages) /\ DOMAIN held[v] = 1 .. Len(held[v])
  BY DEF QueueOK, QueueInv
<1>4. queue' = queue /\ Len(held[w]) < Prefetch /\ Prefetch \in Nat
  BY TrackedAssumption DEF Queue!Deliver
<1>5. QueueOK'
  BY <1>1, <1>2, <1>3, <1>4, DeliveredQueue DEF QueueOK
<1>6. \A v \in Workers : held'[v] = IF v = w THEN Append(held[w], m) ELSE held[v]
  BY <1>1 DEF QueueOK, QueueInv
<1>7. held[w] # <<>> => Append(held[w], m) # <<>> /\ Head(Append(held[w], m)) = Head(held[w])
  BY <1>2, <1>3 DEF QueueOK, QueueInv
<1>8. QED  BY <1>4, <1>5, <1>6, <1>7 DEF HasJob, Work

LEMMA Acked ==
    ASSUME QueueOK, NEW w \in Workers, Queue!Ack(w)
    PROVE  /\ QueueOK' /\ HasJob(w)
           /\ queue' = queue \ {Work(w)}
           /\ \A v \in Workers \ {w} : held'[v] = held[v]
<1>1. /\ held[w] # <<>>
      /\ queue' = queue \ {Head(held[w])}
      /\ held' = [held EXCEPT ![w] = Tail(held[w])]
  BY DEF Queue!Ack, Queue!Working
<1>2. QueueOK'
  BY <1>1, AckedQueue, TrackedAssumption DEF QueueOK
<1>3. \A v \in Workers \ {w} : held'[v] = held[v]
  BY <1>1 DEF QueueOK, QueueInv
<1>4. QED  BY <1>1, <1>2, <1>3 DEF HasJob, Work

LEMMA Requeued ==
    ASSUME QueueOK, NEW w \in Workers, Queue!Requeue(w)
    PROVE  /\ QueueOK' /\ queue' = queue
           /\ \A v \in Workers : held'[v] = IF v = w THEN <<>> ELSE held[v]
<1>1. queue' = queue /\ held' = [held EXCEPT ![w] = <<>>]
  BY DEF Queue!Requeue
<1>2. QueueOK'
  BY <1>1, RequeuedQueue, TrackedAssumption DEF QueueOK
<1>3. QED  BY <1>1, <1>2 DEF QueueOK, QueueInv

(* Steps that leave the queue alone.                                       *)
LEMMA QueueAlone ==
    ASSUME UNCHANGED queueVars
    PROVE  /\ QueueOK' = QueueOK /\ queue' = queue /\ held' = held
           /\ \A v \in Workers : HasJob(v)' = HasJob(v) /\ Work(v)' = Work(v)
BY DEF queueVars, QueueOK, HasJob, Work

-----------------------------------------------------------------------------
LEMMA DispatchTypes ==
    ASSUME Types, StartDispatch \/ Publish \/ DispatcherDies
    PROVE  Types'
<1> USE DEF Types
<1>1. CASE StartDispatch
  <2>1. UNCHANGED <<clock, docs, revoked, changes, life, queueVars, stage, faults, cold>> /\ due' = FALSE
    BY <1>1 DEF StartDispatch, userVars
  <2>2. unsent' \subseteq Jobs
    <3>1. \A c \in Characters : JobsOf(CorpKinds, c) \subseteq Jobs /\ JobsOf(PersonalKinds, c) \subseteq Jobs
      BY DEF JobsOf, Jobs
    <3>2. Present \subseteq Characters /\ Delegates \subseteq Characters
      BY DEF Present, Delegates, Connected
    <3>3. PICK corpJobs \in (IF Delegates = {} THEN {{}} ELSE {JobsOf(CorpKinds, d) : d \in Delegates}) :
            unsent' = unsent \cup corpJobs \cup UNION {JobsOf(PersonalKinds, c) : c \in Present}
      BY <1>1 DEF StartDispatch
    <3>4. corpJobs \subseteq Jobs
      BY <3>1, <3>2, <3>3
    <3>5. UNION {JobsOf(PersonalKinds, c) : c \in Present} \subseteq Jobs
      BY <3>1, <3>2
    <3>6. QED  BY <3>3, <3>4, <3>5
  <2>3. QED  BY <2>1, <2>2, QueueAlone
<1>2. CASE Publish
  <2>1. /\ UNCHANGED <<clock, docs, revoked, changes, life, due, stage, faults, cold>>
        /\ \E job \in unsent : Queue!Send(job) /\ unsent' = unsent \ {job}
    BY <1>2 DEF Publish, userVars
  <2>2. QueueOK' /\ held' = held
    BY <2>1, Sent
  <2>3. QED  BY <2>1, <2>2 DEF HasJob
<1>3. CASE DispatcherDies
  <2>1. /\ UNCHANGED <<clock, docs, revoked, changes, life, queueVars, stage>>
        /\ due' \in BOOLEAN /\ unsent' = {}
        /\ faults < MaxFaults /\ faults' = faults + 1
        /\ cold' = IF due' THEN cold ELSE [k \in Keys |-> 0]
    BY <1>3 DEF DispatcherDies, userVars
  <2>2. cold' \in [Keys -> Nat] /\ \A k \in Keys : life[k] > 0 => cold'[k] = 0
    BY <2>1
  <2>3. faults' \in 0 .. MaxFaults
    BY <2>1, TrackedAssumption
  <2>4. QED  BY <2>1, <2>2, <2>3, QueueAlone
<1>4. QED  BY <1>1, <1>2, <1>3

LEMMA WorkerTypes ==
    ASSUME Types, NEW w \in Workers, WorkerStep(w) \/ FetchFails(w) \/ Dies(w)
    PROVE  Types'
<1> USE DEF Types
<1>1. CASE Deliver(w)
  BY <1>1, Delivered DEF Deliver, userVars, dispatchVars
<1>2. CASE Load(w)
  <2> DEFINE c == Queue!Current(w).character
  <2>1. PICK l \in AfterLoad(c) :
          /\ stage' = [stage EXCEPT ![w] = l]
          /\ docs' = IF l = "personal" THEN [docs EXCEPT ![c] = l] ELSE docs
    BY <1>2 DEF Load, Goto
  <2>2. /\ UNCHANGED <<clock, revoked, changes, life, due, unsent, queueVars, faults, cold>>
        /\ HasJob(w)
    BY <1>2 DEF Load, dispatchVars, Queue!Working, HasJob
  <2>3. c \in Characters
    BY <2>2, WorkIs DEF Jobs
  <2>4. l \in {"personal", "corporation", "done"}
    BY <2>3 DEF AfterLoad, Present
  <2> HIDE DEF c
  <2>5. docs' \in [Characters -> {"absent", "personal", "corporation"}]
    BY <2>1, <2>3
  <2>6. QED  BY <2>1, <2>2, <2>4, <2>5, QueueAlone
<1>3. CASE Skip(w)
  <2>1. /\ UNCHANGED <<clock, docs, revoked, changes, life, due, unsent, queueVars, faults, cold>>
        /\ stage[w] \in {"personal", "corporation"}
        /\ stage' = [stage EXCEPT ![w] = "done"]
    BY <1>3 DEF Skip, dispatchVars, userVars, Loaded, Goto
  <2>2. QED  BY <2>1, QueueAlone
<1>4. CASE Refresh(w)
  <2> DEFINE job == Queue!Current(w)
  <2>1. /\ UNCHANGED <<clock, docs, revoked, changes, due, unsent, queueVars, faults>>
        /\ stage[w] \in {"personal", "corporation"}
        /\ stage' = [stage EXCEPT ![w] = "done"]
        /\ life' = [life EXCEPT ![KeyOf(job)] = Ttl[job.kind]]
        /\ cold' = [cold EXCEPT ![KeyOf(job)] = 0]
    BY <1>4 DEF Refresh, dispatchVars, userVars, Loaded, Goto
  <2>2. job \in Jobs
    BY <2>1, WorkIs
  <2> HIDE DEF job
  <2>3. KeyOf(job) \in Keys /\ KeyOf(job)[1] = job.kind /\ Ttl[job.kind] \in Nat
    BY <2>2, KeyOfJob
  <2>4. /\ \A k \in Keys : life'[k] = IF k = KeyOf(job) THEN Ttl[job.kind] ELSE life[k]
        /\ \A k \in Keys : cold'[k] = IF k = KeyOf(job) THEN 0 ELSE cold[k]
        /\ life' \in [Keys -> Nat] /\ cold' \in [Keys -> Nat]
    BY <2>1, <2>3
  <2>5. \A k \in Keys : life'[k] =< Ttl[k[1]] /\ (life'[k] > 0 => cold'[k] = 0)
    BY <2>3, <2>4
  <2>6. QED  BY <2>1, <2>4, <2>5, QueueAlone
<1>5. CASE FetchFails(w)
  <2> DEFINE job == Queue!Current(w)
  <2>1. /\ UNCHANGED <<clock, docs, revoked, changes, due, unsent, queueVars, life>>
        /\ stage[w] \in {"personal", "corporation"}
        /\ stage' = [stage EXCEPT ![w] = "done"]
        /\ cold' = [cold EXCEPT ![KeyOf(job)] = 0]
        /\ faults < MaxFaults /\ faults' = faults + 1
    BY <1>5 DEF FetchFails, dispatchVars, userVars, Loaded, Goto
  <2> HIDE DEF job
  <2>2. cold' \in [Keys -> Nat] /\ \A k \in Keys : cold'[k] \in {cold[k], 0}
    BY <2>1
  <2>3. faults' \in 0 .. MaxFaults
    BY <2>1, TrackedAssumption
  <2>4. QED  BY <2>1, <2>2, <2>3, QueueAlone
<1>6. CASE Ack(w)
  <2>1. /\ UNCHANGED <<clock, docs, revoked, changes, due, unsent, life, faults, cold>>
        /\ stage' = [stage EXCEPT ![w] = "idle"]
        /\ Queue!Ack(w)
    BY <1>6 DEF Ack, dispatchVars, userVars, Goto
  <2>2. QueueOK' /\ \A v \in Workers \ {w} : held'[v] = held[v]
    BY <2>1, Acked
  <2>3. QED  BY <2>1, <2>2 DEF HasJob
<1>7. CASE Dies(w)
  <2>1. /\ UNCHANGED <<clock, docs, revoked, changes, due, unsent, life, cold>>
        /\ stage' = [stage EXCEPT ![w] = "idle"]
        /\ Queue!Requeue(w)
        /\ faults' = faults \/ (faults < MaxFaults /\ faults' = faults + 1)
    BY <1>7 DEF Dies, dispatchVars, userVars, Goto
  <2>2. QueueOK' /\ \A v \in Workers \ {w} : held'[v] = held[v]
    BY <2>1, Requeued
  <2>3. faults' \in 0 .. MaxFaults
    BY <2>1, TrackedAssumption
  <2>4. QED  BY <2>1, <2>2, <2>3 DEF HasJob
<1>8. QED  BY <1>1, <1>2, <1>3, <1>4, <1>5, <1>6, <1>7 DEF WorkerStep

LEMMA UserTypes ==
    ASSUME Types, NEW c \in Characters,
           SignInOrConnect(c) \/ Disconnect(c) \/ Clear(c) \/ Revoke(c)
    PROVE  Types'
<1> USE DEF Types
<1>1. /\ UNCHANGED <<clock, due, unsent, queueVars, stage, faults>>
      /\ changes < MaxChanges /\ changes' = changes + 1
      /\ cold' = [k \in Keys |-> IF k[2] \in {c, Corporation} THEN 0 ELSE cold[k]]
  BY DEF SignInOrConnect, Disconnect, Clear, Revoke, User, dispatchVars
<1>2. changes' \in 0 .. MaxChanges
  BY <1>1, TrackedAssumption
<1>3. docs' \in [Characters -> {"absent", "personal", "corporation"}] /\ revoked' \subseteq Characters
  BY DEF SignInOrConnect, Disconnect, Clear, Revoke
<1>4. life' \in [Keys -> Nat] /\ \A k \in Keys : life'[k] \in {life[k], 0}
  BY DEF SignInOrConnect, Disconnect, Clear, Revoke
<1>5. cold' \in [Keys -> Nat] /\ \A k \in Keys : cold'[k] \in {cold[k], 0}
  BY <1>1
<1>6. \A k \in Keys : life'[k] =< Ttl[k[1]] /\ (life'[k] > 0 => cold'[k] = 0)
  BY <1>4, <1>5, KeyTypes
<1>7. QED  BY <1>1, <1>2, <1>3, <1>4, <1>5, <1>6, QueueAlone

LEMMA OtherTypes ==
    ASSUME Types, (\E k \in Keys : Page(k)) \/ Tick \/ UNCHANGED vars
    PROVE  Types'
<1> USE DEF Types
<1>1. ASSUME NEW k \in Keys, Page(k)
      PROVE  Types'
  <2>1. /\ UNCHANGED <<clock, docs, revoked, changes, due, unsent, queueVars, stage, faults>>
        /\ life' = [life EXCEPT ![k] = Ttl[k[1]]]
        /\ cold' = [cold EXCEPT ![k] = 0]
    BY <1>1 DEF Page, userVars, dispatchVars
  <2>2. Ttl[k[1]] \in Nat
    BY KeyTypes
  <2>3. life' \in [Keys -> Nat] /\ cold' \in [Keys -> Nat]
    BY <2>1, <2>2
  <2>4. \A j \in Keys : life'[j] =< Ttl[j[1]] /\ (life'[j] > 0 => cold'[j] = 0)
    BY <2>1, <2>2
  <2>5. QED  BY <2>1, <2>3, <2>4, QueueAlone
<1>2. CASE Tick
  <2>1. /\ UNCHANGED <<docs, revoked, changes, unsent, queueVars, stage, faults>>
        /\ clock' = (clock + 1) % Period
        /\ due' = (clock' = 0)
        /\ life' = [k \in Keys |-> IF life[k] > 0 THEN life[k] - 1 ELSE 0]
        /\ cold' = [k \in Keys |-> IF Refreshable(k) /\ ~ (life[k] > 0) THEN cold[k] + 1 ELSE 0]
    BY <1>2 DEF Tick, userVars, Warm
  <2>2. clock' \in 0 .. Period - 1
    BY <2>1, TrackedAssumption
  <2>3. life' \in [Keys -> Nat] /\ cold' \in [Keys -> Nat]
    BY <2>1
  <2>4. \A j \in Keys : life'[j] =< Ttl[j[1]] /\ (life'[j] > 0 => cold'[j] = 0)
    BY <2>1, KeyTypes
  <2>5. QED  BY <2>1, <2>2, <2>3, <2>4, QueueAlone
<1>3. CASE UNCHANGED vars
  BY <1>3, QueueAlone DEF vars, userVars, dispatchVars
<1>4. QED  BY <1>1, <1>2, <1>3

LEMMA TypesInvariant == Spec => []Types
<1>1. Init => Types
  <2> SUFFICES ASSUME Init PROVE Types
    OBVIOUS
  <2>1. QueueOK
    BY EmptyQueue, TrackedAssumption DEF Init, Queue!Init, QueueOK
  <2>2. \A k \in Keys : Ttl[k[1]] \in Nat
    BY KeyTypes
  <2>3. QED  BY <2>1, <2>2, TrackedAssumption DEF Init, Types
<1>2. Types /\ [Next]_vars => Types'
  BY DispatchTypes, WorkerTypes, UserTypes, OtherTypes DEF Next
<1>3. QED  BY <1>1, <1>2, PTL DEF Spec

(* The state keeps its types: whole messages that one worker at most has,  *)
(* no list that lives longer in Redis than its kind may, and none that is  *)
(* cold and there.                                                         *)
THEOREM TypeCorrect == Spec => []TypeOK
<1>1. Types => TypeOK
  <2> SUFFICES ASSUME Types PROVE TypeOK
    OBVIOUS
  <2>1. QueueOK /\ Prefetch \in Nat
    BY TrackedAssumption DEF Types
  <2>2. Queue!BrokerTypeOK(Jobs)
    <3>1. queue \subseteq Queue!Message(Jobs) /\ \A w \in Workers : Len(held[w]) =< Prefetch
      BY <2>1 DEF QueueOK, QueueInv, Messages, Queue!Message
    <3>2. \A w \in Workers : Queue!Held(w) = HeldBy(held, w)
      BY DEF Queue!Held, HeldBy
    <3>3. \A v, w \in Workers :
            /\ HeldBy(held, w) \subseteq queue
            /\ v # w => HeldBy(held, v) \cap HeldBy(held, w) = {}
      BY <2>1, HeldOnce DEF QueueOK
    <3>4. QED  BY <3>1, <3>2, <3>3 DEF Queue!BrokerTypeOK
  <2>3. QED  BY <2>2 DEF TypeOK, Types, Warm, Queue!Working, HasJob
<1>2. QED  BY <1>1, TypesInvariant, PTL

-----------------------------------------------------------------------------
(* What bounds the time a list is cold: jobs are under way only while the  *)
(* clock is at 0, a list counts as cold only while whoever may be its      *)
(* delegate can read it, and one that was cold already when the clock came *)
(* round has a dispatch before it, or a job that has not been tried in     *)
(* vain.                                                                   *)
Serves(job, k) == KeyOf(job) = k /\ (IsCorp(job) => job.character \in Connected)

Untried(m) ==
    \A w \in Workers : HasJob(w) /\ Work(w) = m =>
        stage[w] # "done" /\ (IsCorp(m.body) => stage[w] # "personal")

Coming(k) ==
    \/ due
    \/ \E job \in unsent : Serves(job, k)
    \/ \E m \in queue : Serves(m.body, k) /\ Untried(m)

Bounded(k) == cold[k] =< clock \/ (cold[k] =< Period /\ Coming(k))

ColdInv ==
    /\ due \/ unsent # {} \/ queue # {} => clock = 0
    /\ \A k \in Keys : cold[k] > 0 => Refreshable(k) /\ ~Warm(k)
    /\ \A k \in Keys : Bounded(k)

(* Steps within a tick: of a list that stays cold, whoever may read it     *)
(* still may, and what comes for it still comes.                           *)
LEMMA WithinTick ==
    ASSUME Types, Types', ColdInv, clock' = clock,
           due' \/ unsent' # {} \/ queue' # {} => due \/ unsent # {} \/ queue # {},
           \A k \in Keys : \/ cold'[k] = 0
                           \/ /\ cold'[k] = cold[k]
                              /\ cold[k] > 0 /\ Refreshable(k) /\ ~Warm(k) =>
                                   Refreshable(k)' /\ (Coming(k) => Coming(k)')
    PROVE  ColdInv'
<1>1. due' \/ unsent' # {} \/ queue' # {} => clock' = 0
  BY DEF ColdInv
<1>2. ASSUME NEW k \in Keys PROVE (cold'[k] > 0 => Refreshable(k)' /\ ~Warm(k)') /\ Bounded(k)'
  <2>1. clock' \in Nat /\ cold[k] \in Nat /\ cold'[k] \in Nat
    BY DEF Types
  <2>2. CASE cold'[k] = 0
    BY <2>1, <2>2 DEF Bounded
  <2>3. CASE cold'[k] > 0
    <3>1. /\ cold'[k] = cold[k] /\ cold[k] > 0
          /\ Refreshable(k)' /\ (Coming(k) => Coming(k)')
      BY <1>2, <2>1, <2>3 DEF ColdInv
    <3>2. ~Warm(k)'
      BY <2>3 DEF Types, Warm
    <3>3. Bounded(k)'
      BY <3>1 DEF ColdInv, Bounded
    <3>4. QED  BY <3>1, <3>2, <3>3
  <2>4. QED  BY <2>1, <2>2, <2>3
<1>3. QED  BY <1>1, <1>2 DEF ColdInv

(* Who may read what depends on the documents and the tokens only.         *)
LEMMA SameReaders ==
    ASSUME UNCHANGED <<docs, revoked>>, NEW k \in Keys
    PROVE  /\ Refreshable(k)' = Refreshable(k)
           /\ \A job \in Jobs : Serves(job, k)' = Serves(job, k)
BY DEF Refreshable, Present, Connected, Serves, IsCorp, KeyOf

LEMMA DispatchKeeps ==
    ASSUME Types, Types', ColdInv, StartDispatch \/ Publish \/ DispatcherDies
    PROVE  ColdInv'
<1>0. unsent \subseteq Jobs /\ QueueOK /\ \A m \in queue : m.body \in Jobs
  BY DEF Types, QueueOK, QueueInv, Messages
<1>1. UNCHANGED <<clock, docs, revoked, held, stage>>
  <2>1. CASE StartDispatch \/ DispatcherDies
    BY <2>1 DEF StartDispatch, DispatcherDies, userVars, queueVars
  <2>2. CASE Publish
    BY <2>2 DEF Publish, Queue!Send, userVars
  <2>3. QED  BY <2>1, <2>2
<1>2. \A k \in Keys : Refreshable(k)' = Refreshable(k)
  BY <1>1, SameReaders
<1>3. \A k \in Keys : \A job \in Jobs : Serves(job, k)' = Serves(job, k)
  BY <1>1, SameReaders
<1>4. \A m \in queue : Untried(m)' = Untried(m)
  BY <1>1 DEF Untried, HasJob, Work, IsCorp
<1>5. CASE StartDispatch
  <2>1. due /\ UNCHANGED <<queue, cold>>
    BY <1>5 DEF StartDispatch, queueVars
  <2>2. ASSUME NEW k \in Keys, Refreshable(k) PROVE Coming(k)'
    <3>1. PICK corpJobs \in (IF Delegates = {} THEN {{}} ELSE {JobsOf(CorpKinds, d) : d \in Delegates}) :
            unsent' = unsent \cup corpJobs \cup UNION {JobsOf(PersonalKinds, c) : c \in Present}
      BY <1>5 DEF StartDispatch
    <3>2. CASE k[1] \in PersonalKinds
      <4> DEFINE job == [kind |-> k[1], character |-> k[2]]
      <4>1. k[2] \in Present
        BY <2>2, <3>2 DEF Refreshable
      <4>2. job \in JobsOf(PersonalKinds, k[2])
        BY <3>2 DEF JobsOf
      <4>3. job \in unsent'
        BY <3>1, <4>1, <4>2
      <4>4. job.kind = k[1] /\ job.character = k[2] /\ k[1] \notin CorpKinds /\ k = <<k[1], k[2]>>
        BY <3>2, KeyTypes
      <4> HIDE DEF job
      <4>5. Serves(job, k)'
        BY <4>4 DEF Serves, KeyOf, IsCorp
      <4>6. QED  BY <4>3, <4>5 DEF Coming
    <3>3. CASE k[1] \notin PersonalKinds
      <4>1. k[1] \in CorpKinds /\ k[2] = Corporation /\ k = <<k[1], k[2]>>
        BY <3>3, KeyTypes
      <4>2. Delegates # {} /\ Delegates = Connected
        BY <2>2, <3>3 DEF Refreshable, Delegates
      <4>3. PICK d \in Connected : corpJobs = JobsOf(CorpKinds, d)
        BY <3>1, <4>2
      <4> DEFINE job == [kind |-> k[1], character |-> d]
      <4>4. job \in unsent'
        BY <3>1, <4>1, <4>3 DEF JobsOf
      <4>5. job.kind = k[1] /\ job.character = d
        OBVIOUS
      <4> HIDE DEF job
      <4>6. d \in Connected'
        BY <1>1 DEF Connected
      <4>7. Serves(job, k)'
        BY <4>1, <4>5, <4>6 DEF Serves, KeyOf, IsCorp
      <4>8. QED  BY <4>4, <4>7 DEF Coming
    <3>4. QED  BY <3>2, <3>3
  <2>3. QED  BY <1>1, <1>2, <2>1, <2>2, WithinTick
<1>6. CASE Publish
  <2>1. UNCHANGED <<due, cold>>
    BY <1>6 DEF Publish
  <2>2. PICK job \in unsent : Queue!Send(job) /\ unsent' = unsent \ {job}
    BY <1>6 DEF Publish
  <2>3. PICK m \in Messages \ queue : m.body = job /\ queue' = queue \cup {m}
    BY <1>0, <2>2, Sent
  <2>4. Untried(m)'
    <3>1. \A w \in Workers : HasJob(w) => Work(w) # m
      BY <1>0, <2>3, WorkIs
    <3>2. QED  BY <1>1, <3>1 DEF Untried, HasJob, Work
  <2>5. ASSUME NEW k \in Keys, Coming(k) PROVE Coming(k)'
    <3>1. CASE due
      BY <2>1, <3>1 DEF Coming
    <3>2. CASE \E j \in unsent : Serves(j, k)
      <4>1. PICK j \in unsent : Serves(j, k)
        BY <3>2
      <4>2. Serves(j, k)'
        BY <1>0, <1>3, <4>1
      <4>3. j \in unsent' \/ (m \in queue' /\ Serves(m.body, k)')
        <5>1. CASE j = job
          <6>1. m.body = j /\ m \in queue'
            BY <2>3, <5>1
          <6>2. Serves(m.body, k)'
            BY <4>2, <6>1 DEF Serves, KeyOf, IsCorp
          <6>3. QED  BY <6>1, <6>2
        <5>2. CASE j # job
          BY <2>2, <4>1, <5>2
        <5>3. QED  BY <5>1, <5>2
      <4>4. QED  BY <2>4, <4>2, <4>3 DEF Coming
    <3>3. CASE \E n \in queue : Serves(n.body, k) /\ Untried(n)
      <4>1. PICK n \in queue : Serves(n.body, k) /\ Untried(n)
        BY <3>3
      <4>2. n \in queue' /\ Serves(n.body, k)' /\ Untried(n)'
        BY <1>0, <1>3, <1>4, <2>3, <4>1
      <4>3. QED  BY <4>2 DEF Coming
    <3>4. QED  BY <2>5, <3>1, <3>2, <3>3 DEF Coming
  <2>6. unsent # {}
    BY <2>2
  <2>7. QED  BY <1>1, <1>2, <2>1, <2>5, <2>6, WithinTick
<1>7. CASE DispatcherDies
  <2>1. /\ unsent # {} /\ unsent' = {} /\ queue' = queue /\ due' \in BOOLEAN
        /\ cold' = IF due' THEN cold ELSE [k \in Keys |-> 0]
    BY <1>7 DEF DispatcherDies, queueVars
  <2>2. \A k \in Keys : due' => Coming(k)'
    BY DEF Coming
  <2>3. QED  BY <1>1, <1>2, <2>1, <2>2, WithinTick
<1>8. QED  BY <1>5, <1>6, <1>7

(* What a worker does to other messages than its own, and to other lists   *)
(* than its own, changes nothing.                                          *)
LEMMA WorkerKeepsOthers ==
    ASSUME Types, NEW w \in Workers,
           \A v \in Workers \ {w} : stage'[v] = stage[v] /\ held'[v] = held[v],
           NEW m \in queue, Untried(m),
           HasJob(w)' /\ Work(w)' = m => stage'[w] # "done" /\ (IsCorp(m.body) => stage'[w] # "personal")
    PROVE  Untried(m)'
<1>1. ASSUME NEW v \in Workers, HasJob(v)', Work(v)' = m
      PROVE  stage'[v] # "done" /\ (IsCorp(m.body) => stage'[v] # "personal")
  <2>1. CASE v = w
    BY <1>1, <2>1
  <2>2. CASE v # w
    BY <1>1, <2>2 DEF Untried, HasJob, Work
  <2>3. QED  BY <2>1, <2>2
<1>2. QED  BY <1>1 DEF Untried, IsCorp

(* A list is under way as before when the dispatcher and the documents are *)
(* let alone and the messages for it stay and stay untried.                *)
LEMMA StillComing ==
    ASSUME Types, UNCHANGED <<due, unsent>>, NEW k \in Keys, Coming(k),
           \A job \in Jobs : Serves(job, k) => Serves(job, k)',
           \A m \in queue : Serves(m.body, k) /\ Untried(m) => m \in queue' /\ Untried(m)'
    PROVE  Coming(k)'
<1>1. unsent \subseteq Jobs /\ \A m \in queue : m.body \in Jobs
  BY DEF Types, QueueOK, QueueInv, Messages
<1>2. CASE due
  BY <1>2 DEF Coming
<1>3. CASE \E j \in unsent : Serves(j, k)
  BY <1>1, <1>3 DEF Coming
<1>4. CASE \E m \in queue : Serves(m.body, k) /\ Untried(m)
  <2>1. PICK m \in queue : Serves(m.body, k) /\ Untried(m)
    BY <1>4
  <2>2. m \in queue' /\ Untried(m)' /\ Serves(m.body, k)'
    BY <1>1, <2>1
  <2>3. QED  BY <2>2 DEF Coming
<1>5. QED  BY <1>2, <1>3, <1>4 DEF Coming

LEMMA DeliverKeeps ==
    ASSUME Types, Types', ColdInv, NEW w \in Workers, Deliver(w)
    PROVE  ColdInv'
<1>1. UNCHANGED <<clock, docs, revoked, due, unsent, stage, cold>> /\ Queue!Deliver(w)
  BY DEF Deliver, userVars, dispatchVars
<1>2. queue' = queue /\ \A v \in Workers : HasJob(v) => HasJob(v)' /\ Work(v)' = Work(v)
  BY <1>1, Delivered DEF Types
<1>3. \A v \in Workers : ~HasJob(v) => stage[v] = "idle"
  BY DEF Types
<1>4. ASSUME NEW m \in queue, Untried(m) PROVE Untried(m)'
  BY <1>1, <1>2, <1>3, <1>4 DEF Untried, IsCorp
<1>5. \A k \in Keys : Coming(k) => Coming(k)'
  BY <1>1, <1>2, <1>4, StillComing, SameReaders
<1>6. \A k \in Keys : Refreshable(k)' = Refreshable(k)
  BY <1>1, SameReaders
<1>7. QED  BY <1>1, <1>2, <1>5, <1>6, WithinTick

(* Loading the document: a message that serves a list nobody is kept from  *)
(* is tried with the token it asks for.                                    *)
LEMMA LoadKeeps ==
    ASSUME Types, Types', ColdInv, NEW w \in Workers, Load(w)
    PROVE  ColdInv'
<1> DEFINE m == Work(w)
           c == m.body.character
<1>1. /\ UNCHANGED <<clock, revoked, due, unsent, cold, queue, held>>
      /\ HasJob(w)
  BY DEF Load, dispatchVars, queueVars, Queue!Working, HasJob
<1>2. m \in queue /\ m.body \in Jobs /\ Queue!Current(w) = m.body
      /\ \A v \in Workers \ {w} : HasJob(v) => Work(v) # m
  BY <1>1, WorkIs DEF Types
<1>3. PICK l \in AfterLoad(c) :
        /\ stage' = [stage EXCEPT ![w] = l]
        /\ docs' = IF l = "personal" THEN [docs EXCEPT ![c] = l] ELSE docs
  BY <1>2 DEF Load, Goto
<1>4. c \in Characters
  BY <1>2 DEF Jobs
<1> HIDE DEF m, c
<1>5. l = "personal" => c \in Present /\ (docs[c] = "personal" \/ c \in revoked)
  BY <1>3, <1>4 DEF AfterLoad, Present, Types
<1>6. Present' = Present
  BY <1>3, <1>4, <1>5 DEF Present, Types
<1>7. Connected' \in {Connected, Connected \ {c}} /\ (Connected' # Connected => c \in Connected \cap revoked)
  BY <1>3, <1>4, <1>5 DEF Connected, Types
<1>8. ASSUME NEW k \in Keys, Refreshable(k)
      PROVE  /\ Refreshable(k)'
             /\ \A job \in Jobs : Serves(job, k) => Serves(job, k)'
             /\ Serves(m.body, k) => l # "done" /\ (IsCorp(m.body) => l # "personal")
  <2>1. CASE k[1] \in PersonalKinds
    <3>1. k[1] \notin CorpKinds /\ k[2] \in Present \ (revoked \cup Unreachable)
      BY <1>8, <2>1, KeyTypes DEF Refreshable
    <3>2. Refreshable(k)'
      BY <1>1, <1>6, <2>1, <3>1 DEF Refreshable
    <3>3. \A job \in Jobs : KeyOf(job) = k => ~IsCorp(job) /\ job.character = k[2]
      <4>1. \A job \in Jobs : KeyOf(job)[1] = job.kind
        BY KeyOfJob
      <4>2. \A job \in Jobs : ~IsCorp(job) => KeyOf(job)[2] = job.character
        BY DEF KeyOf
      <4>3. QED  BY <3>1, <4>1, <4>2 DEF IsCorp
    <3>4. \A job \in Jobs : Serves(job, k) => Serves(job, k)'
      BY <3>3 DEF Serves, KeyOf, IsCorp
    <3>5. ASSUME Serves(m.body, k) PROVE l # "done" /\ ~IsCorp(m.body)
      <4>1. ~IsCorp(m.body) /\ c = k[2]
        BY <1>2, <3>3, <3>5 DEF Serves, c
      <4>2. AfterLoad(c) = {docs[c]} /\ docs[c] # "done"
        BY <1>4, <3>1, <4>1 DEF AfterLoad, Types
      <4>3. QED  BY <1>3, <4>1, <4>2
    <3>6. QED  BY <3>2, <3>4, <3>5
  <2>2. CASE k[1] \notin PersonalKinds
    <3>1. Connected # {} /\ Connected \subseteq CanRead \ (revoked \cup Unreachable)
      BY <1>8, <2>2 DEF Refreshable
    <3>2. Connected' = Connected
      BY <1>7, <3>1
    <3>3. Refreshable(k)'
      BY <1>1, <2>2, <3>1, <3>2 DEF Refreshable
    <3>4. \A job \in Jobs : Serves(job, k) => Serves(job, k)'
      BY <3>2 DEF Serves, KeyOf, IsCorp
    <3>5. ASSUME Serves(m.body, k) PROVE l = "corporation"
      <4>1. IsCorp(m.body)
        <5>1. KeyOf(m.body)[1] = m.body.kind
          BY <1>2, KeyOfJob
        <5>2. k[1] \in CorpKinds
          BY <2>2, KeyTypes
        <5>3. QED  BY <3>5, <5>1, <5>2 DEF Serves, IsCorp
      <4>2. c \in Connected /\ c \notin revoked
        BY <3>1, <3>5, <4>1 DEF Serves, c
      <4>3. AfterLoad(c) = {"corporation"}
        BY <1>4, <4>2 DEF AfterLoad, Connected, Present
      <4>4. QED  BY <1>3, <4>3
    <3>6. QED  BY <3>3, <3>4, <3>5
  <2>3. QED  BY <2>1, <2>2
<1>9. \A v \in Workers : stage'[v] = IF v = w THEN l ELSE stage[v]
  BY <1>3 DEF Types
<1>10. ASSUME NEW k \in Keys, Refreshable(k), Coming(k) PROVE Coming(k)'
  <2>1. ASSUME NEW n \in queue, Serves(n.body, k), Untried(n) PROVE n \in queue' /\ Untried(n)'
    <3>1. HasJob(w)' /\ Work(w)' = n => n = m
      BY <1>1 DEF Work, m
    <3>2. n = m => l # "done" /\ (IsCorp(m.body) => l # "personal")
      BY <1>8, <1>10, <2>1
    <3>3. QED  BY <1>1, <1>9, <2>1, <3>1, <3>2, WorkerKeepsOthers
  <2>2. QED  BY <1>1, <1>8, <1>10, <2>1, StillComing
<1>11. QED  BY <1>1, <1>8, <1>10, WithinTick

(* A worker is through with its message: no list that stays cold was       *)
(* waiting for that one.                                                   *)
LEMMA ThroughKeeps ==
    ASSUME Types, Types', ColdInv, NEW w \in Workers, HasJob(w),
           UNCHANGED <<clock, docs, revoked, due, unsent>>,
           queue' \in {queue, queue \ {Work(w)}},
           \A v \in Workers \ {w} : stage'[v] = stage[v] /\ held'[v] = held[v],
           stage'[w] = "idle" \/ (stage'[w] = "done" /\ held' = held),
           \A k \in Keys : \/ cold'[k] = 0
                           \/ /\ cold'[k] = cold[k]
                              /\ cold[k] > 0 /\ Refreshable(k) /\ ~Warm(k) /\ Untried(Work(w)) =>
                                   (queue' = queue /\ stage'[w] = "idle") \/ ~Serves(Work(w).body, k)
    PROVE  ColdInv'
<1>1. ASSUME NEW k \in Keys, cold'[k] = cold[k], cold[k] > 0, Refreshable(k), ~Warm(k), Coming(k),
             Untried(Work(w)) => (queue' = queue /\ stage'[w] = "idle") \/ ~Serves(Work(w).body, k)
      PROVE  Coming(k)'
  <2>1. ASSUME NEW m \in queue, Serves(m.body, k), Untried(m) PROVE m \in queue' /\ Untried(m)'
    <3>1. m = Work(w) => queue' = queue /\ stage'[w] = "idle"
      BY <1>1, <2>1
    <3>2. m \in queue'
      BY <3>1
    <3>3. HasJob(w)' /\ Work(w)' = m => stage'[w] # "done" /\ (IsCorp(m.body) => stage'[w] # "personal")
      <4>1. CASE stage'[w] = "idle"
        BY <4>1
      <4>2. CASE stage'[w] = "done" /\ held' = held
        <5>1. Work(w)' = Work(w)
          BY <4>2 DEF Work
        <5>2. QED  BY <3>1, <4>2, <5>1
      <4>3. QED  BY <4>1, <4>2
    <3>4. QED  BY <2>1, <3>2, <3>3, WorkerKeepsOthers
  <2>2. \A job \in Jobs : Serves(job, k) => Serves(job, k)'
    BY SameReaders
  <2>3. QED  BY <1>1, <2>1, <2>2, StillComing
<1>2. \A k \in Keys : Refreshable(k)' = Refreshable(k)
  BY SameReaders
<1>3. queue' # {} => queue # {}
  OBVIOUS
<1>4. QED  BY <1>1, <1>2, <1>3, WithinTick

LEMMA WorkerKeeps ==
    ASSUME Types, Types', ColdInv, NEW w \in Workers, WorkerStep(w) \/ FetchFails(w) \/ Dies(w)
    PROVE  ColdInv'
<1> DEFINE job == Work(w).body
<1>0. /\ QueueOK /\ stage \in [Workers -> {"idle", "personal", "corporation", "done"}]
      /\ \A v \in Workers : stage[v] # "idle" => HasJob(v)
      /\ cold \in [Keys -> Nat]
  BY DEF Types
<1>1. CASE Skip(w)
  <2>1. /\ UNCHANGED <<clock, docs, revoked, due, unsent, queue, held, cold>>
        /\ stage' = [stage EXCEPT ![w] = "done"]
        /\ stage[w] \in {"personal", "corporation"}
        /\ Fetches(w) => IsCorp(Queue!Current(w)) /\ Queue!Current(w).character \notin CanRead
    BY <1>1 DEF Skip, userVars, dispatchVars, queueVars, Goto, Loaded
  <2>2. HasJob(w) /\ Work(w) \in queue /\ job \in Jobs /\ Queue!Current(w) = job
    BY <1>0, <2>1, WorkIs
  <2> HIDE DEF job
  <2>3. ASSUME NEW k \in Keys, Refreshable(k), ~Warm(k), Untried(Work(w)) PROVE ~Serves(job, k)
    <3> SUFFICES ASSUME Serves(job, k) PROVE FALSE
      OBVIOUS
    <3>1. KeyOf(job) = k /\ (IsCorp(job) => stage[w] = "corporation")
      BY <2>1, <2>2, <2>3 DEF Serves, Untried, job
    <3>2. Fetches(w)
      BY <2>2, <2>3, <3>1 DEF Fetches
    <3>3. IsCorp(job) /\ job.character \notin CanRead /\ job.character \in Connected
      BY <2>1, <2>2, <3>2 DEF Serves
    <3>4. k[1] \in CorpKinds
      BY <2>2, <3>1, <3>3, KeyOfJob DEF IsCorp
    <3>5. Connected \subseteq CanRead
      BY <2>3, <3>4, KeyTypes DEF Refreshable
    <3>6. QED  BY <3>3, <3>5
  <2>4. QED  BY <1>0, <2>1, <2>2, <2>3, ThroughKeeps DEF job
<1>2. CASE Refresh(w) \/ FetchFails(w)
  <2>1. /\ UNCHANGED <<clock, docs, revoked, due, unsent, queue, held>>
        /\ stage' = [stage EXCEPT ![w] = "done"]
        /\ stage[w] \in {"personal", "corporation"}
        /\ cold' = [cold EXCEPT ![KeyOf(Queue!Current(w))] = 0]
    BY <1>2 DEF Refresh, FetchFails, userVars, dispatchVars, queueVars, Goto, Loaded
  <2>2. HasJob(w) /\ Work(w) \in queue /\ Queue!Current(w) = job
    BY <1>0, <2>1, WorkIs
  <2> HIDE DEF job
  <2>3. \A k \in Keys : cold'[k] = 0 \/ (cold'[k] = cold[k] /\ KeyOf(job) # k)
    BY <1>0, <2>1, <2>2
  <2>4. \A k \in Keys : cold'[k] = 0 \/ (cold'[k] = cold[k] /\ ~Serves(job, k))
    BY <2>3 DEF Serves
  <2>5. QED  BY <1>0, <2>1, <2>2, <2>4, ThroughKeeps DEF job
<1>3. CASE Ack(w)
  <2>1. /\ UNCHANGED <<clock, docs, revoked, due, unsent, cold>>
        /\ stage' = [stage EXCEPT ![w] = "idle"]
        /\ stage[w] = "done"
        /\ Queue!Ack(w)
    BY <1>3 DEF Ack, userVars, dispatchVars, Goto
  <2>2. /\ HasJob(w) /\ queue' = queue \ {Work(w)}
        /\ \A v \in Workers \ {w} : held'[v] = held[v]
    BY <1>0, <2>1, Acked
  <2>3. ~Untried(Work(w))
    BY <2>1, <2>2 DEF Untried
  <2>4. QED  BY <1>0, <2>1, <2>2, <2>3, ThroughKeeps
<1>4. CASE Dies(w)
  <2>1. /\ UNCHANGED <<clock, docs, revoked, due, unsent, cold>>
        /\ stage' = [stage EXCEPT ![w] = "idle"]
        /\ HasJob(w)
        /\ Queue!Requeue(w)
    BY <1>4 DEF Dies, userVars, dispatchVars, Goto, Queue!Working, HasJob
  <2>2. /\ queue' = queue
        /\ \A v \in Workers \ {w} : held'[v] = held[v]
    BY <1>0, <2>1, Requeued
  <2>3. QED  BY <1>0, <2>1, <2>2, ThroughKeeps
<1>5. QED  BY <1>1, <1>2, <1>3, <1>4, DeliverKeeps, LoadKeeps DEF WorkerStep

(* What a user does to a character: only lists of others stay cold.        *)
LEMMA UserKeeps ==
    ASSUME Types, Types', ColdInv, NEW c \in Characters,
           SignInOrConnect(c) \/ Disconnect(c) \/ Clear(c) \/ Revoke(c)
    PROVE  ColdInv'
<1>1. /\ UNCHANGED <<clock, due, unsent, queue, held, stage>>
      /\ cold' = [k \in Keys |-> IF k[2] \in {c, Corporation} THEN 0 ELSE cold[k]]
  BY DEF SignInOrConnect, Disconnect, Clear, Revoke, User, dispatchVars, queueVars
<1>2. \A d \in Characters \ {c} : docs'[d] = docs[d] /\ (d \in revoked' <=> d \in revoked)
  BY DEF SignInOrConnect, Disconnect, Clear, Revoke, Types
<1>3. ASSUME NEW k \in Keys, k[2] \notin {c, Corporation}, Refreshable(k)
      PROVE  Refreshable(k)' /\ (Coming(k) => Coming(k)')
  <2>1. k[1] \in PersonalKinds /\ k[1] \notin CorpKinds /\ k[2] \in Characters \ {c}
    BY <1>3, KeyTypes
  <2>2. Refreshable(k)'
    BY <1>2, <1>3, <2>1 DEF Refreshable, Present
  <2>3. ASSUME NEW job \in Jobs, Serves(job, k) PROVE Serves(job, k)'
    <3>1. ~IsCorp(job)
      BY <2>1, <2>3, KeyOfJob DEF Serves, IsCorp
    <3>2. QED  BY <2>3, <3>1 DEF Serves, KeyOf, IsCorp
  <2>4. \A m \in queue : Untried(m) => Untried(m)'
    BY <1>1 DEF Untried, HasJob, Work, IsCorp
  <2>5. QED  BY <1>1, <2>2, <2>3, <2>4, StillComing
<1>4. \A k \in Keys : cold'[k] = 0 \/ (cold'[k] = cold[k] /\ k[2] \notin {c, Corporation})
  BY <1>1
<1>5. QED  BY <1>1, <1>3, <1>4, WithinTick

LEMMA PageKeeps ==
    ASSUME Types, Types', ColdInv, NEW k \in Keys, Page(k)
    PROVE  ColdInv'
<1>1. UNCHANGED <<clock, docs, revoked, due, unsent, queue, held, stage>> /\ cold' = [cold EXCEPT ![k] = 0]
  BY DEF Page, userVars, dispatchVars, queueVars
<1>2. \A j \in Keys : cold'[j] = 0 \/ cold'[j] = cold[j]
  BY <1>1 DEF Types
<1>3. \A j \in Keys : Refreshable(j)' = Refreshable(j)
  BY <1>1, SameReaders
<1>4. \A m \in queue : Untried(m) => Untried(m)'
  BY <1>1 DEF Untried, HasJob, Work, IsCorp
<1>5. \A j \in Keys : Coming(j) => Coming(j)'
  BY <1>1, <1>4, StillComing, SameReaders
<1>6. QED  BY <1>1, <1>2, <1>3, <1>5, WithinTick

LEMMA ComesRound ==
    ASSUME NEW p \in Nat \ {0}, NEW c \in 0 .. p - 1
    PROVE  (c + 1) % p = IF c + 1 = p THEN 0 ELSE c + 1
<1>1. CASE c + 1 = p
  BY <1>1
<1>2. CASE c + 1 # p
  BY <1>2
<1>3. QED  BY <1>1, <1>2

(* Before a tick every job is through, so that no list has been cold for   *)
(* longer than the clock runs; when it comes round, a dispatch is due.     *)
LEMMA TickKeeps ==
    ASSUME Types, Types', ColdInv, Tick
    PROVE  ColdInv'
<1>1. /\ ~due /\ unsent = {} /\ queue = {}
      /\ clock' = (clock + 1) % Period
      /\ due' = (clock' = 0)
      /\ life' = [k \in Keys |-> IF Warm(k) THEN life[k] - 1 ELSE 0]
      /\ cold' = [k \in Keys |-> IF Refreshable(k) /\ ~Warm(k) THEN cold[k] + 1 ELSE 0]
      /\ UNCHANGED <<docs, revoked, unsent, queue>>
  BY DEF Tick, userVars, queueVars
<1>2. /\ clock \in Nat /\ Period \in Nat \ {0} /\ clock' \in Nat
      /\ clock' = clock + 1 \/ (clock + 1 = Period /\ clock' = 0)
  <2>1. Period \in Nat \ {0} /\ clock \in 0 .. Period - 1
    BY TrackedAssumption DEF Types
  <2>2. (clock + 1) % Period = IF clock + 1 = Period THEN 0 ELSE clock + 1
    BY <2>1, ComesRound
  <2>3. QED  BY <1>1, <2>1, <2>2
<1>3. ASSUME NEW k \in Keys PROVE (cold'[k] > 0 => Refreshable(k)' /\ ~Warm(k)') /\ Bounded(k)'
  <2>1. cold[k] \in Nat /\ life[k] \in Nat /\ cold[k] =< clock
    BY <1>1 DEF ColdInv, Bounded, Coming, Types
  <2>2. Refreshable(k)' = Refreshable(k)
    BY <1>1, SameReaders
  <2>3. cold'[k] > 0 => Refreshable(k)' /\ ~Warm(k)'
    BY <1>1, <2>1, <2>2 DEF Warm
  <2>4. cold'[k] =< clock + 1
    BY <1>1, <1>2, <2>1
  <2>5. clock' = 0 => Coming(k)'
    BY <1>1 DEF Coming
  <2>6. QED  BY <1>2, <2>1, <2>3, <2>4, <2>5 DEF Bounded
<1>4. QED  BY <1>1, <1>3 DEF ColdInv

LEMMA ColdInvariant == Spec => []ColdInv
<1>1. Init => ColdInv
  BY DEF Init, ColdInv, Bounded, Queue!Init
<1>2. Types /\ Types' /\ ColdInv /\ [Next]_vars => ColdInv'
  <2> SUFFICES ASSUME Types, Types', ColdInv, [Next]_vars PROVE ColdInv'
    OBVIOUS
  <2>1. CASE UNCHANGED vars
    <3>1. UNCHANGED <<clock, docs, revoked, life, due, unsent, queue, held, stage, cold>>
      BY <2>1 DEF vars, userVars, dispatchVars, queueVars
    <3>2. QED
      BY <3>1 DEF ColdInv, Bounded, Coming, Serves, Untried, HasJob, Work, Refreshable,
                  Present, Connected, Warm, IsCorp, KeyOf
  <2>2. CASE Next
    BY <2>2, DispatchKeeps, WorkerKeeps, UserKeeps, PageKeeps, TickKeeps DEF Next
  <2>3. QED  BY <2>1, <2>2
<1>3. QED  BY <1>1, <1>2, TypesInvariant, PTL DEF Spec

(* The CronJob and its workers keep lists warm: whatever dies, is called   *)
(* twice or changes meanwhile, a list that every character who may be its  *)
(* delegate can read is cold for one period at most (the first dispatch    *)
(* after its expiry has a job whose run_refresh_job fills it).             *)
THEOREM ColdForOnePeriod == Spec => []ColdIsBounded
<1>1. Types /\ ColdInv => ColdIsBounded
  <2> SUFFICES ASSUME Types, ColdInv, NEW k \in Keys PROVE cold[k] =< Period
    BY DEF ColdIsBounded
  <2>1. cold[k] \in Nat /\ clock \in 0 .. Period - 1 /\ Period \in Nat
    BY TrackedAssumption DEF Types
  <2>2. QED  BY <2>1 DEF ColdInv, Bounded
<1>2. QED  BY <1>1, TypesInvariant, ColdInvariant, PTL
=============================================================================
