---------------------------- MODULE TrackedInfo ----------------------------
(***************************************************************************)
(* The background refresh of what characters and corporations own:         *)
(* services/tracked_info.py and its scripts.  A CronJob publishes one job  *)
(* per character and kind of list, and one per corporation and kind, for   *)
(* which a connected character is the delegate.  A worker runs a job by    *)
(* calling the getter of the pages, which only fetches what Redis does not *)
(* hold any more.                                                          *)
(*                                                                         *)
(* Of a list only the time is kept that its Redis key has still to live;   *)
(* EsiCache has the fill itself, CharacterTokens the refresh of the tokens. *)
(* All characters are of one corporation.  A tick is a quarter of an hour, *)
(* and long enough for all jobs of a dispatch: the workers keep up.        *)
(***************************************************************************)
EXTENDS Naturals, Sequences, FiniteSets

CONSTANTS
    Workers,            \* the replicas of the refresh worker
    Prefetch,           \* tracked_info_refresh_prefetch
    Characters, Corporation,
    PersonalKinds, CorpKinds,
    Ttl,                \* per kind: how long Redis keeps a list
    Period,             \* trackedInfo.dispatchSchedule
    CanRead,            \* characters with the role that the corporation lists ask for
    Unreachable,        \* characters whose requests raise every time, and not in the try
    MaxFaults,          \* bound: deaths and failures that pass
    MaxChanges          \* bound: what users do

Keys == (PersonalKinds \X Characters) \cup (CorpKinds \X {Corporation})

ASSUME TrackedAssumption ==
    /\ PersonalKinds \cap CorpKinds = {}
    /\ Ttl \in [PersonalKinds \cup CorpKinds -> Nat]
    /\ {Prefetch, Period} \subseteq Nat \ {0}
    /\ {MaxFaults, MaxChanges} \subseteq Nat

VARIABLES
    clock,              \* ticks since the schedule's last time
    docs,               \* characters: absent, signed in, or with corporation data
    revoked,            \* characters whose refresh token EVE SSO refuses
    life,               \* per list: ticks until its Redis key life, 0 if it is not there
    due,                \* the CronJob's time has come, or its pod is tried again
    unsent,             \* the dispatcher's jobs that are not published yet
    queue, held,        \* tracked_info.refresh_jobs
    stage,              \* per worker: how far it is with its job
    faults, changes,
    cold                \* history, per list: ticks it has been cold for no reason

queueVars == <<queue, held>>
dispatchVars == <<due, unsent>>
userVars == <<docs, revoked, changes>>
vars == <<clock, userVars, life, dispatchVars, queueVars, stage, faults, cold>>

Jobs == [kind : PersonalKinds \cup CorpKinds, character : Characters]

IsCorp(job) == job.kind \in CorpKinds
KeyOf(job) == <<job.kind, IF IsCorp(job) THEN Corporation ELSE job.character>>

Queue == INSTANCE Broker

Present == {c \in Characters : docs[c] # "absent"}
Connected == {c \in Characters : docs[c] = "corporation"}
Warm(k) == life[k] > 0

Init ==
    /\ clock = 0
    /\ docs \in [Characters -> {"absent", "personal", "corporation"}]
    /\ revoked = {}
    /\ life = [k \in Keys |-> 0]
    /\ due = TRUE /\ unsent = {}
    /\ Queue!Init
    /\ stage = [w \in Workers |-> "idle"]
    /\ faults = 0 /\ changes = 0
    /\ cold = [k \in Keys |-> 0]

-----------------------------------------------------------------------------
(* The first connected character of the corporation, in the order of the   *)
(* cursor, which may be any.                                               *)
Delegates_NotConnected == Present
Delegates == Connected

JobsOf(kinds, c) == [kind : kinds, character : {c}]

(* enqueue_all_refresh_jobs: what there is to publish.                     *)
StartDispatch ==
    /\ due
    /\ due' = FALSE
    /\ \E corpJobs \in (IF Delegates = {} THEN {{}}
                                          ELSE {JobsOf(CorpKinds, d) : d \in Delegates}) :
         unsent' = unsent \cup corpJobs \cup UNION {JobsOf(PersonalKinds, c) : c \in Present}
    /\ UNCHANGED <<clock, userVars, life, queueVars, stage, faults, cold>>

(* The corporations' jobs are published last.                              *)
Publish ==
    /\ \E job \in unsent :
         /\ IsCorp(job) => \A j \in unsent : IsCorp(j)
         /\ Queue!Send(job)
         /\ unsent' = unsent \ {job}
    /\ UNCHANGED <<clock, userVars, life, due, stage, faults, cold>>

(* The dispatcher dies in the middle; its Job tries again or gives up.     *)
DispatcherDies ==
    /\ unsent # {}
    /\ faults < MaxFaults
    /\ faults' = faults + 1
    /\ unsent' = {}
    /\ due' \in BOOLEAN
    /\ cold' = IF due' THEN cold ELSE [k \in Keys |-> 0]
    /\ UNCHANGED <<clock, userVars, life, queueVars, stage>>

-----------------------------------------------------------------------------
Deliver(w) ==
    /\ Queue!Deliver(w)
    /\ UNCHANGED <<clock, userVars, life, dispatchVars, stage, faults, cold>>

Goto(w, l) == stage' = [stage EXCEPT ![w] = l]

(* run_refresh_job reads the document: nothing to do for a character that  *)
(* is not there, nor for one whose tokens had to be refreshed and are      *)
(* refused (a valid access token still serves).  A refused token of the    *)
(* corporation disconnects the character.                                  *)
AfterLoad_Waits(c) == IF c \in Present THEN {docs[c]} ELSE {"idle"}
AfterLoad(c) ==
    IF c \notin Present THEN {"done"}
    ELSE {docs[c]} \cup (IF c \in revoked THEN {"done", "personal"} ELSE {})

Load(w) ==
    /\ Queue!Working(w)
    /\ stage[w] = "idle"
    /\ LET c == Queue!Current(w).character
       IN  /\ c \in Present => c \notin Unreachable
           /\ \E l \in AfterLoad(c) :
                /\ Goto(w, l)
                /\ docs' = IF l = "personal" THEN [docs EXCEPT ![c] = l] ELSE docs
    /\ UNCHANGED <<clock, revoked, changes, life, dispatchVars, queueVars, faults, cold>>

Loaded(w) == stage[w] \in {"personal", "corporation"}

(* The getter would fetch: there is a token for it and the key is gone.    *)
Fetches(w) ==
    LET job == Queue!Current(w)
    IN  /\ IsCorp(job) => stage[w] = "corporation"
        /\ ~Warm(KeyOf(job))

(* No corporation token, a 401 or 403 of a corporation endpoint, or a list *)
(* that is warm: the job ends with no effect.                              *)
Skip(w) ==
    /\ Loaded(w)
    /\ Fetches(w) => IsCorp(Queue!Current(w)) /\ Queue!Current(w).character \notin CanRead
    /\ Goto(w, "done")
    /\ UNCHANGED <<clock, userVars, life, dispatchVars, queueVars, faults, cold>>

Refresh(w) ==
    LET job == Queue!Current(w)
    IN  /\ Loaded(w)
        /\ Fetches(w)
        /\ IsCorp(job) => job.character \in CanRead
        /\ life' = [life EXCEPT ![KeyOf(job)] = Ttl[job.kind]]
        /\ cold' = [cold EXCEPT ![KeyOf(job)] = 0]
        /\ Goto(w, "done")
        /\ UNCHANGED <<clock, userVars, dispatchVars, queueVars, faults>>

(* An HTTPStatusError of ESI is logged and swallowed.                      *)
FetchFails(w) ==
    /\ Loaded(w)
    /\ Fetches(w)
    /\ faults < MaxFaults
    /\ faults' = faults + 1
    /\ cold' = [cold EXCEPT ![KeyOf(Queue!Current(w))] = 0]
    /\ Goto(w, "done")
    /\ UNCHANGED <<clock, userVars, life, dispatchVars, queueVars>>

Ack(w) ==
    /\ stage[w] = "done"
    /\ Queue!Ack(w)
    /\ Goto(w, "idle")
    /\ UNCHANGED <<clock, userVars, life, dispatchVars, faults, cold>>

(* Every exception but that one ends the worker: a refresh of the tokens    *)
(* that fails, which is outside the try, a request that times out.  For an *)
(* unreachable character that is every time, else a fault.                 *)
Raises(w) ==
    /\ Queue!Working(w)
    /\ stage[w] = "idle"
    /\ Queue!Current(w).character \in Unreachable \cap Present

Dies(w) ==
    /\ Queue!Working(w)
    /\ ~Raises(w) => faults < MaxFaults
    /\ faults' = IF Raises(w) THEN faults ELSE faults + 1
    /\ Queue!Requeue(w)
    /\ Goto(w, "idle")
    /\ UNCHANGED <<clock, userVars, life, dispatchVars, cold>>

-----------------------------------------------------------------------------
(* What users do to a character: whatever concerns its lists and the       *)
(* corporation's starts anew.                                              *)
User(c) ==
    /\ changes < MaxChanges
    /\ changes' = changes + 1
    /\ cold' = [k \in Keys |-> IF k[2] \in {c, Corporation} THEN 0 ELSE cold[k]]
    /\ UNCHANGED <<clock, dispatchVars, queueVars, stage, faults>>

SignInOrConnect(c) ==
    /\ User(c)
    /\ docs' = [docs EXCEPT ![c] = IF c \in Present THEN "corporation" ELSE "personal"]
    /\ revoked' = revoked \ {c}
    /\ UNCHANGED life

Disconnect(c) ==
    /\ c \in Connected
    /\ User(c)
    /\ docs' = [docs EXCEPT ![c] = "personal"]
    /\ UNCHANGED <<revoked, life>>

Clear(c) ==
    /\ c \in Present
    /\ User(c)
    /\ docs' = [docs EXCEPT ![c] = "absent"]
    /\ life' = [k \in Keys |-> IF k[2] = c THEN 0 ELSE life[k]]
    /\ UNCHANGED revoked

Revoke(c) ==
    /\ c \in Present
    /\ User(c)
    /\ revoked' = revoked \cup {c}
    /\ UNCHANGED <<docs, life>>

(* Whoever is asked for list k can be served, and may be by a job.         *)
Refreshable(k) ==
    IF k[1] \in PersonalKinds
    THEN k[2] \in Present \ (revoked \cup Unreachable)
    ELSE Connected # {} /\ Connected \subseteq CanRead \ (revoked \cup Unreachable)

(* A page fills the same key.                                              *)
Page(k) ==
    /\ Refreshable(k)
    /\ ~Warm(k)
    /\ life' = [life EXCEPT ![k] = Ttl[k[1]]]
    /\ cold' = [cold EXCEPT ![k] = 0]
    /\ UNCHANGED <<clock, userVars, dispatchVars, queueVars, stage, faults>>

Tick ==
    /\ ~due /\ unsent = {} /\ queue = {}
    /\ clock' = (clock + 1) % Period
    /\ due' = (clock' = 0)
    /\ life' = [k \in Keys |-> IF Warm(k) THEN life[k] - 1 ELSE 0]
    /\ cold' = [k \in Keys |-> IF Refreshable(k) /\ ~Warm(k) THEN cold[k] + 1 ELSE 0]
    /\ UNCHANGED <<userVars, unsent, queueVars, stage, faults>>

WorkerStep(w) ==
    Deliver(w) \/ Load(w) \/ Skip(w) \/ Refresh(w) \/ Ack(w)

Next ==
    \/ StartDispatch \/ Publish \/ DispatcherDies
    \/ \E w \in Workers : WorkerStep(w) \/ FetchFails(w) \/ Dies(w)
    \/ \E c \in Characters : SignInOrConnect(c) \/ Disconnect(c) \/ Clear(c) \/ Revoke(c)
    \/ \E k \in Keys : Page(k)
    \/ Tick

Spec == Init /\ [][Next]_vars

(* Kubernetes runs the CronJob and starts the worker again, requests are   *)
(* answered or raise.                                                      *)
Fairness ==
    /\ WF_vars(StartDispatch) /\ WF_vars(Publish)
    /\ \A w \in Workers : WF_vars(WorkerStep(w) \/ (Raises(w) /\ Dies(w)))

FairSpec == Spec /\ Fairness

-----------------------------------------------------------------------------
TypeOK ==
    /\ clock \in 0 .. Period - 1
    /\ docs \in [Characters -> {"absent", "personal", "corporation"}]
    /\ revoked \subseteq Characters
    /\ life \in [Keys -> Nat] /\ \A k \in Keys : life[k] =< Ttl[k[1]]
    /\ cold \in [Keys -> Nat] /\ \A k \in Keys : Warm(k) => cold[k] = 0
    /\ due \in BOOLEAN /\ unsent \subseteq Jobs
    /\ Queue!BrokerTypeOK(Jobs)
    /\ stage \in [Workers -> {"idle", "personal", "corporation", "done"}]
    /\ \A w \in Workers : stage[w] # "idle" => Queue!Working(w)
    /\ faults \in 0 .. MaxFaults /\ changes \in 0 .. MaxChanges

(* With workers that keep up, a list that a job may read is never cold for *)
(* longer than one period, counted from its expiry or from the last event  *)
(* that kept a job from it; for a corporation that takes every connected   *)
(* character to be able to read it, since any may be the delegate.         *)
ColdIsBounded == \A k \in Keys : cold[k] =< Period

(* Whatever workers and dispatchers die in the middle of, and whatever     *)
(* becomes of the characters meanwhile, the jobs come to an end.           *)
JobsComeToAnEnd == (queue # {}) ~> (queue = {})

(* services/tracked_info.py:91-92: one bad character does not block the queue.      *)
GoodJobsAreDone ==
    \A c \in Characters \ Unreachable :
      (\E m \in queue : m.body.character = c) ~> (\A m \in queue : m.body.character # c)
=============================================================================
