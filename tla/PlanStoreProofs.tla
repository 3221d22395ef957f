--------------------------- MODULE PlanStoreProofs ---------------------------
(***************************************************************************)
(* Theorems about PlanStore, for any characters, plans, jobs and requests: *)
(* types, whose and where jobs are, and what the operations that read a    *)
(* plan before they write it can and cannot do to it.                      *)
(***************************************************************************)
EXTENDS PlanStore, TLAPS

(* Arrays of jobs whose ids have been drawn, and the documents.            *)
JobLists(n) == UNION {[S -> Job] : S \in SUBSET (1 .. n - 1)}
Plan(n) == [owner : Characters, name : Names \cup {""}, jobs : JobLists(n)]

(* What a request keeps between its read and its write.                    *)
FlagRequest == [op : {"flag"}, who : Characters, plan : PlanIds, job : JobIds,
                material : Materials, was : Job, build : SUBSET Materials]
BulkRequest(n) == [op : {"all"}, who : Characters, plan : PlanIds, jobs : JobLists(n)]
RemoveRequest == [op : {"remove"}, who : Characters, plan : PlanIds, job : JobIds]
DetectRequest == [op : {"detect"}, who : Characters, plan : PlanIds, job : JobIds, rig : Rigs]
BlueprintsRequest == [op : {"blueprints"}, who : Characters, plan : PlanIds, left : 1 .. 2]
Request(n) == {Idle} \cup FlagRequest \cup BulkRequest(n) \cup RemoveRequest
                \cup DetectRequest \cup BlueprintsRequest

StoreTypes ==
    /\ nextJob \in 1 .. MaxJobs + 1
    /\ plans \in [PlanIds -> {Unused, Deleted} \cup Plan(nextJob)]
    /\ slot \in [Slots -> Request(nextJob)]

-----------------------------------------------------------------------------
LEMMA ListOfJobs ==
    ASSUME NEW n \in Nat, NEW f \in JobLists(n)
    PROVE  DOMAIN f \in SUBSET (1 .. n - 1) /\ f \in [DOMAIN f -> Job]
BY DEF JobLists

LEMMA IsListOfJobs ==
    ASSUME NEW n \in Nat, NEW S \in SUBSET (1 .. n - 1), NEW f \in [S -> Job]
    PROVE  f \in JobLists(n)
BY DEF JobLists

(* Ids that have been drawn stay drawn.                                    *)
LEMMA ListsGrow ==
    ASSUME NEW m \in Nat, NEW n \in Nat, m =< n
    PROVE  /\ JobLists(m) \subseteq JobLists(n)
           /\ Plan(m) \subseteq Plan(n)
           /\ Request(m) \subseteq Request(n)
<1>1. JobLists(m) \subseteq JobLists(n)
  BY DEF JobLists
<1>2. QED  BY <1>1 DEF Plan, Request, BulkRequest

LEMMA NewJobIsJob ==
    ASSUME NEW c \in Characters, NEW q \in Quantities, NEW build \in SUBSET Materials
    PROVE  NewJob(c, q, build) \in Job /\ NewJob(c, q, build).by = c
<1>1. SomeSite \in Sites /\ SomeRig \in Rigs
  BY PlanAssumption DEF SomeSite, SomeRig
<1>2. QED  BY <1>1 DEF NewJob, Job

(* The marks are no plans, and a plan is one.                              *)
LEMMA Marks ==
    ASSUME StoreTypes, NEW p \in PlanIds
    PROVE  /\ plans[p] \in {Unused, Deleted} => ~IsPlan(p)
           /\ IsPlan(p) => plans[p] \in Plan(nextJob)
           /\ Unused # Deleted
<1>1. plans[p] \in {Unused, Deleted} \cup Plan(nextJob)
  BY DEF StoreTypes
<1>2. Unused.owner = "unused" /\ Deleted.owner = "deleted"
  BY DEF Unused, Deleted
<1>3. Unused # Deleted
  BY <1>2
<1>4. plans[p] \in {Unused, Deleted} => ~IsPlan(p)
  BY <1>2, PlanAssumption DEF IsPlan
<1>5. QED  BY <1>1, <1>3, <1>4

LEMMA JobsOfPlan ==
    ASSUME StoreTypes, NEW p \in PlanIds, IsPlan(p)
    PROVE  /\ plans[p].jobs \in JobLists(nextJob)
           /\ plans[p].jobs \in [IdsOf(p) -> Job]
           /\ IdsOf(p) \in SUBSET (1 .. nextJob - 1)
           /\ \A j \in IdsOf(p) : JobOf(p, j) \in Job
<1>1. plans[p] \in Plan(nextJob) /\ nextJob \in Nat
  BY Marks, PlanAssumption DEF StoreTypes
<1>2. plans[p].jobs \in JobLists(nextJob)
  BY <1>1 DEF Plan
<1>3. QED  BY <1>1, <1>2, ListOfJobs DEF IdsOf, JobOf

-----------------------------------------------------------------------------
(* What a step does, whatever the operation behind it.  Each kind says     *)
(* where the jobs of the plan it writes come from.                         *)
Others(p) == \A r \in PlanIds \ {p} : plans'[r] = plans[r]

Rewrites(p) ==
    /\ IsPlan(p)
    /\ plans'[p].owner = plans[p].owner
    /\ Others(p)

Insertion ==
    \E c \in Characters, p \in PlanIds :
      /\ plans[p] = Unused
      /\ Others(p)
      /\ plans'[p].owner = c
      /\ \A j \in IdsOf(p)' : j >= nextJob /\ JobOf(p, j)'.by = c
      /\ slot' = slot

Addition ==
    \E p \in PlanIds :
      /\ Rewrites(p)
      /\ IdsOf(p)' = IdsOf(p) \cup {nextJob}
      /\ \A j \in IdsOf(p) : JobOf(p, j)' = JobOf(p, j)
      /\ plans'[p].jobs[nextJob].by = plans[p].owner

Edit ==
    \E p \in PlanIds :
      /\ Rewrites(p)
      /\ IdsOf(p)' = IdsOf(p)
      /\ \A j \in IdsOf(p) :
           /\ JobOf(p, j)'.by = JobOf(p, j).by
           /\ slot' = slot \/ JobOf(p, j)'.qty = JobOf(p, j).qty

Deletion == \E p \in PlanIds : IsPlan(p) /\ plans'[p] = Deleted /\ Others(p) /\ slot' = slot

Pull ==
    \E s \in Slots, p \in PlanIds :
      /\ slot[s].op = "remove" /\ slot[s].plan = p /\ slot'[s] = Idle
      /\ Rewrites(p)
      /\ IdsOf(p)' = IdsOf(p) \ {slot[s].job}
      /\ \A j \in IdsOf(p)' : JobOf(p, j)' = JobOf(p, j)

WholeWrite ==
    \E s \in Slots, p \in PlanIds :
      /\ slot[s].op = "all" /\ slot[s].plan = p /\ slot'[s] = Idle
      /\ Rewrites(p)
      /\ slot[s].who = plans[p].owner
      /\ IdsOf(p)' = DOMAIN slot[s].jobs
      /\ plans'[p].jobs = slot[s].jobs

Kinds ==
    plans' = plans \/ Insertion \/ Addition \/ Edit \/ Deletion \/ Pull \/ WholeWrite

(* A whole array that a request begins to hold is that of its own plan.    *)
TakesOwnJobs(r) ==
    /\ Owns(r.who, r.plan)
    /\ DOMAIN r.jobs = IdsOf(r.plan)
    /\ \A j \in DOMAIN r.jobs : r.jobs[j].by = JobOf(r.plan, j).by

Requests ==
    \A s \in Slots :
      slot'[s] = slot[s] \/ slot'[s].op # "all" \/ TakesOwnJobs(slot'[s])

StoreStep == StoreTypes' /\ Kinds /\ Requests /\ nextJob =< nextJob'

-----------------------------------------------------------------------------
LEMMA SetsJobs ==
    ASSUME StoreTypes, nextJob' \in nextJob .. MaxJobs + 1,
           NEW p \in PlanIds, IsPlan(p),
           NEW jobs \in JobLists(nextJob'), SetJobs(p, jobs)
    PROVE  /\ plans' \in [PlanIds -> {Unused, Deleted} \cup Plan(nextJob')]
           /\ Rewrites(p)
           /\ plans'[p].jobs = jobs
           /\ IdsOf(p)' = DOMAIN jobs
<1>1. nextJob \in Nat /\ nextJob' \in Nat /\ nextJob =< nextJob'
  BY PlanAssumption DEF StoreTypes
<1>2. plans[p] \in Plan(nextJob)
  BY Marks
<1>3. [plans[p] EXCEPT !.jobs = jobs] \in Plan(nextJob')
  BY <1>2 DEF Plan
<1>4. /\ plans'[p] = [plans[p] EXCEPT !.jobs = jobs]
      /\ Others(p)
  BY DEF SetJobs, StoreTypes, Others
<1>5. /\ plans'[p].owner = plans[p].owner
      /\ plans'[p].jobs = jobs
  BY <1>2, <1>4 DEF Plan
<1>6. IdsOf(p)' = DOMAIN jobs
  BY <1>5 DEF IdsOf, IsPlan
<1>7. Plan(nextJob) \subseteq Plan(nextJob')
  BY <1>1, ListsGrow
<1>8. plans' \in [PlanIds -> {Unused, Deleted} \cup Plan(nextJob')]
  BY <1>3, <1>4, <1>7 DEF SetJobs, StoreTypes
<1>9. QED  BY <1>4, <1>5, <1>6, <1>8 DEF Rewrites

(* The slots of a step that starts or ends at most one request.            *)
LEMMA SetsSlot ==
    ASSUME StoreTypes, nextJob' \in nextJob .. MaxJobs + 1,
           NEW s \in Slots, NEW r \in Request(nextJob'), slot' = [slot EXCEPT ![s] = r]
    PROVE  /\ slot' \in [Slots -> Request(nextJob')]
           /\ slot'[s] = r
           /\ \A t \in Slots : slot'[t] = IF t = s THEN r ELSE slot[t]
<1>1. Request(nextJob) \subseteq Request(nextJob')
  BY ListsGrow, PlanAssumption DEF StoreTypes
<1>2. QED  BY <1>1 DEF StoreTypes

(* A request is of the kind its op says, and only idle slots are Idle.     *)
LEMMA RequestKinds ==
    ASSUME NEW n \in Nat, NEW r \in Request(n)
    PROVE  /\ r.op = "flag" => r \in FlagRequest
           /\ r.op = "all" => r \in BulkRequest(n)
           /\ r.op = "remove" => r \in RemoveRequest
           /\ r.op = "detect" => r \in DetectRequest
           /\ r.op = "blueprints" => r \in BlueprintsRequest
           /\ r.op \in {"idle", "flag", "all", "remove", "detect", "blueprints"}
<1>1. Idle.op = "idle"
  BY DEF Idle
<1>2. /\ \A x \in FlagRequest : x.op = "flag"
      /\ \A x \in BulkRequest(n) : x.op = "all"
      /\ \A x \in RemoveRequest : x.op = "remove"
      /\ \A x \in DetectRequest : x.op = "detect"
      /\ \A x \in BlueprintsRequest : x.op = "blueprints"
  BY DEF FlagRequest, BulkRequest, RemoveRequest, DetectRequest, BlueprintsRequest
<1>3. QED  BY <1>1, <1>2 DEF Request

LEMMA SlotOfRequest ==
    ASSUME StoreTypes, NEW s \in Slots
    PROVE  slot[s] \in Request(nextJob) /\ nextJob \in Nat
BY PlanAssumption DEF StoreTypes

LEMMA NoNewJob ==
    ASSUME StoreTypes, nextJob' = nextJob
    PROVE  /\ nextJob \in Nat /\ nextJob =< nextJob'
           /\ nextJob' \in nextJob .. MaxJobs + 1
           /\ nextJob' \in 1 .. MaxJobs + 1
BY PlanAssumption DEF StoreTypes

(* A request that ends.                                                    *)
LEMMA Ends ==
    ASSUME StoreTypes, nextJob' \in nextJob .. MaxJobs + 1, NEW s \in Slots, Done(s)
    PROVE  slot' \in [Slots -> Request(nextJob')] /\ slot'[s] = Idle /\ Requests
<1>1. Idle \in Request(nextJob') /\ Idle.op # "all"
  BY DEF Request, Idle
<1>2. slot' = [slot EXCEPT ![s] = Idle]
  BY DEF Done
<1>3. QED  BY <1>1, <1>2, SetsSlot DEF Requests

(* One that begins.                                                        *)
LEMMA Begins ==
    ASSUME StoreTypes, NEW s \in Slots, NEW r \in Request(nextJob), Take(s, r),
           r.op # "all" \/ TakesOwnJobs(r)
    PROVE  StoreStep
<1>1. nextJob' = nextJob /\ plans' = plans /\ nextJob' \in nextJob .. MaxJobs + 1 /\ nextJob =< nextJob'
  BY PlanAssumption DEF Take, StoreTypes
<1>2. r \in Request(nextJob') /\ slot' = [slot EXCEPT ![s] = r]
  BY <1>1 DEF Take
<1>3. slot' \in [Slots -> Request(nextJob')] /\ Requests
  BY <1>1, <1>2, SetsSlot DEF Requests
<1>4. StoreTypes'
  BY <1>1, <1>3 DEF StoreTypes
<1>5. QED  BY <1>1, <1>3, <1>4 DEF StoreStep, Kinds

LEMMA IdleSlots ==
    ASSUME StoreTypes, UNCHANGED slot, nextJob' \in nextJob .. MaxJobs + 1
    PROVE  slot' \in [Slots -> Request(nextJob')] /\ Requests
<1>1. Request(nextJob) \subseteq Request(nextJob')
  BY ListsGrow, PlanAssumption DEF StoreTypes
<1>2. QED  BY <1>1 DEF StoreTypes, Requests

-----------------------------------------------------------------------------
LEMMA Inserts ==
    ASSUME StoreTypes, NEW c \in Characters, NEW p \in PlanIds, NEW n \in Nat,
           NEW jobs \in [Fresh(n) -> Job], \A j \in Fresh(n) : jobs[j].by = c,
           Insert(c, p, n, jobs)
    PROVE  StoreStep
<1>1. /\ nextJob' = nextJob + n /\ nextJob =< nextJob'
      /\ nextJob' \in nextJob .. MaxJobs + 1
      /\ nextJob \in Nat \ {0} /\ nextJob' \in Nat
  <2>1. nextJob \in Nat \ {0} /\ MaxJobs + 1 \in Nat
    BY PlanAssumption DEF StoreTypes
  <2>2. nextJob' = nextJob + n /\ nextJob + n =< MaxJobs + 1
    BY DEF Insert
  <2>3. QED  BY <2>1, <2>2
<1>2. Fresh(n) \in SUBSET (1 .. nextJob' - 1) /\ \A j \in Fresh(n) : j >= nextJob
  BY <1>1 DEF Fresh
<1>3. jobs \in JobLists(nextJob')
  BY <1>1, <1>2, IsListOfJobs
<1> DEFINE doc == [owner |-> c, name |-> "", jobs |-> jobs]
<1>4. doc \in Plan(nextJob') /\ doc.owner = c /\ doc.jobs = jobs
  BY <1>3 DEF Plan
<1> HIDE DEF doc
<1>5. plans[p] = Unused /\ plans' = [plans EXCEPT ![p] = doc]
  BY DEF Insert, doc
<1>6. plans'[p] = doc /\ Others(p)
  BY <1>5 DEF StoreTypes, Others
<1>7. plans' \in [PlanIds -> {Unused, Deleted} \cup Plan(nextJob')]
  BY <1>1, <1>4, <1>5, ListsGrow DEF StoreTypes
<1>8. /\ IdsOf(p)' = Fresh(n)
      /\ \A j \in Fresh(n) : JobOf(p, j)' = jobs[j]
  BY <1>4, <1>6 DEF IdsOf, IsPlan, JobOf
<1>9. UNCHANGED slot
  BY DEF Insert
<1>10. Insertion
  BY <1>2, <1>4, <1>5, <1>6, <1>8, <1>9 DEF Insertion
<1>11. StoreTypes' /\ Requests
  BY <1>1, <1>7, <1>9, IdleSlots DEF StoreTypes
<1>12. QED  BY <1>1, <1>10, <1>11 DEF StoreStep, Kinds

LEMMA Pushes ==
    ASSUME StoreTypes, NEW c \in Characters, NEW p \in PlanIds, NEW q \in Quantities,
           NEW build \in SUBSET Materials, Push(c, p, q, build)
    PROVE  /\ nextJob' \in nextJob .. MaxJobs + 1 /\ nextJob =< nextJob'
           /\ nextJob' \in 1 .. MaxJobs + 1
           /\ plans' \in [PlanIds -> {Unused, Deleted} \cup Plan(nextJob')]
           /\ Addition
<1>1. /\ nextJob' = nextJob + 1 /\ nextJob =< nextJob'
      /\ nextJob' \in nextJob .. MaxJobs + 1
      /\ nextJob' \in 1 .. MaxJobs + 1
      /\ nextJob \in Nat \ {0} /\ nextJob' \in Nat
  BY PlanAssumption DEF Push, StoreTypes
<1>2. IsPlan(p) /\ plans[p].owner = c
  BY DEF Push, Owns
<1>3. /\ IdsOf(p) \in SUBSET (1 .. nextJob - 1)
      /\ \A j \in IdsOf(p) : JobOf(p, j) \in Job
  BY <1>2, JobsOfPlan
<1> DEFINE jobs == [j \in IdsOf(p) \cup {nextJob} |->
                      IF j = nextJob THEN NewJob(c, q, build) ELSE JobOf(p, j)]
<1>4. /\ jobs \in [IdsOf(p) \cup {nextJob} -> Job]
      /\ IdsOf(p) \cup {nextJob} \in SUBSET (1 .. nextJob' - 1)
  BY <1>1, <1>3, NewJobIsJob
<1>5. jobs \in JobLists(nextJob')
  BY <1>1, <1>4, IsListOfJobs
<1>6. /\ DOMAIN jobs = IdsOf(p) \cup {nextJob}
      /\ \A j \in IdsOf(p) : jobs[j] = JobOf(p, j)
      /\ jobs[nextJob].by = c
  BY <1>1, <1>3, NewJobIsJob
<1>7. SetJobs(p, jobs)
  BY DEF Push
<1> HIDE DEF jobs
<1>8. /\ plans' \in [PlanIds -> {Unused, Deleted} \cup Plan(nextJob')]
      /\ Rewrites(p)
      /\ plans'[p].jobs = jobs
      /\ IdsOf(p)' = DOMAIN jobs
  BY <1>1, <1>2, <1>5, <1>7, SetsJobs
<1>9. \A j : JobOf(p, j)' = jobs[j]
  BY <1>8 DEF JobOf
<1>10. plans'[p].jobs[nextJob].by = plans[p].owner
  BY <1>2, <1>6, <1>8
<1>11. Addition
  BY <1>6, <1>8, <1>9, <1>10 DEF Addition
<1>12. QED  BY <1>1, <1>8, <1>11

(* The operations that change one job where it stands.                     *)
LEMMA Edits ==
    ASSUME StoreTypes, nextJob' = nextJob, NEW p \in PlanIds, IsPlan(p),
           NEW j \in IdsOf(p), NEW job \in Job,
           SetJobs(p, [plans[p].jobs EXCEPT ![j] = job]),
           job.by = JobOf(p, j).by,
           slot' = slot \/ job.qty = JobOf(p, j).qty
    PROVE  Edit /\ plans' \in [PlanIds -> {Unused, Deleted} \cup Plan(nextJob')]
<1> DEFINE jobs == [plans[p].jobs EXCEPT ![j] = job]
<1>1. nextJob \in Nat /\ nextJob' \in nextJob .. MaxJobs + 1
  BY NoNewJob
<1>2. plans[p].jobs \in [IdsOf(p) -> Job] /\ IdsOf(p) \in SUBSET (1 .. nextJob - 1)
  BY JobsOfPlan
<1>3. jobs \in [IdsOf(p) -> Job] /\ DOMAIN jobs = IdsOf(p)
  BY <1>2
<1>4. jobs \in JobLists(nextJob')
  BY <1>1, <1>2, <1>3, IsListOfJobs
<1>5. \A i \in IdsOf(p) : /\ jobs[i].by = JobOf(p, i).by
                          /\ slot' = slot \/ jobs[i].qty = JobOf(p, i).qty
  <2> TAKE i \in IdsOf(p)
  <2>1. CASE i = j
    BY <1>2, <2>1
  <2>2. CASE i # j
    BY <1>2, <2>2 DEF JobOf
  <2>3. QED  BY <2>1, <2>2
<1> HIDE DEF jobs
<1>6. SetJobs(p, jobs)
  BY DEF jobs
<1>7. /\ plans' \in [PlanIds -> {Unused, Deleted} \cup Plan(nextJob')]
      /\ Rewrites(p)
      /\ plans'[p].jobs = jobs
      /\ IdsOf(p)' = IdsOf(p)
  BY <1>1, <1>3, <1>4, <1>6, SetsJobs
<1>8. \A i : JobOf(p, i)' = jobs[i]
  BY <1>7 DEF JobOf
<1>9. QED  BY <1>5, <1>7, <1>8 DEF Edit

LEMMA QuantityStep ==
    ASSUME StoreTypes, NEW c \in Characters, NEW p \in PlanIds, NEW j \in JobIds,
           NEW q \in Quantities, UpdateQuantity(c, p, j, q)
    PROVE  StoreStep
<1> DEFINE job == [JobOf(p, j) EXCEPT !.qty = q]
<1>1. /\ IsPlan(p) /\ j \in IdsOf(p)
      /\ slot' = slot /\ nextJob' = nextJob
      /\ plans' = [plans EXCEPT ![p].jobs[j].qty = q]
  BY DEF UpdateQuantity, HasJob, Owns
<1>2. JobOf(p, j) \in Job
  BY <1>1, JobsOfPlan
<1>3. job \in Job /\ job.by = JobOf(p, j).by
  BY <1>2 DEF Job
<1>4. SetJobs(p, [plans[p].jobs EXCEPT ![j] = job])
  BY <1>1 DEF SetJobs, JobOf
<1> HIDE DEF job
<1>5. Edit /\ plans' \in [PlanIds -> {Unused, Deleted} \cup Plan(nextJob')]
  BY <1>1, <1>3, <1>4, Edits
<1>6. QED  BY <1>1, <1>5, NoNewJob, IdleSlots DEF StoreStep, Kinds, StoreTypes

LEMMA StructureStep ==
    ASSUME StoreTypes, NEW c \in Characters, NEW p \in PlanIds, NEW j \in JobIds,
           NEW site \in Sites, NEW rig \in Rigs, UpdateStructure(c, p, j, site, rig)
    PROVE  StoreStep
<1> DEFINE job == [JobOf(p, j) EXCEPT !.site = site, !.rig = rig]
<1>1. /\ IsPlan(p) /\ j \in IdsOf(p)
      /\ slot' = slot /\ nextJob' = nextJob
      /\ plans' = [plans EXCEPT ![p].jobs[j].site = site, ![p].jobs[j].rig = rig]
  BY DEF UpdateStructure, HasJob, Owns
<1>2. JobOf(p, j) \in Job
  BY <1>1, JobsOfPlan
<1>3. job \in Job /\ job.by = JobOf(p, j).by
  BY <1>2 DEF Job
<1>4. SetJobs(p, [plans[p].jobs EXCEPT ![j] = job])
  BY <1>1, JobsOfPlan, Marks DEF SetJobs, JobOf, StoreTypes, Plan
<1> HIDE DEF job
<1>5. Edit /\ plans' \in [PlanIds -> {Unused, Deleted} \cup Plan(nextJob')]
  BY <1>1, <1>3, <1>4, Edits
<1>6. QED  BY <1>1, <1>5, NoNewJob, IdleSlots DEF StoreStep, Kinds, StoreTypes

LEMMA FlagStep ==
    ASSUME StoreTypes, NEW s \in Slots, WriteFlag(s)
    PROVE  StoreStep
<1> DEFINE r == slot[s]
<1>1. Done(s) /\ nextJob' = nextJob
  BY DEF WriteFlag
<1>2. r \in FlagRequest
  BY SlotOfRequest, RequestKinds DEF WriteFlag, Pending
<1>3. r.plan \in PlanIds /\ r.build \in SUBSET Materials
  BY <1>2 DEF FlagRequest
<1>4. slot' \in [Slots -> Request(nextJob')] /\ Requests
  BY <1>1, NoNewJob, Ends
<1>5. CASE ~HasJob(r.who, r.plan, r.job)
  <2>1. plans' = plans
    BY <1>5 DEF WriteFlag
  <2>2. QED  BY <1>1, <1>4, <2>1, NoNewJob DEF StoreStep, Kinds, StoreTypes
<1>6. CASE HasJob(r.who, r.plan, r.job)
  <2> DEFINE job == [JobOf(r.plan, r.job) EXCEPT !.build = r.build]
  <2>1. IsPlan(r.plan) /\ r.job \in IdsOf(r.plan)
    BY <1>6 DEF HasJob, Owns
  <2>2. plans' = [plans EXCEPT ![r.plan].jobs[r.job].build = r.build]
    BY <1>6 DEF WriteFlag
  <2>3. JobOf(r.plan, r.job) \in Job
    BY <1>3, <2>1, JobsOfPlan
  <2>4. /\ job \in Job
        /\ job.by = JobOf(r.plan, r.job).by
        /\ job.qty = JobOf(r.plan, r.job).qty
    BY <1>3, <2>3 DEF Job
  <2>5. SetJobs(r.plan, [plans[r.plan].jobs EXCEPT ![r.job] = job])
    BY <2>2 DEF SetJobs, JobOf
  <2> HIDE DEF job, r
  <2>6. Edit /\ plans' \in [PlanIds -> {Unused, Deleted} \cup Plan(nextJob')]
    BY <1>1, <1>3, <2>1, <2>4, <2>5, Edits
  <2>7. QED  BY <1>1, <1>4, <2>6, NoNewJob DEF StoreStep, Kinds, StoreTypes
<1>7. QED  BY <1>5, <1>6

LEMMA DetectStep ==
    ASSUME StoreTypes, NEW s \in Slots, NEW site \in Sites, WriteDetect(s, site)
    PROVE  StoreStep
<1> DEFINE r == slot[s]
<1>1. Done(s) /\ nextJob' = nextJob
  BY DEF WriteDetect
<1>2. r \in DetectRequest
  BY SlotOfRequest, RequestKinds DEF WriteDetect, Pending
<1>3. r.plan \in PlanIds /\ r.rig \in Rigs
  BY <1>2 DEF DetectRequest
<1>4. slot' \in [Slots -> Request(nextJob')] /\ Requests
  BY <1>1, NoNewJob, Ends
<1>5. CASE ~HasJob(r.who, r.plan, r.job)
  <2>1. plans' = plans
    BY <1>5 DEF WriteDetect
  <2>2. QED  BY <1>1, <1>4, <2>1, NoNewJob DEF StoreStep, Kinds, StoreTypes
<1>6. CASE HasJob(r.who, r.plan, r.job)
  <2> DEFINE job == [JobOf(r.plan, r.job) EXCEPT !.site = site, !.rig = r.rig]
  <2>1. IsPlan(r.plan) /\ r.job \in IdsOf(r.plan)
    BY <1>6 DEF HasJob, Owns
  <2>2. plans' = [plans EXCEPT ![r.plan].jobs[r.job].site = site,
                               ![r.plan].jobs[r.job].rig = r.rig]
    BY <1>6 DEF WriteDetect
  <2>3. JobOf(r.plan, r.job) \in Job
    BY <1>3, <2>1, JobsOfPlan
  <2>4. /\ job \in Job
        /\ job.by = JobOf(r.plan, r.job).by
        /\ job.qty = JobOf(r.plan, r.job).qty
    BY <1>3, <2>3 DEF Job
  <2> HIDE DEF r
  <2>5. SetJobs(r.plan, [plans[r.plan].jobs EXCEPT ![r.job] = job])
    BY <1>3, <2>1, <2>2, JobsOfPlan, Marks, ZenonT(30) DEF SetJobs, JobOf, StoreTypes, Plan
  <2> HIDE DEF job
  <2>6. Edit /\ plans' \in [PlanIds -> {Unused, Deleted} \cup Plan(nextJob')]
    BY <1>1, <1>3, <2>1, <2>4, <2>5, Edits
  <2>7. QED  BY <1>1, <1>4, <2>6, NoNewJob DEF StoreStep, Kinds, StoreTypes
<1>7. QED  BY <1>5, <1>6

LEMMA WholeStep ==
    ASSUME StoreTypes, NEW s \in Slots, WriteAll(s)
    PROVE  StoreStep
<1> DEFINE r == slot[s]
<1>1. Done(s) /\ nextJob' = nextJob /\ r.op = "all"
  BY DEF WriteAll, Pending
<1>2. r \in BulkRequest(nextJob)
  BY <1>1, SlotOfRequest, RequestKinds
<1>3. r.plan \in PlanIds /\ r.jobs \in JobLists(nextJob')
  BY <1>1, <1>2 DEF BulkRequest
<1>4. slot' \in [Slots -> Request(nextJob')] /\ slot'[s] = Idle /\ Requests
  BY <1>1, NoNewJob, Ends
<1>5. CASE ~Owns(r.who, r.plan)
  <2>1. plans' = plans
    BY <1>5 DEF WriteAll
  <2>2. QED  BY <1>1, <1>4, <2>1, NoNewJob DEF StoreStep, Kinds, StoreTypes
<1>6. CASE Owns(r.who, r.plan)
  <2>1. PICK p \in PlanIds : p = r.plan
    BY <1>3
  <2>2. PICK jobs \in JobLists(nextJob') : jobs = r.jobs
    BY <1>3
  <2>3. IsPlan(p) /\ plans[p].owner = r.who
    BY <1>6, <2>1 DEF Owns
  <2>4. SetJobs(p, jobs)
    BY <1>6, <2>1, <2>2 DEF WriteAll
  <2>5. /\ plans' \in [PlanIds -> {Unused, Deleted} \cup Plan(nextJob')]
        /\ Rewrites(p)
        /\ plans'[p].jobs = jobs
        /\ IdsOf(p)' = DOMAIN jobs
    BY <1>1, <2>3, <2>4, NoNewJob, SetsJobs
  <2>6. WholeWrite
    BY <1>1, <1>4, <2>1, <2>2, <2>3, <2>5 DEF WholeWrite
  <2>7. QED  BY <1>1, <1>4, <2>5, <2>6, NoNewJob DEF StoreStep, Kinds, StoreTypes
<1>7. QED  BY <1>5, <1>6

LEMMA PullStep ==
    ASSUME StoreTypes, NEW s \in Slots, WriteRemove(s)
    PROVE  StoreStep
<1> DEFINE r == slot[s]
<1>1. Done(s) /\ nextJob' = nextJob /\ r.op = "remove"
  BY DEF WriteRemove, Pending
<1>2. r \in RemoveRequest
  BY <1>1, SlotOfRequest, RequestKinds
<1>3. r.plan \in PlanIds
  BY <1>2 DEF RemoveRequest
<1>4. slot' \in [Slots -> Request(nextJob')] /\ slot'[s] = Idle /\ Requests
  BY <1>1, NoNewJob, Ends
<1>5. CASE ~Owns(r.who, r.plan)
  <2>1. plans' = plans
    BY <1>5 DEF WriteRemove
  <2>2. QED  BY <1>1, <1>4, <2>1, NoNewJob DEF StoreStep, Kinds, StoreTypes
<1>6. CASE Owns(r.who, r.plan)
  <2>1. PICK p \in PlanIds : p = r.plan
    BY <1>3
  <2>2. IsPlan(p)
    BY <1>6, <2>1 DEF Owns
  <2> DEFINE jobs == [j \in IdsOf(p) \ {r.job} |-> JobOf(p, j)]
  <2>3. SetJobs(p, jobs)
    BY <1>6, <2>1 DEF WriteRemove
  <2>4. /\ IdsOf(p) \ {r.job} \in SUBSET (1 .. nextJob' - 1)
        /\ jobs \in [IdsOf(p) \ {r.job} -> Job]
        /\ nextJob' \in Nat
    BY <1>1, <2>2, NoNewJob, JobsOfPlan
  <2>5. jobs \in JobLists(nextJob')
    BY <2>4, IsListOfJobs
  <2>6. /\ DOMAIN jobs = IdsOf(p) \ {r.job}
        /\ \A j \in DOMAIN jobs : jobs[j] = JobOf(p, j)
    OBVIOUS
  <2> HIDE DEF jobs
  <2>7. /\ plans' \in [PlanIds -> {Unused, Deleted} \cup Plan(nextJob')]
        /\ Rewrites(p)
        /\ plans'[p].jobs = jobs
        /\ IdsOf(p)' = DOMAIN jobs
    BY <1>1, <2>2, <2>3, <2>5, NoNewJob, SetsJobs
  <2>8. \A j : JobOf(p, j)' = jobs[j]
    BY <2>7 DEF JobOf
  <2>9. Pull
    BY <1>1, <1>4, <2>1, <2>6, <2>7, <2>8 DEF Pull
  <2>10. QED  BY <1>1, <1>4, <2>7, <2>9, NoNewJob DEF StoreStep, Kinds, StoreTypes
<1>7. QED  BY <1>5, <1>6

LEMMA RenameStep ==
    ASSUME StoreTypes, NEW c \in Characters, NEW p \in PlanIds, NEW name \in Names,
           RenamePlan(c, p, name)
    PROVE  StoreStep
<1>1. IsPlan(p) /\ slot' = slot /\ nextJob' = nextJob /\ plans' = [plans EXCEPT ![p].name = name]
  BY DEF RenamePlan, Owns
<1>2. plans[p] \in Plan(nextJob)
  BY <1>1, Marks
<1> DEFINE doc == [plans[p] EXCEPT !.name = name]
<1>3. /\ doc \in Plan(nextJob')
      /\ doc.owner = plans[p].owner
      /\ doc.jobs = plans[p].jobs
  BY <1>1, <1>2 DEF Plan
<1>4. plans'[p] = doc /\ Others(p) /\ plans' = [plans EXCEPT ![p] = doc]
  BY <1>1 DEF StoreTypes, Others
<1> HIDE DEF doc
<1>5. plans' \in [PlanIds -> {Unused, Deleted} \cup Plan(nextJob')]
  BY <1>1, <1>3, <1>4 DEF StoreTypes
<1>6. IdsOf(p)' = IdsOf(p) /\ \A j : JobOf(p, j)' = JobOf(p, j)
  BY <1>3, <1>4 DEF IdsOf, IsPlan, JobOf
<1>7. Edit
  BY <1>1, <1>3, <1>4, <1>6 DEF Edit, Rewrites
<1>8. QED  BY <1>1, <1>5, <1>7, NoNewJob, IdleSlots DEF StoreStep, Kinds, StoreTypes

LEMMA DeleteStep ==
    ASSUME StoreTypes, NEW c \in Characters, NEW p \in PlanIds, DeletePlan(c, p)
    PROVE  StoreStep
<1>1. /\ IsPlan(p) /\ slot' = slot /\ nextJob' = nextJob
      /\ plans' = [plans EXCEPT ![p] = Deleted]
  BY DEF DeletePlan, Owns
<1>2. Deletion
  BY <1>1 DEF StoreTypes, Deletion, Others
<1>3. plans' \in [PlanIds -> {Unused, Deleted} \cup Plan(nextJob')]
  BY <1>1 DEF StoreTypes
<1>4. QED  BY <1>1, <1>2, <1>3, NoNewJob, IdleSlots DEF StoreStep, Kinds, StoreTypes

LEMMA BlueprintStep ==
    ASSUME StoreTypes, NEW s \in Slots, NEW q \in Quantities, AddNextBlueprint(s, q)
    PROVE  StoreStep
<1> DEFINE r == slot[s]
           next == IF r.left = 1 THEN Idle ELSE [r EXCEPT !.left = r.left - 1]
<1>1. r.op = "blueprints" /\ slot' = [slot EXCEPT ![s] = next]
  BY DEF AddNextBlueprint, Pending
<1>2. r \in BlueprintsRequest
  BY <1>1, SlotOfRequest, RequestKinds
<1>3. r.who \in Characters /\ r.plan \in PlanIds /\ r.left \in 1 .. 2
  BY <1>2 DEF BlueprintsRequest
<1>4. r.left # 1 => [r EXCEPT !.left = r.left - 1] \in BlueprintsRequest
  BY <1>2, <1>3 DEF BlueprintsRequest
<1>5. next \in Request(nextJob') /\ next.op # "all"
  BY <1>4 DEF Request, Idle, BlueprintsRequest
<1>6. /\ nextJob' \in nextJob .. MaxJobs + 1 /\ nextJob =< nextJob'
      /\ nextJob' \in 1 .. MaxJobs + 1
      /\ plans' \in [PlanIds -> {Unused, Deleted} \cup Plan(nextJob')]
      /\ Kinds
  <2>1. CASE Owns(r.who, r.plan)
    <3>1. Push(r.who, r.plan, q, {})
      BY <2>1 DEF AddNextBlueprint
    <3> HIDE DEF r
    <3>2. QED  BY <1>3, <3>1, Pushes DEF Kinds
  <2>2. CASE ~Owns(r.who, r.plan)
    <3>1. plans' = plans /\ nextJob' = nextJob
      BY <2>2 DEF AddNextBlueprint
    <3>2. QED  BY <3>1, NoNewJob DEF Kinds, StoreTypes
  <2>3. QED  BY <2>1, <2>2
<1> HIDE DEF next, r
<1>7. slot' \in [Slots -> Request(nextJob')] /\ Requests
  BY <1>1, <1>5, <1>6, SetsSlot DEF Requests
<1>8. QED  BY <1>6, <1>7 DEF StoreStep, StoreTypes

LEMMA CreateStep ==
    ASSUME StoreTypes, NEW c \in Characters, NEW p \in PlanIds
    PROVE  /\ \A q \in Quantities, build \in SUBSET Materials : CreatePlan(c, p, q, build) => StoreStep
           /\ CreateEmptyPlan(c, p) => StoreStep
           /\ \A job \in Job : ImportPlan(c, p, job) => StoreStep
<1>1. ASSUME NEW q \in Quantities, NEW build \in SUBSET Materials, CreatePlan(c, p, q, build)
      PROVE  StoreStep
  <2> DEFINE jobs == [j \in Fresh(1) |-> NewJob(c, q, build)]
  <2>1. jobs \in [Fresh(1) -> Job] /\ \A j \in Fresh(1) : jobs[j].by = c
    BY NewJobIsJob
  <2>2. Insert(c, p, 1, jobs)
    BY <1>1 DEF CreatePlan
  <2> HIDE DEF jobs
  <2>3. QED  BY <2>1, <2>2, Inserts
<1>2. ASSUME CreateEmptyPlan(c, p)
      PROVE  StoreStep
  <2> DEFINE jobs == [j \in {} |-> {}]
  <2>1. nextJob \in Nat
    BY PlanAssumption DEF StoreTypes
  <2>2. Fresh(0) = {}
    BY <2>1 DEF Fresh
  <2>3. jobs \in [Fresh(0) -> Job] /\ \A j \in Fresh(0) : jobs[j].by = c
    BY <2>2
  <2>4. Insert(c, p, 0, jobs)
    BY <1>2 DEF CreateEmptyPlan
  <2> HIDE DEF jobs
  <2>5. QED  BY <2>3, <2>4, Inserts
<1>3. ASSUME NEW job \in Job, ImportPlan(c, p, job)
      PROVE  StoreStep
  <2>1. PICK n \in 1 .. 2 : Insert(c, p, n, [j \in Fresh(n) |-> [job EXCEPT !.by = c]])
    BY <1>3 DEF ImportPlan
  <2> DEFINE jobs == [j \in Fresh(n) |-> [job EXCEPT !.by = c]]
  <2>2. [job EXCEPT !.by = c] \in Job /\ [job EXCEPT !.by = c].by = c
    BY DEF Job
  <2>3. jobs \in [Fresh(n) -> Job] /\ \A j \in Fresh(n) : jobs[j].by = c
    BY <2>2
  <2>4. Insert(c, p, n, jobs) /\ n \in Nat
    BY <2>1
  <2> HIDE DEF jobs
  <2>5. QED  BY <2>3, <2>4, Inserts
<1>4. QED  BY <1>1, <1>2, <1>3

LEMMA AddStep ==
    ASSUME StoreTypes, NEW c \in Characters, NEW p \in PlanIds, NEW q \in Quantities,
           NEW build \in SUBSET Materials, AddJob(c, p, q, build)
    PROVE  StoreStep
<1>1. Push(c, p, q, build) /\ UNCHANGED slot
  BY DEF AddJob
<1>2. QED  BY <1>1, Pushes, IdleSlots DEF StoreStep, Kinds, StoreTypes

(* The whole arrays that are read, each with one field of every job set.   *)
LEMMA ArrayIsOwn ==
    ASSUME StoreTypes, NEW s \in Slots, NEW c \in Characters, NEW p \in PlanIds, Owns(c, p),
           NEW jobs \in [IdsOf(p) -> Job], \A j \in IdsOf(p) : jobs[j].by = JobOf(p, j).by,
           Take(s, [op |-> "all", who |-> c, plan |-> p, jobs |-> jobs])
    PROVE  StoreStep
<1> DEFINE r == [op |-> "all", who |-> c, plan |-> p, jobs |-> jobs]
<1>1. IsPlan(p) /\ nextJob \in Nat
  BY PlanAssumption DEF Owns, StoreTypes
<1>2. jobs \in JobLists(nextJob)
  BY <1>1, JobsOfPlan, IsListOfJobs
<1>3. r \in Request(nextJob)
  BY <1>2 DEF Request, BulkRequest
<1>4. TakesOwnJobs(r)
  BY DEF TakesOwnJobs
<1>5. Take(s, r)
  OBVIOUS
<1> HIDE DEF r
<1>6. QED  BY <1>3, <1>4, <1>5, Begins

LEMMA ReadStep ==
    ASSUME StoreTypes, NEW s \in Slots, NEW c \in Characters, NEW p \in PlanIds,
           ReadFirst(s, c, p)
    PROVE  StoreStep
<1>1. ASSUME NEW j \in JobIds, NEW m \in Materials, NEW yes \in BOOLEAN, ReadForFlag(s, c, p, j, m, yes)
      PROVE  StoreStep
  <2> DEFINE r == [op |-> "flag", who |-> c, plan |-> p, job |-> j, material |-> m,
                   was |-> JobOf(p, j), build |-> WithMaterial(JobOf(p, j).build, m, yes)]
  <2>1. JobOf(p, j) \in Job
    BY <1>1, JobsOfPlan DEF ReadForFlag, HasJob, Owns
  <2>2. WithMaterial(JobOf(p, j).build, m, yes) \in SUBSET Materials
    BY <2>1 DEF WithMaterial, Job
  <2>3. r \in Request(nextJob) /\ r.op # "all"
    BY <2>1, <2>2 DEF Request, FlagRequest
  <2>4. Take(s, r)
    BY <1>1 DEF ReadForFlag
  <2> HIDE DEF r
  <2>5. QED  BY <2>3, <2>4, Begins
<1>2. ASSUME NEW site \in Sites, NEW rig \in Rigs, ReadForStructureOfAll(s, c, p, site, rig)
      PROVE  StoreStep
  <2> DEFINE jobs == [j \in IdsOf(p) |-> [JobOf(p, j) EXCEPT !.site = site, !.rig = rig]]
  <2>1. Owns(c, p) /\ Take(s, [op |-> "all", who |-> c, plan |-> p, jobs |-> jobs])
    BY <1>2 DEF ReadForStructureOfAll
  <2>2. \A j \in IdsOf(p) : /\ [JobOf(p, j) EXCEPT !.site = site, !.rig = rig] \in Job
                            /\ [JobOf(p, j) EXCEPT !.site = site, !.rig = rig].by = JobOf(p, j).by
    BY <2>1, JobsOfPlan DEF Owns, Job
  <2>3. jobs \in [IdsOf(p) -> Job] /\ \A j \in IdsOf(p) : jobs[j].by = JobOf(p, j).by
    BY <2>2
  <2> HIDE DEF jobs
  <2>4. QED  BY <2>1, <2>3, ArrayIsOwn
<1>3. ASSUME NEW m \in Materials, NEW yes \in BOOLEAN, ReadForFlagOfAll(s, c, p, m, yes)
      PROVE  StoreStep
  <2> DEFINE flagged(j) == [JobOf(p, j) EXCEPT !.build = WithMaterial(JobOf(p, j).build, m, yes)]
             jobs == [j \in IdsOf(p) |-> flagged(j)]
  <2>1. Owns(c, p) /\ Take(s, [op |-> "all", who |-> c, plan |-> p, jobs |-> jobs])
    BY <1>3 DEF ReadForFlagOfAll
  <2>2. ASSUME NEW j \in IdsOf(p)
        PROVE  flagged(j) \in Job /\ flagged(j).by = JobOf(p, j).by
    <3>1. JobOf(p, j) \in Job
      BY <2>1, JobsOfPlan DEF Owns
    <3>2. WithMaterial(JobOf(p, j).build, m, yes) \in SUBSET Materials
      BY <3>1 DEF WithMaterial, Job
    <3>3. QED  BY <3>1, <3>2 DEF Job
  <2>3. jobs \in [IdsOf(p) -> Job] /\ \A j \in IdsOf(p) : jobs[j].by = JobOf(p, j).by
    BY <2>2
  <2> HIDE DEF jobs
  <2>4. QED  BY <2>1, <2>3, ArrayIsOwn
<1>4. ASSUME NEW j \in JobIds, ReadForRemove(s, c, p, j)
      PROVE  StoreStep
  <2> DEFINE r == [op |-> "remove", who |-> c, plan |-> p, job |-> j]
  <2>1. r \in Request(nextJob) /\ r.op # "all"
    BY DEF Request, RemoveRequest
  <2>2. Take(s, r)
    BY <1>4 DEF ReadForRemove
  <2> HIDE DEF r
  <2>3. QED  BY <2>1, <2>2, Begins
<1>5. ASSUME NEW j \in JobIds, ReadForDetect(s, c, p, j)
      PROVE  StoreStep
  <2> DEFINE r == [op |-> "detect", who |-> c, plan |-> p, job |-> j, rig |-> JobOf(p, j).rig]
  <2>1. JobOf(p, j) \in Job
    BY <1>5, JobsOfPlan DEF ReadForDetect, HasJob, Owns
  <2>2. r \in Request(nextJob) /\ r.op # "all"
    BY <2>1 DEF Request, DetectRequest, Job
  <2>3. Take(s, r)
    BY <1>5 DEF ReadForDetect
  <2> HIDE DEF r
  <2>4. QED  BY <2>2, <2>3, Begins
<1>6. ASSUME ReadForBlueprints(s, c, p)
      PROVE  StoreStep
  <2>1. PICK n \in 1 .. 2 : Take(s, [op |-> "blueprints", who |-> c, plan |-> p, left |-> n])
    BY <1>6 DEF ReadForBlueprints
  <2> DEFINE r == [op |-> "blueprints", who |-> c, plan |-> p, left |-> n]
  <2>2. r \in Request(nextJob) /\ r.op # "all"
    BY DEF Request, BlueprintsRequest
  <2>3. Take(s, r)
    BY <2>1
  <2> HIDE DEF r
  <2>4. QED  BY <2>2, <2>3, Begins
<1>7. QED  BY <1>1, <1>2, <1>3, <1>4, <1>5, <1>6 DEF ReadFirst

-----------------------------------------------------------------------------
(* Every step is of one of the kinds.                                      *)
LEMMA EveryStep == StoreTypes /\ [Next]_vars => StoreStep
<1> SUFFICES ASSUME StoreTypes, [Next]_vars PROVE StoreStep
  OBVIOUS
<1>1. ASSUME NEW c \in Characters, NEW p \in PlanIds, OneCall(c, p)
      PROVE  StoreStep
  <2>1. CASE AddJobs(c, p)
    BY <2>1, CreateStep, AddStep DEF AddJobs
  <2>2. CASE EditJob(c, p)
    BY <2>2, QuantityStep, StructureStep DEF EditJob
  <2>3. CASE EditPlan(c, p)
    BY <2>3, CreateStep, RenameStep, DeleteStep DEF EditPlan
  <2>4. QED  BY <1>1, <2>1, <2>2, <2>3 DEF OneCall
<1>2. ASSUME NEW s \in Slots, WriteLater(s)
      PROVE  StoreStep
  BY <1>2, FlagStep, WholeStep, PullStep, DetectStep, BlueprintStep DEF WriteLater
<1>3. ASSUME NEW s \in Slots, Abandon(s)
      PROVE  StoreStep
  <2>1. Done(s) /\ plans' = plans /\ nextJob' = nextJob
    BY <1>3 DEF Abandon
  <2>2. QED  BY <2>1, NoNewJob, Ends DEF StoreStep, Kinds, StoreTypes
<1>4. CASE UNCHANGED vars
  <2>1. slot' = slot /\ plans' = plans /\ nextJob' = nextJob
    BY <1>4 DEF vars
  <2>2. QED  BY <2>1, NoNewJob, IdleSlots DEF StoreStep, Kinds, StoreTypes
<1>5. QED  BY <1>1, <1>2, <1>3, <1>4, ReadStep DEF Next

LEMMA StoreInvariant == Spec => []StoreTypes
<1>1. Init => StoreTypes
  <2>1. Idle \in Request(1)
    BY DEF Request
  <2>2. QED  BY <2>1, PlanAssumption DEF Init, StoreTypes
<1>2. StoreTypes /\ [Next]_vars => StoreTypes'
  BY EveryStep DEF StoreStep
<1>3. QED  BY <1>1, <1>2, PTL DEF Spec

(* Documents and requests keep their types: every job of a plan has an id  *)
(* that was drawn before and fields that some request has given it.        *)
THEOREM TypeCorrect == Spec => []TypeOK
<1>1. StoreTypes => TypeOK
  <2> SUFFICES ASSUME StoreTypes PROVE TypeOK
    OBVIOUS
  <2>1. ASSUME NEW p \in PlanIds, IsPlan(p)
        PROVE  /\ plans[p].owner \in Characters
               /\ IdsOf(p) \subseteq 1 .. nextJob - 1
               /\ \A j \in IdsOf(p) : JobOf(p, j) \in Job
    BY <2>1, JobsOfPlan DEF IsPlan
  <2>2. ASSUME NEW s \in Slots
        PROVE  slot[s].op \in {"idle", "flag", "all", "remove", "detect", "blueprints"}
    BY SlotOfRequest, RequestKinds
  <2>3. QED  BY <2>1, <2>2 DEF TypeOK, StoreTypes
<1>2. QED  BY <1>1, StoreInvariant, PTL

-----------------------------------------------------------------------------
(* A plan whose document a step leaves alone.                              *)
LEMMA KeptPlan ==
    ASSUME NEW p \in PlanIds, plans'[p] = plans[p]
    PROVE  /\ IsPlan(p)' = IsPlan(p)
           /\ IdsOf(p)' = IdsOf(p)
           /\ \A j : JobOf(p, j)' = JobOf(p, j)
BY DEF IsPlan, IdsOf, JobOf

(* delete_plan leaves a mark that no later write removes: every update     *)
(* filters on a plan that is there, and no insert draws a used id.         *)
THEOREM DeletedForGood == Spec => DeletedStaysDeleted
<1>1. ASSUME StoreTypes, [Next]_vars, NEW p \in PlanIds, plans[p] = Deleted
      PROVE  plans'[p] = Deleted
  <2>1. ~IsPlan(p) /\ plans[p] # Unused
    BY <1>1, Marks
  <2>2. Kinds
    BY <1>1, EveryStep DEF StoreStep
  <2>3. plans'[p] = plans[p]
    BY <2>1, <2>2
       DEF Kinds, Insertion, Addition, Edit, Deletion, Pull, WholeWrite, Rewrites, Others
  <2>4. QED  BY <1>1, <2>3
<1>2. StoreTypes /\ [Next]_vars
        => [\A p \in PlanIds : plans[p] = Deleted => plans'[p] = Deleted]_vars
  BY <1>1
<1>3. QED  BY <1>2, StoreInvariant, PTL DEF Spec, DeletedStaysDeleted

(* Only remove_job of that job, delete_plan and the two bulk setters make  *)
(* a job leave its plan, whatever the requests read before.                *)
THEOREM JobsAreNotLost == Spec => JobsLeaveByRemoval
<1>1. ASSUME StoreTypes, [Next]_vars, NEW p \in PlanIds, NEW j \in IdsOf(p) \ IdsOf(p)'
      PROVE  plans'[p] = Deleted \/ Removal(p, j) \/ BulkWrite(p)
  <2>1. Kinds
    BY <1>1, EveryStep DEF StoreStep
  <2>2. plans'[p] # plans[p] /\ IsPlan(p)
    BY <1>1, KeptPlan DEF IdsOf
  <2>3. plans[p] # Unused
    BY <1>1, <2>2, Marks
  <2>4. CASE Insertion
    BY <2>2, <2>3, <2>4 DEF Insertion, Others
  <2>5. CASE Addition \/ Edit
    BY <2>2, <2>5 DEF Addition, Edit, Rewrites, Others
  <2>6. CASE Deletion
    BY <2>2, <2>6 DEF Deletion, Others
  <2>7. CASE Pull
    BY <2>2, <2>7 DEF Pull, Rewrites, Others, Removal
  <2>8. CASE WholeWrite
    BY <2>2, <2>8 DEF WholeWrite, Rewrites, Others, BulkWrite
  <2>9. QED  BY <2>1, <2>2, <2>4, <2>5, <2>6, <2>7, <2>8 DEF Kinds
<1>2. StoreTypes /\ [Next]_vars
        => [\A p \in PlanIds : \A j \in IdsOf(p) \ IdsOf(p)' :
              plans'[p] = Deleted \/ Removal(p, j) \/ BulkWrite(p)]_vars
  BY <1>1
<1>3. QED  BY <1>2, StoreInvariant, PTL DEF Spec, JobsLeaveByRemoval

(* A job that was removed does not come back but through a bulk setter     *)
(* that read the plan before: whatever else comes into a plan is new.      *)
THEOREM RemovedForGood == Spec => RemovedStaysRemoved
<1>1. ASSUME StoreTypes, [Next]_vars, NEW p \in PlanIds, NEW j \in IdsOf(p)' \ IdsOf(p)
      PROVE  j >= nextJob \/ BulkWrite(p)
  <2>1. Kinds /\ nextJob >= nextJob
    BY <1>1, EveryStep DEF StoreStep, StoreTypes
  <2>2. plans'[p] # plans[p]
    BY <1>1, KeptPlan
  <2>3. CASE Insertion
    BY <2>2, <2>3 DEF Insertion, Others
  <2>4. CASE Addition
    BY <2>1, <2>2, <2>4 DEF Addition, Rewrites, Others
  <2>5. CASE Edit
    BY <2>2, <2>5 DEF Edit, Rewrites, Others
  <2>6. CASE Deletion
    <3>1. plans'[p] = Deleted
      BY <2>2, <2>6 DEF Deletion, Others
    <3>2. IdsOf(p)' = {}
      BY <3>1, PlanAssumption DEF IdsOf, IsPlan, Deleted
    <3>3. QED  BY <1>1, <3>2
  <2>7. CASE Pull
    BY <2>2, <2>7 DEF Pull, Rewrites, Others
  <2>8. CASE WholeWrite
    BY <2>2, <2>8 DEF WholeWrite, Rewrites, Others, BulkWrite
  <2>9. QED  BY <2>1, <2>2, <2>3, <2>4, <2>5, <2>6, <2>7, <2>8 DEF Kinds
<1>2. StoreTypes /\ [Next]_vars
        => [\A p \in PlanIds : \A j \in IdsOf(p)' \ IdsOf(p) : j >= nextJob \/ BulkWrite(p)]_vars
  BY <1>1
<1>3. QED  BY <1>2, StoreInvariant, PTL DEF Spec, RemovedStaysRemoved

(* A request that read the plan before it writes leaves the quantity of    *)
(* every job as it finds it then, but for the two bulk setters.            *)
THEOREM QuantityIsKept == Spec => QuantitySurvives
<1>1. ASSUME StoreTypes, [Next]_vars, slot' # slot,
             NEW p \in PlanIds, NEW j \in IdsOf(p) \cap IdsOf(p)'
      PROVE  JobOf(p, j)'.qty = JobOf(p, j).qty \/ BulkWrite(p)
  <2>1. Kinds
    BY <1>1, EveryStep DEF StoreStep
  <2>2. CASE plans'[p] = plans[p]
    BY <2>2, KeptPlan
  <2>3. CASE plans'[p] # plans[p]
    <3>1. CASE Addition
      BY <2>3, <3>1 DEF Addition, Rewrites, Others
    <3>2. CASE Edit
      BY <1>1, <2>3, <3>2 DEF Edit, Rewrites, Others
    <3>3. CASE Pull
      BY <2>3, <3>3 DEF Pull, Rewrites, Others
    <3>4. CASE WholeWrite
      BY <2>3, <3>4 DEF WholeWrite, Rewrites, Others, BulkWrite
    <3>5. QED  BY <1>1, <2>1, <2>3, <3>1, <3>2, <3>3, <3>4 DEF Kinds, Insertion, Deletion
  <2>4. QED  BY <2>2, <2>3
<1>2. StoreTypes /\ [Next]_vars
        => [slot' # slot =>
              \A p \in PlanIds : \A j \in IdsOf(p) \cap IdsOf(p)' :
                JobOf(p, j)'.qty = JobOf(p, j).qty \/ BulkWrite(p)]_vars
  BY <1>1
<1>3. QED  BY <1>2, StoreInvariant, PTL DEF Spec, QuantitySurvives

-----------------------------------------------------------------------------
(* The arrays that bulk setters hold are written back later, so what an    *)
(* invariant says of the plans it must say of them too.                    *)
Holds(s, p) == slot[s].op = "all" /\ slot[s].plan = p

OwnInv ==
    /\ OnlyOwnJobs
    /\ \A s \in Slots : slot[s].op = "all" =>
         \A j \in DOMAIN slot[s].jobs : slot[s].jobs[j].by = slot[s].who

(* A job that is in a plan or in an array that will be written to it.      *)
Claims(p, j) ==
    \/ j \in IdsOf(p)
    \/ \E s \in Slots : Holds(s, p) /\ j \in DOMAIN slot[s].jobs

ClaimInv == \A p, r \in PlanIds, j \in JobIds : Claims(p, j) /\ Claims(r, j) => p = r

LEMMA OwnStep ==
    ASSUME StoreTypes, OwnInv, [Next]_vars
    PROVE  OwnInv'
<1>1. Kinds /\ Requests /\ nextJob \in Nat
  BY EveryStep, PlanAssumption DEF StoreStep, StoreTypes
<1>2. ASSUME NEW p \in PlanIds, NEW j \in IdsOf(p)'
      PROVE  JobOf(p, j)'.by = plans'[p].owner
  <2>1. CASE plans'[p] = plans[p]
    BY <1>2, <2>1, KeptPlan DEF OwnInv, OnlyOwnJobs
  <2>2. CASE plans'[p] # plans[p]
    <3>1. CASE Insertion
      BY <1>2, <2>2, <3>1 DEF Insertion, Others
    <3>2. CASE Addition
      BY <1>2, <2>2, <3>2 DEF Addition, Rewrites, Others, OwnInv, OnlyOwnJobs, JobOf
    <3>3. CASE Edit
      BY <1>2, <2>2, <3>3 DEF Edit, Rewrites, Others, OwnInv, OnlyOwnJobs
    <3>4. CASE Deletion
      <4>1. plans'[p] = Deleted
        BY <2>2, <3>4 DEF Deletion, Others
      <4>2. IdsOf(p)' = {}
        BY <4>1, PlanAssumption DEF IdsOf, IsPlan, Deleted
      <4>3. QED  BY <1>2, <4>2
    <3>5. CASE Pull
      BY <1>2, <2>2, <3>5 DEF Pull, Rewrites, Others, OwnInv, OnlyOwnJobs
    <3>6. CASE WholeWrite
      BY <1>2, <2>2, <3>6 DEF WholeWrite, Rewrites, Others, OwnInv, JobOf
    <3>7. QED  BY <1>1, <2>2, <3>1, <3>2, <3>3, <3>4, <3>5, <3>6 DEF Kinds
  <2>3. QED  BY <2>1, <2>2
<1>3. ASSUME NEW s \in Slots, slot'[s].op = "all", NEW j \in DOMAIN slot'[s].jobs
      PROVE  slot'[s].jobs[j].by = slot'[s].who
  <2>1. CASE slot'[s] = slot[s]
    BY <1>3, <2>1 DEF OwnInv
  <2>2. CASE TakesOwnJobs(slot'[s])
    <3> DEFINE r == slot'[s]
    <3>1. r.plan \in PlanIds
      <4>1. StoreTypes'
        BY EveryStep DEF StoreStep
      <4>2. r \in Request(nextJob') /\ nextJob' \in Nat
        BY <4>1, PlanAssumption DEF StoreTypes
      <4>3. r \in BulkRequest(nextJob')
        BY <1>3, <4>2, RequestKinds
      <4>4. QED  BY <4>3 DEF BulkRequest
    <3>2. /\ Owns(r.who, r.plan) /\ j \in IdsOf(r.plan)
          /\ r.jobs[j].by = JobOf(r.plan, j).by
      BY <1>3, <2>2 DEF TakesOwnJobs
    <3>3. JobOf(r.plan, j).by = plans[r.plan].owner
      BY <3>1, <3>2 DEF OwnInv, OnlyOwnJobs
    <3>4. QED  BY <3>2, <3>3 DEF Owns
  <2>3. QED  BY <1>1, <1>3, <2>1, <2>2 DEF Requests
<1>4. QED  BY <1>2, <1>3 DEF OwnInv, OnlyOwnJobs

(* A plan never shows a job that another character has added, although     *)
(* bulk setters write back whole arrays that they read in another state.   *)
THEOREM OwnJobsOnly == Spec => []OnlyOwnJobs
<1>1. Init => OwnInv
  BY PlanAssumption DEF Init, OwnInv, OnlyOwnJobs, IdsOf, IsPlan, Unused, Idle
<1>2. StoreTypes /\ OwnInv /\ [Next]_vars => OwnInv'
  BY OwnStep
<1>3. OwnInv => OnlyOwnJobs
  BY DEF OwnInv
<1>4. QED  BY <1>1, <1>2, <1>3, StoreInvariant, PTL DEF Spec

-----------------------------------------------------------------------------
(* Only ids that have been drawn are claimed.                              *)
LEMMA ClaimsAreDrawn ==
    ASSUME StoreTypes, NEW p \in PlanIds, NEW j, Claims(p, j)
    PROVE  j \in JobIds /\ j < nextJob
<1>1. nextJob \in Nat /\ nextJob =< MaxJobs + 1 /\ MaxJobs \in Nat
  BY PlanAssumption DEF StoreTypes
<1>2. CASE j \in IdsOf(p)
  <2>1. IsPlan(p)
    BY <1>2 DEF IdsOf
  <2>2. j \in 1 .. nextJob - 1
    BY <1>2, <2>1, JobsOfPlan
  <2>3. QED  BY <1>1, <2>2 DEF JobIds
<1>3. CASE \E s \in Slots : Holds(s, p) /\ j \in DOMAIN slot[s].jobs
  <2>1. PICK s \in Slots : Holds(s, p) /\ j \in DOMAIN slot[s].jobs
    BY <1>3
  <2>2. slot[s] \in BulkRequest(nextJob)
    BY <2>1, SlotOfRequest, RequestKinds DEF Holds
  <2>3. j \in 1 .. nextJob - 1
    BY <1>1, <2>1, <2>2, ListOfJobs DEF BulkRequest
  <2>4. QED  BY <1>1, <2>3 DEF JobIds
<1>4. QED  BY <1>2, <1>3 DEF Claims

(* What a step claims anew are jobs it has drawn, for one plan.            *)
LEMMA ClaimsGrowByDrawing ==
    ASSUME StoreTypes, [Next]_vars
    PROVE  \E q : \A p \in PlanIds : \A j :
             Claims(p, j)' => Claims(p, j) \/ (p = q /\ j >= nextJob)
<1>1. Kinds /\ Requests /\ nextJob \in Nat
  BY EveryStep, PlanAssumption DEF StoreStep, StoreTypes
<1>2. ASSUME NEW p \in PlanIds, NEW j, NEW s \in Slots,
             Holds(s, p)', j \in DOMAIN slot'[s].jobs
      PROVE  Claims(p, j)
  <2>1. slot'[s].op = "all" /\ slot'[s].plan = p
    BY <1>2 DEF Holds
  <2>2. CASE slot'[s] = slot[s]
    BY <1>2, <2>1, <2>2 DEF Claims, Holds
  <2>3. CASE TakesOwnJobs(slot'[s])
    BY <1>2, <2>1, <2>3 DEF TakesOwnJobs, Claims
  <2>4. QED  BY <1>1, <2>1, <2>2, <2>3 DEF Requests
<1>3. \E q : \A p \in PlanIds : \A j \in IdsOf(p)' : Claims(p, j) \/ (p = q /\ j >= nextJob)
  <2>1. CASE plans' = plans
    BY <2>1, KeptPlan DEF Claims
  <2>2. CASE Insertion
    <3>1. PICK q \in PlanIds : Others(q) /\ \A j \in IdsOf(q)' : j >= nextJob
      BY <2>2 DEF Insertion
    <3>2. \A p \in PlanIds \ {q} : IdsOf(p)' = IdsOf(p)
      BY <3>1, KeptPlan DEF Others
    <3>3. QED  BY <3>1, <3>2 DEF Claims
  <2>3. CASE Addition
    <3>1. PICK q \in PlanIds : Others(q) /\ IdsOf(q)' = IdsOf(q) \cup {nextJob}
      BY <2>3 DEF Addition, Rewrites
    <3>2. \A p \in PlanIds \ {q} : IdsOf(p)' = IdsOf(p)
      BY <3>1, KeptPlan DEF Others
    <3>3. QED  BY <1>1, <3>1, <3>2 DEF Claims
  <2>4. CASE Edit \/ Pull
    <3>1. PICK q \in PlanIds : Others(q) /\ IdsOf(q)' \subseteq IdsOf(q)
      BY <2>4 DEF Edit, Pull, Rewrites
    <3>2. \A p \in PlanIds \ {q} : IdsOf(p)' = IdsOf(p)
      BY <3>1, KeptPlan DEF Others
    <3>3. QED  BY <3>1, <3>2 DEF Claims
  <2>5. CASE Deletion
    <3>1. PICK q \in PlanIds : Others(q) /\ plans'[q] = Deleted
      BY <2>5 DEF Deletion
    <3>2. IdsOf(q)' = {}
      BY <3>1, PlanAssumption DEF IdsOf, IsPlan, Deleted
    <3>3. \A p \in PlanIds \ {q} : IdsOf(p)' = IdsOf(p)
      BY <3>1, KeptPlan DEF Others
    <3>4. QED  BY <3>2, <3>3 DEF Claims
  <2>6. CASE WholeWrite
    <3>1. PICK s \in Slots, q \in PlanIds :
            Holds(s, q) /\ Others(q) /\ IdsOf(q)' = DOMAIN slot[s].jobs
      BY <2>6 DEF WholeWrite, Rewrites, Holds
    <3>2. \A p \in PlanIds \ {q} : IdsOf(p)' = IdsOf(p)
      BY <3>1, KeptPlan DEF Others
    <3>3. QED  BY <3>1, <3>2 DEF Claims
  <2>7. QED  BY <1>1, <2>1, <2>2, <2>3, <2>4, <2>5, <2>6 DEF Kinds
<1>4. PICK q : \A p \in PlanIds : \A j \in IdsOf(p)' : Claims(p, j) \/ (p = q /\ j >= nextJob)
  BY <1>3
<1>5. ASSUME NEW p \in PlanIds, NEW j, Claims(p, j)'
      PROVE  Claims(p, j) \/ (p = q /\ j >= nextJob)
  <2>1. j \in IdsOf(p)' \/ \E s \in Slots : Holds(s, p)' /\ j \in DOMAIN slot'[s].jobs
    BY <1>5 DEF Claims
  <2>2. QED  BY <1>2, <1>4, <2>1
<1>6. QED  BY <1>5

LEMMA ClaimStep ==
    ASSUME StoreTypes, ClaimInv, [Next]_vars
    PROVE  ClaimInv'
<1>1. PICK q : \A p \in PlanIds : \A j :
        Claims(p, j)' => Claims(p, j) \/ (p = q /\ j >= nextJob)
  BY ClaimsGrowByDrawing
<1>2. ASSUME NEW p \in PlanIds, NEW r \in PlanIds, NEW j \in JobIds, Claims(p, j)', Claims(r, j)'
      PROVE  p = r
  <2>1. CASE Claims(p, j) /\ Claims(r, j)
    BY <2>1 DEF ClaimInv
  <2>2. CASE ~Claims(p, j) /\ ~Claims(r, j)
    BY <1>1, <1>2, <2>2
  <2>3. CASE Claims(p, j) /\ ~Claims(r, j)
    <3>1. j < nextJob /\ j >= nextJob
      BY <1>1, <1>2, <2>3, ClaimsAreDrawn
    <3>2. QED  BY <3>1, PlanAssumption DEF StoreTypes, JobIds
  <2>4. CASE ~Claims(p, j) /\ Claims(r, j)
    <3>1. j < nextJob /\ j >= nextJob
      BY <1>1, <1>2, <2>4, ClaimsAreDrawn
    <3>2. QED  BY <3>1, PlanAssumption DEF StoreTypes, JobIds
  <2>5. QED  BY <2>1, <2>2, <2>3, <2>4
<1>3. QED  BY <1>2 DEF ClaimInv, JobIds

(* No job is in two plans, so that the positional updates and $pull, which *)
(* go by the id of a job, can touch no other plan's.                       *)
THEOREM OnePlanPerJob == Spec => []JobIsInOnePlan
<1>1. Init => ClaimInv
  BY PlanAssumption DEF Init, ClaimInv, Claims, Holds, IdsOf, IsPlan, Unused, Idle
<1>2. StoreTypes /\ ClaimInv /\ [Next]_vars => ClaimInv'
  BY ClaimStep
<1>3. StoreTypes /\ ClaimInv => JobIsInOnePlan
  BY ClaimsAreDrawn DEF ClaimInv, JobIsInOnePlan, Claims
<1>4. QED  BY <1>1, <1>2, <1>3, StoreInvariant, PTL DEF Spec
=============================================================================
