----------------------------- MODULE PlanStore -----------------------------
(***************************************************************************)
(* app/services/plan.py and the handlers of app/routes/plans.py that call  *)
(* it: the `plans` collection under concurrent requests.  Each Mongo call  *)
(* is atomic on its document, but six of the operations read the plan in   *)
(* one await and write it in a later one; between the two any other        *)
(* request, of any pod, may run.                                           *)
(*                                                                         *)
(* An operation that is one Mongo call is one action.  One that reads      *)
(* first takes a slot, which holds what it has read until it writes.       *)
(* Requests that match no plan change nothing and are left out.            *)
(***************************************************************************)
EXTENDS Integers, FiniteSets

CONSTANTS
    Characters,         \* who signs requests
    PlanIds,            \* bound: uuid4 plan ids
    MaxJobs,            \* bound: job ids ever drawn
    Slots,              \* bound: requests between a read and their write
    Quantities, Materials, Sites, Rigs, Names,  \* values of the fields
    Ops                 \* the operations of a run

ASSUME PlanAssumption ==
    /\ MaxJobs \in Nat
    /\ Quantities # {} /\ Sites # {} /\ Rigs # {}
    /\ "unused" \notin Characters /\ "deleted" \notin Characters    \* marks, see below

VARIABLES
    plans,              \* the collection, by plan id
    nextJob,            \* job ids drawn so far are 1 .. nextJob - 1
    slot                \* the requests that have read and not yet written

vars == <<plans, nextJob, slot>>

Unused == [owner |-> "unused"]          \* an id that no insert has drawn yet
Deleted == [owner |-> "deleted"]
Idle == [op |-> "idle"]

(* A plan's jobs, by job id: the array's order matters to nothing here.    *)
(* Site stands for has_engineering_complex and security_band, which are    *)
(* always set together; `by` is who added the job, and in no document.     *)
JobIds == 1 .. MaxJobs
Job == [qty : Quantities, build : SUBSET Materials, site : Sites, rig : Rigs, by : Characters]

IsPlan(p) == plans[p].owner \in Characters
IdsOf(p) == IF IsPlan(p) THEN DOMAIN plans[p].jobs ELSE {}
JobOf(p, j) == plans[p].jobs[j]

(* The filter {"_id": plan_id, "character_id": character_id}, and with the *)
(* positional "jobs.job_id".                                               *)
Owns_AnyCharacter(c, p) == IsPlan(p)
Owns(c, p) == IsPlan(p) /\ plans[p].owner = c
HasJob(c, p, j) == Owns(c, p) /\ j \in IdsOf(p)

SomeSite == CHOOSE s \in Sites : TRUE
SomeRig == CHOOSE r \in Rigs : TRUE

(* _job_doc, with the default structure.                                   *)
NewJob(c, q, build) ==
    [qty |-> q, build |-> build, site |-> SomeSite, rig |-> SomeRig, by |-> c]

SetJobs(p, jobs) == plans' = [plans EXCEPT ![p].jobs = jobs]

Init ==
    /\ plans = [p \in PlanIds |-> Unused]
    /\ nextJob = 1
    /\ slot = [s \in Slots |-> Idle]

-----------------------------------------------------------------------------
(* Operations of one Mongo call.                                           *)

(* The next n job ids.                                                     *)
Fresh(n) == nextJob .. nextJob + n - 1

(* insert_one of a plan with n jobs.                                       *)
Insert(c, p, n, jobs) ==
    /\ plans[p] = Unused
    /\ nextJob + n =< MaxJobs + 1
    /\ plans' = [plans EXCEPT ![p] = [owner |-> c, name |-> "", jobs |-> jobs]]
    /\ nextJob' = nextJob + n
    /\ UNCHANGED slot

CreatePlan(c, p, q, build) ==
    "create" \in Ops /\ Insert(c, p, 1, [j \in Fresh(1) |-> NewJob(c, q, build)])

CreateEmptyPlan(c, p) == "create" \in Ops /\ Insert(c, p, 0, [j \in {} |-> {}])

(* The fields of the export under fresh job ids: at most two jobs here, of *)
(* the same fields.                                                        *)
ImportPlan_KeepIds(c, p, job) ==
    /\ "import" \in Ops
    /\ \E n \in 1 .. 2 : Insert(c, p, n, [j \in 1 .. n |-> [job EXCEPT !.by = c]])

ImportPlan(c, p, job) ==
    /\ "import" \in Ops
    /\ \E n \in 1 .. 2 : Insert(c, p, n, [j \in Fresh(n) |-> [job EXCEPT !.by = c]])

(* $push of one job, a new id each.                                        *)
Push_SameId(c, p, q, build) ==
    /\ Owns(c, p)
    /\ nextJob =< MaxJobs
    /\ SetJobs(p, [j \in IdsOf(p) \cup {nextJob} |->
                     IF j = nextJob THEN NewJob(c, q, build) ELSE JobOf(p, j)])
    /\ nextJob' = nextJob

Push(c, p, q, build) ==
    /\ Owns(c, p)
    /\ nextJob =< MaxJobs
    /\ SetJobs(p, [j \in IdsOf(p) \cup {nextJob} |->
                     IF j = nextJob THEN NewJob(c, q, build) ELSE JobOf(p, j)])
    /\ nextJob' = nextJob + 1

AddJob(c, p, q, build) ==
    "add" \in Ops /\ Push(c, p, q, build) /\ UNCHANGED slot

UpdateQuantity(c, p, j, q) ==
    /\ "quantity" \in Ops
    /\ HasJob(c, p, j)
    /\ plans' = [plans EXCEPT ![p].jobs[j].qty = q]
    /\ UNCHANGED <<nextJob, slot>>

UpdateStructure(c, p, j, site, rig) ==
    /\ "structure" \in Ops
    /\ HasJob(c, p, j)
    /\ plans' = [plans EXCEPT ![p].jobs[j].site = site, ![p].jobs[j].rig = rig]
    /\ UNCHANGED <<nextJob, slot>>

RenamePlan(c, p, name) ==
    /\ "rename" \in Ops
    /\ Owns(c, p)
    /\ plans' = [plans EXCEPT ![p].name = name]
    /\ UNCHANGED <<nextJob, slot>>

DeletePlan(c, p) ==
    /\ "delete" \in Ops
    /\ Owns(c, p)
    /\ plans' = [plans EXCEPT ![p] = Deleted]
    /\ UNCHANGED <<nextJob, slot>>

-----------------------------------------------------------------------------
(* Operations that read the plan and write it in a later call.             *)

Take(s, request) ==
    /\ slot[s] = Idle
    /\ slot' = [slot EXCEPT ![s] = request]
    /\ UNCHANGED <<plans, nextJob>>

Pending(s, op) == slot[s].op = op
Done(s) == slot' = [slot EXCEPT ![s] = Idle]

WithMaterial(build, m, yes) == IF yes THEN build \cup {m} ELSE build \ {m}

(* update_job_build_flag: the job's whole build_set is computed from the   *)
(* document that was read.                                                 *)
ReadForFlag(s, c, p, j, m, yes) ==
    /\ "flag" \in Ops
    /\ HasJob(c, p, j)
    /\ Take(s, [op |-> "flag", who |-> c, plan |-> p, job |-> j, material |-> m,
                was |-> JobOf(p, j), build |-> WithMaterial(JobOf(p, j).build, m, yes)])

WriteFlag_WholeJob(s) ==
    /\ Pending(s, "flag")
    /\ Done(s)
    /\ LET r == slot[s] IN
         IF Owns(r.who, r.plan)
         THEN SetJobs(r.plan, [j \in IdsOf(r.plan) \cup {r.job} |->
                                 IF j = r.job THEN [r.was EXCEPT !.build = r.build]
                                              ELSE JobOf(r.plan, j)])
         ELSE UNCHANGED plans
    /\ UNCHANGED nextJob

WriteFlag(s) ==
    /\ Pending(s, "flag")
    /\ Done(s)
    /\ LET r == slot[s] IN
         IF HasJob(r.who, r.plan, r.job)
         THEN plans' = [plans EXCEPT ![r.plan].jobs[r.job].build = r.build]
         ELSE UNCHANGED plans
    /\ UNCHANGED nextJob

(* set_structure_for_all_jobs and set_build_flag_for_all_jobs: the whole   *)
(* array that was read is changed and written back.                        *)
ReadForStructureOfAll(s, c, p, site, rig) ==
    /\ "structure_all" \in Ops
    /\ Owns(c, p)
    /\ Take(s, [op |-> "all", who |-> c, plan |-> p,
                jobs |-> [j \in IdsOf(p) |-> [JobOf(p, j) EXCEPT !.site = site, !.rig = rig]]])

ReadForFlagOfAll(s, c, p, m, yes) ==
    /\ "flag_all" \in Ops
    /\ Owns(c, p)
    /\ Take(s, [op |-> "all", who |-> c, plan |-> p,
                jobs |-> [j \in IdsOf(p) |-> [JobOf(p, j) EXCEPT !.build = WithMaterial(@, m, yes)]]])

WriteAll_Upsert(s) ==
    /\ Pending(s, "all")
    /\ Done(s)
    /\ LET r == slot[s] IN
         plans' = [plans EXCEPT ![r.plan] = [owner |-> r.who, name |-> "", jobs |-> r.jobs]]
    /\ UNCHANGED nextJob

WriteAll(s) ==
    /\ Pending(s, "all")
    /\ Done(s)
    /\ LET r == slot[s] IN
         IF Owns(r.who, r.plan) THEN SetJobs(r.plan, r.jobs) ELSE UNCHANGED plans
    /\ UNCHANGED nextJob

(* remove_job: the guard on the last job is tested on the document that    *)
(* was read, $pull is applied to the document as it is by then.            *)
ReadForRemove(s, c, p, j) ==
    /\ "remove" \in Ops
    /\ HasJob(c, p, j)
    /\ Cardinality(IdsOf(p)) > 1
    /\ Take(s, [op |-> "remove", who |-> c, plan |-> p, job |-> j])

WriteRemove_Oldest(s) ==
    /\ Pending(s, "remove")
    /\ Done(s)
    /\ LET r == slot[s]
           ids == IdsOf(r.plan)
       IN  IF Owns(r.who, r.plan)
           THEN SetJobs(r.plan, [j \in {i \in ids : \E k \in ids : k < i} |-> JobOf(r.plan, j)])
           ELSE UNCHANGED plans
    /\ UNCHANGED nextJob

WriteRemove(s) ==
    /\ Pending(s, "remove")
    /\ Done(s)
    /\ LET r == slot[s] IN
         IF Owns(r.who, r.plan)
         THEN SetJobs(r.plan, [j \in IdsOf(r.plan) \ {r.job} |-> JobOf(r.plan, j)])
         ELSE UNCHANGED plans
    /\ UNCHANGED nextJob

(* detect_job_structure: the site comes from ESI, the rig tier from the    *)
(* document read before the calls to ESI.                                  *)
ReadForDetect(s, c, p, j) ==
    /\ "detect" \in Ops
    /\ HasJob(c, p, j)
    /\ Take(s, [op |-> "detect", who |-> c, plan |-> p, job |-> j, rig |-> JobOf(p, j).rig])

WriteDetect(s, site) ==
    /\ Pending(s, "detect")
    /\ Done(s)
    /\ LET r == slot[s] IN
         IF HasJob(r.who, r.plan, r.job)
         THEN plans' = [plans EXCEPT ![r.plan].jobs[r.job].site = site,
                                     ![r.plan].jobs[r.job].rig = r.rig]
         ELSE UNCHANGED plans
    /\ UNCHANGED nextJob

(* add_jobs_from_blueprints: one look at the plan, then one add_job per    *)
(* blueprint whose result is not looked at.                                *)
ReadForBlueprints(s, c, p) ==
    /\ "blueprints" \in Ops
    /\ Owns(c, p)
    /\ \E n \in 1 .. 2 : Take(s, [op |-> "blueprints", who |-> c, plan |-> p, left |-> n])

AddNextBlueprint(s, q) ==
    /\ Pending(s, "blueprints")
    /\ LET r == slot[s] IN
         /\ IF Owns(r.who, r.plan) THEN Push(r.who, r.plan, q, {}) ELSE UNCHANGED <<plans, nextJob>>
         /\ slot' = [slot EXCEPT ![s] = IF r.left = 1 THEN Idle ELSE [r EXCEPT !.left = @ - 1]]

(* A request ends between its calls: an await raises, ESI does not know    *)
(* the structure, the pod dies.                                            *)
Abandon(s) ==
    /\ slot[s] # Idle
    /\ Done(s)
    /\ UNCHANGED <<plans, nextJob>>

-----------------------------------------------------------------------------
AddJobs(c, p) ==
    \/ \E q \in Quantities, build \in SUBSET Materials :
         CreatePlan(c, p, q, build) \/ AddJob(c, p, q, build)
    \/ \E job \in Job : ImportPlan(c, p, job)

EditJob(c, p) ==
    \/ \E j \in JobIds, q \in Quantities : UpdateQuantity(c, p, j, q)
    \/ \E j \in JobIds, site \in Sites, rig \in Rigs : UpdateStructure(c, p, j, site, rig)

EditPlan(c, p) ==
    \/ CreateEmptyPlan(c, p)
    \/ \E name \in Names : RenamePlan(c, p, name)
    \/ DeletePlan(c, p)

OneCall(c, p) == AddJobs(c, p) \/ EditJob(c, p) \/ EditPlan(c, p)

ReadFirst(s, c, p) ==
    \/ \E j \in JobIds, m \in Materials, yes \in BOOLEAN : ReadForFlag(s, c, p, j, m, yes)
    \/ \E site \in Sites, rig \in Rigs : ReadForStructureOfAll(s, c, p, site, rig)
    \/ \E m \in Materials, yes \in BOOLEAN : ReadForFlagOfAll(s, c, p, m, yes)
    \/ \E j \in JobIds : ReadForRemove(s, c, p, j) \/ ReadForDetect(s, c, p, j)
    \/ ReadForBlueprints(s, c, p)

WriteLater(s) ==
    \/ WriteFlag(s) \/ WriteAll(s) \/ WriteRemove(s)
    \/ \E site \in Sites : WriteDetect(s, site)
    \/ \E q \in Quantities : AddNextBlueprint(s, q)

Next ==
    \/ \E c \in Characters, p \in PlanIds : OneCall(c, p)
    \/ \E s \in Slots, c \in Characters, p \in PlanIds : ReadFirst(s, c, p)
    \/ \E s \in Slots : WriteLater(s) \/ Abandon(s)

Spec == Init /\ [][Next]_vars

-----------------------------------------------------------------------------
TypeOK ==
    /\ nextJob \in 1 .. MaxJobs + 1
    /\ \A p \in PlanIds :
         IsPlan(p) => /\ plans[p].owner \in Characters
                      /\ IdsOf(p) \subseteq 1 .. nextJob - 1
                      /\ \A j \in IdsOf(p) : JobOf(p, j) \in Job
    /\ \A s \in Slots :
         slot[s].op \in {"idle", "flag", "all", "remove", "detect", "blueprints"}

(* No job is in two plans: job ids are what the positional updates and     *)
(* $pull go by, and arrays that were read from one plan are written back.  *)
JobIsInOnePlan == \A p, r \in PlanIds : IdsOf(p) \cap IdsOf(r) # {} => p = r

(* A plan holds only jobs that its owner has added, even through a request *)
(* that looked at the plan a long time ago.                                *)
OnlyOwnJobs ==
    \A p \in PlanIds : \A j \in IdsOf(p) : JobOf(p, j).by = plans[p].owner

(* A request that wrote a whole array back has just ended.                 *)
BulkWrite(p) ==
    \E s \in Slots : slot[s].op = "all" /\ slot[s].plan = p /\ slot'[s] = Idle

Removal(p, j) ==
    \E s \in Slots : /\ slot[s].op = "remove" /\ slot[s].plan = p /\ slot[s].job = j
                     /\ slot'[s] = Idle

(* A job leaves its plan because a request asked to remove that very job,  *)
(* or with the plan; only set_structure_for_all_jobs and                   *)
(* set_build_flag_for_all_jobs may lose others.                            *)
JobsLeaveByRemoval ==
    [][ \A p \in PlanIds : \A j \in IdsOf(p) \ IdsOf(p)' :
          plans'[p] = Deleted \/ Removal(p, j) \/ BulkWrite(p) ]_vars

(* A job that comes into a plan is a new one: but for the same two, what   *)
(* has been removed does not come back.                                    *)
RemovedStaysRemoved ==
    [][ \A p \in PlanIds : \A j \in IdsOf(p)' \ IdsOf(p) :
          j >= nextJob \/ BulkWrite(p) ]_vars

(* But for the same two, no request that read the plan earlier changes the *)
(* quantity of a job: "the rest of the job (target_type_id,                *)
(* target_quantity) is unchanged" (plan.py:125-126).                       *)
QuantitySurvives ==
    [][ slot' # slot =>
          \A p \in PlanIds : \A j \in IdsOf(p) \cap IdsOf(p)' :
            JobOf(p, j)'.qty = JobOf(p, j).qty \/ BulkWrite(p) ]_vars

(* A write that arrives after its plan was deleted does not recreate it.   *)
DeletedStaysDeleted ==
    [][ \A p \in PlanIds : plans[p] = Deleted => plans'[p] = Deleted ]_vars

(* plan.py:234-237: remove_job never takes the last job of a plan.         *)
LastJobStays ==
    [][ \A p \in PlanIds : IdsOf(p) # {} /\ plans'[p] # Deleted => IdsOf(p)' # {} ]_vars
=============================================================================
