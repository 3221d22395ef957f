---------------------------- MODULE MarketPrices ----------------------------
(***************************************************************************)
(* The refresh of market prices with RabbitMQ: services/market_prices.py   *)
(* and its scripts.  A dispatch (the hourly CronJob, or POST               *)
(* /market-prices/refresh) publishes a job; a fetch worker reads ESI's     *)
(* price list and publishes it as a result; a write worker upserts the     *)
(* prices, all at once, into the collection market_prices.  Workers        *)
(* acknowledge a message when they are through with it, die on every       *)
(* exception, and are started again by Kubernetes.  Their connection is a  *)
(* robust one: when it is lost the broker takes back what they have, and   *)
(* they go on with the message they are on, which they cannot acknowledge. *)
(*                                                                         *)
(* A price list is known by the version of ESI's data it was read from.    *)
(***************************************************************************)
EXTENDS Naturals, Sequences, FiniteSets

CONSTANTS
    Fetchers, Writers,  \* the replicas of the two Deployments
    Types,              \* the item types that have a price
    FetchPrefetch,      \* no limit is set: large
    WritePrefetch,      \* market_prices_write_prefetch
    MaxJobs,            \* bound: dispatches
    MaxVersion,         \* bound: versions of ESI's price list
    MaxFaults           \* bound: workers that die or lose their connection

ASSUME PricesAssumption ==
    /\ Fetchers \cap Writers = {}
    /\ {FetchPrefetch, WritePrefetch} \subseteq Nat \ {0}
    /\ Types # {}
    /\ {MaxJobs, MaxFaults} \subseteq Nat
    /\ MaxVersion \in Nat \ {0}

VARIABLES
    esi,                \* the version of ESI's price list, which only grows
    jobs, fetching,     \* market_prices.refresh_jobs
    fetched,            \* per fetch worker: the list it has read, 0 before
    published,          \* fetch workers that have published but not acknowledged
    cut,                \* per fetch worker: the refresh it was on when its connection was lost, or 0
    results, writing,   \* market_prices.refresh_results
    left,               \* per write worker: the types it has still to upsert
    late,               \* upserts under way of workers that are dead or have lost their connection
    prices,             \* market_prices: the version of each price, 0 if absent
    dispatched,         \* how many jobs there were: the refresh_ids so far
    faults,
    applied,            \* history: refreshes whose whole list has been upserted
    floor               \* history: ESI's version at the last dispatch from rest

jobVars == <<jobs, fetching>>
resultVars == <<results, writing>>
fetchVars == <<fetched, published, cut>>
vars == <<esi, jobVars, fetchVars, resultVars, left, late, prices, dispatched,
          faults, applied, floor>>

JobQueue == INSTANCE Broker
    WITH queue <- jobs, held <- fetching, Workers <- Fetchers, Prefetch <- FetchPrefetch
ResultQueue == INSTANCE Broker
    WITH queue <- results, held <- writing, Workers <- Writers, Prefetch <- WritePrefetch

Refreshes == 1 .. MaxJobs
Versions == 1 .. MaxVersion
Results == [refresh : Refreshes, version : Versions]

Init ==
    /\ esi = 1
    /\ JobQueue!Init
    /\ ResultQueue!Init
    /\ fetched = [f \in Fetchers |-> 0]
    /\ published = {}
    /\ cut = [f \in Fetchers |-> 0]
    /\ left = [w \in Writers |-> Types]
    /\ late = {}
    /\ prices = [t \in Types |-> 0]
    /\ dispatched = 0
    /\ faults = 0
    /\ applied = {}
    /\ floor = 0

(* No message and no upsert is under way.                                  *)
Idle == jobs = {} /\ results = {} /\ late = {}

(* Nor does a fetch worker go on with a job that was taken from it.        *)
AtRest == Idle /\ \A f \in Fetchers : cut[f] = 0

(* The job a fetch worker is on.                                           *)
Busy(f) == JobQueue!Working(f) \/ cut[f] # 0
Handling(f) == IF cut[f] = 0 THEN JobQueue!Current(f) ELSE cut[f]

-----------------------------------------------------------------------------
EsiChanges ==
    /\ esi < MaxVersion
    /\ esi' = esi + 1
    /\ UNCHANGED <<jobVars, fetchVars, resultVars, left, late, prices, dispatched,
                   faults, applied, floor>>

(* dispatch_refresh: a job with a new refresh_id.                          *)
Dispatch ==
    /\ dispatched < MaxJobs
    /\ dispatched' = dispatched + 1
    /\ JobQueue!Send(dispatched + 1)
    /\ floor' = IF AtRest THEN esi ELSE floor
    /\ UNCHANGED <<esi, fetchVars, resultVars, left, late, prices, faults, applied>>

DeliverJob(f) ==
    /\ JobQueue!Deliver(f)
    /\ UNCHANGED <<esi, fetchVars, resultVars, left, late, prices, dispatched,
                   faults, applied, floor>>

(* run_price_refresh_job: get_market_prices, then the result is published. *)
Fetch(f) ==
    /\ Busy(f)
    /\ fetched[f] = 0
    /\ fetched' = [fetched EXCEPT ![f] = esi]
    /\ UNCHANGED <<esi, jobVars, published, cut, resultVars, left, late, prices,
                   dispatched, faults, applied, floor>>

PublishResult(f) ==
    /\ fetched[f] # 0
    /\ f \notin published
    /\ published' = published \cup {f}
    /\ ResultQueue!Send([refresh |-> Handling(f), version |-> fetched[f]])
    /\ UNCHANGED <<esi, jobVars, fetched, cut, left, late, prices, dispatched, faults,
                   applied, floor>>

AckJob_BeforePublishing(f) ==
    /\ fetched[f] # 0
    /\ cut[f] = 0
    /\ JobQueue!Ack(f)
    /\ fetched' = [fetched EXCEPT ![f] = 0]
    /\ published' = published \ {f}
    /\ UNCHANGED <<esi, cut, resultVars, left, late, prices, dispatched, faults, applied,
                   floor>>
AckJob(f) ==
    /\ f \in published
    /\ cut[f] = 0
    /\ JobQueue!Ack(f)
    /\ fetched' = [fetched EXCEPT ![f] = 0]
    /\ published' = published \ {f}
    /\ UNCHANGED <<esi, cut, resultVars, left, late, prices, dispatched, faults, applied,
                   floor>>

Restart(f) ==
    /\ JobQueue!Requeue(f)
    /\ fetched' = [fetched EXCEPT ![f] = 0]
    /\ published' = published \ {f}
    /\ cut' = [cut EXCEPT ![f] = 0]
    /\ UNCHANGED <<esi, resultVars, left, late, prices, dispatched, applied, floor>>

(* ESI fails, a publish does, or the pod dies: nothing is caught.          *)
FetcherDies(f) ==
    /\ faults < MaxFaults
    /\ Busy(f)
    /\ Restart(f)
    /\ faults' = faults + 1

(* The connection is lost.  The broker takes the jobs back, to deliver     *)
(* them to any worker, this one too once it is connected again; but its    *)
(* handler lives on: with the job it was on, or with the next one, when    *)
(* the ack it has just sent does not arrive.                               *)
ConnectionLost(f) ==
    /\ faults < MaxFaults
    /\ JobQueue!Working(f)
    /\ JobQueue!Requeue(f)
    /\ \/ /\ cut' = [cut EXCEPT ![f] = Handling(f)]
          /\ UNCHANGED <<fetched, published>>
       \/ /\ f \in published /\ cut[f] = 0 /\ Len(fetching[f]) > 1
          /\ cut' = [cut EXCEPT ![f] = JobQueue!Following(f)]
          /\ fetched' = [fetched EXCEPT ![f] = 0]
          /\ published' = published \ {f}
    /\ faults' = faults + 1
    /\ UNCHANGED <<esi, resultVars, left, late, prices, dispatched, applied, floor>>

(* message.ack raises on the channel the job came by, which is closed.     *)
AckFails(f) ==
    /\ f \in published
    /\ cut[f] # 0
    /\ Restart(f)
    /\ UNCHANGED faults

DeliverResult(w) ==
    /\ ResultQueue!Deliver(w)
    /\ UNCHANGED <<esi, jobVars, fetchVars, left, late, prices, dispatched, faults,
                   applied, floor>>

(* One of the upserts that _upsert_prices gathers reaches the server.      *)
Upsert(w, t) ==
    LET result == ResultQueue!Current(w)
    IN  /\ ResultQueue!Working(w)
        /\ t \in left[w]
        /\ prices' = [prices EXCEPT ![t] = result.version]
        /\ left' = [left EXCEPT ![w] = left[w] \ {t}]
        /\ applied' = IF left[w] = {t} THEN applied \cup {result.refresh} ELSE applied
        /\ UNCHANGED <<esi, jobVars, fetchVars, resultVars, late, dispatched, faults, floor>>

(* All upserts have been answered.                                         *)
AckResult_AfterFirst(w) ==
    /\ left[w] # Types
    /\ ResultQueue!Ack(w)
    /\ left' = [left EXCEPT ![w] = Types]
    /\ UNCHANGED <<esi, jobVars, fetchVars, late, prices, dispatched, faults, applied, floor>>
AckResult(w) ==
    /\ left[w] = {}
    /\ ResultQueue!Ack(w)
    /\ left' = [left EXCEPT ![w] = Types]
    /\ UNCHANGED <<esi, jobVars, fetchVars, late, prices, dispatched, faults, applied, floor>>

(* An upsert fails and gather raises it, the pod dies, or the connection   *)
(* is lost and the handler lives on: any of the upserts it has still to do *)
(* may reach the server, or of those of the next result, when the ack it   *)
(* has just sent does not arrive.                                          *)
WriterDies(w) ==
    /\ faults < MaxFaults
    /\ ResultQueue!Working(w)
    /\ ResultQueue!Requeue(w)
    /\ \/ \E sent \in SUBSET left[w] :
            late' = late \cup
              {[type |-> t, version |-> ResultQueue!Current(w).version] : t \in sent}
       \/ /\ left[w] = {} /\ Len(writing[w]) > 1
          /\ \E sent \in SUBSET Types :
               late' = late \cup
                 {[type |-> t, version |-> ResultQueue!Following(w).version] : t \in sent}
    /\ left' = [left EXCEPT ![w] = Types]
    /\ faults' = faults + 1
    /\ UNCHANGED <<esi, jobVars, fetchVars, prices, dispatched, applied, floor>>

LateUpsert ==
    \E u \in late :
      /\ late' = late \ {u}
      /\ prices' = [prices EXCEPT ![u.type] = u.version]
      /\ UNCHANGED <<esi, jobVars, fetchVars, resultVars, left, dispatched, faults,
                     applied, floor>>

(* Every dispatch of the bound has been made and has had its effect.       *)
Finished ==
    /\ dispatched = MaxJobs
    /\ AtRest
    /\ UNCHANGED vars

FetcherStep(f) == DeliverJob(f) \/ Fetch(f) \/ PublishResult(f) \/ AckJob(f) \/ AckFails(f)
FetcherFault(f) == FetcherDies(f) \/ ConnectionLost(f)
WriterStep(w) == DeliverResult(w) \/ (\E t \in Types : Upsert(w, t)) \/ AckResult(w)

Next ==
    \/ EsiChanges \/ Dispatch \/ LateUpsert
    \/ \E f \in Fetchers : FetcherStep(f) \/ FetcherFault(f)
    \/ \E w \in Writers : WriterStep(w) \/ WriterDies(w)
    \/ Finished

Spec == Init /\ [][Next]_vars

(* Workers run, or are started again when they died, the servers answer,   *)
(* and a lost connection is restored.  Nothing makes anyone dispatch, ESI  *)
(* change or a fault happen.                                               *)
Fairness ==
    /\ \A f \in Fetchers : WF_vars(FetcherStep(f))
    /\ \A w \in Writers : WF_vars(WriterStep(w))
    /\ WF_vars(LateUpsert)

FairSpec == Spec /\ Fairness

-----------------------------------------------------------------------------
TypeOK ==
    /\ esi \in Versions
    /\ JobQueue!BrokerTypeOK(Refreshes)
    /\ ResultQueue!BrokerTypeOK(Results)
    /\ fetched \in [Fetchers -> Versions \cup {0}]
    /\ cut \in [Fetchers -> Refreshes \cup {0}]
    /\ \A f \in Fetchers : fetched[f] # 0 => Busy(f)
    /\ \A f \in published : fetched[f] # 0
    /\ left \in [Writers -> SUBSET Types]
    /\ \A w \in Writers : left[w] # Types => ResultQueue!Working(w)
    /\ late \subseteq [type : Types, version : Versions]
    /\ prices \in [Types -> Versions \cup {0}]
    /\ dispatched \in 0 .. MaxJobs /\ faults \in 0 .. MaxFaults
    /\ applied \subseteq 1 .. dispatched
    /\ floor \in 0 .. esi

(* Refreshes that some message of either queue stands for.                 *)
Pending == {m.body : m \in jobs} \cup {m.body.refresh : m \in results}

(* The two queues and their workers together let a refresh go only after   *)
(* its whole price list has been written, whoever died or lost its         *)
(* connection between a publish and an acknowledgement.  A refresh that is *)
(* done may come up again: a fetch worker publishes its list late.         *)
Pipeline == INSTANCE WorkQueue WITH Jobs <- Refreshes, pending <- Pending, done <- applied

AtLeastOnce == Pipeline!Spec

(* Results may be applied in any order, twice or in part, and an older     *)
(* list may overwrite a newer one; but whenever nothing is under way every *)
(* price is at least as recent as ESI's list was at the last dispatch from *)
(* rest.  It is no rest while a fetch worker that lost its connection goes *)
(* on: its old list may come after one that was dispatched meanwhile.      *)
IdleMeansFresh == Idle => \A t \in Types : prices[t] >= floor

(* Every refresh is applied and its messages are gone at last.             *)
RefreshIsApplied ==
    \A r \in Refreshes : (r \in Pending) ~> (r \in applied /\ r \notin Pending)
=============================================================================
