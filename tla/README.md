# eve-build in TLA+

A verification project for eve-build, the FastAPI application that plans EVE Online
industry jobs. The modules are translated from `src/app` (paths below are relative to it,
unless they start with another directory); the TLC configurations check small instances and the `*Proofs` modules hold
theorems checked by TLAPS.

## The system

eve-build runs as several pods behind one Service. All of them share a MongoDB (the
documents), a Redis (a cache that may be absent) and, when enabled, a RabbitMQ with three
durable queues; the EVE SSO and ESI APIs are external. Every request handler is a coroutine: between
two `await`s anything else may run, in the same pod or in another one, and no handler
uses a Mongo transaction.

| component | state | operations | what is hard | what makes it correct |
|---|---|---|---|---|
| startup lock (`db/startup_lock.py`, `main.py`) | the document `startup` of `_locks` | acquire (upserting findAndModify), poll, time out, release; TTL sweep | lease never renewed, clock skew, crash while holding | one pod at a time in the body; bounded start; stale lock goes |
| migrations (`migrations/`) | `_migrations`, the SDE collections | `run_migrations`: ten ordered, recorded migrations | crash between or inside steps, overlap of two pods | recorded implies in effect; a pod that serves sees the migrated data |
| index sync (`db/index_sync.py`) | Mongo indexes, `_index_config` | create/replace/drop per record | crash between drop, create and record; a release rolled back | a pod that serves has the indexes of its release |
| plans (`services/plan.py`, `routes/plans.py`) | `plans`: a document with an array of jobs | create, add/update/remove job, set for all jobs, rename, delete, import | read-modify-write of the jobs array across awaits | nothing is lost, resurrected or emptied by concurrent requests |
| sign-in and tokens (`routes/auth.py`, `deps.py`, `services/character_tokens.py`, `services/eve_sso.py`) | `characters`: personal and corporation tokens; the session cookie | login, connect/disconnect corporation, refresh tokens, clear data | refresh races, token rotation, partial failure | a corporation token implies a corporation; no token is lost |
| ESI cache (`services/esi_cache.py`, `services/character_data.py`, `services/cache.py`) | a Redis key and a Mongo collection per kind and character | fill, invalidate, clear | fills in flight during an invalidation, doubled fills, swallowed Redis errors | no stale data after an invalidation; no duplicates |
| tracked-info pipeline (`services/tracked_info.py`, `scripts/*tracked*`, `db/rabbitmq.py`) | a durable queue | dispatch, refresh job | redelivery, worker crash, one bad job, TTLs against the schedule | what can be refreshed is never cold for long; one bad character does not block the queue |
| market prices (`services/market_prices.py`, `scripts/*market*`) | two queues, `market_prices` | dispatch, fetch, write | reordering, redelivery, partial writes, workers that go on after they lost their connection | no refresh is lost; when nothing is under way no price is older than the last dispatch from rest |
| build chain (`services/build_chain.py`) | none (pure) | resolve a recipe tree, aggregate | rounding, depth limit, cycles | enough of everything is built or bought |
| planetary industry (`routes/pi.py`, `routes/planetary.py`) | none (pure) | net flows, tier expansion | recipe cycles | conservation |
| SDE and location lookups (`services/sde.py`, `services/locations.py`) | Redis read-through, location collections | look up, resolve, persist | staleness across a migration, partial failure | only successful lookups persist |
| ESI client (`services/esi.py`) | none | GET with retry, page loops | retry limits, pages of different snapshots | |
| gauges (`services/db_gauges.py`), blueprints/industry/market pages, templates, Helm chart | none | read-only pages and metrics | | not modelled: formatting and I/O |

## Modules

A definition whose name ends in `_Something` is a plausible slip in the definition of
that name before the underscore. It is no part of any specification: put in the place of
the right one, it makes TLC refute the property that is there to catch it
(`PROJECT.json`, "mutants").

### StartupMutex, StartupLock — `db/startup_lock.py`, `main.py`

`StartupMutex` is what the lock promises: one execution inside at a time, entered and
left once. `StartupLock` is the lease. A *holder* is one execution of `startup_lock()`
(its name ends in a new uuid4, so a restarted pod is another holder). `lock` is the
document `startup` of `_locks`; `pc`, `stamp`, `started` and `wakeAt` are the locals.
One action per step between two awaits: `Start`, `Acquire` (the findAndModify matched,
or inserted), `Refuse` (DuplicateKeyError), `GiveUp`, `Sleep`, `Wake`, `EndBody` (the
`finally` sends the delete by holder), `Leave` (the server has applied it), `Crash`, and
Mongo's TTL monitor, `Sweep`. The lease must cover the body only: a release may still be
under way when it ends. `Tick` is time.
Each clock has a constant skew of at most `MaxSkew`, requests and wake-ups take at most
`DelayBound`, and the body at most `HoldBound`: the code guarantees none of the three, so
they are named parameters, and what depends on them says so. Left out is the call before
all this that makes sure of the TTL index (`create_index`, line 66): the wait, and so
`StartupIsBounded`, counts from the line after it.

Fairness (`FairSpec`, used by `lock_safe` for `StaleLockGoes` only): the event loop runs
what is ready and the server answers (WF of each execution's steps), the TTL monitor runs
(WF of `Sweep`), time passes (WF of `Tick`). No fairness makes anyone start or crash.

### Migrations, IndexSync, Startup — `migrations/`, `db/index_sync.py`, `main.py`

`Startup` is what a pod does before it takes requests (`lifespan`): inside the lock it runs
`Migrations`, then `IndexSync`, and serves. Its lock is an instance of `StartupMutex`,
whose implementation is `StartupLock` under `LeaseCoversHold`. Pods of several releases
start in any order, as in a rollout that is rolled back. `Fail` is an exception or a death
anywhere; `Finished` says that every start is over.

`Migrations` has the ten migrations as one script of database calls; between any two of
them the pod may die or a call may raise. `docs` are the collections as partial functions
from keys (a key is a batch of `insert_many`) to tags (the dump a batch stems from, the
fields added since, `twice` for rows stored twice); `recorded` is `_migrations`. The three
`industryActivity*` tables are one: the migrations treat them alike. `MigrationsInit` is a
new database or one that any earlier release left, including the release whose 0006
recorded itself without importing. A call has a collection and a source; `"none"` stands
for no collection or source. `CreateIndex` (0010) is refused by the server when the index is
there under another name, or another one under its name (`IndexConflicts`).

`IndexSync` has one action per Mongo call of `sync_indexes`: `Lookup` in `_index_config`
(`config`), `Drop` (a refusal is suppressed), `Create` (which the server refuses in a
conflict: `Conflicts`), `Record`, and for what is no longer configured `Drop` and `Forget`.
An index is a name and a value (its keys and options); all are of one collection. The
index of migration 0010 and the one configured under the same name are the same; a database
at which 0010 is recorded has that index, unless a release's own files have replaced it.
`torn` is history: by which releases a name was left between its drop and its record.

### PlanStore — `services/plan.py`, `routes/plans.py`

The collection `plans`. An operation of one Mongo call is one action. One that reads and
later writes (remove a job, set a structure or a build flag for all jobs, set one flag,
detect structures, blueprints) takes a *slot* between its two calls, which holds what it
read. `Owns` and `HasJob` are the filters of the Mongo calls. `Site` stands for
`has_engineering_complex` and `security_band`, which are only set together; jobs are
unordered; `by`, who added a job, is a history field. `Ops` names the operations that a
run lets interleave.

### CharacterTokens — `routes/auth.py`, `deps.py`, `services/character_tokens.py`, `routes/settings.py`

One character's document. `req` are requests and worker jobs under way: the callbacks
(`LoginExchange`/`LoginStore`, `ConnectExchange`/`ConnectStore`), and `Load` followed by
`ensure_fresh_tokens` (`EnsureFresh`: personal token, corporation token, `Persist`) and
the handler (`Answer`, `DisconnectCorp`, `ClearData`). A request keeps the document it
read, as the code does. A token is what comes and goes together (access token, expiry,
scopes, refresh token), with serial numbers for the two that matter. EVE SSO is external:
with `Rotates` a refresh replaces the refresh token and the old one is refused.
`Abandon` and `AnswerLost` are the raise, the death of the pod, the lost answer.
Requests that are refused before they write, the session cookie and the whitelist are
left out.

### EsiCache — `services/esi_cache.py`, `services/cache.py`, `services/character_data.py`

Per source a Redis key (`redis`) and a Mongo collection (`coll`, the number of copies of
a list it holds, a part of a list counting as one). A request (a page, or a job of
`tracked_info.py`) reads the document (`Begin`), then looks its sources up in some order:
`Hit`, or `Miss` (no key, a Redis error, entries of another release's type), `Fetch`,
`DeleteMany`, `InsertMany`, `SetCached`, with an await before each. `Refused` is the 401
or 403 of a corporation endpoint, `Leave` the answer, an exception or the death of the
pod. A sweep is `refresh_character_data` or `clear_character_data`: per source in order
`SweepCollection` and `SweepKey` (which may fail unnoticed), then `FinishSweep`. Lists are
known by the state of ESI's data they were read from (`esi`). Times to live are abstracted
to `Expire`, which may happen at any time.

### Broker, WorkQueue, MarketPrices — `db/rabbitmq.py`, `services/market_prices.py`, `scripts/*market*`

`Broker` is one durable queue as the workers use it: `Send` at the end, `Deliver` the
`Oldest` ready message (a set of one: two messages never have the same number) up to the prefetch limit, `Ack`, and `Requeue`, which puts all that a
consumer held back in its old place when its connection is gone. RabbitMQ is external; serial numbers are the
places. `MarketPrices` has two instances of it. A fetch worker's job is `DeliverJob`,
`Fetch`, `PublishResult`, `AckJob`; a write worker's is `DeliverResult`, an `Upsert` per
price (`asyncio.gather`: any order), `AckResult`. `FetcherDies` and `WriterDies` are an
exception, which no worker catches, or the death of the pod. `ConnectionLost` is not: the
workers connect with `aio_pika.connect_robust` (`db/rabbitmq.py:21`), so the broker takes
the jobs back and may deliver them to others, while the handler lives on with the one it
was on (`cut`, or the next one, when its last ack did not arrive). It still reads ESI
(`Fetch`) and publishes on the restored channel (`PublishResult`), perhaps long after the
job was redone; only its ack raises (`AckFails`), which ends the process. A writer that is
cut off or dies leaves upserts behind, any of its result, or of the next (`late`); the model
lets it take messages again at once, as its successor would. A price list is the version of
ESI's data it was read from.

`WorkQueue` is the promise of a queue and its workers: a job is not let go before it is
done, however often it is done, and only a job that is done may turn up again (`Repeat`);
`AtLeastOnce` shows the two queues together to keep it. `IdleMeansFresh` compares the prices,
whenever no message and no upsert is under way, with `floor`, ESI's version at the last
dispatch *from rest*. That nothing is under way is not enough for rest: a cut off fetch
worker may hold a list that it read before the dispatch, publish it when the new one has
been applied, and leave the older prices for good (until the next refresh). With `Idle` in
the place of `AtRest` in `Dispatch` TLC shows this; nothing in the code prevents it.

Fairness (`FairSpec`): Kubernetes starts a worker again, the servers answer and a lost
connection is restored (WF of each worker's steps, a cut off handler's included, WF of the
upserts under way). Nothing makes anyone dispatch, ESI change or a fault happen.

### TrackedInfo — `services/tracked_info.py`, `scripts/*tracked*`

A dispatch (`StartDispatch`, then `Publish` per job) enqueues a job per character and kind
of list and per corporation and kind, the latter for any one connected character. A worker
takes a job (`Deliver`), reads the document and refreshes its tokens (`Load`: absent,
refused, disconnected, or ready), and ends it with `Skip`, `Refresh` or `FetchFails`, then
`Ack`. `Dies` is every other exception and the death of the pod; for a character of the
constant `Unreachable` the refresh of the tokens raises every time (`Raises`). Meanwhile
pages fill the same keys, and users sign in, connect, disconnect, clear their data or
revoke the grant. Of a list only the ticks its Redis key has to live are kept (`life`; a
tick is a quarter of an hour); the fill is `EsiCache`'s and the token refresh
`CharacterTokens`'. Left out is a worker that goes on with a job after its connection was
lost (`ConnectionLost` in `MarketPrices`): it does no more than fill a list once more. A tick happens when the queue is empty: workers that keep up are an
assumption of the model, as the queue's length is what KEDA scales them by. Time has no
bound; `cold` counts the ticks a list is cold although a job could read it.

Fairness (`FairSpec`): the CronJob runs, the workers are started again, requests are
answered or raise. Nothing makes users act, time pass or anything fail.

### BuildChain, BuildOrder — `services/build_chain.py`

`BuildChain` is the walk of `resolve_build_chain` as a state machine: one action per
iteration of the `for` (`Buy`, the `continue` branch; `Build`, the rest), `NextLevel` per
iteration of the `while`, `Finish` for the leftovers of the depth limit. A dict of
quantities is a function into naturals. `MaterialQuantityPerRun` computes in integers what
the code computes in floating point (both give the same for every base quantity up to
3000, each efficiency and each structure, by enumeration). Names, prices, times
and the sum over the jobs of a plan are left out. `Layered` is what the code assumes of game
data: no cycle, and no deeper than `_MAX_DEPTH`; `NothingIsLost` and `EnoughWithoutWaste`
do without it.
`BuildOrder` goes on from there with `_topological_order`, whose variables (`ordered`,
`visited`, and `calls`, the steps whose `_visit` is under way) it adds to those of
`BuildChain`. A call of `_visit` that does not return at once is `VisitTarget` or
`VisitMaterial`, the end of its loop is `Return`; a call for what was visited changes
nothing, so the loop goes on with any material that was not. Which one is left open: the
order of a dict's keys is abstracted, and whatever holds, holds for every order.
`ResolveSpec` is both parts, one after the other.

`EnoughWithoutWaste` is as strong as the code allows: an item that is needed at several
levels gets one step, but its runs are rounded up level by level, so the step may have one
run too many for each further level.

## Runs

| run | bounds | shows |
|---|---|---|
| `lock_safe` | 3 holders (one inside, one waiting, one late), `HoldBound + MaxSkew < Ttl`, 1 crash | mutual exclusion, the holder's document is live on every clock, a start is bounded, the lease implements `StartupMutex`, a dead pod's document goes, a late release never removes its successor's |
| `startup` | 3 starts of pods of 3 releases, 2 batches per table (a table can be half imported), every earlier state of the database; from one release to the others an index is changed, dropped, renamed | recorded migrations are in effect, who serves serves migrated data (no row twice) with the indexes of its release, no duplicate key |
| `plan_jobs` | 2 characters, 2 plans, 2 jobs, 2 requests between read and write, all operations | jobs stay in their plan and with their owner; only the two bulk operations lose, revive or revert jobs; deleted plans stay deleted |
| `plan_last_job` | 1 plan, 3 jobs, 2 slots | **violation**: two removals empty a plan |
| `tokens` | 2 requests, 3 tokens issued, refresh tokens replaced at each use | tokens stay with their grant; only who was refused is signed out; a replaced token's successor is stored or on its way; cleared stays cleared |
| `tokens_orphan` | 2 requests, 3 tokens, refresh tokens kept | **violation**: connected without a corporation |
| `esi_cache` | 2 requests, 1 sweep, 1 personal and 1 shared source, 2 states of ESI | copies are bounded; a failed fetch keeps the list; a refresh takes effect unless a fill is in flight |
| `esi_cache_cleared` | as `esi_cache` | **violation**: a fill in flight stores a list after the clear |
| `build_chain` | 4 items; every graph without a cycle in which each item is made of any of the later ones (quantities 1 and 15), every cycle of two items; every choice of components to build; `MaxDepth` 4; blueprint efficiency 0 or 10, the best structure or none | demand is met once, by enough runs and less than one run too many per level; every step is listed once and in building order, whichever way the materials are gone through |
| `market_prices` | 2 refreshes, 2 fetch workers, 1 write worker, 2 prices, 2 versions of ESI's list, 1 fault (a death or a lost connection), prefetch 2 (writer) and without limit (fetchers) | a refresh is let go only when it is written whole, and is in the end; when nothing is under way prices are as recent as the last dispatch from rest |
| `tracked_info` | 1 worker (the chart's default), prefetch 2, 2 characters of which one has the corporation's role, colonies living 1 tick and corporation assets 4, a dispatch every 2, 1 fault, 1 change by a user, no bound on time | lists that can be refreshed are cold for one period at most; the queue empties |
| `tracked_blocked` | 1 worker, 2 characters, one of them unreachable | **violation**: the other's jobs are never done |

Why these bounds are enough to be interesting: every race in these protocols is between
two parties (a reader with an old view and a writer), so two requests exhibit it; the
third holder of the lock is the one that reclaims while a second is late to release. Two
batches, jobs, plans or sources tell "all" from "some". Two refreshes of the prices with two fetch workers
are enough for one list to overtake the other, and for a job to be redone while the worker
that lost it goes on; the upserts that a writer leaves behind run beside the one writer's
own. (A second writer makes ten times the states, too many for the temporal property; the
theorems have any number of them.) Three tokens are a login, a
connection and a refresh, or a login and two refreshes of it. The proofs below carry the
named properties over to all sizes.

Symmetry is used in the runs without liveness only: holders, requests, slots, plan ids
and characters are compared for equality and nothing else. `CHECK_DEADLOCK FALSE` is set
where the model stops because a bound is used up: plan and job ids in `PlanStore`, tokens
in `CharacterTokens`. `StartupLock`, `Startup` and `MarketPrices` say with `Finished`
when they may stop, `EsiCache` and `TrackedInfo` never do. `BuildChain` stops when the
result is there.

## Findings

1. `services/plan.py:242`: the "last job" guard of `remove_job` is tested on an earlier
   read; two concurrent removals leave a plan without a job (`plan_last_job`).
2. `services/character_tokens.py:70`: a refresh that began before a disconnect writes the
   corporation's token back: connected, with `corporation_id` None (`tokens_orphan`).
3. `services/esi_cache.py:47` against `services/character_data.py:412`: a fill in flight
   stores a list of a character after it was cleared (`esi_cache_cleared`).
4. `services/tracked_info.py:99`: the docstring of `run_refresh_job` promises that one bad
   character does not block the queue, but `ensure_fresh_tokens` is outside its `try`, and
   the `try` catches `HTTPStatusError` only: a worker that dies of one character's job gets
   that job back first (`tracked_blocked`).

By the way, without a run that refutes a documented promise:

- `services/plan.py:200`: `set_structure_for_all_jobs` (and `set_build_flag_for_all_jobs`)
  write back the whole array they read; a job added meanwhile is lost. `JobsLeaveByRemoval`,
  `RemovedStaysRemoved` and `QuantitySurvives` except these two operations (`BulkWrite`),
  and show that they are the only ones that do such things.
- `db/index_sync.py:65`: a pod that dies between a drop and the record leaves the record of
  an index that is gone. The next pod of the same release repairs it; after a rollback the
  old release finds its own record and serves without the index. `ServesWhatItConfigured`
  excepts this case (`torn`), and without the exception it is violated.
- `db/index_sync.py:67`: an index that is renamed in the configuration conflicts with
  itself, since the old name is dropped only after all are created: the start fails.
- `charts/eve-build/values.yaml:214-217` calls `*/30` "comfortably more often than the
  shortest cache TTL (15 minutes, for PI colonies) so the cache never goes fully cold":
  in `tracked_info` colonies are cold for a quarter of an hour in every half, and a list
  of an hour for up to half an hour; `ColdIsBounded` is what holds.

## Theorems

All are checked by TLAPS to the last leaf, for every value of the constants that satisfies
the modules' assumptions: distinct model values, numbers that are naturals, finite sets of
requests and of types. Every safety invariant and action property of the passing runs is
proved (`PROJECT.json`, "theorems"); what is only model-checked is named at the end. In every
proof module the inductive invariant comes first, then a lemma per action or group of
actions, then the theorems.

`StartupLockProofs`. `TimeInv` bounds what each execution has used of its time; `LeaseInv`
says that whoever is in the body owns the document, with the expiry it asked for; it is
inductive only together with `TimeInv`, because a reclaim is excluded by the *stamp* of the
reclaiming request, which was taken earlier and on another clock. `BudgetInv` sums the
time of a whole start. `OneInside`, `LeaseOutlivesBody` and `ImplementsMutex` assume
`LeaseCoversHold` (`HoldBound + MaxSkew < Ttl`); `TypeCorrect`, `LiveLockKept` and
`StartupBounded` assume nothing of the body's length. The assumption is the real condition
of safety: the lease is never renewed, and a body that outlives it shares the lock.

`StartupProofs`, on the lock as `StartupMutex` has it. `SyncInv` is about the index sync: a
record of `_index_config` is true of its index, or a pod died in between (`torn`), or the
pod inside is at it (`Replaces`); `Progress` says what that pod has come through so far. It
takes both: the properties of a pod that serves are what its `Progress` was when it left,
and nobody but the next pod inside disturbs them. `MigInv` is about the migrations. The
lemmas up to `ScriptIsOnePart` show that the script is one chain of calls (`Follows`), in
which units come by `Rank`. Then, at every moment: the recorded units are those below a
rank (`Done`); every recorded unit is in effect (`Effects`); a pod that stands in a unit
finds just the units before it recorded, and what its own calls so far have made is there
(`Position`, `Ready`). `Effects` is weaker than "as this dump would make it": batches
are there with the fields, of one dump or the other, for that is what survives pods of
several releases and a run that was cut off; that no later unit takes it away again is
`CopyKeepsEffects`. `RecordedTookEffect`, `ServedWhenMigrated` and `NothingCollides` follow. The
position a pod begins at is a least number (`LeastNatural`, from the well-foundedness of the
naturals); this takes the place of induction.

`PlanStoreProofs`. What an operation does to the plans is one of six kinds of step (`Insertion`,
`Addition`, `Edit`, `Deletion`, `Pull`, `WholeWrite`; lemma `EveryStep`), and each property is
shown of the kinds. `OnePlanPerJob` needs `ClaimInv`: a request that holds a whole array
of jobs claims them for its plan, since it may write them back; `OwnJobsOnly` likewise
needs that the held jobs are the requester's. The four action properties need only the
types and the kinds. That `"unused"` and `"deleted"` are no characters is an assumption on
the model's own marks.

`CharacterTokensProofs`. `TokenInv` says which tokens can exist (`SsoInv`), that the
document holds tokens of the right grant and is whole or absent (`DocInv`), and what a
request knows of its copy at each await (`ReqInv`): at `personal` the copy is still what
was read, at `signedout` the token read is among the refused. The properties are not
inductive without `ReqInv`, since a request writes later what it knew earlier.
`TypeCorrect`, `GrantsKept`, `SignedOutWasRefused` and `ClearedIsCleared` follow from it.
`SuccessorIsStored` needs `RotationInv` on top: tokens of the two grants never meet
(`Apart`), a token that a request has got and not stored is nobody else's (`Private`), and
what a request will write is what it got or what it read (`Regular`).

`EsiCacheProofs`. `CacheInv` adds to the types that every list in flight is at least as
recent as the last undisturbed sweep of its source (`FlightInv`): that is why the fill
that completes after a sweep does no harm if it fetched after it. `CopiesBounded` rests on
`RoomInv`: the copies in a collection and the requests about to insert into it are together
no more than the requests; a `delete_many` restores this with all the room there is, an
`insert_many` turns a request into a copy. `OldListIsKept` is `FlightInv` again: whoever is
about to delete holds a list.

`MarketPricesProofs`. A lemma per operation of `Broker` says what it does to the messages
and to who holds them, and keeps `QueueInv`: a message is delivered to one worker at most,
at one place. `PricesAtLeastOnce` shows that every step of the two queues is a step of
`WorkQueue` or none; it needs `HandOver`, which says that a fetch worker that has published
has its result in the second queue or all in the prices, so that to acknowledge the job
loses nothing, and that what a cut off one is on is in a queue or done (`CutOff`), so that
its late result is a step of the abstract queue too. `RestIsFresh` needs `FreshInv`:
whatever is on its way, an upsert that outlived its writer and the list of a cut off fetch
worker included, is as recent as `floor`. Assumed are at least one type and
one version of ESI's list.

`TrackedInfoProofs` repeats the lemmas on the queue for the one it has. `ColdForOnePeriod`
needs `ColdInv`: a list is cold no longer than the ticks since the schedule's last time, or
no longer than a period and what will fill it is still coming (`Coming`): the dispatch is
due, its job is not yet published, or it is in the queue and no worker has got past the
point where it would have been given up. As the model has a tick only when the queue is
empty, this rests on workers that keep up.

`BuildChainProofs`, on `BuildChain` and `BuildOrder`. `RunsAreEnough`: what a step's runs make exceeds what is needed by less
than one run for each level that has looked at the item (`RoundingInv`). `BuiltAsAsked` is
for layered recipes: for any assignment of levels, what the walk still has to look at is
deeper than what it has seen (`Reached`), so nothing is left when it reaches its depth limit, and what is
built and what is bought stay apart (`Sorted`). `DemandIsMet` is `NothingIsLost`
for any recipes; the property is inductive as it stands, and the work is in the
sums: `SumFunction` is a fold, whose recursive function is shown to exist and to add one
element after the other (`SumsExist`, `SumByOne`), each by a least counterexample.

`ListedOnceInOrder` is about `_topological_order`, and for any recipes too. That the list
is complete needs that every step is reached from the target. No path is counted for this:
`FromTarget` says that any set that holds the target and, with a step, its materials, holds
every step and all demand still to be looked at. It is inductive, and the visited types are
such a set once the last call has returned. The order is shown for steps without a cycle
(`Acyclic`), which recipes without one give, and others too when the job buys an item of
the cycle; the depth limit does not matter. It takes two facts: the calls under way lead
from items to what they are made of (`CallsDescend`), so that a visited material of the
innermost one is not under way, and a listed step's components are listed (`ListedFirst`),
so that none can follow.
`ResolveWalks` carries the theorems on the walk over to `ResolveSpec`, the run's specification.

Only model-checked: liveness (`StaleLockGoes`, `RefreshIsApplied`, `JobsComeToAnEnd`), which
rests on fairness and ENABLED, beyond this prover. The four violations are TLC's
counterexamples.

## Not modelled

Formatting, templates, metrics and configuration; the ESI client (its failures are those
of its callers); OAuth state, PKCE and signature checks, the session cookie; the Helm chart
except for the numbers that the lock and the schedule are configured with; the refresh of
the prices within the request that takes the place of the queues when RabbitMQ is
disabled; the sum of a shopping list over the jobs of a plan; planetary industry, pure
arithmetic over recipe tables; the lookups of the SDE and of locations, read-through caches
whose overlaps are those of `EsiCache`.

## Plan

The modules are there: `StartupMutex`, `StartupLock`, `Migrations`, `IndexSync`, `Startup`,
`PlanStore`, `CharacterTokens`, `EsiCache`, `BuildChain`, `BuildOrder`, `Broker`,
`WorkQueue`, `MarketPrices`, `TrackedInfo`, each component with its module of proofs.

Nothing of it is left undone. What would extend it: the sum of a shopping list over a plan's
jobs, and the recipes of planetary industry, as modules beside `BuildChain`.
