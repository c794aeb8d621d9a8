# Localhost Airlines: TLA+ models, model checking and proofs

Localhost Airlines is a self-hosted flight price tracker. A FastAPI process takes
requests, an ARQ worker runs the jobs, PostgreSQL holds everything durable, Redis
holds the job queue and the login counters, and a React page polls for results.
This directory models the parts of the Python code in which an order of events, a
crash or a boundary decides whether the program is right.

Paths below are relative to the repository (`src/`).

## 1. Inventory

| Component | Code | State it keeps | Operations | Hard behaviour |
|---|---|---|---|---|
| Circuit breaker | `domain/reliability/circuit_breaker.py` | none (pure) | decide a call, next state after an outcome | thresholds, cooldown boundary, assertion |
| Source health | `infrastructure/postgres/source_health.py` | one row of `source_health` per source | `may_call`, `record_success`, `record_failure` | unlocked reads, column-level UPDATEs, first insert, crash during a trial |
| Search API and job | `apps/api/routers/searches.py`, `apps/worker/jobs/travelpayouts_search.py` | `searches`, `raw_payloads`, the Redis queue | create, enqueue, run, finish | commit before enqueue, Redis outage, redelivery, unclassified exceptions, three transactions per job |
| Observations | `infrastructure/postgres/observations.py` | `cash_observations` | `write_observation`, results query | overlapping transactions, commits out of fetch order |
| Partitions | `infrastructure/postgres/partitions.py`, `apps/worker/jobs/maintain_partitions.py` | partitions of two tables | ensure window, drop expired | month arithmetic, missed runs, partial failure |
| Scheduled collection | `apps/worker/jobs/scheduled_collection.py` | searches it creates | create and enqueue one search per route | a failure in the middle of the loop |
| Daily aggregates | `apps/worker/jobs/daily_aggregates.py`, `domain/aggregation/daily_price.py` | `flight_price_daily` | read, delete, insert | two transactions, runs that overlap, days and currencies of a period |
| Budget, expansion | `domain/search/*.py` | none (pure) | expand, score, rank, allocate | limits, ties, batching |
| Filters, quality gates | `domain/ranking/filters.py`, `domain/quality/gates.py` | none (pure) | classify offers, gate payloads | absent values, thresholds |
| Reference data | `apps/worker/jobs/reference_data.py`, `domain/reference_data/grouping.py` | airports, airlines, groups | parse, upsert, group | unique keys, codes that move, overlapping and partial ingestions |
| FX rates | `apps/worker/jobs/fx_rates.py`, `infrastructure/postgres/fx_rates.py` | `fx_rates` | ingest, rate as of a day | gaps, re-ingestion |
| Authentication | `apps/api/routers/auth.py`, `apps/api/auth/*.py` | `sessions`, counters in Redis | login, logout, current user, rate limit | expiry, counters without a deadline |
| Travellers | `apps/api/routers/travellers.py` | travellers, companions | create, edit, delete, pair | concurrent edits and deletes, a row read again after the commit |
| Web page | `apps/web/src` | the query cache | poll a search | polling must stop |

The components meet in these places. The API, and the daily collection, commit a row and then enqueue a job in
Redis, in that order and without a common transaction. The collection is itself a job of
the worker: it takes one of its slots and dies with it. A job contacts the source
between transactions, never inside one. And all searches of a source share one
`source_health` row, which the job reads before the call and writes in the transaction
that ends the search; that write also orders the observation writes of overlapping
searches (section 3). The nightly aggregation reads the observations while searches write
them. The airports, whose timezones the searches need, are written by the ingestion.

What makes each component correct is listed with its module below, and every hazard,
with its line and the property that watches it, in `PROJECT.json`.

## 2. Modules

| Module | Models | Extends |
|---|---|---|
| `CircuitBreaker` | the breaker's decisions as operators on a snapshot | |
| `SourceHealth` | the persisted breaker and the jobs that use it | `CircuitBreaker` |
| `SearchPipeline` | one search from the request to its end, with the breaker inside | `SourceHealth` |
| `ScheduledCollection` | the daily collection beside the searches it and the users make | `SearchPipeline` |
| `ScheduledCollectionProofs` | theorems about `SourceHealth`, and about the composition of the last three | `ScheduledCollection`, `TLAPS` |
| `PriceHistory` | abstract specification: what the table of observations promises | |
| `Observations` | `write_observation` in overlapping transactions | (instantiates `PriceHistory`) |
| `DailyAggregates` | the nightly job beside the searches whose rows it reads | `Observations` |
| `ObservationsProofs` | theorems about `Observations`, that it implements `PriceHistory` among them, and about `DailyAggregates` | `DailyAggregates`, `TLAPS` |
| `Partitions` | bootstrap, rolling window and retention of partitions | |
| `PartitionsProofs` | theorems about `Partitions`, month arithmetic included | `Partitions`, `TLAPS` |
| `Selection` | what a filtered list keeps, in its order | |
| `SearchPlanning` | expansion, batches, and a call budget spent day after day | `Selection` |
| `SearchPlanningProofs` | theorems about `SearchPlanning` | `SearchPlanning`, `TLAPS` |
| `OfferEvaluation` | quality gates, hard filters, preferences | `Selection` |
| `OfferEvaluationProofs` | theorems about `OfferEvaluation` | `OfferEvaluation`, `TLAPS` |
| `Grouping` | airports clustered into metropolitan groups, and what a grouping is | |
| `ReferenceData` | ingestion of airports, airlines and groups in overlapping runs | `Grouping` |
| `ReferenceDataProofs` | theorems about `ReferenceData` | `ReferenceData`, `TLAPS` |
| `Authentication` | login limiter and sessions under concurrent requests | |
| `AuthenticationProofs` | theorems about `Authentication` | `Authentication`, `TLAPS` |
| `Travellers` | profiles and companions edited by several sessions | |
| `TravellersProofs` | theorems about `Travellers` | `Travellers`, `TLAPS` |
| `MC...` | the instances for TLC: symmetry, concrete months, feeds, questions | its module |

Operators named `..._<word>` after another operator (`next_state_after_failure_early`)
are mutants: plausible bugs, each of which makes TLC find a named property violated.

## 3. How the models correspond to the code

**`SourceHealth`.** `health` is the row, `NULL` before the first insert. A transaction is
a read step (`MayCallAllows`, `RecordGet`) and a commit step (`CommitMayCall`,
`CommitUpdate`, `CommitInsert`), since `db.get` takes no lock and PostgreSQL runs READ
COMMITTED. The ORM's UPDATE names only the columns whose value differs from what the
session loaded; `UpdateRow` does the same, so two transactions can leave a row neither
of them wrote. `PersistGet` is the second lookup in `_persist`, answered by the identity
map unless the first found nothing. `MayCallRejects` is the job's own BLOCKED error: the
handler feeds it to `record_failure` like one of the source's (the client itself never
produces BLOCKED). `MayCallAsserts` is the AssertionError of `may_attempt`, `CommitConflicts`
an insert that another job's insert forestalled, `TransactionFails` a transaction the database
ends. `genuine` and `tally` are history variables: the failures of the source itself, and the failures
recorded since the last recorded success. `tally` is `NULL` from the moment one job writes over what
another recorded until a success is recorded over the very row it read.

**`SearchPipeline`** adds the API handler (`CreateSearch`, `EnqueueJob`, `EnqueueFails`),
the queue (`StartJob`, `DropJob`, `FinishJob`) and the handler's steps around the breaker.
The Redis pool is created on the first request and cached, so a later enqueue can fail
after the row is committed. ARQ is external: a job stays in the queue until it finishes,
is started again after a crash, at most `MAX_TRIES` times, and is cancelled for good after
`JOB_TIMEOUT`, counted from when the job asks the breaker. Error kinds are grouped by how the code
treats them. `DatabaseFails` is any of the job's transactions failing; `StartJob` has the first one, after
which the search is still PENDING and the job gone.

**`ScheduledCollection`** adds the cron's job. `CommitNext` and `EnqueueNext` are the two halves
of one turn of its loop; `EnqueueNextFails`, `CollectionCancelled` and `WorkerDiesToo` are the ways
out of the middle of it. `abandoned` is a history variable: the searches a run had in hand, committed and
not enqueued, when it ended. `routes` stands for the distinct routes of the searches table, whose rows
are never deleted, and grows with a user's search. `Occupied` counts it among the worker's slots.
The collection also contradicts the comment at `apps/worker/main.py:73`, which has the search run
"only on an explicit user search request".

**`Observations`.** `record_success` runs before the first `write_observation`, and the
session flushes its UPDATE before that SELECT; so the transaction holds the row lock of
`source_health` while it writes observations. `Flush` takes that lock. `clock` counts
fetches, so `retrieved_at` is unique. `PriceHistory` has the same `rows` and `polls`, and one
action that records a whole poll; the refinement mapping is the identity on both.

**`DailyAggregates`.** One transaction reads all rows (`ReadRows`); a second one deletes the table
and inserts what was computed. `doomed` is what the DELETE covers, the rows committed when it
began; `EndDelete` waits for a transaction that deleted the same rows. The date and the currency of
a row's key are kept, the route is fixed. `computed` is a history variable. The code sorts a bucket by
price; `sorted` is any sorted sequence of it, since only the prices are used.

**`Partitions`.** A date is a `<<year, month>>`, since every bound is the first of a month.
One row stands for all rows. `overdue` counts months since the window was last ensured.

**`SearchPlanning`.** `expand`, `collapse_batchable`, `score_task`, `rank_tasks` and
`allocate_budget` are operators. Nothing in the repository calls them but their tests, so the
caller is external: it asks a query, allocates the budget of a day, and learns of some of the
calls (`CallsReturn`). Factors of the score are numerators over a denominator common to a
request's tasks, which leaves their order as it is; `gain` is left out, since nothing sorts
by it. `allocate_budget` takes tasks, as in the code, although its docstring says that
batches are collapsed before it. `Picked` places an element by how many chosen ones precede it.

**`OfferEvaluation`.** Every gate, filter and preference is an operator on an offer that keeps
the fields they read; `raises` says where a predicate would raise. Again only tests call
them: the caller gates one offer after another, filters, then ranks. Scores are added as integers (`SumOf`). Times are minutes; the
bounds of a time of day are inclusive as in the code.

**`Grouping`** translates `derive_groups` with its union-find, path halving included; `MetroSystems`
is the definition it is compared with. Which of two equally near hubs of different systems a regional
airport joins depends on the order of the file, hence `Untied`. Distances are a constant.

**`ReferenceData`.** A run fetches, then loads and commits airports, then airlines, then groups. At
commit the ORM writes the columns that changed since the load: `Upsert` is that write over the
table as it is by then, `Updated` one UPDATE, and a unique key is checked row by row in the order of the
primary keys. `ReadGroups` is the query that first flushes the deletes of `ReadMembers`, and waits
for whoever deletes the same rows. `Init` is the system after a first ingestion that ran alone.
A feed never repeats an airport's ICAO code; it may give one IATA code to two airports. A run reads one
state of the sources: the three requests it makes are not separated, but a state in which the files belong to
different publications is one of the states the sources go through.

**`Authentication`.** Every await of a login is a step: `Incr`, `Expire`, the refusal's TTL,
the password check. `FailOpen` is the `except RedisError`; `IncrReplyLost` is the same with
the command applied. `get_valid_session` sets `last_seen_at`, which the session flushes with
the next query (`db.get` of the user) or the commit: `Flush` takes that row lock, `Logout` waits
for it. `EndRequest` is the end of `get_session`, which closes without committing: a route that
only reads loses the touch (the docstring says "committed or rolled back for it"). `window` and
`admitted` are history variables.

**`Travellers`.** A request reads, commits, and refreshes the row in a new transaction to answer;
the touch of the session row serializes the transactions of one session, so two sessions of one
user are the ones that meet. `Written` is the ORM's UPDATE of the changed columns, `Violates` what the keys
refuse to `add_companion`. A deletion takes its profile (`DeleteTakes`), then its companion rows one by one as
the two foreign keys cascade (`CascadeLocks`), and others wait for what it holds; of deletions that wait for each
other in a circle one is aborted (`DeadlockAborts`). `DatabaseFails`, and `Fails` in a commit that is applied and
not answered, are lost connections and aborted transactions: 500, or 409 from the commit of `add_companion`, which
catches every exception. `deleted`, `updated`, `rivals` and `fault` are history variables, kept only for what a
request or its last answer is about. `OVERLONG` is a country or carrier code that the validators let through and the
column does not hold.

## 4. What is checked

TLC, `tlc -workers 2 -config X.cfg MCX.tla`; `Authentication.tla` is its own instance,
`MCScheduledCollection` is the module of both pipeline runs and `MCDailyAggregates` that of
`Observations`. The longest runs take two to three minutes.

| Run | Bounds | Shows |
|---|---|---|
| `SourceHealth` | 2 jobs, threshold 2, cooldown 3, job timeout 1, clock 5, 1 crash, failing transactions, fair | `RowIsAccurate`, `FailedTrialRestartsCooldown`, `ProbedAfterCooldown` |
| `SearchPipeline` | 2 searches, of users or of one collection over up to 2 routes, 2 slots, threshold 2, cooldown, job timeout and clock 1, 1 crash, 1 outage, failing transactions | `OneStrandedPerRun`, `NeverOpensEarly` under every interleaving of two jobs, `FinishedStaysFinished` |
| `SearchPipelineLive` | the same with 1 slot, 1 start per job, threshold 1, fair; the row absent or OPEN without a date | `QueuedJobEnds`, `PendingIsRun`; `UndatedIsPermanent` |
| `Observations` | 3 searches of one itinerary, 3 prices in 2 currencies, 2 days, 2 aggregators, crashes | `EndpointsObserved`, `RowsAreRuns`, `Serializable` (implements `PriceHistory`); `DailyIsOneRun`, `PollsWithinBounds` |
| `Partitions` | the code's constants, 18 months, up to 3 missed runs | `WindowCoversToday`, `OnlyOldPayloadsAreDropped`, `NothingOutlivesRetention` |
| `SearchPlanning` | 4 queries of up to 4 tasks across a month, budgets 0, 1, 2 and 5, 5 days, any history | `TasksAreConserved`, `UnknownOutranksKnown`, `NoTaskStarves` |
| `OfferEvaluation` | every slice of up to 2 flights of a grid of times, 3-flight slices, answers of up to 3 assorted offers, 15 questions | `AcceptedCanBeFlown`, `FiltersNeverRaise`, `FilteringAndRankingCommute` |
| `ReferenceData` | 2 overlapping runs, 4 states of the sources, 2 changes, 1 failure, fair | `GroupedAirportsExist`, `GroupsAreMetroSystems`, `FeedIsReflected`; `derive_groups` against `MetroSystems` on 4096 lists of airports |
| `Authentication` | 2 requests, limits 1 and 2, 2 windows, 1 session, 1 fault, fair | `ChecksAreLimited`, `CountersExpire`, `LockoutEnds`, `WorkIsAuthorised` |
| `Travellers` | 2 sessions of one user, 2 ids of either of two users, bodies of 2 columns, crashes, failing transactions | `ErrorsHaveACause`, `ConflictMeansPaired`, `SuccessIsStored` |

What some of these say more exactly:

* `RowIsAccurate`: the row counts every failure since the last success and its columns describe one state of
  the breaker, however many jobs run, until one of them writes over an update it did not read. That does
  happen; the next success that is recorded over the row it read, with no other job's decision under
  way, sets everything right.
* `FailedTrialRestartsCooldown`: several trials may run at once, and one may re-open the circuit with a date read
  before another's. The circuit is still dated no earlier than the start of the job whose trial failed, because
  a trial is over before a cooldown is.
* `ProbedAfterCooldown`: rejections recorded meanwhile do not put the probe off, nor do crashes, timeouts and failed
  transactions.
* `FinishedStaysFinished`: a redelivered job does set a finished search back to RUNNING; nothing else
  touches it, and this happens at most once for each process that died.
* `PendingIsRun`: the exception is a fault at this search, between its commit and its enqueue: its own request
  was answered with an error, or its run of the collection ended with it in hand. A crash or an outage elsewhere
  excuses nothing.
* `OneStrandedPerRun`: the collection commits one search and enqueues it before the next, so a run
  that is cut short leaves at most one search that no job will ever run.
* `Serializable`: the overlapping transactions change the table as `PriceHistory` does, by one whole
  poll at a time. `RowsAreRuns` then holds as long as searches commit in the order in which they
  fetched; out of that order a period can end before it begins.
* `DailyIsOneRun`, `PollsWithinBounds` have the same premise. Without it a period that ends before
  it begins covers no day, its aggregate is missing, and two overlapping runs no longer collide
  on the unique key, which is what keeps them from leaving the rows of both.
* `FeedIsReflected`: an IATA code given to another airport while a row still holds it, or to two airports at
  once, violates the unique key and every later ingestion with it, which is the exception the property makes.
* `ErrorsHaveACause`: a request is answered with an internal error if the database fails it, if its row was
  deleted by another session while it ran (between its commit and its refresh although it was stored), if
  no column can hold its body, where 422 is due, or, for a deletion, if it deadlocked with the deletion of a
  companion. Deleting one profile twice at once is never an error.
* `ConflictMeansPaired`: "this companion relationship already exists" is false in two cases, when a profile was
  deleted meanwhile and when the database failed the commit, and in no other.
* `SuccessIsStored` is stated column by column: two sessions' bodies may be mixed in one row, but an acknowledged
  column is lost only to a change of that column.

Runs in which TLC finds a promise of the documentation broken:

| Run | Promise | What happens |
|---|---|---|
| `UndatedOpen` | an OPEN snapshot carries `opened_at` (`circuit_breaker.py:82`) | mixed updates leave OPEN without a date; every later search fails on the assertion |
| `UnclassifiedFailure` | every external failure is classified (`specifications.md:497`) | any exception but SourceError leaves the search RUNNING |

Seen in the same code and not made runs of their own: every caller is admitted while the
circuit is half-open (against "exactly one trial call", `circuit_breaker.py:21`, and
`source_health.py:42`); the breaker's own rejection is recorded as a failure of the source, so one recorded
after another job's success counts against it, and one recorded while a trial is under way re-opens
the circuit (never with a single job, and never the first opening: `NeverOpensEarly`); a failure of the
database is answered with 500, or with 409 by `add_companion`, where `docs/api.md:149` promises 503
(`ServiceUnavailableProblem`, `errors.py:92`, is raised nowhere); a search committed while
Redis is down is never enqueued (against `specifications.md:1219`), which is the exception
`PendingIsRun` makes; a poll that fetched earlier and commits later moves `last_seen_at` back
(`models_search.py:118`), which is why `RowsAreRuns` speaks of commits in fetch order; the login
limiter counts successful logins too (`docs/api.md:60` speaks of failed attempts), and a fault
between its INCR and its EXPIRE leaves a counter that locks the account out for good, although the
limiter is to fail open (`rate_limit.py:3`), which is the exception `CountersExpire` makes; a search redelivered after it
failed keeps its `failure_reason` while it runs and when it is ready (against
`models_search.py:79`); a success that read a clean row leaves a failure committed in
between counted (against `circuit_breaker.py:63`); `get_search_results` returns closed
price periods as "current observations" (`searches.py:141`); the migration's list of
months is fixed, so an install after 2027-02 refuses every insert until the next first
of the month.

**Why the bounds are enough.** The breaker's behaviour depends on its threshold and
cooldown only through comparisons. `SourceHealth.cfg` has a cooldown longer than two job timeouts as in the
code (15 minutes against ARQ's default of 5), a clock that passes one and lets the trial end, and failures
beyond the threshold. In the pipeline runs time hardly matters: `SearchPipeline.cfg` has 1 for cooldown, timeout and
clock, so that a circuit opens, half-opens and is tried again, and `SearchPipelineLive.cfg` never ends a
cooldown. They open the breaker with the only failures there are
and redeliver a job into it; two searches and two routes are the fewest that leave one behind while
another is not reached. Two jobs are the fewest that mix a row. Three overlapping
searches give every order of two commits around a third, and two aggregations every
overlap of their deletes and inserts; the theorems lift the former to any number of searches
and itineraries. The partitions run uses the real window, retention and bootstrap months.

A plan of four tasks has every pair of tasks on
either side of the budget; three offers have every pair across a removed one. Two requests
are the fewest that share a counter, limits 1 and 2 put the account's and the address's on
different sides, and two windows let a login straddle them; the theorems of `AuthenticationProofs` lift these.
The four feeds move a code up, move one down, drop a hub that links two others, relist it, and give one code
to two new airports in files of different publications; four airports on a line are the fewest with a chain of hubs and a regional airport between two of them.
Of two profiles each can be the traveller, the companion, and the other user's.

**Fairness.** Weak fairness of a job's or a login's steps (the event loop runs what is ready), of the
end of a call (the client has a 30 s timeout), strong fairness of the commit that admits a job to a trial in
`SourceHealth` (a database that fails now and then does not fail that one every time), weak fairness of the collection's loop once it has begun, of the return of Redis,
of the clock where a cooldown is waited for, and of the expiry of a Redis key that has a time to live. A run
of the ingestion is fair including its start, since the cron starts one every month. Nothing is assumed about requests, crashes or answers.

## 5. What is proved

TLAPS, `tlapm M.tla`, for every value of the constants under the named assumptions of the modules.
Every invariant and every action property of the passing runs is a theorem.

**`ScheduledCollectionProofs`.** The first part is about `SourceHealth` alone.

* `TypeCorrectness`, `NeverEarly`. `EarlyInv` says what each job's loaded row and staged snapshot may
  be relative to `genuine`: while fewer than `FAILURE_THRESHOLD` failures are committed, every
  committed, loaded and staged snapshot is closed and undated and counts no more than the failures
  committed, plus one for a staged failure. A mixed row takes each column from one of these.
* `RowAccuracy`. `TallyInv` adds to the property what each open transaction decided from: while no job has
  written over another's update, whoever has staged an outcome staged the breaker's answer to the row it
  loaded, and the commit either finds that row unchanged or gives the tally up. A clean success makes the
  row right whatever it was.
* `TrialsRestartTheCooldown`, with `2 * JOB_TIMEOUT < COOLDOWN`. A failed trial stages an opening no older than
  its job; that the UPDATE writes it rests on what it was decided from being what it was loaded with. Only the
  second lookup in `_persist` could part the two, and by then the row is younger than a cooldown, so it is
  not half-open (`AllYoung`).
* `PipelineTypeCorrectness`, `NeverEarlyInThePipeline`. Every step of the pipeline is a step of
  `SourceHealth` on its variables, so the invariants above carry over. `CollectionInv` adds `Life`,
  where one search may stand between its commit and its job's end.
* `StrandedIsBounded`. The property bounds the searches without a job by the runs cut short and the
  crashes. `LostIsBounded` counts only those the collection no longer has in hand: it holds at most
  one search that is committed and not enqueued (`committed`), and only the end of its run or a
  crash lets go of it.
* `FinishedIsFinal` follows from `Life` and from the starts of a job being counted by the crashes. `UndatedForever` has an invariant of its own, `UndatedInv`:
  on an OPEN row without a date every job ends before it reads the breaker or in its
  assertion, so that none comes to a step that writes the row. It is a safety property
  although stated in temporal form, so the fairness in the specification is not used.

**`ObservationsProofs`**, with `DailyAggregates`.

* `TypeCorrectness`, `RowsAreObserved`. The invariant adds what an open transaction sees: each of its
  rows ends in committed polls or in the poll being written; polls are only appended, so this
  survives other commits, and at the commit the poll joins the committed ones.
* `Serialization`: `Spec => History!Spec`. A writer holds the lock, so at most one writes and the
  committed rows stay what it began with; of each itinerary its own rows have either recorded the
  poll already or are still as committed. A commit then is one `Record`, every other step a stutter.
* `PeriodsAreRuns`. By the refinement only a whole poll is recorded at a time; `RecordKeepsRuns` shows that
  one poll extends the last maximal run or begins a new one.
* `DailyOfOneRun`. `AggInv`: no key of a committed row is ever lost (polls in order only begin or
  extend periods), and what a DELETE covers is the rows of one run. A later run therefore inserts
  every key an earlier one did, and the unique key refuses it while rows of the earlier one stay.
* `PollsAreWithinBounds`: what is sorted has its ends as bounds, the median lies between them, and
  the period that recorded a poll covers its day.

**`PartitionsProofs`.** The months are counted by `Index`; `Neighbours`, `MonthsFrom` and `MonthsBefore`
show by induction that the calendar operators of the code are arithmetic on it. `WindowIsCovered`
rests on `WindowIsEnsured`: both tables hold the window of the month `overdue` ago. `OnlyOldIsDropped`
and `SweepsAreComplete` rest on `RunsInOrder`: a run drops by the same reading of the clock as it
ensured by. `EarlyInstalls` is a hypothesis of two of them: the migration runs while its months still fill
the window. Without it they are false (section 4, install after 2027-02).

**`SearchPlanningProofs`.** Sorting and picking place things by counting, so the proofs rest on ranks: in
a finite total order every element has its place and every place is taken. An allocation then is
a permutation cut in two.

* `UnknownFirst`: what is executed is outranked by nothing passed over (`ExecutedIsNotOutranked`), and
  `OutrankedByDays` says in days what that means: the weights only break ties.
* `EveryTaskHasItsTurn`. `CoverageInv` counts: since any day `w`, as many tasks have been observed as
  the budget had calls, or all of them, because a task observed since `w` is called again only when
  no other is left.
* `TasksAreKept`: the nested loops of `expand` yield the product (`Loop`, `ExpansionIsTheProduct`) and
  batching partitions it. The hypothesis is `QueriesRepeatNothing`; the code keeps a repetition.

**`OfferEvaluationProofs`.** `FiltersCanRead`: what is past the gates passed them, and the slices the filters
index are then not empty. `AcceptedAreFlyable`: the gates look at adjacent segments, and the floors add up along the
slice, by induction. `FilteringIsNotRanking`: both lists go through the surviving positions in the
order of the stable sort, and through a finite total order there is one way. Scores are integers in
the model, floats in the code.

**`ReferenceDataProofs`.** `TypeCorrectness`. `GroupsAreOfStored`: a run past its airports has stored them, and no run
takes an airport away. `GroupsAreOfOneFeed`: who is about to replace the groups holds the lock of all their
rows and deletes all of them. The last two take from TLC that `derive_groups` agrees with `MetroSystems` on what is
published and finds a group (`SourcesAreGrouped`): of an empty table there is no row to lock.

**`AuthenticationProofs`.** `TypeCorrectness`. `LimitHolds`: the invariant counts, for each key and window, the
checks let through and the logins still on their way that no counter has refused: their sum stays
within the limit and, for the current window, within the counter, since INCR returns every value
once. `CountersAlwaysExpire`: between the INCR that returns 1 and its EXPIRE a request stands at that
step, whatever the others do. `LogoutIsFinal`: a request at work holds the lock on its session's row,
and the DELETE waits for it.

**`TravellersProofs`.** `TypeCorrectness`, `ErrorsAreExplained`, `ConflictsAreTrue`, `SuccessIsKept`. The invariant
says what a request in progress may still rely on (`Knows`): the profile it looked up is as
it was loaded, but for the columns another session has changed and unless a deletion has been noted since it
began; and an answer stays true for as long (`AnswerIsTrue`). `LocksKnown` and `RivalsKnown` explain a deadlock: only
companion rows of the profile taken are locked, so a deletion that waits for another one's lock shares a companion row
with it, and the two have met.

**Hypotheses and assumptions.** `2 * JOB_TIMEOUT < COOLDOWN`, `EarlyInstalls`, `SourcesAreGrouped` and `QueriesRepeatNothing` are
hypotheses of the theorems that name them; the instances satisfy them. The
ASSUMEs of the modules are what the settings and column types guarantee (limits are positive, the
calendar is monotone, times are integers, `NULL` is no value). Induction is by least elements, from
the well-foundedness of the naturals, with the property given as a set.

**Only model-checked.** `ProbedAfterCooldown`, `QueuedJobEnds`, `PendingIsRun`, `LockoutEnds` and
`FeedIsReflected`, because the prover has neither ENABLED nor fairness. That `derive_groups` is
`MetroSystems`: its union-find is a fold over pointers, compared with the definition on 4096 lists.

## 6. Not modelled

HTTP, parsing of bytes, compression, logging, rendering, password hashing and the formatting of
values; the placeholders (scraper, Telegram bot). The columns of `source_health` that only
inform an operator, and those of the reference tables and profiles that no key is on. FX rates:
one transaction inserts what is published and skips what is stored, so no order of two
runs can be told from another. The web page: it polls one search and only reads. Handlers that only
read. Overlapping first ingestions into empty tables; runs of the partition maintenance that overlap (the creations say
`IF NOT EXISTS`; of two runs that drop one partition the second fails, as a failed run of the model does); the ValueError of a negative budget. A job's timeout
counts from its question to the breaker and not from its start. PostgreSQL's and ARQ's own behaviour is
assumed as described above.

## 7. Plan

1. Done: the modules of section 2 and the theorems of section 5.
2. Normalization of the Travelpayouts answer: fields, the fingerprint, what is dropped.
3. An abstract breaker that is one atomic object, implemented by `SourceHealth` for as long as `tally` is not
   `NULL`.
4. That `derive_groups` is `MetroSystems`, by an invariant of its union-find (the roots reached are those of
   the pairs joined so far), which would discharge half of `SourcesAreGrouped`.
