--------------------------- MODULE SearchPipeline ---------------------------
(***************************************************************************)
(* One search from the HTTP request to its terminal state: the API handler *)
(* that commits the row and enqueues the job                               *)
(* (src/apps/api/routers/searches.py), the Redis queue and the ARQ worker  *)
(* (external, as src/apps/worker/main.py configures them), and the job     *)
(* (src/apps/worker/jobs/travelpayouts_search.py) with the circuit breaker *)
(* of SourceHealth inside it.                                              *)
(*                                                                         *)
(* Every search has one job, so Jobs is also the set of search ids.  pc,   *)
(* outcome, loaded and staged of SourceHealth say where the job stands in  *)
(* may_call and in the transaction that records the outcome; step says     *)
(* where it stands in the rest of the handler.                             *)
(***************************************************************************)
EXTENDS SourceHealth

CONSTANTS
    MAX_JOBS,    \* jobs the worker runs at once (ARQ's default is 10)
    MAX_TRIES,   \* starts of one job before the queue library drops it (5)
    MaxOutages   \* bound: Redis outages in one behaviour

VARIABLES
    search,   \* the committed rows of the searches table, NULL if absent
    request,  \* the API handler that creates each search, or "collected" if none does
    pool,     \* the API process holds a Redis pool
    redis,    \* Redis answers
    outages,  \* Redis outages so far
    queue,    \* jobs Redis holds: enqueued and not yet finished
    step,     \* where each job's handler stands
    kind,     \* the SourceErrorKind a handler is about to record
    tries,    \* starts of each job
    raw       \* searches whose payload is in raw_payloads

apiVars == <<request, pool>>
redisVars == <<redis, outages>>
jobVars == <<step, kind>>
pipelineVars == <<search, request, pool, redis, outages, queue, step, kind, tries, raw>>
vars == <<healthVars, pipelineVars>>

SearchState == {"pending", "running", "ready", "failed"}

\* One kind for each treatment: UPSTREAM_ERROR stands for RATE_LIMIT and TIMEOUT
\* too, NOT_AVAILABLE for AUTHENTICATION and BAD_REQUEST.
Kinds == {"UPSTREAM_ERROR", "BLOCKED", "NOT_AVAILABLE", "SCHEMA_CHANGE"}
CIRCUIT_RELEVANT_KINDS == {"UPSTREAM_ERROR", "BLOCKED"}

Search == [state : SearchState, failure_reason : Kinds \cup {NULL}, completed : BOOLEAN]

ASSUME SearchPipelineAssumption ==
    /\ MAX_JOBS \in Nat \ {0} /\ MAX_TRIES \in Nat \ {0} /\ MaxOutages \in Nat
    /\ NULL \notin Search

Steps == {"off", "started", "admitting", "fetching", "storing", "normalizing",
          "writing", "failing", "returned"}

PipelineTypeOK ==
    /\ TypeOK
    /\ search \in [Jobs -> Search \cup {NULL}]
    /\ request \in [Jobs -> {"none", "committed", "accepted", "error", "collected"}]
    /\ pool \in BOOLEAN
    /\ redis \in BOOLEAN
    /\ outages \in 0..MaxOutages
    /\ queue \subseteq Jobs
    /\ step \in [Jobs -> Steps]
    /\ kind \in [Jobs -> Kinds \cup {NULL}]
    /\ tries \in [Jobs -> 0..MAX_TRIES]
    /\ raw \subseteq Jobs

TablesInit ==
    /\ search = [s \in Jobs |-> NULL]
    /\ request = [s \in Jobs |-> "none"]
    /\ pool = FALSE
    /\ redis = TRUE
    /\ outages = 0
    /\ queue = {}
    /\ step = [s \in Jobs |-> "off"]
    /\ kind = [s \in Jobs |-> NULL]
    /\ tries = [s \in Jobs |-> 0]
    /\ raw = {}

PipelineInit == Init /\ TablesInit

-----------------------------------------------------------------------------
(* create_search, in the API process *)

NewSearch == [state |-> "pending", failure_reason |-> NULL, completed |-> FALSE]

\* The pool dependency is resolved before the handler runs and is cached; then
\* the PENDING row is committed, before anything is enqueued.
CreateSearch(s) ==
    /\ request[s] = "none"
    /\ pool \/ redis
    /\ pool' = TRUE
    /\ search' = [search EXCEPT ![s] = NewSearch]
    /\ request' = [request EXCEPT ![s] = "committed"]
    /\ UNCHANGED <<healthVars, redisVars, jobVars, queue, tries, raw>>

\* Mutant: the job id names the source, so a second job is taken for a repeat.
EnqueueJob_deduplicated(s) ==
    /\ request[s] = "committed"
    /\ redis
    /\ queue' = IF queue = {} THEN {s} ELSE queue
    /\ request' = [request EXCEPT ![s] = "accepted"]
    /\ UNCHANGED <<healthVars, redisVars, jobVars, search, pool, tries, raw>>

\* Mutant: the handler retries an enqueue that went through.
EnqueueJob_retries(s) ==
    /\ request[s] = "committed"
    /\ redis
    /\ queue' = queue \cup {s}
    /\ UNCHANGED <<healthVars, redisVars, jobVars, search, request, pool, tries, raw>>

EnqueueJob(s) ==
    /\ request[s] = "committed"
    /\ redis
    /\ queue' = queue \cup {s}
    /\ request' = [request EXCEPT ![s] = "accepted"]
    /\ UNCHANGED <<healthVars, redisVars, jobVars, search, pool, tries, raw>>

\* enqueue_job raises: the request is answered with an error, the row stays.
EnqueueFails(s) ==
    /\ request[s] = "committed"
    /\ ~redis
    /\ request' = [request EXCEPT ![s] = "error"]
    /\ UNCHANGED <<healthVars, redisVars, jobVars, search, pool, queue, tries, raw>>

\* The API process dies between the commit and the enqueue.
ApiDies ==
    /\ crashes < MaxCrashes
    /\ crashes' = crashes + 1
    /\ request' = [s \in Jobs |-> IF request[s] = "committed" THEN "error" ELSE request[s]]
    /\ pool' = FALSE
    /\ UNCHANGED <<clock, health, pc, outcome, loaded, staged, started, genuine, tally>>
    /\ UNCHANGED <<redisVars, jobVars, search, queue, tries, raw>>

-----------------------------------------------------------------------------
(* The ARQ worker takes jobs from the queue, up to MAX_JOBS at a time. *)

Running == {s \in Jobs : step[s] # "off"}

\* The first transaction of run_travelpayouts_search: the row becomes RUNNING
\* whatever it was, or the job ends if there is no row or the transaction fails.
StartJob(s) ==
    /\ redis
    /\ s \in queue
    /\ step[s] = "off"
    /\ tries[s] < MAX_TRIES
    /\ Cardinality(Running) < MAX_JOBS
    /\ tries' = [tries EXCEPT ![s] = @ + 1]
    /\ \/ /\ search[s] = NULL \/ MayLoseDatabase
          /\ step' = [step EXCEPT ![s] = "returned"]
          /\ UNCHANGED search
       \/ /\ search[s] # NULL
          /\ step' = [step EXCEPT ![s] = "started"]
          /\ search' = [search EXCEPT ![s].state = "running"]
    /\ UNCHANGED <<healthVars, apiVars, redisVars, queue, kind, raw>>

\* Once the tries are used up the queue library drops the job unrun.
DropJob(s) ==
    /\ redis
    /\ s \in queue
    /\ step[s] = "off"
    /\ tries[s] = MAX_TRIES
    /\ queue' = queue \ {s}
    /\ UNCHANGED <<healthVars, apiVars, redisVars, jobVars, search, tries, raw>>

\* Whatever way the handler ended, the library then removes the job.
FinishJob(s) ==
    /\ redis
    /\ step[s] = "returned"
    /\ queue' = queue \ {s}
    /\ step' = [step EXCEPT ![s] = "off"]
    /\ UNCHANGED <<healthVars, apiVars, redisVars, search, kind, tries, raw>>

-----------------------------------------------------------------------------
(* _run: lookups and may_call, fetch, raw retention, normalization.  Its    *)
(* SourceErrors are caught by run_travelpayouts_search ("failing").         *)

Goto(s, from, to) ==
    /\ step[s] = from
    /\ step' = [step EXCEPT ![s] = to]
    /\ UNCHANGED <<apiVars, redisVars, search, queue, tries>>

Raise(s, from, k) == Goto(s, from, "failing") /\ kind' = [kind EXCEPT ![s] = k] /\ UNCHANGED raw

NoTimezone(s) == Raise(s, "started", "NOT_AVAILABLE") /\ UNCHANGED healthVars

Admitted(s) == Goto(s, "started", "admitting") /\ MayCallAllows(s) /\ UNCHANGED <<kind, raw>>

CircuitOpen(s) == Raise(s, "started", "BLOCKED") /\ MayCallRejects(s)

\* Mutant: a row the assertion rejects is taken as half-open.
AdmissionAsserts_admits(s) ==
    /\ Goto(s, "started", "admitting")
    /\ MayCall(s)
    /\ ~may_attempt_asserts(snapshot_from_row(health))
    /\ staged' = [staged EXCEPT ![s] = [health EXCEPT !.state = "half_open"]]
    /\ loaded' = [loaded EXCEPT ![s] = health]
    /\ pc' = [pc EXCEPT ![s] = "admitting"]
    /\ started' = [started EXCEPT ![s] = clock]
    /\ UNCHANGED <<outcome, kind, raw>>

AdmissionAsserts(s) ==
    Goto(s, "started", "returned") /\ MayCallAsserts(s) /\ UNCHANGED <<kind, raw>>

AdmissionCommits(s) ==
    Goto(s, "admitting", "fetching") /\ CommitMayCall(s) /\ UNCHANGED <<kind, raw>>

\* fetch_price_calendar raises: a kind the breaker counts, or one it does not
\* (a missing token is reported the same way).
FetchFails(s) == Raise(s, "fetching", "UPSTREAM_ERROR") /\ CallFails(s)

FetchFailsIrrelevantly(s) ==
    /\ \E k \in Kinds \ CIRCUIT_RELEVANT_KINDS : Raise(s, "fetching", k)
    /\ UNCHANGED healthVars

FetchReturns(s) ==
    Goto(s, "fetching", "storing") /\ UNCHANGED <<healthVars, kind, raw>>

StoreRaw(s) ==
    /\ Goto(s, "storing", "normalizing")
    /\ raw' = raw \cup {s}
    /\ UNCHANGED <<healthVars, kind>>

NormalizeFails(s) ==
    Raise(s, "normalizing", "SCHEMA_CHANGE") /\ UNCHANGED healthVars

NormalizeReturns(s) ==
    Goto(s, "normalizing", "writing") /\ CallSucceeds(s) /\ UNCHANGED <<kind, raw>>

\* An exception outside the classification: a transport error the client does
\* not catch, an unknown zone name in the normalizer.
CallRaisesOther(s) ==
    /\ \E from \in {"fetching", "normalizing"} : Goto(s, from, "returned")
    /\ CallEscapes(s)
    /\ UNCHANGED <<kind, raw>>

-----------------------------------------------------------------------------
(* The transaction that ends the search records the outcome in the breaker  *)
(* and in the row together.                                                 *)

Record(s) ==
    /\ step[s] \in {"writing", "failing"}
    /\ RecordGet(s) \/ PersistGet(s)
    /\ UNCHANGED pipelineVars

RecordConflicts(s) ==
    /\ \E from \in {"writing", "failing"} : Goto(s, from, "returned")
    /\ CommitConflicts(s)
    /\ kind' = [kind EXCEPT ![s] = NULL]
    /\ UNCHANGED raw

EndSearch(s, from) ==
    /\ step[s] = from
    /\ step' = [step EXCEPT ![s] = "returned"]
    /\ kind' = [kind EXCEPT ![s] = NULL]
    /\ UNCHANGED <<apiVars, redisVars, queue, tries, raw>>

\* failure_reason keeps the value it has.
CommitReady(s) ==
    /\ EndSearch(s, "writing")
    /\ CommitUpdate(s) \/ CommitInsert(s)
    /\ search' = [search EXCEPT ![s] =
            [state |-> "ready", failure_reason |-> @.failure_reason, completed |-> TRUE]]

\* record_failure touches the breaker for the relevant kinds only.
RecordsFailure(s) ==
    \/ kind[s] \in CIRCUIT_RELEVANT_KINDS /\ (CommitUpdate(s) \/ CommitInsert(s))
    \/ kind[s] \notin CIRCUIT_RELEVANT_KINDS /\ pc[s] = "calling" /\ CallFailsIrrelevantly(s)
    \/ kind[s] \notin CIRCUIT_RELEVANT_KINDS /\ pc[s] \in Ended /\ UNCHANGED healthVars

\* Mutant: a failed search is enqueued again, as a new job.
CommitFailed_requeues(s) ==
    /\ step[s] = "failing"
    /\ RecordsFailure(s)
    /\ step' = [step EXCEPT ![s] = "off"]
    /\ tries' = [tries EXCEPT ![s] = 0]
    /\ kind' = [kind EXCEPT ![s] = NULL]
    /\ search' = [search EXCEPT ![s] =
            [state |-> "failed", failure_reason |-> kind[s], completed |-> TRUE]]
    /\ UNCHANGED <<apiVars, redisVars, queue, raw>>

CommitFailed(s) ==
    /\ EndSearch(s, "failing")
    /\ RecordsFailure(s)
    /\ search' = [search EXCEPT ![s] =
            [state |-> "failed", failure_reason |-> kind[s], completed |-> TRUE]]

\* A transaction of the handler fails, the one that would record the failure
\* included: its error leaves the job and the row stays as it was.  (A job
\* cancelled before it has asked the breaker ends the same way.)
DatabaseFails(s) ==
    /\ MayLoseDatabase
    /\ \E from \in {"started", "admitting", "storing", "writing", "failing"} :
            Goto(s, from, "returned")
    /\ TransactionFails(s) \/ CallEscapes(s) \/ (pc[s] \in Ended /\ UNCHANGED healthVars)
    /\ kind' = [kind EXCEPT ![s] = NULL]
    /\ UNCHANGED raw

-----------------------------------------------------------------------------
(* Faults and time *)

RedisFails ==
    /\ redis
    /\ outages < MaxOutages
    /\ redis' = FALSE
    /\ outages' = outages + 1
    /\ UNCHANGED <<healthVars, apiVars, jobVars, search, queue, tries, raw>>

RedisReturns ==
    /\ ~redis
    /\ redis' = TRUE
    /\ UNCHANGED <<healthVars, apiVars, jobVars, outages, search, queue, tries, raw>>

JobCancelled(s) ==
    /\ JobTimesOut(s)
    /\ step' = [step EXCEPT ![s] = "returned"]
    /\ kind' = [kind EXCEPT ![s] = NULL]
    /\ UNCHANGED <<apiVars, redisVars, search, queue, tries, raw>>

\* The worker dies (or is stopped): its jobs stay in the queue and run again.
WorkerDies ==
    /\ WorkerCrash
    /\ step' = [s \in Jobs |-> "off"]
    /\ kind' = [s \in Jobs |-> NULL]
    /\ UNCHANGED <<apiVars, redisVars, search, queue, tries, raw>>

TimePasses == Tick /\ UNCHANGED pipelineVars

WorkerStep(s) ==
    \/ StartJob(s) \/ DropJob(s) \/ FinishJob(s)
    \/ NoTimezone(s) \/ Admitted(s) \/ CircuitOpen(s) \/ AdmissionAsserts(s)
    \/ AdmissionCommits(s)
    \/ FetchFails(s) \/ FetchFailsIrrelevantly(s) \/ FetchReturns(s)
    \/ StoreRaw(s)
    \/ NormalizeFails(s) \/ NormalizeReturns(s) \/ CallRaisesOther(s)
    \/ Record(s) \/ RecordConflicts(s) \/ CommitReady(s) \/ CommitFailed(s)
    \/ DatabaseFails(s)

ApiStep(s) == EnqueueJob(s) \/ EnqueueFails(s)

PipelineNext ==
    \/ \E s \in Jobs :
        CreateSearch(s) \/ ApiStep(s) \/ WorkerStep(s) \/ JobCancelled(s)
    \/ RedisFails
    \/ RedisReturns
    \/ WorkerDies
    \/ ApiDies
    \/ TimePasses

PipelineSpec == PipelineInit /\ [][PipelineNext]_vars

\* The worker polls the queue and never starves a job, every call ends within
\* the client's timeout, the API handler finishes, Redis is restarted.  No
\* fairness on requests, faults or the clock.
PipelineFairness ==
    /\ \A s \in Jobs : WF_vars(WorkerStep(s)) /\ WF_vars(ApiStep(s))
    /\ WF_vars(RedisReturns)

FairPipelineSpec == PipelineSpec /\ PipelineFairness

-----------------------------------------------------------------------------
(* Safety *)

IsState(s, states) == search[s] # NULL /\ search[s].state \in states

\* A finished search is final but for a redelivery: it changes only when its job
\* starts again, for which each time a process has died, and it is then RUNNING
\* and keeps what it had recorded.
FinishedStaysFinished ==
    [][\A s \in Jobs : IsState(s, {"ready", "failed"}) /\ search'[s] # search[s] =>
            /\ tries[s] < tries'[s] /\ tries'[s] <= crashes + 1
            /\ search'[s] = [search[s] EXCEPT !.state = "running"]]_vars

-----------------------------------------------------------------------------
(* The worker restarts over a row that concurrent jobs left OPEN without a  *)
(* date: a run of OpenCarriesOpenedAt reaches one; ScheduledCollection's   *)
(* fair specification starts there too.                                   *)

UndatedInit ==
    /\ clock = 0
    /\ health = [state |-> "open", consecutive_failures |-> 0, opened_at |-> NULL]
    /\ pc = [j \in Jobs |-> "idle"]
    /\ outcome = [j \in Jobs |-> "none"]
    /\ loaded = [j \in Jobs |-> NULL]
    /\ staged = [j \in Jobs |-> NULL]
    /\ started = [j \in Jobs |-> 0]
    /\ genuine = FAILURE_THRESHOLD
    /\ tally = NULL
    /\ crashes = 0
    /\ TablesInit

\* From such a row the source is never called again: no cooldown, crash,
\* redelivery or later search repairs it, and no search becomes ready.
UndatedIsPermanent ==
    ~OpenCarriesOpenedAt =>
        [](/\ ~OpenCarriesOpenedAt
           /\ \A s \in Jobs : step[s] # "fetching" /\ ~IsState(s, {"ready"}))

-----------------------------------------------------------------------------
(* Liveness *)

\* A queued job leaves the queue, whatever way its search ends: no outcome of
\* the handler, no redelivery and no outage keeps it there for ever.
QueuedJobEnds == \A s \in Jobs : s \in queue ~> s \notin queue

\* Every external failure is classified, so a running search settles.
RunningSettles ==
    \A s \in Jobs : IsState(s, {"running"}) ~> IsState(s, {"ready", "failed"})
=============================================================================
