---------------------------- MODULE SourceHealth ----------------------------
(***************************************************************************)
(* The circuit breaker of one source, kept in the one row of the           *)
(* source_health table and driven by concurrent worker jobs:               *)
(* src/infrastructure/postgres/source_health.py as called from             *)
(* src/apps/worker/jobs/travelpayouts_search.py.                           *)
(*                                                                         *)
(* A job uses three transactions: may_call before the source is contacted, *)
(* the fetch outside any transaction, and record_success or record_failure *)
(* in the transaction that ends the search.  Every transaction reads the   *)
(* row without locking it (READ COMMITTED, plain db.get) and writes at     *)
(* commit only the columns whose value it changed, as the ORM's unit of    *)
(* work does; so a transaction is a read step and a commit step, and other *)
(* jobs run in between.                                                    *)
(***************************************************************************)
EXTENDS CircuitBreaker, FiniteSets

CONSTANTS
    Jobs,         \* the worker's job slots
    JOB_TIMEOUT,  \* ticks after which the queue library cancels a job
    MayLoseDatabase, \* whether transactions may fail
    MaxClock,     \* bound: the clock stops here
    MaxFailures,  \* bound: no new failure once the column reaches this value
    MaxCrashes    \* bound: worker crashes in one behaviour

ASSUME SourceHealthAssumption ==
    /\ JOB_TIMEOUT \in Nat /\ MayLoseDatabase \in BOOLEAN
    /\ MaxClock \in Nat /\ MaxFailures \in Nat /\ MaxCrashes \in Nat

VARIABLES
    clock,    \* datetime.now(UTC)
    health,   \* the committed source_health row, NULL before the first insert
    pc,       \* where each job stands
    outcome,  \* what the job has to record about its call
    loaded,   \* the row as the job's open transaction loaded it
    staged,   \* the snapshot that transaction will persist (kept during the call)
    started,  \* when the job started
    genuine,  \* history: failures of the source committed, up to the threshold
    tally,    \* history: failures recorded since the last recorded success, or NULL
              \* once one job has written over what another recorded
    crashes   \* worker crashes so far

healthVars == <<clock, health, pc, outcome, loaded, staged, started, genuine, tally, crashes>>

Locations == {"idle", "admitting", "calling", "answered", "persisting", "saving", "escaped"}
Outcomes == {"none", "success", "failure", "rejected"}

TypeOK ==
    /\ clock \in 0..MaxClock
    /\ health \in CircuitSnapshot \cup {NULL}
    /\ pc \in [Jobs -> Locations]
    /\ outcome \in [Jobs -> Outcomes]
    /\ loaded \in [Jobs -> CircuitSnapshot \cup {NULL}]
    /\ staged \in [Jobs -> CircuitSnapshot \cup {NULL}]
    /\ started \in [Jobs -> 0..MaxClock]
    /\ genuine \in 0..FAILURE_THRESHOLD
    /\ tally \in Nat \cup {NULL}
    /\ crashes \in 0..MaxCrashes

Init ==
    /\ clock = 0
    /\ health = NULL
    /\ pc = [j \in Jobs |-> "idle"]
    /\ outcome = [j \in Jobs |-> "none"]
    /\ loaded = [j \in Jobs |-> NULL]
    /\ staged = [j \in Jobs |-> NULL]
    /\ started = [j \in Jobs |-> 0]
    /\ genuine = 0
    /\ tally = 0
    /\ crashes = 0

-----------------------------------------------------------------------------
(* The row and its update. *)

snapshot_from_row(row) == IF row = NULL THEN initial_snapshot ELSE row

\* The value a column has after an UPDATE that leaves unchanged columns out.
Column(current, before, after) == IF after = before THEN current ELSE after

\* A re-opened breaker carries a new timestamp, which differs from the loaded
\* one even when both fall into the same tick of the clock.
Reopened(before, after) == before.state = "half_open" /\ after.state = "open"

UpdateRow(row, before, after) ==
    [state |-> Column(row.state, before.state, after.state),
     consecutive_failures |->
        Column(row.consecutive_failures, before.consecutive_failures, after.consecutive_failures),
     opened_at |-> IF Reopened(before, after) THEN after.opened_at
                   ELSE Column(row.opened_at, before.opened_at, after.opened_at)]

MayFail == snapshot_from_row(health).consecutive_failures < MaxFailures

EndJob(j, how) ==
    /\ pc' = [pc EXCEPT ![j] = how]
    /\ outcome' = [outcome EXCEPT ![j] = "none"]
    /\ loaded' = [loaded EXCEPT ![j] = NULL]
    /\ staged' = [staged EXCEPT ![j] = NULL]
    /\ started' = [started EXCEPT ![j] = 0]

-----------------------------------------------------------------------------
(* may_call *)

Ended == {"idle", "escaped"}

MayCall(j) == pc[j] \in Ended /\ UNCHANGED <<clock, health, genuine, tally, crashes>>

MayCallAllows(j) ==
    /\ MayCall(j)
    /\ may_attempt_asserts(snapshot_from_row(health))
    /\ LET attempt == may_attempt(snapshot_from_row(health), clock)
       IN  /\ attempt.allowed
           /\ staged' = [staged EXCEPT ![j] = attempt.next]
    /\ loaded' = [loaded EXCEPT ![j] = health]
    /\ pc' = [pc EXCEPT ![j] = "admitting"]
    /\ started' = [started EXCEPT ![j] = clock]
    /\ UNCHANGED outcome

\* The job raises BLOCKED inside the scope, which rolls the transaction back;
\* the handler then records that error like one of the source's own.
MayCallRejects(j) ==
    /\ MayCall(j)
    /\ MayFail
    /\ may_attempt_asserts(snapshot_from_row(health))
    /\ ~may_attempt(snapshot_from_row(health), clock).allowed
    /\ pc' = [pc EXCEPT ![j] = "answered"]
    /\ outcome' = [outcome EXCEPT ![j] = "rejected"]
    /\ started' = [started EXCEPT ![j] = clock]
    /\ UNCHANGED <<loaded, staged>>

\* The assertion in may_attempt fails: no handler catches it.
MayCallAsserts(j) ==
    /\ MayCall(j)
    /\ ~may_attempt_asserts(snapshot_from_row(health))
    /\ EndJob(j, "escaped")

\* The breaker does not admit the job.
MayCallRefuses(j) ==
    IF may_attempt_asserts(snapshot_from_row(health)) THEN MayCallRejects(j) ELSE MayCallAsserts(j)

\* The scope commits, the HALF_OPEN transition with it, and the fetch begins.
CommitMayCall(j) ==
    /\ pc[j] = "admitting"
    /\ health' = IF loaded[j] = NULL THEN health ELSE UpdateRow(health, loaded[j], staged[j])
    /\ pc' = [pc EXCEPT ![j] = "calling"]
    /\ loaded' = [loaded EXCEPT ![j] = NULL]
    /\ tally' = IF loaded[j] # NULL /\ staged[j] # loaded[j] /\ health # loaded[j]
                THEN NULL ELSE tally
    /\ UNCHANGED <<clock, outcome, staged, started, genuine, crashes>>

-----------------------------------------------------------------------------
(* The call and the error kinds it can end with. *)

Answer(j, result) ==
    /\ pc[j] = "calling"
    /\ pc' = [pc EXCEPT ![j] = "answered"]
    /\ outcome' = [outcome EXCEPT ![j] = result]
    /\ staged' = [staged EXCEPT ![j] = NULL]
    /\ UNCHANGED <<clock, health, loaded, started, genuine, tally, crashes>>

CallSucceeds(j) == Answer(j, "success")

\* RATE_LIMIT, UPSTREAM_ERROR or TIMEOUT.
CallFails(j) == MayFail /\ Answer(j, "failure")

\* Any other kind: record_failure returns before it reads the row.
CallFailsIrrelevantly(j) ==
    /\ pc[j] = "calling"
    /\ EndJob(j, "idle")
    /\ UNCHANGED <<clock, health, genuine, tally, crashes>>

\* An exception that is not a SourceError leaves the job.
CallEscapes(j) ==
    /\ pc[j] = "calling"
    /\ EndJob(j, "escaped")
    /\ UNCHANGED <<clock, health, genuine, tally, crashes>>

-----------------------------------------------------------------------------
(* record_success, record_failure and _persist *)

RecordGet(j) ==
    /\ pc[j] = "answered"
    /\ loaded' = [loaded EXCEPT ![j] = health]
    /\ staged' = [staged EXCEPT ![j] =
            IF outcome[j] = "success"
            THEN next_state_after_success(snapshot_from_row(health))
            ELSE next_state_after_failure(snapshot_from_row(health), clock)]
    /\ pc' = [pc EXCEPT ![j] = IF health = NULL THEN "persisting" ELSE "saving"]
    /\ UNCHANGED <<clock, health, outcome, started, genuine, tally, crashes>>

\* _persist looks the row up again; the identity map answers unless the first
\* lookup found nothing.
PersistGet(j) ==
    /\ pc[j] = "persisting"
    /\ loaded' = [loaded EXCEPT ![j] = health]
    /\ pc' = [pc EXCEPT ![j] = "saving"]
    /\ tally' = IF health = NULL THEN tally ELSE NULL
    /\ UNCHANGED <<clock, health, outcome, staged, started, genuine, crashes>>

CountGenuine(j) ==
    genuine' = IF outcome[j] = "failure" /\ genuine < FAILURE_THRESHOLD
               THEN genuine + 1 ELSE genuine

\* Another job is recording its outcome.
OthersRecord(j) == \E k \in Jobs \ {j} : pc[k] \in {"persisting", "saving"}

\* A success recorded over the row it read sets everything right, unless another
\* job's decision is under way.
Tally(j) ==
    tally' = IF \/ health # loaded[j]
                \/ tally = NULL /\ (outcome[j] # "success" \/ OthersRecord(j))
             THEN NULL
             ELSE IF outcome[j] = "success" THEN 0 ELSE tally + 1

CommitUpdate(j) ==
    /\ pc[j] = "saving"
    /\ loaded[j] # NULL
    /\ health' = UpdateRow(health, loaded[j], staged[j])
    /\ CountGenuine(j)
    /\ Tally(j)
    /\ EndJob(j, "idle")
    /\ UNCHANGED <<clock, crashes>>

CommitInsert(j) ==
    /\ pc[j] = "saving"
    /\ loaded[j] = NULL
    /\ health = NULL
    /\ health' = staged[j]
    /\ CountGenuine(j)
    /\ Tally(j)
    /\ EndJob(j, "idle")
    /\ UNCHANGED <<clock, crashes>>

\* Another job inserted the row first: the primary key is violated, the
\* transaction rolls back and the error leaves the job.
CommitConflicts(j) ==
    /\ pc[j] = "saving"
    /\ loaded[j] = NULL
    /\ health # NULL
    /\ EndJob(j, "escaped")
    /\ UNCHANGED <<clock, health, genuine, tally, crashes>>

CommitOfInsert(j) == IF health = NULL THEN CommitInsert(j) ELSE CommitConflicts(j)

-----------------------------------------------------------------------------
\* The queue library cancels a job that runs for too long; its open transaction
\* rolls back and it is not run again.
TimedOut(j) == pc[j] \notin Ended /\ clock >= started[j] + JOB_TIMEOUT

JobTimesOut(j) ==
    /\ TimedOut(j)
    /\ EndJob(j, "escaped")
    /\ UNCHANGED <<clock, health, genuine, tally, crashes>>

\* A transaction fails: it rolls back and no handler catches its error.
TransactionFails(j) ==
    /\ MayLoseDatabase
    /\ pc[j] \in {"admitting", "answered", "persisting", "saving"}
    /\ EndJob(j, "escaped")
    /\ UNCHANGED <<clock, health, genuine, tally, crashes>>

\* Time passes, but not past the deadline of a job that still runs.
Tick ==
    /\ clock < MaxClock
    /\ \A j \in Jobs : ~TimedOut(j)
    /\ clock' = clock + 1
    /\ UNCHANGED <<health, pc, outcome, loaded, staged, started, genuine, tally, crashes>>

\* The worker dies with every job it runs; open transactions roll back.
WorkerCrash ==
    /\ crashes < MaxCrashes
    /\ crashes' = crashes + 1
    /\ pc' = [j \in Jobs |-> "idle"]
    /\ outcome' = [j \in Jobs |-> "none"]
    /\ loaded' = [j \in Jobs |-> NULL]
    /\ staged' = [j \in Jobs |-> NULL]
    /\ started' = [j \in Jobs |-> 0]
    /\ UNCHANGED <<clock, health, genuine, tally>>

\* The steps the worker takes on its own once a job runs.
JobStep(j) ==
    \/ MayCallAllows(j)
    \/ MayCallRefuses(j)
    \/ CommitMayCall(j)
    \/ RecordGet(j)
    \/ PersistGet(j)
    \/ CommitUpdate(j)
    \/ CommitOfInsert(j)

\* The source's answer, or its failure to answer within the client's timeout.
CallEnds(j) ==
    \/ CallSucceeds(j)
    \/ CallFails(j)
    \/ CallFailsIrrelevantly(j)
    \/ CallEscapes(j)

Next ==
    \/ \E j \in Jobs : JobStep(j) \/ CallEnds(j) \/ JobTimesOut(j) \/ TransactionFails(j)
    \/ Tick
    \/ WorkerCrash

Spec == Init /\ [][Next]_healthVars

\* Jobs are never starved by the event loop, every call ends (the client has
\* a timeout), time passes, and a commit that is tried again and again does not
\* fail every time.  Nothing is assumed about what the source answers.
Fairness ==
    /\ \A j \in Jobs :
        WF_healthVars(JobStep(j)) /\ WF_healthVars(CallEnds(j)) /\ SF_healthVars(CommitMayCall(j))
    /\ WF_healthVars(Tick)

FairSpec == Spec /\ Fairness

-----------------------------------------------------------------------------
(* Properties, whatever the interleaving *)

\* The circuit leaves CLOSED only after the source itself has failed
\* FAILURE_THRESHOLD times: neither the breaker's own rejections nor lost or
\* mixed updates of the row can open it first.
NeverOpensEarly ==
    health # NULL /\ health.state # "closed" => genuine >= FAILURE_THRESHOLD

\* Only writing over another job's update makes the row wrong.  Until then, and
\* again from the next success recorded over the row it read, the row counts the
\* failures since the last success, none lost and none left over, and its columns
\* describe one state of the breaker: closed below the threshold and undated, or
\* open and dated; half-open only after its cooldown.
RowIsAccurate ==
    tally # NULL /\ health # NULL =>
        /\ health.consecutive_failures = tally
        /\ health.state = "closed" <=> health.opened_at = NULL
        /\ health.state = "closed" <=> tally < FAILURE_THRESHOLD
        /\ health.state = "half_open" => clock >= health.opened_at + COOLDOWN

\* The assertion of may_attempt never fails: an OPEN row carries opened_at.
OpenCarriesOpenedAt == may_attempt_asserts(snapshot_from_row(health))

\* The step in which job j commits what it had to record.
Records(j, what) ==
    pc[j] = "saving" /\ pc'[j] = "idle" /\ outcome[j] = what /\ crashes' = crashes

\* A failed trial re-opens the circuit and its cooldown starts again: the circuit
\* is dated no earlier than the job that tried, whatever other trials wrote.
FailedTrialRestartsCooldown ==
    [][\A j \in Jobs : Records(j, "failure") /\ loaded[j] # NULL /\ loaded[j].state = "half_open"
            => health'.state = "open" /\ health'.opened_at >= started[j]]_healthVars

IsOpen == health # NULL /\ health.state = "open"

\* An open circuit is probed once its cooldown is over, crashes, timeouts and
\* failed transactions notwithstanding; rejected calls do not postpone the probe.
\* Only a trial still under way may, by its timeout; and a row that lost its date
\* (OpenCarriesOpenedAt) is not probed.
ProbedAfterCooldown ==
    \A t \in 0..MaxClock : t + JOB_TIMEOUT + COOLDOWN <= MaxClock =>
        (IsOpen /\ health.opened_at = t) ~> (~IsOpen \/ health.opened_at = NULL)
=============================================================================
