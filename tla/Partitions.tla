----------------------------- MODULE Partitions -----------------------------
(***************************************************************************)
(* The monthly partitions of raw_payloads and cash_observations: what the  *)
(* migration creates, what the maintenance job adds and drops              *)
(* (src/apps/worker/jobs/maintain_partitions.py,                           *)
(* src/infrastructure/postgres/partitions.py,                              *)
(* src/domain/collection/partition_bounds.py), and the inserts that need   *)
(* them.  A date is a <<year, month>>: every bound and cutoff in the code  *)
(* is the first of a month.  Rows do not interact, so one row, of either    *)
(* table and any month, stands for all of them.                            *)
(***************************************************************************)
EXTENDS Integers, FiniteSets

CONSTANTS
    AHEAD_MONTHS,      \* months a run ensures, the current one included (3)
    RETENTION_MONTHS,  \* months raw_payloads is kept (12)
    BOOTSTRAP_MONTHS,  \* months the migration creates partitions for
    InstallMonths,     \* months in which the migration may be run
    NULL,              \* no row, no run in progress
    LastMonth,         \* bound: the calendar ends here
    MaxOverdue         \* bound: scheduled runs missed in a row

Month == Int \X (1..12)

ASSUME PartitionsAssumption ==
    /\ AHEAD_MONTHS \in Nat \ {0}
    /\ RETENTION_MONTHS \in Nat
    /\ BOOTSTRAP_MONTHS \subseteq Month
    /\ InstallMonths \subseteq Month
    /\ LastMonth \in Month
    /\ MaxOverdue \in Nat
    /\ NULL \notin Month /\ NULL \notin {"cash_observations", "raw_payloads"} \X Month

VARIABLES
    today,       \* the current month
    overdue,     \* months that began since partitions were last ensured
    run,         \* what the maintenance job has left to do
    asof,        \* the month in which that job read the clock
    partitions,  \* the partitions of each table
    row,         \* the table and month of one stored row, NULL if there is none
    swept        \* history: the month of the last completed sweep, or of the install

vars == <<today, overdue, run, asof, partitions, row, swept>>

Tables == {"cash_observations", "raw_payloads"}

-----------------------------------------------------------------------------
(* partition_bounds.py and _months_before *)

\* Mutant: the year is not carried.
next_month_same_year(ym) == IF ym[2] = 12 THEN <<ym[1], 1>> ELSE <<ym[1], ym[2] + 1>>

\* Mutant: December runs into a thirteenth month.
next_month_thirteen(ym) == <<ym[1], ym[2] + 1>>

next_month(ym) == IF ym[2] = 12 THEN <<ym[1] + 1, 1>> ELSE <<ym[1], ym[2] + 1>>

previous_month(ym) == IF ym[2] = 1 THEN <<ym[1] - 1, 12>> ELSE <<ym[1], ym[2] - 1>>

\* A partition holds the dates from its lower bound up to the upper one.
partition_for_month(ym) == [name |-> ym, lower |-> ym, upper |-> next_month(ym)]

months_from(start, count) ==
    LET month[n \in 0..count] == IF n = 0 THEN start ELSE next_month(month[n - 1])
    IN  {month[n] : n \in 0..count - 1}

months_before(date, months) ==
    LET month[n \in 0..months] == IF n = 0 THEN date ELSE previous_month(month[n - 1])
    IN  month[months]

\* The order of dates.
OnOrBefore(a, b) == a[1] < b[1] \/ (a[1] = b[1] /\ a[2] <= b[2])

\* Mutant: a partition expires with its lower bound.
expired_by_lower(partition, cutoff) == OnOrBefore(partition.lower, cutoff)

\* Mutant: the upper bound is taken as inclusive.
expired_inclusive(partition, cutoff) ==
    OnOrBefore(partition.upper, cutoff) /\ partition.upper # cutoff

expired(partition, cutoff) == OnOrBefore(partition.upper, cutoff)

-----------------------------------------------------------------------------
\* Months since the beginning of time, to measure the code's calendar with.
Index(ym) == 12 * ym[1] + ym[2]

TypeOK ==
    /\ today \in Month
    /\ overdue \in 0..MaxOverdue
    /\ run \in {"idle", "creating", "dropping"}
    /\ asof \in Month \cup {NULL}
    /\ \A t \in Tables : \A p \in partitions[t] : {p.name, p.lower, p.upper} \subseteq Month
    /\ row \in (Tables \X Month) \cup {NULL}
    /\ swept \in Month

Init ==
    /\ today \in InstallMonths
    /\ overdue = 0
    /\ run = "idle"
    /\ asof = NULL
    /\ partitions = [t \in Tables |-> {partition_for_month(ym) : ym \in BOOTSTRAP_MONTHS}]
    /\ row = NULL
    /\ swept = today

Holds(t, ym) == \E p \in partitions[t] : OnOrBefore(p.lower, ym) /\ ~OnOrBefore(p.upper, ym)

\* A job stores a row dated when it started to fetch: in this month, or in the
\* last one if the month ended meanwhile.  PostgreSQL refuses a row that no
\* partition holds.
Insert(t) ==
    /\ row = NULL
    /\ \E ym \in {today, previous_month(today)} :
        Holds(t, ym) /\ row' = <<t, ym>>
    /\ UNCHANGED <<today, overdue, run, asof, partitions, swept>>

NewMonth ==
    /\ today # LastMonth
    /\ overdue < MaxOverdue
    /\ today' = next_month(today)
    /\ overdue' = overdue + 1
    /\ UNCHANGED <<run, asof, partitions, row, swept>>

-----------------------------------------------------------------------------
(* run_partition_maintenance: two transactions on one reading of the clock. *)
(* The cron starts it on the first of a month; it may also be started on    *)
(* demand, but not while another run is in progress.                        *)

StartRun ==
    /\ run = "idle"
    /\ run' = "creating"
    /\ asof' = today
    /\ UNCHANGED <<today, overdue, partitions, row, swept>>

\* CREATE TABLE IF NOT EXISTS for each table and month.
CreatePartitions ==
    /\ run = "creating"
    /\ run' = "dropping"
    /\ partitions' = [t \in Tables |->
            partitions[t] \cup {partition_for_month(ym) : ym \in months_from(asof, AHEAD_MONTHS)}]
    /\ overdue' = Index(today) - Index(asof)
    /\ UNCHANGED <<today, asof, row, swept>>

\* drop_partitions_older_than: the bounds are computed again from the names.
DropPartitions ==
    /\ run = "dropping"
    /\ run' = "idle"
    /\ asof' = NULL
    /\ LET cutoff == months_before(asof, RETENTION_MONTHS)
           gone == {p \in partitions["raw_payloads"] : expired(partition_for_month(p.name), cutoff)}
       IN  /\ partitions' = [partitions EXCEPT !["raw_payloads"] = @ \ gone]
           /\ row' = IF \E p \in gone : row = <<"raw_payloads", p.name>> THEN NULL ELSE row
    /\ swept' = asof
    /\ UNCHANGED <<today, overdue>>

\* The job fails or its worker dies; the open transaction rolls back, and the
\* cron does not try again before its next date.
RunFails ==
    /\ run # "idle"
    /\ run' = "idle"
    /\ asof' = NULL
    /\ UNCHANGED <<today, overdue, partitions, row, swept>>

Next ==
    \/ \E t \in Tables : Insert(t)
    \/ NewMonth
    \/ StartRun \/ CreatePartitions \/ DropPartitions \/ RunFails

Spec == Init /\ [][Next]_vars

-----------------------------------------------------------------------------
(* Properties *)

\* The migration is run while its list of months still fills the window, and
\* before any of them is older than the retention.
EarlyInstalls ==
    \A month \in InstallMonths :
        /\ Index(month)..(Index(month) + AHEAD_MONTHS - 1) \subseteq {Index(ym) : ym \in BOOTSTRAP_MONTHS}
        /\ \A ym \in BOOTSTRAP_MONTHS : Index(month) - Index(ym) <= RETENTION_MONTHS

\* The rolling window rides out every run but the AHEAD_MONTHS-th that is missed
\* in a row: until then a row of this month finds its partition in both tables,
\* even before the run of the first of the month.
WindowCoversToday == overdue < AHEAD_MONTHS => \A t \in Tables : Holds(t, today)

\* Only a payload older than the retention is ever dropped, whenever runs were
\* missed, repeated, cut short or overtaken by the end of the month; an observation never.
OnlyOldPayloadsAreDropped ==
    [][row # NULL /\ row' # row =>
        /\ row[1] = "raw_payloads"
        /\ Index(today) - Index(row[2]) > RETENTION_MONTHS]_vars

\* A completed sweep leaves nothing older than the retention behind, not even
\* what earlier sweeps that failed should have taken.
NothingOutlivesRetention ==
    \A p \in partitions["raw_payloads"] : Index(swept) - Index(p.name) <= RETENTION_MONTHS
=============================================================================
