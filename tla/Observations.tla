---------------------------- MODULE Observations ----------------------------
(***************************************************************************)
(* How the searches of one route write cash_observations: write_observation *)
(* (src/infrastructure/postgres/observations.py), called for every offer   *)
(* in the transaction that ends a successful search                        *)
(* (src/apps/worker/jobs/travelpayouts_search.py).                         *)
(*                                                                         *)
(* write_observation takes no lock of its own.  But record_success has     *)
(* modified the source's one health row before it, and the session flushes *)
(* that change ahead of the first SELECT of write_observation, so the row  *)
(* lock of source_health is held from there to the commit: transactions    *)
(* that write observations of one source follow one another.               *)
(*                                                                         *)
(* clock counts fetches, so every retrieved_at is different; a row is      *)
(* identified by its itinerary and its first_seen_at.                      *)
(***************************************************************************)
EXTENDS Integers, Sequences, FiniteSets

CONSTANTS
    Jobs,         \* the worker's job slots
    MAX_JOBS,     \* searches the worker runs at once
    Itineraries,  \* itinerary fingerprints of the route
    Prices,       \* prices (with their currency)
    NoJob,        \* nobody holds the lock of the health row
    NULL,         \* no previous value
    MaxPolls      \* bound: fetches in one behaviour

ASSUME ObservationsAssumption ==
    /\ MAX_JOBS \in Nat \ {0}
    /\ MaxPolls \in Nat
    /\ NoJob \notin Jobs
    /\ NULL \notin Prices

VARIABLES
    clock,      \* fetches so far; the latest retrieved_at
    rows,       \* the committed rows of cash_observations
    hasHealth,  \* the source's health row exists
    lock,       \* the transaction that holds that row's lock
    pc,         \* where each job stands
    poll,       \* what each job fetched: retrieved_at and the offered prices
    seen,       \* record_success found the health row
    todo,       \* offers the job has yet to write
    pending,    \* the rows as the job's open transaction sees them
    polls       \* history: the polls whose transaction committed, in that order

vars == <<clock, rows, hasHealth, lock, pc, poll, seen, todo, pending, polls>>

Offers == UNION {[is -> Prices] : is \in SUBSET Itineraries}

Poll == [retrieved_at : 1..MaxPolls, offers : Offers]
NoPoll == [retrieved_at |-> 0, offers |-> << >>]

CashObservation ==
    [itinerary_id : Itineraries, price : Prices,
     first_seen_at : 1..MaxPolls, last_seen_at : 1..MaxPolls, poll_count : Nat \ {0}]

TypeOK ==
    /\ clock \in 0..MaxPolls
    /\ rows \subseteq CashObservation
    /\ hasHealth \in BOOLEAN
    /\ lock \in Jobs \cup {NoJob}
    /\ pc \in [Jobs -> {"idle", "fetched", "flushing", "writing"}]
    /\ poll \in [Jobs -> Poll \cup {NoPoll}]
    /\ seen \in [Jobs -> BOOLEAN]
    /\ todo \in [Jobs -> SUBSET Itineraries]
    /\ pending \in [Jobs -> SUBSET CashObservation]
    /\ polls \in Seq(Poll)

Init ==
    /\ clock = 0
    /\ rows = {}
    /\ hasHealth = FALSE
    /\ lock = NoJob
    /\ pc = [j \in Jobs |-> "idle"]
    /\ poll = [j \in Jobs |-> NoPoll]
    /\ seen = [j \in Jobs |-> FALSE]
    /\ todo = [j \in Jobs |-> {}]
    /\ pending = [j \in Jobs |-> {}]
    /\ polls = << >>

EndJob(j) ==
    /\ pc' = [pc EXCEPT ![j] = "idle"]
    /\ poll' = [poll EXCEPT ![j] = NoPoll]
    /\ seen' = [seen EXCEPT ![j] = FALSE]
    /\ todo' = [todo EXCEPT ![j] = {}]
    /\ pending' = [pending EXCEPT ![j] = {}]

-----------------------------------------------------------------------------
(* The job up to its last transaction: retrieved_at is taken, then the      *)
(* source answers with any prices for any of the itineraries.               *)

Fetch(j) ==
    /\ pc[j] = "idle"
    /\ clock < MaxPolls
    /\ Cardinality({k \in Jobs : pc[k] # "idle"}) < MAX_JOBS
    /\ clock' = clock + 1
    /\ \E offers \in Offers :
        poll' = [poll EXCEPT ![j] = [retrieved_at |-> clock + 1, offers |-> offers]]
    /\ pc' = [pc EXCEPT ![j] = "fetched"]
    /\ UNCHANGED <<rows, hasHealth, lock, seen, todo, pending, polls>>

\* The fetch, or a later step outside the last transaction, fails.  A failure that
\* counts for the circuit writes the health row too, in a transaction of its own.
Fails(j) ==
    /\ pc[j] = "fetched"
    /\ EndJob(j)
    /\ UNCHANGED hasHealth \/ (lock = NoJob /\ hasHealth' = TRUE)
    /\ UNCHANGED <<clock, rows, lock, polls>>

-----------------------------------------------------------------------------
(* The last transaction *)

\* record_success reads the health row, without a lock.
RecordSuccess(j) ==
    /\ pc[j] = "fetched"
    /\ seen' = [seen EXCEPT ![j] = hasHealth]
    /\ pc' = [pc EXCEPT ![j] = "flushing"]
    /\ UNCHANGED <<clock, rows, hasHealth, lock, poll, todo, pending, polls>>

BeginWrites(j) ==
    /\ pc[j] = "flushing"
    /\ seen[j] = hasHealth
    /\ lock' = j
    /\ todo' = [todo EXCEPT ![j] = DOMAIN poll[j].offers]
    /\ pending' = [pending EXCEPT ![j] = rows]
    /\ pc' = [pc EXCEPT ![j] = "writing"]
    /\ UNCHANGED <<clock, rows, hasHealth, poll, seen, polls>>

\* Mutant: the health row is not touched in the same transaction.
Flush_unlocked(j) == BeginWrites(j)

\* The flush updates or inserts the health row and waits for whoever did so.
Flush(j) == lock = NoJob /\ BeginWrites(j)

\* Both jobs found no health row and the other one inserted it: the insert
\* violates the primary key and the job ends by that error.
FlushConflicts(j) ==
    /\ lock = NoJob
    /\ pc[j] = "flushing"
    /\ ~seen[j] /\ hasHealth
    /\ EndJob(j)
    /\ UNCHANGED <<clock, rows, hasHealth, lock, polls>>

\* Mutant: every poll counts as a change.
is_material_change_always(previous, current) == TRUE

is_material_change(previous, current) == previous = NULL \/ previous # current

\* Mutant: the new row waits for its first repeat poll to be counted.
new_period_uncounted(i, price, retrieved_at) ==
    [itinerary_id |-> i, price |-> price, first_seen_at |-> retrieved_at,
     last_seen_at |-> retrieved_at, poll_count |-> 0]

new_period(i, price, retrieved_at) ==
    [itinerary_id |-> i, price |-> price, first_seen_at |-> retrieved_at,
     last_seen_at |-> retrieved_at, poll_count |-> 1]

\* Mutant: the period is extended to the time of the write.
extend_now(row, retrieved_at) ==
    [row EXCEPT !.last_seen_at = clock, !.poll_count = @ + 1]

extend(row, retrieved_at) ==
    [row EXCEPT !.last_seen_at = retrieved_at, !.poll_count = @ + 1]

\* The row the SELECT returns: the itinerary's last one by last_seen_at.
latest(j, i) ==
    {r \in pending[j] : /\ r.itinerary_id = i
                        /\ \A q \in pending[j] :
                             q.itinerary_id = i => q.last_seen_at <= r.last_seen_at}

write_observation(j, i) ==
    LET price == poll[j].offers[i]
        at == poll[j].retrieved_at
    IN  \/ /\ \/ latest(j, i) = {}
              \/ \E row \in latest(j, i) : is_material_change(row.price, price)
           /\ pending' = [pending EXCEPT ![j] = @ \cup {new_period(i, price, at)}]
        \/ \E row \in latest(j, i) :
            /\ ~is_material_change(row.price, price)
            /\ pending' = [pending EXCEPT ![j] = (@ \ {row}) \cup {extend(row, at)}]

Write(j) ==
    /\ pc[j] = "writing"
    /\ \E i \in todo[j] :
        /\ write_observation(j, i)
        /\ todo' = [todo EXCEPT ![j] = @ \ {i}]
    /\ UNCHANGED <<clock, rows, hasHealth, lock, pc, poll, seen, polls>>

Commit(j) ==
    /\ pc[j] = "writing"
    /\ todo[j] = {}
    /\ rows' = pending[j]
    /\ hasHealth' = TRUE
    /\ lock' = NoJob
    /\ polls' = Append(polls, poll[j])
    /\ EndJob(j)
    /\ UNCHANGED clock

-----------------------------------------------------------------------------
\* The worker dies: every open transaction rolls back and frees its lock.
WorkerCrash ==
    /\ lock' = NoJob
    /\ pc' = [j \in Jobs |-> "idle"]
    /\ poll' = [j \in Jobs |-> NoPoll]
    /\ seen' = [j \in Jobs |-> FALSE]
    /\ todo' = [j \in Jobs |-> {}]
    /\ pending' = [j \in Jobs |-> {}]
    /\ UNCHANGED <<clock, rows, hasHealth, polls>>

Next ==
    \/ \E j \in Jobs :
        \/ Fetch(j) \/ Fails(j)
        \/ RecordSuccess(j) \/ Flush(j) \/ FlushConflicts(j) \/ Write(j) \/ Commit(j)
    \/ WorkerCrash

Spec == Init /\ [][Next]_vars

-----------------------------------------------------------------------------
(* Properties *)

Periods(i) == {r \in rows : r.itinerary_id = i}

\* A row begins and ends with polls that committed and offered the itinerary at
\* the row's price.
Observed(p, r, at) ==
    p.retrieved_at = at /\ r.itinerary_id \in DOMAIN p.offers /\ p.offers[r.itinerary_id] = r.price

EndpointsObserved ==
    \A r \in rows :
        /\ \E n \in DOMAIN polls : Observed(polls[n], r, r.first_seen_at)
        /\ \E n \in DOMAIN polls : Observed(polls[n], r, r.last_seen_at)

\* The reference: the maximal runs of polls offering an itinerary at one price.
Offering(s, i) == {n \in DOMAIN s : i \in DOMAIN s[n].offers}

Flat(s, i, a, b) ==
    \A n \in Offering(s, i) : a <= n /\ n <= b => s[n].offers[i] = s[a].offers[i]

IsRun(s, i, a, b) ==
    /\ a <= b /\ Flat(s, i, a, b)
    /\ \A c \in Offering(s, i) : /\ c < a => ~Flat(s, i, c, b)
                                 /\ b < c => ~Flat(s, i, a, c)

Run(s, i, a, b) ==
    [itinerary_id |-> i, price |-> s[a].offers[i], first_seen_at |-> s[a].retrieved_at,
     last_seen_at |-> s[b].retrieved_at,
     poll_count |-> Cardinality({n \in Offering(s, i) : a <= n /\ n <= b})]

Runs(s, i) ==
    {Run(s, i, ab[1], ab[2]) :
        ab \in {x \in Offering(s, i) \X Offering(s, i) : IsRun(s, i, x[1], x[2])}}

\* As long as searches commit in the order in which they fetched, however they
\* overlap, the table is the run-length encoding of the committed polls: one row
\* per period during which a price held.
InOrder == \A n \in 2..Len(polls) : polls[n - 1].retrieved_at < polls[n].retrieved_at

RowsAreRuns == InOrder => \A i \in Itineraries : Periods(i) = Runs(polls, i)

\* Overlapping searches are serializable: the table changes as if each committed
\* poll had been recorded alone, at once, in the order of the commits.
History == INSTANCE PriceHistory WITH Polls <- Poll

Serializable == History!Spec
=============================================================================
