--------------------------- MODULE SearchPlanning ---------------------------
(***************************************************************************)
(* Expansion of a query into tasks, collapsing of tasks into batches, and  *)
(* the daily spending of a call budget over the tasks                      *)
(* (src/domain/search/expansion.py, src/domain/search/budget.py).  Both    *)
(* files are pure; what calls them, day after day, is a caller that keeps  *)
(* when each task was last observed.  Days are integers.  The real-valued  *)
(* factors of the score are kept as numerators over a denominator that is  *)
(* the same for every task of a request.                                   *)
(***************************************************************************)
EXTENDS Selection, Integers, Sequences, FiniteSets, SequencesExt

CONSTANTS
    Requests,      \* what may be asked: a query, a daily budget and its tuning
    MonthOf,       \* the calendar month of each day
    FULL_WEIGHT,   \* the weight that counts as 1 (100)
    HORIZON_DAYS,  \* days ahead at which a departure is not close at all (365)
    NULL,          \* a task never observed; no request; no allocation
    PastDays,      \* days before the search on which a task may have been observed
    FirstDay,      \* the day of the first allocation
    LastDay        \* bound: the day of the last one

ASSUME SearchPlanningAssumption ==
    /\ FULL_WEIGHT \in Nat \ {0} /\ HORIZON_DAYS \in Nat \ {0}
    /\ FirstDay \in Nat /\ LastDay \in Nat /\ PastDays \subseteq 0..(FirstDay - 1)
    /\ NULL \notin Int /\ NULL \notin Requests
    /\ \A r \in Requests :
        /\ r.budget \in Nat
        /\ {r.max_staleness_days, r.weights.preference, r.weights.proximity} \subseteq Int
        /\ {r.query.date_start, r.query.date_end, r.query.min_nights, r.query.max_nights} \subseteq Int
        /\ r.query.cabins \in Seq(ToSet(r.query.cabins))
        /\ \A locations \in {r.query.origins, r.query.destinations} :
               /\ locations \in Seq(ToSet(locations))
               /\ \A l \in ToSet(locations) : l.weight \in Int

VARIABLES
    today,          \* the reference_date of the next allocation
    request,        \* what is being searched, NULL before it is asked
    tasks,          \* the expansion, in its order
    groups,         \* the batches
    last_observed,  \* what the caller knows of each task
    allocation,     \* the outcome of the last allocate_budget
    answered        \* history: every call so far brought an observation

vars == <<today, request, tasks, groups, last_observed, allocation, answered>>

-----------------------------------------------------------------------------
(* expansion.py *)

ForEach(xs, Body(_)) == FlattenSeq([i \in 1..Len(xs) |-> Body(xs[i])])

_dates_in_range(start, end) == [i \in 1..(end - start + 1) |-> start + i - 1]

expand(query) ==
    ForEach(query.origins, LAMBDA o :
    ForEach(query.destinations, LAMBDA d :
    ForEach(_dates_in_range(query.date_start, query.date_end), LAMBDA day :
    ForEach(_dates_in_range(query.min_nights, query.max_nights), LAMBDA n :
    ForEach(query.cabins, LAMBDA c :
        <<[origin |-> o.code, destination |-> d.code, departure_date |-> day,
           trip_length_nights |-> n, cabin |-> c]>>)))))

\* Mutant: the cabin is left out of the key.
batch_key_without_cabin(task) ==
    <<task.origin, task.destination, MonthOf[task.departure_date], task.trip_length_nights>>

batch_key(task) ==
    <<task.origin, task.destination, MonthOf[task.departure_date], task.cabin,
      task.trip_length_nights>>

\* One batch per key, keys in the order of their first task.
collapse_batchable(ts) ==
    LET key(i) == batch_key(ts[i])
        first == {i \in 1..Len(ts) : \A k \in 1..(i - 1) : key(k) # key(i)}
        batch == [i \in 1..Len(ts) |-> Picked(ts, {k \in 1..Len(ts) : key(k) = key(i)})]
    IN  Picked(batch, first)

-----------------------------------------------------------------------------
(* budget.py *)

\* value / full clamped to 0..1, as a numerator over full.
clamp(value, full) == IF value < 0 THEN 0 ELSE IF value > full THEN full ELSE value

\* Over max_staleness_days, or over 1 when that is not positive.
normalized_age(seen, now, max_staleness_days) ==
    IF seen = NULL THEN 0
    ELSE IF max_staleness_days > 0 THEN clamp(now - seen, max_staleness_days) ELSE 1

\* Over HORIZON_DAYS.
_closeness(departure_date, now) ==
    LET days_out == departure_date - now
    IN  IF days_out < 0 THEN 0 ELSE clamp(HORIZON_DAYS - days_out, HORIZON_DAYS)

weight_of(locations, code) ==
    LET l == CHOOSE l \in ToSet(locations) : l.code = code
    IN  clamp(l.weight, FULL_WEIGHT)

\* Over FULL_WEIGHT ^ 2.
preference(query, task) ==
    weight_of(query.origins, task.origin) * weight_of(query.destinations, task.destination)

\* What score_task computes of a task, but for the gain that nothing reads.
score_task(req, task, seen, now) ==
    [task |-> task,
     never_observed |-> seen = NULL,
     normalized_age |-> normalized_age(seen, now, req.max_staleness_days),
     tie_break |-> req.weights.preference * HORIZON_DAYS * preference(req.query, task)
                   + req.weights.proximity * FULL_WEIGHT * FULL_WEIGHT
                       * _closeness(task.departure_date, now)]

\* Mutant: the weighted sum of the factors, never observed counting nothing.
outranks_by_tie_break(s, t) == s.tie_break > t.tie_break

\* Mutant: fresh before stale.
outranks_freshest(s, t) ==
    \/ s.never_observed /\ ~t.never_observed
    \/ /\ s.never_observed = t.never_observed
       /\ \/ s.normalized_age < t.normalized_age
          \/ s.normalized_age = t.normalized_age /\ s.tie_break > t.tie_break

\* The order of _rank_key.
outranks(s, t) ==
    \/ s.never_observed /\ ~t.never_observed
    \/ /\ s.never_observed = t.never_observed
       /\ \/ s.normalized_age > t.normalized_age
          \/ s.normalized_age = t.normalized_age /\ s.tie_break > t.tie_break

\* A stable sort: an element comes after all that outrank it and after its equals
\* that came before it.
rank_tasks(scored) ==
    LET n == Len(scored)
        place(i) == Cardinality({k \in 1..n : \/ outranks(scored[k], scored[i])
                                              \/ k <= i /\ ~outranks(scored[i], scored[k])})
    IN  [p \in 1..n |-> scored[CHOOSE i \in 1..n : place(i) = p]]

\* The code refuses a negative budget by a ValueError; none is asked for here.
allocate_budget(scored, budget) ==
    LET ranked == [p \in 1..Len(scored) |-> rank_tasks(scored)[p].task]
        spent == Min({budget, Len(ranked)})
    IN  [to_execute |-> SubSeq(ranked, 1, spent),
         not_explored |-> SubSeq(ranked, spent + 1, Len(ranked))]

-----------------------------------------------------------------------------
(* The caller *)

Init ==
    /\ today = FirstDay
    /\ request = NULL
    /\ tasks = <<>> /\ groups = <<>>
    /\ last_observed = <<>>
    /\ allocation = NULL
    /\ answered = TRUE

\* A search is declared; what history holds of its tasks is whatever it holds.
Ask(r) ==
    /\ request = NULL
    /\ request' = r
    /\ tasks' = expand(r.query)
    /\ groups' = collapse_batchable(tasks')
    /\ last_observed' \in [ToSet(tasks') -> {NULL} \cup PastDays]
    /\ UNCHANGED <<today, allocation, answered>>

Allocate ==
    /\ request # NULL /\ allocation = NULL
    /\ allocation' = allocate_budget(
           [i \in 1..Len(tasks) |-> score_task(request, tasks[i], last_observed[tasks[i]], today)],
           request.budget)
    /\ UNCHANGED <<today, request, tasks, groups, last_observed, answered>>

\* Some of the calls bring an observation; the rest bring none and leave no trace.
CallsReturn ==
    /\ allocation # NULL
    /\ today < LastDay
    /\ \E found \in SUBSET ToSet(allocation.to_execute) :
        /\ last_observed' = [t \in DOMAIN last_observed |->
                                IF t \in found THEN today ELSE last_observed[t]]
        /\ answered' = (answered /\ found = ToSet(allocation.to_execute))
    /\ today' = today + 1
    /\ allocation' = NULL
    /\ UNCHANGED <<request, tasks, groups>>

Next == (\E r \in Requests : Ask(r)) \/ Allocate \/ CallsReturn

Spec == Init /\ [][Next]_vars

-----------------------------------------------------------------------------
(* Properties *)

\* A query names no place and no cabin twice; the code does not remove repetitions.
QueriesRepeatNothing ==
    \A r \in Requests :
        /\ IsInjective(r.query.cabins)
        /\ \A locations \in {r.query.origins, r.query.destinations} :
               IsInjective([i \in DOMAIN locations |-> locations[i].code])

\* The expansion is the full product of the query's dimensions, each combination
\* once: neither end of the date window or of the trip lengths is lost.
EveryCombinationOnce ==
    request # NULL =>
        LET q == request.query
            product == [origin : {l.code : l \in ToSet(q.origins)},
                        destination : {l.code : l \in ToSet(q.destinations)},
                        departure_date : q.date_start..q.date_end,
                        trip_length_nights : q.min_nights..q.max_nights,
                        cabin : ToSet(q.cabins)]
        IN  ToSet(tasks) = product /\ Len(tasks) = Cardinality(product)

\* A batch is what one call can answer: it never spans two months, cabins, routes
\* or trip lengths, and collapsing loses and repeats no task.
BatchesPartitionTasks ==
    /\ \A g, h \in 1..Len(groups) : g # h => ToSet(groups[g]) \cap ToSet(groups[h]) = {}
    /\ UNION {ToSet(groups[g]) : g \in 1..Len(groups)} = ToSet(tasks)
    /\ \A g \in 1..Len(groups) : \A s, t \in ToSet(groups[g]) :
        /\ MonthOf[s.departure_date] = MonthOf[t.departure_date]
        /\ [s EXCEPT !.departure_date = t.departure_date] = t

\* The budget is spent to the last call, and a task it does not reach is kept as
\* not explored: no allocation drops a task or runs one twice.
NothingIsDropped ==
    allocation # NULL =>
        /\ Len(allocation.to_execute) = Min({request.budget, Len(tasks)})
        /\ Len(allocation.to_execute) + Len(allocation.not_explored) = Len(tasks)
        /\ ToSet(allocation.to_execute \o allocation.not_explored) = ToSet(tasks)

\* From the query to the budget no task is lost and none is repeated: the expansion
\* has each combination once, the batches partition it, the allocation keeps it all.
TasksAreConserved == EveryCombinationOnce /\ BatchesPartitionTasks /\ NothingIsDropped

\* Whatever the weights, a call is never spent on a task that was observed while
\* one that never was is passed over, nor on one seen more recently than one
\* passed over, as far as staleness is counted.
UnknownOutranksKnown ==
    allocation # NULL =>
        \A run \in ToSet(allocation.to_execute), passed \in ToSet(allocation.not_explored) :
            last_observed[run] # NULL =>
                /\ last_observed[passed] # NULL
                /\ \/ last_observed[run] <= last_observed[passed]
                   \/ today - last_observed[passed] >= request.max_staleness_days

\* Spending a daily budget accumulates coverage: while every call is answered and
\* staleness is counted for as long as one round takes, every task is observed
\* again within a round, however little it is preferred.
NoTaskStarves ==
    (request # NULL /\ request.budget > 0 /\ allocation = NULL /\ answered) =>
        LET round == (Len(tasks) + request.budget - 1) \div request.budget
        IN  (request.max_staleness_days >= round /\ today - FirstDay >= round) =>
                \A t \in ToSet(tasks) : last_observed[t] # NULL /\ today - last_observed[t] <= round
=============================================================================
