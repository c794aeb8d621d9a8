-------------------------- MODULE DailyAggregates --------------------------
(***************************************************************************)
(* The nightly flight_price_daily job                                      *)
(* (src/apps/worker/jobs/daily_aggregates.py,                              *)
(* src/domain/aggregation/daily_price.py) beside the searches that write   *)
(* the observations it reads.  One transaction reads all rows; a second    *)
(* one, opened when the aggregates are computed, deletes the table and     *)
(* inserts them.  Runs overlap when the job is also started on demand.     *)
(*                                                                         *)
(* The transactions are READ COMMITTED: the DELETE covers the rows that    *)
(* were committed when it began, and waits for whoever deletes them too.   *)
(***************************************************************************)
EXTENDS Observations

CONSTANTS
    Aggregators,  \* runs of the job in progress
    DayOf(_),     \* the UTC date of a time
    Minor(_),     \* a price's amount and its currency
    Currency(_),
    MaxRuns       \* bound: runs started

ASSUME DailyAggregatesAssumption ==
    /\ MaxRuns \in Nat
    /\ \A price \in Prices : Minor(price) \in Int
    /\ \A t \in 1..MaxPolls : DayOf(t) \in Int
    /\ \A t, u \in 1..MaxPolls : t <= u => DayOf(t) <= DayOf(u)

VARIABLES
    daily,     \* the committed rows of flight_price_daily, with the run that wrote them
    computed,  \* history: what each run read, and the polls committed by then
    apc,       \* where each aggregator is
    run,       \* the run it executes, an index of computed
    doomed     \* the rows its DELETE covers

aggVars == <<daily, computed, apc, run, doomed>>

-----------------------------------------------------------------------------
(* compute_daily_aggregates *)

\* Mutant: a period counts for the day it began on.
dates_covered_first(r) == {DayOf(r.first_seen_at)}

dates_covered(r) == DayOf(r.first_seen_at)..DayOf(r.last_seen_at)

median(prices) ==
    LET n == Len(prices)
        mid == n \div 2
    IN  IF n % 2 = 1 THEN prices[mid + 1] ELSE (prices[mid] + prices[mid + 1]) \div 2

Bucket(S, key) == {r \in S : key.date \in dates_covered(r) /\ Currency(r.price) = key.currency}

Keys(S) ==
    UNION {{[date |-> d, currency |-> Currency(r.price)] : d \in dates_covered(r)} : r \in S}

IsSorted(s, B) ==
    /\ \A r \in B : \E n \in 1..Len(s) : s[n] = r
    /\ \A m, n \in 1..Len(s) : m <= n => Minor(s[m].price) <= Minor(s[n].price)

sorted(B) == CHOOSE s \in [1..Cardinality(B) -> B] : IsSorted(s, B)

Aggregate(S, key) ==
    LET cheapest == sorted(Bucket(S, key))
        prices == [n \in 1..Len(cheapest) |-> Minor(cheapest[n].price)]
    IN  [key |-> key, minimum |-> prices[1], median |-> median(prices),
         maximum |-> prices[Len(prices)], observation_count |-> Len(prices)]

compute_daily_aggregates(S) == {Aggregate(S, key) : key \in Keys(S)}

\* The rows run n inserts.
DailyRows(n) == {[by |-> n, agg |-> a] : a \in compute_daily_aggregates(computed[n].rows)}

-----------------------------------------------------------------------------
DailyInit ==
    /\ Init
    /\ daily = {}
    /\ computed = << >>
    /\ apc = [a \in Aggregators |-> "idle"]
    /\ run = [a \in Aggregators |-> 0]
    /\ doomed = [a \in Aggregators |-> {}]

EndRun(a) ==
    /\ apc' = [apc EXCEPT ![a] = "idle"]
    /\ run' = [run EXCEPT ![a] = 0]
    /\ doomed' = [doomed EXCEPT ![a] = {}]

ReadRows(a) ==
    /\ apc[a] = "idle"
    /\ Len(computed) < MaxRuns
    /\ computed' = Append(computed, [rows |-> rows, polls |-> polls])
    /\ run' = [run EXCEPT ![a] = Len(computed) + 1]
    /\ apc' = [apc EXCEPT ![a] = "read"]
    /\ UNCHANGED <<vars, daily, doomed>>

BeginDelete(a) ==
    /\ apc[a] = "read"
    /\ doomed' = [doomed EXCEPT ![a] = daily]
    /\ apc' = [apc EXCEPT ![a] = "deleting"]
    /\ UNCHANGED <<vars, daily, computed, run>>

EndDelete(a) ==
    /\ apc[a] = "deleting"
    /\ \A b \in Aggregators : apc[b] = "deleted" => doomed[a] \cap doomed[b] = {}
    /\ apc' = [apc EXCEPT ![a] = "deleted"]
    /\ UNCHANGED <<vars, daily, computed, run, doomed>>

\* An aggregate with the key of a row that stays.
Repeats(a) ==
    \E r \in daily \ doomed[a] : \E new \in DailyRows(run[a]) : new.agg.key = r.agg.key

\* Mutant: the rows are inserted without the DELETE.
Replace_adding(a) == daily \cup DailyRows(run[a])

Replace(a) == (daily \ doomed[a]) \cup DailyRows(run[a])

CommitDaily(a) ==
    /\ apc[a] = "deleted"
    /\ ~Repeats(a)
    /\ daily' = Replace(a)
    /\ EndRun(a)
    /\ UNCHANGED <<vars, computed>>

\* The unique key is violated, or the job is cancelled: nothing of it stays.
RunFails(a) ==
    /\ apc[a] # "idle"
    /\ EndRun(a)
    /\ UNCHANGED <<vars, daily, computed>>

\* The aggregators die with the worker.
WorkerDies ==
    /\ WorkerCrash
    /\ apc' = [a \in Aggregators |-> "idle"]
    /\ run' = [a \in Aggregators |-> 0]
    /\ doomed' = [a \in Aggregators |-> {}]
    /\ UNCHANGED <<daily, computed>>

DailyNext ==
    \/ \E j \in Jobs :
        /\ \/ Fetch(j) \/ Fails(j)
           \/ RecordSuccess(j) \/ Flush(j) \/ FlushConflicts(j) \/ Write(j) \/ Commit(j)
        /\ UNCHANGED aggVars
    \/ \E a \in Aggregators :
        ReadRows(a) \/ BeginDelete(a) \/ EndDelete(a) \/ CommitDaily(a) \/ RunFails(a)
    \/ WorkerDies

DailySpec == DailyInit /\ [][DailyNext]_<<vars, aggVars>>

-----------------------------------------------------------------------------
(* Properties *)

\* What run n read was committed in the order in which it was fetched.
InOrderUpTo(n) ==
    LET s == computed[n].polls IN \A k \in 2..Len(s) : s[k - 1].retrieved_at < s[k].retrieved_at

\* However runs overlap, fail or are cut short, the table holds the aggregates of
\* what one run read, all of them and nothing else.
DailyIsOneRun ==
    (\A n \in DOMAIN computed : InOrderUpTo(n)) =>
        daily = {} \/ \E n \in DOMAIN computed : daily = DailyRows(n)

\* The price each search had found, when a run read the observations, lies within
\* the bounds the table shows for that search's day: as long as searches commit
\* in the order in which they fetched, no poll goes missing at midnight or with
\* a period that a later poll extends.
Within(agg, p, price) ==
    /\ agg.key = [date |-> DayOf(p.retrieved_at), currency |-> Currency(price)]
    /\ agg.minimum <= Minor(price) /\ Minor(price) <= agg.maximum
    /\ agg.minimum <= agg.median /\ agg.median <= agg.maximum

PollsWithinBounds ==
    \A n \in DOMAIN computed :
        (daily # {} /\ daily = DailyRows(n) /\ InOrderUpTo(n)) =>
            \A k \in DOMAIN computed[n].polls :
                LET p == computed[n].polls[k]
                IN  \A i \in DOMAIN p.offers : \E r \in daily : Within(r.agg, p, p.offers[i])
=============================================================================
