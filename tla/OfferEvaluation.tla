--------------------------- MODULE OfferEvaluation ---------------------------
(***************************************************************************)
(* What becomes of the normalized offers of one answer: the quality gates  *)
(* discard the impossible ones (src/domain/quality/gates.py), the hard     *)
(* filters eliminate, the preferences reorder                              *)
(* (src/domain/ranking/filters.py).  The three are pure; the caller that   *)
(* hands the offers from one to the next is a step for each.  Times are    *)
(* minutes (UTC); a reason or a name in a message is left out.             *)
(***************************************************************************)
EXTENDS Selection, Integers, Sequences, FiniteSets, SequencesExt

CONSTANTS
    Answers,         \* sequences of offers a source may answer with
    Questions,       \* hard filters and preferences a user may ask for
    ISO_4217,        \* the currencies that are well-formed codes
    known_airports,
    known_carriers,
    MINIMUM_CONNECTION,  \* configured floor in minutes (45)
    DAY,             \* minutes in a day (1440)
    NULL             \* a value the source does not state; no question yet

ASSUME OfferEvaluationAssumption ==
    /\ MINIMUM_CONNECTION \in Nat /\ DAY \in Nat \ {0}
    /\ NULL \notin Int /\ NULL \notin Questions
    /\ \A a \in Answers : a \in Seq(ToSet(a)) /\ \A o \in ToSet(a) : Len(o.slices) \in Nat
    /\ \A a \in Answers : \A o \in ToSet(a) : \A slice \in ToSet(o.slices) :
           /\ Len(slice) \in Nat
           /\ \A s \in ToSet(slice) : s.departure_utc \in Int /\ s.arrival_utc \in Int \cup {NULL}
    /\ \A q \in Questions : q.filters \in Seq(ToSet(q.filters))
    /\ \A q \in Questions : \A f \in ToSet(q.filters) :
           f.kind = "arrive_before" => f.slice_index \in Nat
    /\ \A q \in Questions : q.preferences \in Seq(ToSet(q.preferences))
    /\ \A q \in Questions : \A p \in ToSet(q.preferences) :
           \/ p.kind = "airline" /\ \A carrier \in DOMAIN p.weights : p.weights[carrier] \in Int
           \/ p.kind \in {"directness", "time_of_day"} /\ p.weight \in Int

VARIABLES
    incoming,   \* offers still to be gated
    offers,     \* offers that passed the gates
    discarded,  \* offers the gates rejected
    question,   \* the filters and preferences asked for
    survivors,  \* what the hard filters left
    outcomes,   \* how many offers each hard filter removed
    ranked,     \* the survivors in the order shown
    stage       \* gating, filtering, ranking, shown, or an exception

vars == <<incoming, offers, discarded, question, survivors, outcomes, ranked, stage>>

-----------------------------------------------------------------------------
(* gates.py *)

_check_segment(segment) ==
    /\ segment.origin \in known_airports
    /\ segment.destination \in known_airports
    /\ segment.carrier \in known_carriers
    /\ segment.arrival_utc # NULL => segment.arrival_utc > segment.departure_utc

\* Mutant: a connection whose arrival is not stated passes.
_check_connection_trusting(current, following) ==
    /\ current.destination = following.origin
    /\ current.arrival_utc # NULL =>
           following.departure_utc - current.arrival_utc >= MINIMUM_CONNECTION

\* The loop body over adjacent segments; the floor is not negative, so that it
\* covers the negative connection too.
_check_connection(current, following) ==
    /\ current.destination = following.origin
    /\ current.arrival_utc # NULL
    /\ following.departure_utc - current.arrival_utc >= MINIMUM_CONNECTION

\* Mutant: a slice without segments passes.
_check_slice_empty(slice) ==
    /\ \A i \in 1..Len(slice) : _check_segment(slice[i])
    /\ \A i \in 1..(Len(slice) - 1) : _check_connection(slice[i], slice[i + 1])

_check_slice(slice) ==
    /\ slice # <<>>
    /\ \A i \in 1..Len(slice) : _check_segment(slice[i])
    /\ \A i \in 1..(Len(slice) - 1) : _check_connection(slice[i], slice[i + 1])

check_itinerary(offer) ==
    /\ offer.currency \in ISO_4217
    /\ offer.slices # <<>>
    /\ \A k \in 1..Len(offer.slices) : _check_slice(offer.slices[k])

-----------------------------------------------------------------------------
(* filters.py *)

cabin_filter(cabin) == [kind |-> "cabin", cabin |-> cabin]
max_stops_filter(n) == [kind |-> "max_stops", max_stops |-> n]
arrive_before_filter(cutoff, k) == [kind |-> "arrive_before", cutoff |-> cutoff, slice_index |-> k]

stops(slice) == Len(slice) - 1

time_of_day(t) == t % DAY

arrives_before(offer, f) ==
    /\ f.slice_index < Len(offer.slices)
    /\ LET arrival == Last(offer.slices[f.slice_index + 1]).arrival_utc
       IN  arrival # NULL /\ time_of_day(arrival) <= f.cutoff

predicate(f, offer) ==
    CASE f.kind = "cabin"         -> offer.cabin = f.cabin
      [] f.kind = "max_stops"     -> \A k \in 1..Len(offer.slices) :
                                         stops(offer.slices[k]) <= f.max_stops
      [] f.kind = "arrive_before" -> arrives_before(offer, f)

\* segments[-1] of a slice that has none.
raises(f, offer) ==
    /\ f.kind = "arrive_before"
    /\ f.slice_index < Len(offer.slices)
    /\ offer.slices[f.slice_index + 1] = <<>>

\* An offer that an earlier filter removed does not reach the nth one.
reaches_and_raises(filters, n, offer) ==
    /\ raises(filters[n], offer)
    /\ \A k \in 1..(n - 1) : predicate(filters[k], offer)

\* What is left after the first n filters.
remaining(os, filters, n) ==
    Picked(os, {i \in 1..Len(os) : \A k \in 1..n : predicate(filters[k], os[i])})

\* Mutant: each filter rebuilds the list from its front.
apply_hard_filters_prepends(os, filters) ==
    [survivors |-> Reverse(remaining(os, filters, Len(filters))),
     outcomes  |-> [n \in 1..Len(filters) |->
                       Len(remaining(os, filters, n - 1)) - Len(remaining(os, filters, n))]]

apply_hard_filters(os, filters) ==
    [survivors |-> remaining(os, filters, Len(filters)),
     outcomes  |-> [n \in 1..Len(filters) |->
                       Len(remaining(os, filters, n - 1)) - Len(remaining(os, filters, n))]]

airline_preference(weights) == [kind |-> "airline", weights |-> weights]
directness_preference(w) == [kind |-> "directness", weight |-> w]
time_of_day_preference(from, to, w) == [kind |-> "time_of_day", from |-> from, to |-> to, weight |-> w]

SumOf(values) ==
    LET sum[n \in 0..Len(values)] == IF n = 0 THEN 0 ELSE sum[n - 1] + values[n]
    IN  sum[Len(values)]

score(p, offer) ==
    CASE p.kind = "airline" ->
             IF offer.validating_carrier \in DOMAIN p.weights
             THEN p.weights[offer.validating_carrier] ELSE 0
      [] p.kind = "directness" ->
             -p.weight * SumOf([k \in 1..Len(offer.slices) |-> stops(offer.slices[k])])
      [] p.kind = "time_of_day" ->
             IF /\ offer.slices # <<>> /\ offer.slices[1] # <<>>
                /\ time_of_day(offer.slices[1][1].departure_utc) \in p.from..p.to
             THEN p.weight ELSE 0

total_score(preferences, offer) ==
    SumOf([n \in 1..Len(preferences) |-> score(preferences[n], offer)])

\* A stable sort, the highest score first.
apply_preferences(os, preferences) ==
    LET n == Len(os)
        value(i) == total_score(preferences, os[i])
        place(i) == Cardinality({k \in 1..n : \/ value(k) > value(i)
                                              \/ value(k) = value(i) /\ k <= i})
    IN  [p \in 1..n |-> os[CHOOSE i \in 1..n : place(i) = p]]

-----------------------------------------------------------------------------
(* The caller *)

Init ==
    /\ incoming \in Answers
    /\ offers = <<>> /\ discarded = {}
    /\ question = NULL /\ survivors = <<>> /\ outcomes = <<>> /\ ranked = <<>>
    /\ stage = "gating"

Gate ==
    /\ stage = "gating" /\ incoming # <<>>
    /\ IF check_itinerary(Head(incoming))
       THEN /\ offers' = Append(offers, Head(incoming))
            /\ UNCHANGED discarded
       ELSE /\ discarded' = discarded \cup {Head(incoming)}
            /\ UNCHANGED offers
    /\ incoming' = Tail(incoming)
    /\ UNCHANGED <<question, survivors, outcomes, ranked, stage>>

Filter(q) ==
    LET result == apply_hard_filters(offers, q.filters) IN
    /\ stage = "gating" /\ incoming = <<>>
    /\ question' = q
    /\ \/ /\ \E i \in 1..Len(offers), n \in 1..Len(q.filters) :
                reaches_and_raises(q.filters, n, offers[i])
          /\ stage' = "IndexError"
          /\ UNCHANGED <<survivors, outcomes>>
       \/ /\ \A i \in 1..Len(offers), n \in 1..Len(q.filters) :
                ~reaches_and_raises(q.filters, n, offers[i])
          /\ survivors' = result.survivors
          /\ outcomes' = result.outcomes
          /\ stage' = "ranking"
    /\ UNCHANGED <<incoming, offers, discarded, ranked>>

Rank ==
    /\ stage = "ranking"
    /\ ranked' = apply_preferences(survivors, question.preferences)
    /\ stage' = "shown"
    /\ UNCHANGED <<incoming, offers, discarded, question, survivors, outcomes>>

Next == Gate \/ (\E q \in Questions : Filter(q)) \/ Rank

Spec == Init /\ [][Next]_vars

-----------------------------------------------------------------------------
(* Properties *)

Offer == UNION {ToSet(a) : a \in Answers}

\* What the gates let into history can be flown: along a slice each flight leaves
\* from where the one before it landed, and, between any two of them, not before
\* the earlier has landed and its connection has been made.
AcceptedCanBeFlown ==
    \A offer \in ToSet(offers) : \A k \in 1..Len(offer.slices) :
        LET slice == offer.slices[k] IN
        \A i, j \in 1..Len(slice) : i < j =>
            /\ slice[i].arrival_utc # NULL
            /\ slice[j].departure_utc >=
                   slice[i].arrival_utc + MINIMUM_CONNECTION
            /\ slice[j].origin = slice[j - 1].destination

\* The filters can read what they are about in every offer the gates accepted: no
\* answer makes one of them raise.
FiltersNeverRaise == stage # "IndexError"

\* Filters eliminate and preferences reorder: doing it in the other order shows
\* the same list, whatever is asked.
FilteringAndRankingCommute ==
    stage = "shown" =>
        ranked = apply_hard_filters(apply_preferences(offers, question.preferences),
                                    question.filters).survivors
=============================================================================
