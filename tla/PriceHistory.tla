---------------------------- MODULE PriceHistory ----------------------------
(***************************************************************************)
(* What the table of observations promises (the docstring of               *)
(* src/infrastructure/postgres/observations.py): polls are recorded one    *)
(* after another, each as a whole.  A poll extends the current period of   *)
(* an itinerary it offers at an unchanged price, and opens a new period    *)
(* otherwise.  Observations implements it with overlapping transactions.   *)
(***************************************************************************)
EXTENDS Integers, Sequences

CONSTANTS
    Itineraries,
    Polls  \* what a search can find: retrieved_at, and the offers' prices

VARIABLES
    rows,  \* the periods
    polls  \* the polls recorded so far

Of(S, i) == {r \in S : r.itinerary_id = i}

\* The current period among those of an itinerary: the one seen last.
Current(S) == {r \in S : \A q \in S : q.last_seen_at <= r.last_seen_at}

Opens(p, i, before, after) ==
    /\ Current(before) = {} \/ \E r \in Current(before) : r.price # p.offers[i]
    /\ after = before \cup
         {[itinerary_id |-> i, price |-> p.offers[i], first_seen_at |-> p.retrieved_at,
           last_seen_at |-> p.retrieved_at, poll_count |-> 1]}

Continues(p, i, before, after) ==
    \E r \in Current(before) :
        /\ r.price = p.offers[i]
        /\ after = (before \ {r}) \cup
             {[r EXCEPT !.last_seen_at = p.retrieved_at, !.poll_count = @ + 1]}

\* The periods of itinerary i before and after poll p.
Recorded(p, i, before, after) ==
    IF i \in DOMAIN p.offers
    THEN Opens(p, i, before, after) \/ Continues(p, i, before, after)
    ELSE after = before

Init == rows = {} /\ polls = << >>

Record(p) ==
    /\ polls' = Append(polls, p)
    /\ {r.itinerary_id : r \in rows'} \subseteq Itineraries
    /\ \A i \in Itineraries : Recorded(p, i, Of(rows, i), Of(rows', i))

Next == \E p \in Polls : Record(p)

Spec == Init /\ [][Next]_<<rows, polls>>
=============================================================================
