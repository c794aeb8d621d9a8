-------------------------- MODULE MCSearchPlanning --------------------------
(***************************************************************************)
(* SearchPlanning for TLC: queries of up to four tasks, whose dates cross  *)
(* a month, with the code's own scales and horizon.                        *)
(***************************************************************************)
EXTENDS SearchPlanning

\* Months of four days; day 7 is the last of the second month.
MCMonthOf == [day \in 0..20 |-> day \div 4]

AnOrigin == <<[code |-> "FCO", weight |-> 100]>>
TwoOrigins == <<[code |-> "FCO", weight |-> 20], [code |-> "MXP", weight |-> 100]>>
ADestination == <<[code |-> "JFK", weight |-> 50]>>

Query(origins, first, last, shortest, longest, cabins) ==
    [origins |-> origins, destinations |-> ADestination, date_start |-> first,
     date_end |-> last, min_nights |-> shortest, max_nights |-> longest, cabins |-> cabins]

MCQueries == {
    Query(TwoOrigins, 7, 8, 3, 3, <<"economy">>),
    Query(AnOrigin, 6, 8, 3, 3, <<"economy">>),
    Query(AnOrigin, 8, 8, 3, 4, <<"economy", "business">>),
    Query(TwoOrigins, 8, 7, 3, 3, <<"economy">>)}

\* The defaults of GainWeights, and a preference that dwarfs the rest.
MCWeights == {[preference |-> 2, proximity |-> 1], [preference |-> 20, proximity |-> 0]}

MCRequests ==
    {r \in [query : MCQueries, budget : {0, 1, 2, 5}, max_staleness_days : {0, 2, 4},
            weights : MCWeights] :
        r.budget \in {0, 5} => r.max_staleness_days = 2}

ASSUME QueriesAssumption == QueriesRepeatNothing
=============================================================================
