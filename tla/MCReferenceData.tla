-------------------------- MODULE MCReferenceData --------------------------
(***************************************************************************)
(* ReferenceData for TLC: positions on a line, in units of HUB_RADIUS.     *)
(***************************************************************************)
EXTENDS ReferenceData, TLC

MCDistance(a, b) == IF a <= b THEN b - a ELSE a - b
MCCharted(at) == at < 9

Row(icao, iata, type, at) == [icao |-> icao, iata |-> iata, type |-> type, at |-> at]
Airline(icao, iata) == [icao |-> icao, iata |-> iata]

Large == "large_airport"
Medium == "medium_airport"

\* Three linked hubs and a regional airport near the last; rows that are not
\* parsed; an airline listed twice.
Feed1 ==
    [ourairports |-> <<Row(1, "A", Large, 0), Row(2, "B", Large, 1), Row(3, "C", Large, 2),
                       Row(4, "D", Medium, 4), Row(5, NULL, Large, 3)>>,
     timezones |-> {1, 2},
     airlines |-> <<Airline(1, "X"), Airline(1, "Y"), Airline(NULL, "Z")>>]

\* The middle hub closes, and the groups split; a new airport far out at sea.
Feed2 ==
    [ourairports |-> <<Row(1, "A", Large, 0), Row(3, "C", Large, 2), Row(4, "D", Medium, 4),
                       Row(6, "E", "small_airport", 9)>>,
     timezones |-> {1, 2, 3},
     airlines |-> <<Airline(2, "X")>>]

\* The closed hub's code goes to an airport that opens, and the first hub hands
\* its code on and takes a new one.
Feed3 ==
    [ourairports |-> <<Row(7, "B", Large, 1), Row(3, "C", Large, 2), Row(8, "A", Medium, 3),
                       Row(1, "F", Large, 0)>>,
     timezones |-> {},
     airlines |-> <<Airline(1, "X"), Airline(2, "Y")>>]

\* Files of three different states: what a run fetches while the sources change.
\* Two airports that open share a code.
Feed4 ==
    [ourairports |-> <<Row(1, "A", Large, 0), Row(9, "G", Large, 2), Row(10, "G", Large, 3)>>,
     timezones |-> Feed2.timezones,
     airlines |-> Feed1.airlines]

MCFeeds == {Feed1, Feed2, Feed3, Feed4}

-----------------------------------------------------------------------------
\* Every placing of four airports on four positions, as hub or regional airport,
\* listed out of the order of their codes, after one that is never grouped.
Lists ==
    {<<[icao |-> 5, type |-> "small_airport", at |-> 1]>> \o
     [i \in 1..4 |-> [icao |-> <<2, 4, 1, 3>>[i], type |-> t[i], at |-> p[i]]] :
        t \in [1..4 -> {Large, Medium}], p \in [1..4 -> 0..3]}

\* derive_groups finds the metropolitan systems: hubs linked by hops, each regional
\* airport with its nearest hub and never by way of another, in any order of the rows.
ASSUME GroupsOfAnyList == \A list \in Lists : IsGrouping(list)

ASSUME GroupsOfTheFeeds == SourcesAreGrouped
=============================================================================
