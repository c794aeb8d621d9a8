------------------------- MODULE MCOfferEvaluation -------------------------
(***************************************************************************)
(* OfferEvaluation for TLC: every slice of up to three flights between two *)
(* airports over a grid of times, alone; and answers of up to three offers *)
(* that differ in what the filters and preferences look at.                *)
(***************************************************************************)
EXTENDS OfferEvaluation

Flight(from, to, departs, arrives) ==
    [origin |-> from, destination |-> to, carrier |-> "AZ",
     departure_utc |-> departs, arrival_utc |-> arrives]

\* Connections of -60, 0, 44, 45 and more minutes; flights that land as they leave.
Flights == {Flight(r[1], r[2], departs, arrives) :
                r \in {<<"FCO", "LIN">>, <<"LIN", "FCO">>},
                departs \in {600, 704, 705, 800},
                arrives \in {NULL, 600, 660, 760}}

AnOffer(id, cabin, carrier, slices) ==
    [offer_id |-> id, currency |-> "EUR", cabin |-> cabin,
     validating_carrier |-> carrier, slices |-> slices]

Alone == {<<AnOffer(0, NULL, NULL, <<slice>>)>> : slice \in
             UNION {[1..n -> Flights] : n \in 0..2}
             \cup {<<a, b, c>> : a, b, c \in {Flight("FCO", "LIN", 600, 660),
                                              Flight("LIN", "FCO", 705, 760),
                                              Flight("LIN", "FCO", 705, NULL),
                                              Flight("FCO", "LIN", 805, 900),
                                              Flight("FCO", "LIN", 650, 700)}}}

Direct == <<Flight("FCO", "LIN", 600, 660)>>
Overnight == <<Flight("LIN", "FCO", 1400, 1500)>>
OneStop == <<Flight("FCO", "LIN", 600, 660), Flight("LIN", "FCO", 705, NULL)>>
Unknown == <<Flight("FCO", "XXX", 600, 660)>>

Assorted == {
    AnOffer(1, "economy", "AZ", <<Direct>>),
    AnOffer(2, "economy", NULL, <<Direct, Overnight>>),
    AnOffer(3, "business", "LH", <<OneStop, Direct>>),
    AnOffer(4, NULL, "AZ", <<Overnight>>),
    AnOffer(5, "economy", "LH", <<Direct, <<>>>>),
    AnOffer(6, "economy", "AZ", <<>>),
    AnOffer(7, "economy", "AZ", <<Unknown>>),
    [AnOffer(8, "economy", "AZ", <<Direct>>) EXCEPT !.currency = "euros"]}

Together == UNION {{f \in [1..n -> Assorted] : IsInjective(f)} : n \in 0..3}

MCAnswers == Alone \cup Together

Wanted == {
    <<>>,
    <<cabin_filter("economy"), max_stops_filter(0)>>,
    <<max_stops_filter(0), cabin_filter("economy")>>,
    <<arrive_before_filter(700, 0)>>,
    <<max_stops_filter(1), arrive_before_filter(700, 1)>>}

Liked == {
    <<>>,
    <<airline_preference([c \in {"LH"} |-> 2]), directness_preference(1)>>,
    <<time_of_day_preference(500, 700, 1), directness_preference(1)>>}

MCQuestions == [filters : Wanted, preferences : Liked]
=============================================================================
