------------------------- MODULE MCDailyAggregates -------------------------
(***************************************************************************)
(* DailyAggregates for TLC: a price is its amount, of which every third is *)
(* in another currency; two fetches a day; job slots are interchangeable.  *)
(***************************************************************************)
EXTENDS DailyAggregates, TLC

MCDayOf(t) == t \div 2
MCMinor(price) == price
MCCurrency(price) == IF price % 3 = 0 THEN "USD" ELSE "EUR"

Symmetry == Permutations(Jobs) \cup Permutations(Aggregators)
=============================================================================
