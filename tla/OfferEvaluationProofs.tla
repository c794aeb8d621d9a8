------------------------ MODULE OfferEvaluationProofs ------------------------
(***************************************************************************)
(* Proofs about OfferEvaluation, for every answer, every question and      *)
(* every reference data: what the gates accept can be flown, the filters   *)
(* can read it, and filtering and ranking commute.  The last rests on      *)
(* ranks: in a finite set with a total order every element has its own     *)
(* place, so that there is one way only through the set in its order.      *)
(***************************************************************************)
EXTENDS OfferEvaluation, SequenceTheorems, FiniteSetTheorems, WellFoundedInduction, TLAPS

-----------------------------------------------------------------------------
(* Induction *)

\* A non-empty set of naturals has a least element.
LEMMA LeastNatural ==
    ASSUME NEW T \in SUBSET Nat, T # {}
    PROVE  \E x \in T : \A y \in T : x <= y
<1>1. \E x \in T : \A y \in T : ~(<<y, x>> \in OpToRel(<, Nat))
  BY NatLessThanWellFounded, WFMin, Zenon
<1>2. \A x, y \in Nat : y < x => <<y, x>> \in OpToRel(<, Nat)
  BY Zenon DEF OpToRel
<1>3. \E x \in T : \A y \in T : ~(y < x)
  BY <1>1, <1>2, Zenon
<1>. QED
  BY <1>3

\* Induction, for a property given as the set of the numbers that have it.
LEMMA NatSetInduction ==
    ASSUME NEW S \in SUBSET Nat, 0 \in S, \A n \in S : n + 1 \in S
    PROVE  S = Nat
<1>. SUFFICES ASSUME S # Nat PROVE FALSE
  OBVIOUS
<1>. DEFINE T == Nat \ S
<1>1. PICK x \in T : \A y \in T : x <= y
  <2>1. T \in SUBSET Nat /\ T # {}
    OBVIOUS
  <2>. HIDE DEF T
  <2>. QED
    BY <2>1, LeastNatural
<1>2. x - 1 \in Nat
  OBVIOUS
<1>3. x - 1 \in S
  BY <1>1, <1>2
<1>. QED
  BY <1>2, <1>3

-----------------------------------------------------------------------------
(* The gates and the filters *)

\* What is past the gates passed them, and no filter has raised on it.
Gated ==
    /\ incoming \in Seq(Offer) /\ offers \in Seq(Offer)
    /\ \A i \in 1..Len(offers) : check_itinerary(offers[i])
    /\ FiltersNeverRaise

\* An offer that passed has a segment at the end of every slice, so a filter that
\* looks there does not raise on it.
LEMMA AcceptedNeverRaises ==
    ASSUME NEW offer, check_itinerary(offer), Len(offer.slices) \in Nat,
           NEW f, f.kind = "arrive_before" => f.slice_index \in Nat
    PROVE  ~raises(f, offer)
<1>. SUFFICES ASSUME raises(f, offer) PROVE FALSE
  OBVIOUS
<1>1. f.slice_index + 1 \in 1..Len(offer.slices) /\ offer.slices[f.slice_index + 1] = <<>>
  BY DEF raises
<1>2. _check_slice(offer.slices[f.slice_index + 1])
  BY <1>1 DEF check_itinerary
<1>. QED
  BY <1>1, <1>2 DEF _check_slice

LEMMA GatedInit == Init => Gated
<1>. SUFFICES ASSUME Init PROVE Gated
  OBVIOUS
<1>1. incoming \in Answers /\ offers = <<>> /\ stage = "gating"
  BY DEF Init
<1>2. incoming \in Seq(ToSet(incoming)) /\ ToSet(incoming) \subseteq Offer
  BY <1>1, OfferEvaluationAssumption DEF Offer
<1>3. incoming \in Seq(Offer)
  BY <1>2
<1>. QED
  BY <1>1, <1>3 DEF Gated, FiltersNeverRaise

LEMMA GatedStep == Gated /\ [Next]_vars => Gated'
<1>. SUFFICES ASSUME Gated, [Next]_vars PROVE Gated'
  OBVIOUS
<1>1. CASE Gate
  <2>1. incoming # <<>> /\ Head(incoming) \in Offer /\ incoming' = Tail(incoming)
        /\ Tail(incoming) \in Seq(Offer) /\ stage' = stage
    BY <1>1 DEF Gate, Gated
  <2>2. CASE check_itinerary(Head(incoming))
    <3>1. offers' = Append(offers, Head(incoming))
      BY <1>1, <2>2 DEF Gate
    <3>2. offers \in Seq(Offer) /\ \A i \in 1..Len(offers) : check_itinerary(offers[i])
      BY DEF Gated
    <3>3. offers' \in Seq(Offer) /\ Len(offers') = Len(offers) + 1
          /\ \A i \in 1..Len(offers') :
                offers'[i] = IF i = Len(offers) + 1 THEN Head(incoming) ELSE offers[i]
      BY <2>1, <3>1, <3>2
    <3>4. \A i \in 1..Len(offers') : check_itinerary(offers'[i])
      <4>. SUFFICES ASSUME NEW i \in 1..Len(offers') PROVE check_itinerary(offers'[i])
        OBVIOUS
      <4>1. CASE i = Len(offers) + 1
        BY <2>2, <3>3, <4>1
      <4>2. CASE i \in 1..Len(offers)
        <5>1. i # Len(offers) + 1
          BY <3>2, <4>2
        <5>. QED
          BY <3>2, <3>3, <4>2, <5>1
      <4>. QED
        BY <3>2, <3>3, <4>1, <4>2
    <3>. QED
      BY <2>1, <3>3, <3>4 DEF Gated, FiltersNeverRaise
  <2>3. CASE ~check_itinerary(Head(incoming))
    <3>1. offers' = offers
      BY <1>1, <2>3 DEF Gate
    <3>. QED
      BY <2>1, <3>1 DEF Gated, FiltersNeverRaise
  <2>. QED
    BY <2>2, <2>3
<1>2. ASSUME NEW q \in Questions, Filter(q) PROVE Gated'
  <2>1. \A i \in 1..Len(offers), n \in 1..Len(q.filters) :
            ~reaches_and_raises(q.filters, n, offers[i])
    <3>. SUFFICES ASSUME NEW i \in 1..Len(offers), NEW n \in 1..Len(q.filters)
                  PROVE  ~raises(q.filters[n], offers[i])
      BY DEF reaches_and_raises
    <3>1. q.filters \in Seq(ToSet(q.filters))
      BY OfferEvaluationAssumption
    <3>2. q.filters[n] \in ToSet(q.filters)
      BY <3>1
    <3>3. q.filters[n].kind = "arrive_before" => q.filters[n].slice_index \in Nat
      BY <3>2, OfferEvaluationAssumption
    <3>4. offers[i] \in Offer /\ check_itinerary(offers[i])
      BY DEF Gated
    <3>5. Len(offers[i].slices) \in Nat
      BY <3>4, OfferEvaluationAssumption DEF Offer
    <3>. QED
      BY <3>3, <3>4, <3>5, AcceptedNeverRaises
  <2>2. stage' = "ranking" /\ UNCHANGED <<incoming, offers>>
    BY <1>2, <2>1 DEF Filter
  <2>. QED
    BY <2>2 DEF Gated, FiltersNeverRaise
<1>3. CASE Rank
  BY <1>3 DEF Rank, Gated, FiltersNeverRaise
<1>4. CASE UNCHANGED vars
  BY <1>4 DEF vars, Gated, FiltersNeverRaise
<1>. QED
  BY <1>1, <1>2, <1>3, <1>4 DEF Next

\* Whatever a source answers and a user asks, no filter meets an offer it cannot
\* read: the gates keep such offers out.
THEOREM FiltersCanRead == Spec => []FiltersNeverRaise
<1>1. Gated => FiltersNeverRaise
  BY DEF Gated
<1>. QED
  BY <1>1, GatedInit, GatedStep, PTL DEF Spec

-----------------------------------------------------------------------------
(* A journey that can be flown *)

\* The gates look at adjacent segments only: that a passenger reaches every later
\* one follows along the slice.
LEMMA ConnectionsAddUp ==
    ASSUME NEW slice, Len(slice) \in Nat, _check_slice(slice),
           \A s \in ToSet(slice) : s.departure_utc \in Int /\ s.arrival_utc \in Int \cup {NULL},
           NEW i \in 1..Len(slice), NEW j \in 1..Len(slice), i < j
    PROVE  /\ slice[i].arrival_utc # NULL
           /\ slice[j].departure_utc >= slice[i].arrival_utc + MINIMUM_CONNECTION
           /\ slice[j].origin = slice[j - 1].destination
<1>. DEFINE n == Len(slice)
            dep(k) == slice[k].departure_utc
            arr(k) == slice[k].arrival_utc
<1>1. MINIMUM_CONNECTION \in Nat /\ n \in Nat /\ NULL \notin Int
  BY OfferEvaluationAssumption
<1>2. \A k \in 1..n : /\ dep(k) \in Int /\ arr(k) \in Int \cup {NULL}
                      /\ arr(k) # NULL => arr(k) > dep(k)
  BY DEF _check_slice, _check_segment, ToSet
<1>3. \A k \in 1..(n - 1) : /\ arr(k) # NULL
                            /\ dep(k + 1) - arr(k) >= MINIMUM_CONNECTION
                            /\ slice[k + 1].origin = slice[k].destination
  BY DEF _check_slice, _check_connection
<1>4. j - 1 \in 1..(n - 1) /\ i \in 1..(n - 1) /\ (j - 1) + 1 = j
  BY <1>1
<1>5. arr(i) \in Int /\ arr(i) # NULL
  BY <1>2, <1>3, <1>4
<1>. HIDE DEF n, dep, arr
<1>. DEFINE S == {d \in Nat : i + d + 1 <= n => dep(i + d + 1) >= arr(i) + MINIMUM_CONNECTION}
<1>6. 0 \in S
  <2>1. dep(i + 1) \in Int /\ dep(i + 1) - arr(i) >= MINIMUM_CONNECTION
    BY <1>1, <1>2, <1>3, <1>4
  <2>. QED
    BY <1>1, <1>5, <2>1
<1>7. ASSUME NEW d \in S PROVE d + 1 \in S
  <2>. SUFFICES ASSUME i + (d + 1) + 1 <= n
                PROVE  dep(i + (d + 1) + 1) >= arr(i) + MINIMUM_CONNECTION
    OBVIOUS
  <2>. DEFINE k == i + d + 1
  <2>1. k \in 1..(n - 1) /\ k \in 1..n /\ k + 1 \in 1..n /\ i + (d + 1) + 1 = k + 1
    BY <1>1
  <2>2. dep(k) >= arr(i) + MINIMUM_CONNECTION
    BY <1>1, <2>1
  <2>. HIDE DEF k
  <2>3. /\ dep(k) \in Int /\ arr(k) \in Int /\ dep(k + 1) \in Int
        /\ arr(k) > dep(k) /\ dep(k + 1) - arr(k) >= MINIMUM_CONNECTION
    BY <1>2, <1>3, <2>1
  <2>. QED
    BY <1>1, <1>5, <2>1, <2>2, <2>3
<1>. HIDE DEF S
<1>8. S = Nat
  BY <1>6, <1>7, NatSetInduction DEF S
<1>9. dep(j) >= arr(i) + MINIMUM_CONNECTION
  <2>. DEFINE d == j - i - 1
  <2>1. d \in Nat /\ i + d + 1 = j /\ j <= n
    BY DEF n
  <2>. HIDE DEF d
  <2>. QED
    BY <1>8, <2>1 DEF S
<1>. QED
  BY <1>3, <1>4, <1>5, <1>9 DEF dep, arr

\* What the gates let into history can be flown, for journeys of any length: along
\* a slice each flight leaves from where the one before it landed, and, between any
\* two of them, not before the earlier has landed and its connection has been made.
THEOREM AcceptedAreFlyable == Spec => []AcceptedCanBeFlown
<1>1. Gated => AcceptedCanBeFlown
  <2>. SUFFICES ASSUME Gated, NEW offer \in ToSet(offers), NEW k \in 1..Len(offer.slices),
                       NEW i \in 1..Len(offer.slices[k]), NEW j \in 1..Len(offer.slices[k]), i < j
                PROVE  LET slice == offer.slices[k] IN
                       /\ slice[i].arrival_utc # NULL
                       /\ slice[j].departure_utc >= slice[i].arrival_utc + MINIMUM_CONNECTION
                       /\ slice[j].origin = slice[j - 1].destination
    BY DEF AcceptedCanBeFlown
  <2>. DEFINE slice == offer.slices[k]
  <2>1. offer \in Offer /\ check_itinerary(offer)
    BY DEF Gated, ToSet
  <2>2. slice \in ToSet(offer.slices) /\ _check_slice(slice)
    BY <2>1, OfferEvaluationAssumption DEF check_itinerary, ToSet, Offer
  <2>3. /\ Len(slice) \in Nat
        /\ \A s \in ToSet(slice) : s.departure_utc \in Int /\ s.arrival_utc \in Int \cup {NULL}
    BY <2>1, <2>2, OfferEvaluationAssumption DEF Offer
  <2>. HIDE DEF slice
  <2>. QED
    BY <2>2, <2>3, ConnectionsAddUp DEF slice
<1>. QED
  BY <1>1, GatedInit, GatedStep, PTL DEF Spec

-----------------------------------------------------------------------------
(* Ranks: in a finite set with a total order, every element has its place. *)

Upto(S, R, i) == {k \in S : <<k, i>> \in R}

Place(S, R, i) == Cardinality(Upto(S, R, i))

IsTotalOrder(S, R) ==
    /\ \A i, j \in S : <<i, j>> \in R \/ <<j, i>> \in R
    /\ \A i, j \in S : <<i, j>> \in R /\ <<j, i>> \in R => i = j
    /\ \A i, j, k \in S : <<i, j>> \in R /\ <<j, k>> \in R => <<i, k>> \in R

LEMMA RanksAreInOrder ==
    ASSUME NEW S, IsFiniteSet(S), NEW R, IsTotalOrder(S, R), NEW i \in S, NEW j \in S
    PROVE  /\ Place(S, R, i) \in 1..Cardinality(S)
           /\ i # j /\ <<i, j>> \in R => Place(S, R, i) < Place(S, R, j)
<1>1. \A k \in S : /\ IsFiniteSet(Upto(S, R, k)) /\ Place(S, R, k) \in Nat
                   /\ Place(S, R, k) <= Cardinality(S)
  BY FS_Subset, FS_CardinalityType DEF Upto, Place
<1>2. Place(S, R, i) # 0
  <2>1. i \in Upto(S, R, i)
    BY DEF Upto, IsTotalOrder
  <2>. QED
    BY <1>1, <2>1, FS_EmptySet DEF Place
<1>3. ASSUME i # j, <<i, j>> \in R PROVE Place(S, R, i) < Place(S, R, j)
  <2>1. Upto(S, R, i) \in SUBSET Upto(S, R, j)
    BY <1>3 DEF Upto, IsTotalOrder
  <2>2. j \in Upto(S, R, j) /\ j \notin Upto(S, R, i)
    BY <1>3 DEF Upto, IsTotalOrder
  <2>3. /\ Place(S, R, i) <= Place(S, R, j)
        /\ Place(S, R, j) = Place(S, R, i) => Upto(S, R, j) = Upto(S, R, i)
    BY <1>1, <2>1, FS_Subset DEF Place
  <2>. QED
    BY <1>1, <2>2, <2>3
<1>4. Cardinality(S) \in Nat
  BY FS_CardinalityType
<1>. QED
  BY <1>1, <1>2, <1>3, <1>4

LEMMA RanksAreDistinct ==
    ASSUME NEW S, IsFiniteSet(S), NEW R, IsTotalOrder(S, R), NEW i \in S, NEW j \in S,
           Place(S, R, i) = Place(S, R, j)
    PROVE  i = j
<1>1. Place(S, R, i) \in Int
  <2>1. Place(S, R, i) \in 1..Cardinality(S)
    BY RanksAreInOrder
  <2>. QED
    BY <2>1
<1>2. <<i, j>> \in R \/ <<j, i>> \in R
  BY DEF IsTotalOrder
<1>3. ~(Place(S, R, i) < Place(S, R, j)) /\ ~(Place(S, R, j) < Place(S, R, i))
  BY <1>1
<1>. QED
  BY <1>2, <1>3, RanksAreInOrder

LEMMA EveryRankIsTaken ==
    ASSUME NEW S, IsFiniteSet(S), NEW R, IsTotalOrder(S, R)
    PROVE  \A p \in 1..Cardinality(S) : \E i \in S : Place(S, R, i) = p
<1>. DEFINE n == Cardinality(S)
            f == [i \in S |-> Place(S, R, i)]
<1>1. n \in Nat /\ IsFiniteSet(1..n) /\ Cardinality(1..n) = n
  BY FS_CardinalityType, FS_Interval
<1>2. f \in Injection(S, 1..n)
  <2>1. f \in [S -> 1..n]
    BY RanksAreInOrder
  <2>2. \A i, j \in S : f[i] = f[j] => i = j
    BY RanksAreDistinct
  <2>. QED
    BY <2>1, <2>2 DEF Injection, IsInjective
<1>3. f \in Surjection(S, 1..n)
  <2>. HIDE DEF f
  <2>. QED
    BY <1>1, <1>2, FS_Injection
<1>. QED
  BY <1>3 DEF Surjection

LEMMA Intervals ==
    ASSUME NEW n \in Nat
    PROVE  /\ IsFiniteSet(1..n) /\ Cardinality(1..n) = n
           /\ \A S \in SUBSET (1..n) :
                  /\ IsFiniteSet(S) /\ Cardinality(S) \in Nat /\ Cardinality(S) <= n
                  /\ Cardinality(S) = n => S = 1..n
<1>1. IsFiniteSet(1..n) /\ Cardinality(1..n) = n
  BY FS_Interval
<1>2. ASSUME NEW S \in SUBSET (1..n)
      PROVE  /\ IsFiniteSet(S) /\ Cardinality(S) <= n
             /\ Cardinality(S) = n => S = 1..n
  <2>1. /\ IsFiniteSet(S) /\ Cardinality(S) <= Cardinality(1..n)
        /\ Cardinality(1..n) = Cardinality(S) => 1..n = S
    BY <1>1, FS_Subset
  <2>. QED
    BY <1>1, <2>1
<1>3. \A S : IsFiniteSet(S) => Cardinality(S) \in Nat
  BY FS_CardinalityType
<1>. QED
  BY <1>1, <1>2, <1>3

WayThrough(f, n, S, R) ==
    /\ f \in [1..n -> S]
    /\ \A i \in S : \E p \in 1..n : f[p] = i
    /\ \A p, q \in 1..n : p < q => f[p] # f[q] /\ <<f[p], f[q]>> \in R

\* A way through S in the order of R is the way by rank.
LEMMA InOrderIsByRank ==
    ASSUME NEW S, IsFiniteSet(S), NEW R, IsTotalOrder(S, R), NEW n \in Nat,
           NEW f, WayThrough(f, n, S, R)
    PROVE  /\ n = Cardinality(S)
           /\ \A p \in 1..n : Place(S, R, f[p]) = p
<1>0. /\ f \in [1..n -> S]
      /\ \A i \in S : \E p \in 1..n : f[p] = i
      /\ \A p, q \in 1..n : p < q => f[p] # f[q] /\ <<f[p], f[q]>> \in R
  BY DEF WayThrough
<1>1. \A p, q \in 1..n : f[p] = f[q] => p = q
  <2>. SUFFICES ASSUME NEW p \in 1..n, NEW q \in 1..n, f[p] = f[q], p # q PROVE FALSE
    OBVIOUS
  <2>1. p < q \/ q < p
    OBVIOUS
  <2>. QED
    BY <1>0, <2>1
<1>2. \A m \in 0..n : Cardinality({f[p] : p \in 1..m}) = m
  <2>. SUFFICES ASSUME NEW m \in 0..n PROVE Cardinality({f[p] : p \in 1..m}) = m
    OBVIOUS
  <2>. DEFINE T == {f[p] : p \in 1..m}
              g == [p \in 1..m |-> f[p]]
  <2>1. g \in [1..m -> T] /\ (\A t \in T : \E p \in 1..m : g[p] = t)
    OBVIOUS
  <2>2. \A p, q \in 1..m : g[p] = g[q] => p = q
    BY <1>1
  <2>3. DOMAIN g = 1..m
    OBVIOUS
  <2>4. IsFiniteSet(1..m) /\ Cardinality(1..m) = m
    BY FS_Interval
  <2>. HIDE DEF T, g
  <2>5. g \in Bijection(1..m, T)
    BY <2>1, <2>2, <2>3 DEF Bijection, Injection, Surjection, IsInjective
  <2>6. ExistsBijection(1..m, T)
    BY <2>5 DEF ExistsBijection
  <2>7. Cardinality(T) = m
    BY <2>4, <2>6, FS_Bijection
  <2>. QED
    BY <2>7 DEF T
<1>3. n = Cardinality(S)
  <2>1. S = {f[p] : p \in 1..n}
    BY <1>0
  <2>. QED
    BY <1>2, <2>1
<1>4. ASSUME NEW p \in 1..n PROVE Place(S, R, f[p]) = p
  <2>1. \A q \in 1..n : <<f[q], f[p]>> \in R <=> q <= p
    <3>1. ASSUME NEW q \in 1..n, q <= p PROVE <<f[q], f[p]>> \in R
      BY <1>0, <3>1 DEF IsTotalOrder
    <3>2. ASSUME NEW q \in 1..n, <<f[q], f[p]>> \in R, ~(q <= p) PROVE FALSE
      <4>1. p < q
        BY <3>2
      <4>. QED
        BY <1>0, <3>2, <4>1 DEF IsTotalOrder
    <3>. QED
      BY <3>1, <3>2
  <2>2. Upto(S, R, f[p]) \subseteq {f[q] : q \in 1..p}
    <3>. SUFFICES ASSUME NEW k \in S, <<k, f[p]>> \in R PROVE k \in {f[q] : q \in 1..p}
      BY DEF Upto
    <3>1. PICK q \in 1..n : f[q] = k
      BY <1>0
    <3>2. q \in 1..p
      BY <2>1, <3>1
    <3>. QED
      BY <3>1, <3>2
  <2>3. {f[q] : q \in 1..p} \subseteq Upto(S, R, f[p])
    <3>. SUFFICES ASSUME NEW q \in 1..p PROVE f[q] \in Upto(S, R, f[p])
      OBVIOUS
    <3>1. q \in 1..n
      OBVIOUS
    <3>. QED
      BY <1>0, <2>1, <3>1 DEF Upto
  <2>4. Upto(S, R, f[p]) = {f[q] : q \in 1..p} /\ p \in 0..n
    BY <2>2, <2>3
  <2>. QED
    BY <1>2, <2>4 DEF Place
<1>. QED
  BY <1>3, <1>4

-----------------------------------------------------------------------------
(* Sequences *)

LEMMA SequenceOf ==
    ASSUME NEW T, NEW n \in Nat, NEW f \in [1..n -> T]
    PROVE  f \in Seq(T) /\ Len(f) = n /\ DOMAIN f = 1..n
<1>1. f \in Seq(T)
  BY SeqDef
<1>2. Len(f) \in Nat /\ DOMAIN f = 1..Len(f)
  BY <1>1, LenProperties
<1>3. DOMAIN f = 1..n
  OBVIOUS
<1>. QED
  BY <1>1, <1>2, <1>3

AtMost(S) == {pair \in S \X S : pair[1] <= pair[2]}

\* Picked takes the positions in their order, each once.
PicksAt(pos, xs, S) ==
    /\ pos \in [1..Cardinality(S) -> S]
    /\ Picked(xs, S) = [p \in 1..Cardinality(S) |-> xs[pos[p]]]
    /\ \A i \in S : \E p \in 1..Cardinality(S) : pos[p] = i
    /\ \A p, q \in 1..Cardinality(S) : p < q => pos[p] < pos[q]

LEMMA PickedPositions ==
    ASSUME NEW n \in Nat, NEW S \in SUBSET (1..n), NEW xs
    PROVE  \E pos : PicksAt(pos, xs, S)
<1>. DEFINE pos == [p \in 1..Cardinality(S) |-> CHOOSE i \in S : Cardinality({k \in S : k <= i}) = p]
<1>1. IsFiniteSet(S) /\ Cardinality(S) \in Nat
  BY Intervals
<1>2. IsTotalOrder(S, AtMost(S))
  BY DEF IsTotalOrder, AtMost
<1>3. \A i \in S : Place(S, AtMost(S), i) = Cardinality({k \in S : k <= i})
  <2>. SUFFICES ASSUME NEW i \in S PROVE Upto(S, AtMost(S), i) = {k \in S : k <= i}
    BY DEF Place
  <2>. QED
    BY DEF Upto, AtMost
<1>4. \A p \in 1..Cardinality(S) : \E i \in S : Cardinality({k \in S : k <= i}) = p
  <2>1. \A p \in 1..Cardinality(S) : \E i \in S : Place(S, AtMost(S), i) = p
    BY <1>1, <1>2, EveryRankIsTaken
  <2>. QED
    BY <1>3, <2>1
<1>5. \A p \in 1..Cardinality(S) : pos[p] \in S /\ Place(S, AtMost(S), pos[p]) = p
  <2>. SUFFICES ASSUME NEW p \in 1..Cardinality(S)
                PROVE  pos[p] \in S /\ Place(S, AtMost(S), pos[p]) = p
    OBVIOUS
  <2>1. pos[p] = CHOOSE i \in S : Cardinality({k \in S : k <= i}) = p
    OBVIOUS
  <2>2. pos[p] \in S /\ Cardinality({k \in S : k <= pos[p]}) = p
    BY <1>4, <2>1
  <2>. QED
    BY <1>3, <2>2
<1>6. Picked(xs, S) = [p \in 1..Cardinality(S) |-> xs[pos[p]]]
  BY DEF Picked
<1>7. DOMAIN pos = 1..Cardinality(S) /\ pos = [p \in 1..Cardinality(S) |-> pos[p]]
  OBVIOUS
<1>. HIDE DEF pos
<1>8. pos \in [1..Cardinality(S) -> S]
  BY <1>5, <1>7
<1>9. ASSUME NEW i \in S PROVE \E p \in 1..Cardinality(S) : pos[p] = i
  <2>1. Place(S, AtMost(S), i) \in 1..Cardinality(S)
    BY <1>1, <1>2, RanksAreInOrder
  <2>2. PICK p \in 1..Cardinality(S) : p = Place(S, AtMost(S), i)
    BY <2>1
  <2>3. pos[p] \in S /\ Place(S, AtMost(S), pos[p]) = Place(S, AtMost(S), i)
    BY <1>5, <2>2
  <2>4. pos[p] = i
    BY <1>1, <1>2, <2>3, RanksAreDistinct
  <2>. QED
    BY <2>4
<1>10. ASSUME NEW p \in 1..Cardinality(S), NEW q \in 1..Cardinality(S), p < q PROVE pos[p] < pos[q]
  <2>0. pos[p] \in Nat /\ pos[q] \in Nat
    <3>1. pos[p] \in S /\ pos[q] \in S
      BY <1>8
    <3>2. \A i \in S : i \in Nat
      OBVIOUS
    <3>. QED
      BY <3>1, <3>2
  <2>. SUFFICES ASSUME pos[q] <= pos[p] PROVE FALSE
    BY <2>0
  <2>1. pos[p] \in S /\ pos[q] \in S /\ Place(S, AtMost(S), pos[p]) = p /\ Place(S, AtMost(S), pos[q]) = q
    BY <1>5
  <2>2. <<pos[q], pos[p]>> \in AtMost(S) /\ pos[q] # pos[p]
    BY <1>10, <2>1 DEF AtMost
  <2>3. Place(S, AtMost(S), pos[q]) < Place(S, AtMost(S), pos[p])
    BY <1>1, <1>2, <2>1, <2>2, RanksAreInOrder
  <2>. QED
    BY <1>10, <2>1, <2>3
<1>11. PicksAt(pos, xs, S)
  BY <1>6, <1>8, <1>9, <1>10 DEF PicksAt
<1>. QED
  BY <1>11

-----------------------------------------------------------------------------
(* Scores *)

\* The sum of a sequence of integers is an integer.
LEMMA SumOfIntegers ==
    ASSUME NEW values \in Seq(Int)
    PROVE  SumOf(values) \in Int
<1>. DEFINE n == Len(values)
            Sums(m, f) == f = [i \in 0..m |-> IF i = 0 THEN 0 ELSE f[i - 1] + values[i]]
            S == {m \in Nat : m <= n => \E f : Sums(m, f)}
            sum == CHOOSE f : Sums(n, f)
<1>1. n \in Nat /\ \A i \in 1..n : values[i] \in Int
  BY LenProperties
<1>2. SumOf(values) = sum[n]
  BY DEF SumOf
<1>. HIDE DEF n
<1>3. 0 \in S
  <2>. DEFINE e == [i \in 0..0 |-> 0]
  <2>1. \A i \in 0..0 : i = 0
    OBVIOUS
  <2>2. e = [i \in 0..0 |-> IF i = 0 THEN 0 ELSE e[i - 1] + values[i]]
    BY <2>1
  <2>. QED
    BY <2>2
<1>4. ASSUME NEW m \in S PROVE m + 1 \in S
  <2>. SUFFICES ASSUME m + 1 <= n PROVE \E f : Sums(m + 1, f)
    OBVIOUS
  <2>1. PICK f : f = [i \in 0..m |-> IF i = 0 THEN 0 ELSE f[i - 1] + values[i]]
    BY <1>1
  <2>. DEFINE g == [i \in 0..(m + 1) |-> IF i = m + 1 THEN f[m] + values[i] ELSE f[i]]
  <2>2. \A i \in 0..(m + 1) : g[i] = IF i = 0 THEN 0 ELSE g[i - 1] + values[i]
    <3>. SUFFICES ASSUME NEW i \in 0..(m + 1) PROVE g[i] = IF i = 0 THEN 0 ELSE g[i - 1] + values[i]
      OBVIOUS
    <3>1. CASE i = m + 1
      <4>1. i - 1 = m /\ m \in 0..(m + 1) /\ m # m + 1 /\ i # 0
        BY <3>1
      <4>2. g[m] = f[m] /\ g[i] = f[m] + values[i]
        BY <3>1, <4>1
      <4>. QED
        BY <4>1, <4>2
    <3>2. CASE i # m + 1
      <4>1. i \in 0..m /\ g[i] = f[i]
        BY <3>2
      <4>2. i # 0 => i - 1 \in 0..(m + 1) /\ i - 1 # m + 1
        OBVIOUS
      <4>3. i # 0 => g[i - 1] = f[i - 1]
        BY <4>2
      <4>4. f[i] = IF i = 0 THEN 0 ELSE f[i - 1] + values[i]
        BY <2>1, <4>1
      <4>. QED
        BY <4>1, <4>3, <4>4
    <3>. QED
      BY <3>1, <3>2
  <2>3. g = [i \in 0..(m + 1) |-> g[i]]
    OBVIOUS
  <2>. HIDE DEF g
  <2>4. g = [i \in 0..(m + 1) |-> IF i = 0 THEN 0 ELSE g[i - 1] + values[i]]
    BY <2>2, <2>3
  <2>. QED
    BY <2>4
<1>5. Sums(n, sum)
  <2>. HIDE DEF Sums
  <2>1. S \in SUBSET Nat
    OBVIOUS
  <2>2. S = Nat
    <3>. HIDE DEF S
    <3>. QED
      BY <1>3, <1>4, <2>1, NatSetInduction
  <2>3. n \in S
    BY <1>1, <2>2
  <2>4. \E f : Sums(n, f)
    BY <1>1, <2>3
  <2>. QED
    BY <2>4
<1>. HIDE DEF S, sum
<1>6. \A i \in 0..n : sum[i] = IF i = 0 THEN 0 ELSE sum[i - 1] + values[i]
  BY <1>5
<1>. DEFINE T == {m \in Nat : m <= n => sum[m] \in Int}
<1>7. 0 \in T
  BY <1>1, <1>6
<1>8. ASSUME NEW m \in T PROVE m + 1 \in T
  <2>. SUFFICES ASSUME m + 1 <= n PROVE sum[m + 1] \in Int
    OBVIOUS
  <2>1. m + 1 \in 0..n /\ m + 1 # 0 /\ (m + 1) - 1 = m /\ m + 1 \in 1..n
    BY <1>1
  <2>2. sum[m + 1] = sum[m] + values[m + 1]
    BY <1>6, <2>1
  <2>3. sum[m] \in Int /\ values[m + 1] \in Int
    BY <1>1, <2>1
  <2>. QED
    BY <2>2, <2>3
<1>9. T = Nat
  <2>1. T \in SUBSET Nat
    OBVIOUS
  <2>. HIDE DEF T
  <2>. QED
    BY <1>7, <1>8, <2>1, NatSetInduction
<1>. QED
  BY <1>1, <1>2, <1>9

LEMMA ScoreType ==
    ASSUME NEW q \in Questions, NEW p \in ToSet(q.preferences), NEW offer \in Offer
    PROVE  score(p, offer) \in Int
<1>1. \/ p.kind = "airline" /\ \A carrier \in DOMAIN p.weights : p.weights[carrier] \in Int
      \/ p.kind \in {"directness", "time_of_day"} /\ p.weight \in Int
  BY OfferEvaluationAssumption
<1>2. CASE p.kind = "airline"
  BY <1>1, <1>2 DEF score
<1>3. CASE p.kind = "directness"
  <2>. DEFINE values == [k \in 1..Len(offer.slices) |-> stops(offer.slices[k])]
  <2>1. Len(offer.slices) \in Nat
    BY OfferEvaluationAssumption DEF Offer
  <2>2. \A k \in 1..Len(offer.slices) : stops(offer.slices[k]) \in Int
    <3>. SUFFICES ASSUME NEW k \in 1..Len(offer.slices) PROVE stops(offer.slices[k]) \in Int
      OBVIOUS
    <3>1. offer.slices[k] \in ToSet(offer.slices)
      BY <2>1 DEF ToSet
    <3>2. Len(offer.slices[k]) \in Nat
      BY <3>1, OfferEvaluationAssumption DEF Offer
    <3>. QED
      BY <3>2 DEF stops
  <2>3. values \in [1..Len(offer.slices) -> Int]
    BY <2>2
  <2>. HIDE DEF values
  <2>4. SumOf(values) \in Int
    BY <2>1, <2>3, SequenceOf, SumOfIntegers
  <2>5. score(p, offer) = -p.weight * SumOf(values) /\ p.weight \in Int
    BY <1>1, <1>3 DEF score, values
  <2>. QED
    BY <2>4, <2>5
<1>4. CASE p.kind = "time_of_day"
  BY <1>1, <1>4 DEF score
<1>. QED
  BY <1>1, <1>2, <1>3, <1>4

LEMMA TotalScoreType ==
    ASSUME NEW q \in Questions, NEW offer \in Offer
    PROVE  total_score(q.preferences, offer) \in Int
<1>. DEFINE values == [n \in 1..Len(q.preferences) |-> score(q.preferences[n], offer)]
<1>1. /\ Len(q.preferences) \in Nat
      /\ \A n \in 1..Len(q.preferences) : q.preferences[n] \in ToSet(q.preferences)
  <2>1. q.preferences \in Seq(ToSet(q.preferences))
    BY OfferEvaluationAssumption
  <2>. QED
    BY <2>1, LenProperties
<1>2. values \in [1..Len(q.preferences) -> Int]
  BY <1>1, ScoreType
<1>3. total_score(q.preferences, offer) = SumOf(values)
  BY DEF total_score
<1>. HIDE DEF values
<1>. QED
  BY <1>1, <1>2, <1>3, SequenceOf, SumOfIntegers

-----------------------------------------------------------------------------
(* Filtering and ranking *)

\* Where the sort leaves the positions of a sequence that scores value.
Before(n, value) ==
    {pair \in (1..n) \X (1..n) :
        \/ value[pair[1]] > value[pair[2]]
        \/ value[pair[1]] = value[pair[2]] /\ pair[1] <= pair[2]}

LEMMA BeforeIsAnOrder ==
    ASSUME NEW n \in Nat, NEW K \in SUBSET (1..n), NEW value \in [1..n -> Int]
    PROVE  /\ \A i, j \in K : <<i, j>> \in Before(n, value) <=>
                                  \/ value[i] > value[j]
                                  \/ value[i] = value[j] /\ i <= j
           /\ IsTotalOrder(K, Before(n, value))
<1>. DEFINE R == Before(n, value)
<1>1. ASSUME NEW i \in 1..n, NEW j \in 1..n
      PROVE  <<i, j>> \in R <=> \/ value[i] > value[j]
                                \/ value[i] = value[j] /\ i <= j
  BY DEF Before
<1>2. \A i \in K : i \in 1..n /\ i \in Nat /\ value[i] \in Int
  OBVIOUS
<1>. HIDE DEF R
<1>3. \A i, j \in K : <<i, j>> \in R <=> \/ value[i] > value[j]
                                         \/ value[i] = value[j] /\ i <= j
  BY <1>1, <1>2
<1>4. ASSUME NEW i \in K, NEW j \in K PROVE <<i, j>> \in R \/ <<j, i>> \in R
  <2>1. i \in Nat /\ j \in Nat /\ value[i] \in Int /\ value[j] \in Int
    BY <1>2
  <2>2. value[i] > value[j] \/ value[j] > value[i] \/ (value[i] = value[j] /\ (i <= j \/ j <= i))
    BY <2>1
  <2>. QED
    BY <1>3, <2>2
<1>5. \A i, j \in K : <<i, j>> \in R /\ <<j, i>> \in R => i = j
  BY <1>2, <1>3
<1>6. \A i, j, k \in K : <<i, j>> \in R /\ <<j, k>> \in R => <<i, k>> \in R
  <2>. SUFFICES ASSUME NEW i \in K, NEW j \in K, NEW k \in K, <<i, j>> \in R, <<j, k>> \in R
                PROVE  <<i, k>> \in R
    OBVIOUS
  <2>. QED
    BY <1>2, <1>3
<1>7. IsTotalOrder(K, R)
  BY <1>4, <1>5, <1>6 DEF IsTotalOrder
<1>. QED
  BY <1>3, <1>7 DEF R

\* A way through the positions K of os in the order of the sort.
InOrder(a, c, K, value) ==
    /\ a \in [1..c -> K]
    /\ \A i \in K : \E p \in 1..c : a[p] = i
    /\ \A p, q \in 1..c : p < q =>
           \/ value[a[p]] > value[a[q]]
           \/ value[a[p]] = value[a[q]] /\ a[p] < a[q]

Places(n, K, value) == K \in SUBSET (1..n) /\ value \in [1..n -> Int]

\* There is only one.
LEMMA OneOrder ==
    ASSUME NEW n \in Nat, NEW K, NEW value, Places(n, K, value),
           NEW c \in Nat, NEW a, InOrder(a, c, K, value),
           NEW d \in Nat, NEW b, InOrder(b, d, K, value)
    PROVE  c = d /\ \A p \in 1..c : a[p] = b[p]
<1>. DEFINE R == Before(n, value)
<1>0. K \in SUBSET (1..n) /\ value \in [1..n -> Int]
  BY DEF Places
<1>1. IsFiniteSet(K)
  BY <1>0, Intervals
<1>2. \A i, j \in K : <<i, j>> \in R <=> \/ value[i] > value[j]
                                         \/ value[i] = value[j] /\ i <= j
  BY <1>0, BeforeIsAnOrder
<1>3. \A i \in K : i \in Nat /\ value[i] \in Int
  BY <1>0
<1>4. IsTotalOrder(K, R)
  BY <1>0, BeforeIsAnOrder
<1>. HIDE DEF R
<1>5. ASSUME NEW m \in Nat, NEW f, InOrder(f, m, K, value)
      PROVE  m = Cardinality(K) /\ f \in [1..m -> K] /\ \A p \in 1..m : Place(K, R, f[p]) = p
  <2>1. f \in [1..m -> K] /\ \A i \in K : \E p \in 1..m : f[p] = i
    BY <1>5 DEF InOrder
  <2>2. \A p, q \in 1..m : p < q => f[p] # f[q] /\ <<f[p], f[q]>> \in R
    <3>. SUFFICES ASSUME NEW p \in 1..m, NEW q \in 1..m, p < q
                  PROVE  f[p] # f[q] /\ <<f[p], f[q]>> \in R
      OBVIOUS
    <3>1. /\ f[p] \in K /\ f[q] \in K
          /\ \/ value[f[p]] > value[f[q]]
             \/ value[f[p]] = value[f[q]] /\ f[p] < f[q]
      BY <1>5, <2>1 DEF InOrder
    <3>. DEFINE i == f[p]
                j == f[q]
    <3>2. i \in K /\ j \in K /\ i \in Nat /\ j \in Nat /\ value[i] \in Int /\ value[j] \in Int
      BY <1>3, <3>1
    <3>. HIDE DEF i, j
    <3>3. value[i] > value[j] \/ (value[i] = value[j] /\ i < j)
      BY <3>1 DEF i, j
    <3>4. i # j /\ (value[i] > value[j] \/ (value[i] = value[j] /\ i <= j))
      BY <3>2, <3>3
    <3>5. i # j /\ <<i, j>> \in R
      BY <1>2, <3>2, <3>4
    <3>. QED
      BY <3>5 DEF i, j
  <2>3. m = Cardinality(K) /\ \A p \in 1..m : Place(K, R, f[p]) = p
    <3>1. WayThrough(f, m, K, R)
      BY <2>1, <2>2 DEF WayThrough
    <3>. QED
      BY <1>1, <1>4, <3>1, InOrderIsByRank
  <2>. QED
    BY <2>1, <2>3
<1>6. c = Cardinality(K) /\ d = Cardinality(K)
  BY <1>5
<1>7. ASSUME NEW p \in 1..c PROVE a[p] = b[p]
  <2>1. a[p] \in K /\ b[p] \in K /\ Place(K, R, a[p]) = Place(K, R, b[p])
    BY <1>5, <1>6, <1>7
  <2>. QED
    BY <1>1, <1>4, <2>1, RanksAreDistinct
<1>. QED
  BY <1>6, <1>7

Scored(value, os, preferences) ==
    /\ value \in [1..Len(os) -> Int]
    /\ \A i \in 1..Len(os) : value[i] = total_score(preferences, os[i])

Reorders(f, os, preferences, value) ==
    /\ InOrder(f, Len(os), 1..Len(os), value)
    /\ apply_preferences(os, preferences) = [p \in 1..Len(os) |-> os[f[p]]]

\* apply_preferences goes through all positions in the order of the sort.
LEMMA PreferencesReorder ==
    ASSUME NEW os, NEW preferences, Len(os) \in Nat, NEW value, Scored(value, os, preferences)
    PROVE  \E f : Reorders(f, os, preferences, value)
<1>0. /\ value \in [1..Len(os) -> Int]
      /\ \A i \in 1..Len(os) : value[i] = total_score(preferences, os[i])
  BY DEF Scored
<1>. DEFINE n == Len(os)
            S == 1..n
            R == Before(n, value)
            place(i) == Cardinality({k \in 1..n : \/ total_score(preferences, os[k]) > total_score(preferences, os[i])
                                                  \/ /\ total_score(preferences, os[k]) = total_score(preferences, os[i])
                                                     /\ k <= i})
            f == [p \in 1..n |-> CHOOSE i \in 1..n : place(i) = p]
<1>1. n \in Nat /\ IsFiniteSet(S) /\ Cardinality(S) = n
  BY Intervals
<1>2. apply_preferences(os, preferences) = [p \in 1..n |-> os[f[p]]]
  BY DEF apply_preferences
<1>3. /\ \A i, j \in S : <<i, j>> \in R <=> \/ value[i] > value[j]
                                            \/ value[i] = value[j] /\ i <= j
      /\ IsTotalOrder(S, R)
  <2>. HIDE DEF n
  <2>1. value \in [1..n -> Int] /\ S \in SUBSET (1..n)
    BY <1>0 DEF n
  <2>. QED
    BY <1>1, <2>1, BeforeIsAnOrder
<1>4. \A i \in S : i \in Nat /\ value[i] \in Int /\ total_score(preferences, os[i]) = value[i]
  BY <1>0
<1>5. \A i \in S : Place(S, R, i) = place(i)
  <2>. SUFFICES ASSUME NEW i \in S
                PROVE  Upto(S, R, i) =
                           {k \in 1..n : \/ total_score(preferences, os[k]) > total_score(preferences, os[i])
                                         \/ /\ total_score(preferences, os[k]) = total_score(preferences, os[i])
                                            /\ k <= i}
    BY DEF Place
  <2>1. \A k \in S : <<k, i>> \in R <=>
            \/ total_score(preferences, os[k]) > total_score(preferences, os[i])
            \/ total_score(preferences, os[k]) = total_score(preferences, os[i]) /\ k <= i
    <3>. HIDE DEF R, S
    <3>. QED
      BY <1>3, <1>4
  <2>. HIDE DEF R
  <2>. QED
    BY <2>1 DEF Upto
<1>6. f = [p \in 1..n |-> CHOOSE i \in S : place(i) = p]
  OBVIOUS
<1>. HIDE DEF R, place, f
<1>7. IsTotalOrder(S, R)
  BY <1>3
<1>8. \A p \in 1..n : f[p] \in S /\ Place(S, R, f[p]) = p
  <2>. SUFFICES ASSUME NEW p \in 1..n PROVE f[p] \in S /\ Place(S, R, f[p]) = p
    OBVIOUS
  <2>1. \E i \in S : Place(S, R, i) = p
    BY <1>1, <1>7, EveryRankIsTaken
  <2>2. \E i \in S : place(i) = p
    BY <1>5, <2>1
  <2>3. f[p] = CHOOSE i \in S : place(i) = p
    BY <1>6
  <2>4. f[p] \in S /\ place(f[p]) = p
    BY <2>2, <2>3
  <2>. QED
    BY <1>5, <2>4
<1>9. f \in [1..n -> S]
  BY <1>6, <1>8
<1>10. ASSUME NEW i \in S PROVE \E p \in 1..n : f[p] = i
  <2>1. Place(S, R, i) \in 1..n
    BY <1>1, <1>7, RanksAreInOrder
  <2>2. PICK p \in 1..n : p = Place(S, R, i)
    BY <2>1
  <2>3. f[p] \in S /\ Place(S, R, f[p]) = Place(S, R, i)
    BY <1>8, <2>2
  <2>4. f[p] = i
    BY <1>1, <1>7, <2>3, RanksAreDistinct
  <2>. QED
    BY <2>4
<1>11. ASSUME NEW p \in 1..n, NEW q \in 1..n, p < q
       PROVE  \/ value[f[p]] > value[f[q]]
              \/ value[f[p]] = value[f[q]] /\ f[p] < f[q]
  <2>1. f[p] \in S /\ f[q] \in S /\ Place(S, R, f[p]) = p /\ Place(S, R, f[q]) = q
    BY <1>8
  <2>2. <<f[q], f[p]>> \notin R
    <3>. SUFFICES ASSUME <<f[q], f[p]>> \in R PROVE FALSE
      OBVIOUS
    <3>1. f[q] # f[p]
      BY <1>11, <2>1
    <3>2. Place(S, R, f[q]) < Place(S, R, f[p])
      BY <1>1, <1>7, <2>1, <3>1, RanksAreInOrder
    <3>. QED
      BY <1>11, <2>1, <3>2
  <2>3. /\ ~(value[f[q]] > value[f[p]])
        /\ ~(value[f[q]] = value[f[p]] /\ f[q] <= f[p])
    BY <1>3, <2>1, <2>2
  <2>. QED
    BY <1>4, <2>1, <2>3
<1>12. InOrder(f, n, S, value)
  BY <1>9, <1>10, <1>11 DEF InOrder
<1>13. Reorders(f, os, preferences, value)
  BY <1>2, <1>12 DEF Reorders
<1>. QED
  BY <1>13

\* Sorting what the filters left, and filtering what was sorted, both go through the
\* surviving positions in the order of the sort, and there is only one such way.
LEMMA FilterThenRank ==
    ASSUME NEW os \in Seq(Offer), NEW q \in Questions
    PROVE  apply_preferences(apply_hard_filters(os, q.filters).survivors, q.preferences)
               = apply_hard_filters(apply_preferences(os, q.preferences), q.filters).survivors
<1>. DEFINE n == Len(os)
            fs == q.filters
            ps == q.preferences
            ok(o) == \A k \in 1..Len(fs) : predicate(fs[k], o)
            K == {i \in 1..n : ok(os[i])}
            value == [i \in 1..n |-> total_score(ps, os[i])]
            survivors_ == Picked(os, K)
            c == Cardinality(K)
            sorted == apply_preferences(os, ps)
            L == {p \in 1..n : ok(sorted[p])}
            d == Cardinality(L)
<1>1. n \in Nat /\ \A i \in 1..n : os[i] \in Offer
  BY LenProperties
<1>2. value \in [1..n -> Int]
  BY <1>1, TotalScoreType
<1>3. K \in SUBSET (1..n) /\ c \in Nat /\ L \in SUBSET (1..n) /\ d \in Nat
  <2>1. K \in SUBSET (1..n) /\ L \in SUBSET (1..n)
    OBVIOUS
  <2>. HIDE DEF n, K, L
  <2>. QED
    BY <1>1, <2>1, Intervals
<1>4. apply_hard_filters(os, fs).survivors = survivors_
  BY DEF apply_hard_filters, remaining
<1>5. \A i \in 1..n : value[i] = total_score(ps, os[i])
  OBVIOUS
<1>6. \A i : i \in K <=> i \in 1..n /\ ok(os[i])
  OBVIOUS
<1>7. PICK f : InOrder(f, n, 1..n, value) /\ sorted = [p \in 1..n |-> os[f[p]]]
  <2>1. Scored(value, os, ps)
    <3>. HIDE DEF value
    <3>. QED
      BY <1>2, <1>5 DEF Scored
  <2>. HIDE DEF value, ps
  <2>2. PICK f : Reorders(f, os, ps, value)
    BY <1>1, <2>1, PreferencesReorder
  <2>. QED
    BY <2>2, Zenon DEF Reorders
<1>8. f \in [1..n -> 1..n] /\ Len(sorted) = n /\ \A p \in 1..n : sorted[p] = os[f[p]]
  <2>1. f \in [1..n -> 1..n]
    BY <1>7 DEF InOrder
  <2>2. sorted \in [1..n -> Offer]
    BY <1>1, <1>7, <2>1
  <2>. HIDE DEF sorted, n
  <2>. QED
    BY <1>1, <1>7, <2>1, <2>2, SequenceOf
<1>9. apply_hard_filters(sorted, fs).survivors = Picked(sorted, L)
  <2>1. apply_hard_filters(sorted, fs).survivors = Picked(sorted, {i \in 1..Len(sorted) : ok(sorted[i])})
    BY DEF apply_hard_filters, remaining
  <2>. QED
    BY <1>8, <2>1
<1>10. \A p \in 1..n : p \in L <=> f[p] \in K
  <2>1. \A p : p \in L <=> p \in 1..n /\ ok(sorted[p])
    OBVIOUS
  <2>. HIDE DEF ok, L, K, sorted, n
  <2>. QED
    BY <1>6, <1>8, <2>1
<1>. HIDE DEF value, sorted, K, L, c, d, ok, n, survivors_
<1>11. PICK pos \in [1..c -> K] :
           /\ survivors_ = [p \in 1..c |-> os[pos[p]]]
           /\ \A i \in K : \E p \in 1..c : pos[p] = i
           /\ \A p, r \in 1..c : p < r => pos[p] < pos[r]
  <2>1. PICK pos : PicksAt(pos, os, K)
    BY <1>1, <1>3, PickedPositions
  <2>. QED
    BY <2>1, Zenon DEF PicksAt, c, survivors_
<1>12. PICK at \in [1..d -> L] :
           /\ Picked(sorted, L) = [p \in 1..d |-> sorted[at[p]]]
           /\ \A i \in L : \E p \in 1..d : at[p] = i
           /\ \A p, r \in 1..d : p < r => at[p] < at[r]
  <2>1. PICK at : PicksAt(at, sorted, L)
    BY <1>1, <1>3, PickedPositions
  <2>. QED
    BY <2>1, Zenon DEF PicksAt, d
<1>13. Len(survivors_) = c /\ \A p \in 1..c : survivors_[p] = os[pos[p]] /\ pos[p] \in K /\ pos[p] \in 1..n
  <2>1. \A p \in 1..c : pos[p] \in K /\ pos[p] \in 1..n
    BY <1>3
  <2>2. survivors_ \in [1..c -> Offer]
    BY <1>1, <1>11, <2>1
  <2>. QED
    BY <1>3, <1>11, <2>1, <2>2, SequenceOf
<1>. DEFINE worth == [p \in 1..c |-> value[pos[p]]]
<1>14. worth \in [1..c -> Int] /\ \A p \in 1..c : worth[p] = total_score(ps, survivors_[p])
  BY <1>2, <1>5, <1>13
<1>15. \A p \in 1..c : worth[p] = value[pos[p]]
  OBVIOUS
<1>. HIDE DEF worth
<1>16. PICK g : /\ InOrder(g, c, 1..c, worth)
                /\ apply_preferences(survivors_, ps) = [p \in 1..c |-> survivors_[g[p]]]
  <2>. HIDE DEF ps
  <2>1. Len(survivors_) \in Nat /\ Scored(worth, survivors_, ps)
    BY <1>3, <1>13, <1>14 DEF Scored
  <2>2. PICK g : Reorders(g, survivors_, ps, worth)
    BY <2>1, PreferencesReorder
  <2>3. Len(survivors_) = c
    BY <1>13
  <2>. QED
    BY <2>2, <2>3, Zenon DEF Reorders
<1>. DEFINE a == [p \in 1..c |-> pos[g[p]]]
            b == [p \in 1..d |-> f[at[p]]]
<1>17. g \in [1..c -> 1..c] /\ \A p \in 1..c : a[p] = pos[g[p]] /\ g[p] \in 1..c
  BY <1>16 DEF InOrder
<1>18. at \in [1..d -> L] /\ \A p \in 1..d : b[p] = f[at[p]] /\ at[p] \in L /\ at[p] \in 1..n
  BY <1>3
<1>19. a \in [1..c -> K] /\ b \in [1..d -> K]
  BY <1>10, <1>17, <1>18
<1>. HIDE DEF a, b
<1>20. InOrder(a, c, K, value)
  <2>1. ASSUME NEW i \in K PROVE \E p \in 1..c : a[p] = i
    <3>1. PICK r \in 1..c : pos[r] = i
      BY <1>11
    <3>2. PICK p \in 1..c : g[p] = r
      BY <1>16 DEF InOrder
    <3>. QED
      BY <1>17, <3>1, <3>2
  <2>2. ASSUME NEW p \in 1..c, NEW r \in 1..c, p < r
        PROVE  \/ value[a[p]] > value[a[r]]
               \/ value[a[p]] = value[a[r]] /\ a[p] < a[r]
    <3>1. \/ worth[g[p]] > worth[g[r]]
          \/ worth[g[p]] = worth[g[r]] /\ g[p] < g[r]
      BY <1>16, <2>2 DEF InOrder
    <3>2. worth[g[p]] = value[a[p]] /\ worth[g[r]] = value[a[r]]
      BY <1>15, <1>17
    <3>3. g[p] < g[r] => a[p] < a[r]
      BY <1>11, <1>17
    <3>. QED
      BY <3>1, <3>2, <3>3
  <2>. QED
    BY <1>19, <2>1, <2>2 DEF InOrder
<1>21. InOrder(b, d, K, value)
  <2>1. ASSUME NEW i \in K PROVE \E p \in 1..d : b[p] = i
    <3>1. i \in 1..n
      BY <1>3
    <3>2. PICK r \in 1..n : f[r] = i
      BY <1>7, <3>1 DEF InOrder
    <3>3. r \in L
      BY <1>10, <3>2
    <3>4. PICK p \in 1..d : at[p] = r
      BY <1>12, <3>3
    <3>. QED
      BY <1>18, <3>2, <3>4
  <2>2. ASSUME NEW p \in 1..d, NEW r \in 1..d, p < r
        PROVE  \/ value[b[p]] > value[b[r]]
               \/ value[b[p]] = value[b[r]] /\ b[p] < b[r]
    <3>1. at[p] \in 1..n /\ at[r] \in 1..n /\ at[p] < at[r] /\ b[p] = f[at[p]] /\ b[r] = f[at[r]]
      BY <1>12, <1>18, <2>2
    <3>2. \A i, j \in 1..n : i < j => \/ value[f[i]] > value[f[j]]
                                      \/ value[f[i]] = value[f[j]] /\ f[i] < f[j]
      BY <1>7, Zenon DEF InOrder
    <3>. QED
      BY <3>1, <3>2
  <2>. QED
    BY <1>19, <2>1, <2>2 DEF InOrder
<1>22. c = d /\ \A p \in 1..c : a[p] = b[p]
  <2>1. n \in Nat /\ Places(n, K, value) /\ c \in Nat /\ d \in Nat
    BY <1>1, <1>2, <1>3 DEF Places
  <2>. QED
    BY <2>1, <1>20, <1>21, OneOrder
<1>23. \A p \in 1..c : survivors_[g[p]] = sorted[at[p]]
  <2>. SUFFICES ASSUME NEW p \in 1..c PROVE survivors_[g[p]] = sorted[at[p]]
    OBVIOUS
  <2>1. survivors_[g[p]] = os[a[p]]
    BY <1>13, <1>17
  <2>2. sorted[at[p]] = os[b[p]]
    BY <1>8, <1>18, <1>22
  <2>. QED
    BY <1>22, <2>1, <2>2
<1>24. [p \in 1..c |-> survivors_[g[p]]] = [p \in 1..d |-> sorted[at[p]]]
  BY <1>22, <1>23
<1>25. apply_preferences(survivors_, ps) = Picked(sorted, L)
  BY <1>12, <1>16, <1>24, Zenon
<1>. QED
  BY <1>4, <1>9, <1>25, Zenon DEF sorted

\* What is shown is what the filters and the preferences made of the accepted offers.
Shown ==
    /\ stage \in {"ranking", "shown"} =>
           /\ question \in Questions
           /\ survivors = apply_hard_filters(offers, question.filters).survivors
    /\ stage = "shown" => ranked = apply_preferences(survivors, question.preferences)

LEMMA ShownInit == Init => Shown
BY DEF Init, Shown

LEMMA ShownStep == Shown /\ [Next]_vars => Shown'
<1>. SUFFICES ASSUME Shown, [Next]_vars PROVE Shown'
  OBVIOUS
<1>1. CASE Gate
  BY <1>1 DEF Gate, Shown
<1>2. ASSUME NEW q \in Questions, Filter(q) PROVE Shown'
  <2>1. CASE stage' = "IndexError"
    BY <2>1 DEF Shown
  <2>2. CASE stage' = "ranking"
    BY <1>2, <2>2 DEF Filter, Shown
  <2>. QED
    BY <1>2, <2>1, <2>2 DEF Filter
<1>3. CASE Rank
  <2>1. UNCHANGED <<offers, question, survivors>> /\ stage = "ranking"
    BY <1>3 DEF Rank
  <2>2. /\ question' \in Questions
        /\ survivors' = apply_hard_filters(offers', question'.filters).survivors
    BY <2>1, Zenon DEF Shown
  <2>3. ranked' = apply_preferences(survivors', question'.preferences)
    BY <1>3, <2>1 DEF Rank
  <2>. QED
    BY <2>2, <2>3 DEF Shown
<1>4. CASE UNCHANGED vars
  <2>1. UNCHANGED <<offers, question, survivors, ranked, stage>>
    BY <1>4 DEF vars
  <2>. QED
    BY <2>1, Zenon DEF Shown
<1>. QED
  BY <1>1, <1>2, <1>3, <1>4 DEF Next

\* Filters eliminate and preferences reorder, whatever they are and however many
\* offers they meet: sorting first and filtering afterwards shows the same list.
THEOREM FilteringIsNotRanking == Spec => []FilteringAndRankingCommute
<1>1. Gated /\ Shown => FilteringAndRankingCommute
  BY FilterThenRank DEF Gated, Shown, FilteringAndRankingCommute
<1>. QED
  BY <1>1, GatedInit, GatedStep, ShownInit, ShownStep, PTL DEF Spec
=============================================================================
