------------------------- MODULE ObservationsProofs -------------------------
(***************************************************************************)
(* Proofs about Observations, whatever searches overlap and whichever      *)
(* crash: type correctness; every committed row begins and ends with a     *)
(* committed poll that saw the row's price; the table changes as if each   *)
(* poll that commits had been recorded alone and at once (PriceHistory);   *)
(* and it is the run-length encoding of the polls it records.  Then, of    *)
(* the nightly job beside the searches (DailyAggregates): however its runs *)
(* overlap, the table of daily prices is the work of one of them, and what *)
(* every poll found lies within its bounds.                                *)
(***************************************************************************)
EXTENDS DailyAggregates, FiniteSetTheorems, WellFoundedInduction, TLAPS

\* Both ends of a row are polls of s, or the poll p that is being written.
Backed(r, s, p) ==
    /\ Observed(p, r, r.first_seen_at) \/ \E n \in DOMAIN s : Observed(s[n], r, r.first_seen_at)
    /\ Observed(p, r, r.last_seen_at) \/ \E n \in DOMAIN s : Observed(s[n], r, r.last_seen_at)

\* A job in flight holds a poll, and one that writes has offers of it left.
JobsHoldPolls ==
    \A j \in Jobs :
        /\ pc[j] # "idle" => poll[j] \in Poll
        /\ pc[j] = "writing" => todo[j] \subseteq DOMAIN poll[j].offers

\* What an open transaction sees is backed by the committed polls and its own.
PendingBacked ==
    \A j \in Jobs : pc[j] = "writing" => \A r \in pending[j] : Backed(r, polls, poll[j])

\* The inductive invariant.
Inv == TypeOK /\ JobsHoldPolls /\ PendingBacked /\ EndpointsObserved

-----------------------------------------------------------------------------

\* A non-empty set of naturals has a least element.
LEMMA LeastNatural ==
    ASSUME NEW T \in SUBSET Nat, T # {}
    PROVE  \E x \in T : \A y \in T : x <= y
<1>1. \E x \in T : \A y \in T : ~(<<y, x>> \in OpToRel(<, Nat))
  BY NatLessThanWellFounded, WFMin, Zenon
<1>2. \A x, y \in Nat : y < x => <<y, x>> \in OpToRel(<, Nat)
  BY Zenon DEF OpToRel
<1>3. \E x \in T : \A y \in T : ~(y < x)
  BY <1>1, <1>2, Zenon
<1>. QED
  BY <1>3

\* Induction, for a property given as the set of the numbers that have it.
LEMMA NatSetInduction ==
    ASSUME NEW S \in SUBSET Nat, 0 \in S, \A n \in S : n + 1 \in S
    PROVE  S = Nat
<1>. SUFFICES ASSUME S # Nat PROVE FALSE
  OBVIOUS
<1>. DEFINE T == Nat \ S
<1>1. PICK x \in T : \A y \in T : x <= y
  <2>1. T \in SUBSET Nat /\ T # {}
    OBVIOUS
  <2>. HIDE DEF T
  <2>. QED
    BY <2>1, LeastNatural
<1>2. x - 1 \in Nat
  OBVIOUS
<1>3. x - 1 \in S
  BY <1>1, <1>2
<1>. QED
  BY <1>2, <1>3

\* What a poll offers: a function from some of the itineraries to prices.
LEMMA OfferTypes ==
    ASSUME NEW p \in Poll
    PROVE  /\ p.retrieved_at \in 1..MaxPolls
           /\ DOMAIN p.offers \subseteq Itineraries
           /\ \A i \in DOMAIN p.offers : p.offers[i] \in Prices
<1>1. p.offers \in Offers
  BY DEF Poll
<1>2. PICK is \in SUBSET Itineraries : p.offers \in [is -> Prices]
  BY <1>1 DEF Offers
<1>. QED
  BY <1>2 DEF Poll

\* Of polls in order, each was fetched before all that follow it.
LEMMA LaterPolls ==
    ASSUME NEW s \in Seq(Poll),
           \A n \in 2..Len(s) : s[n - 1].retrieved_at < s[n].retrieved_at,
           NEW k \in 1..Len(s), NEW m \in 1..Len(s), k < m
    PROVE  s[k].retrieved_at < s[m].retrieved_at
<1>. DEFINE S == {x \in Nat : k + 1 + x <= Len(s) =>
                                s[k].retrieved_at < s[k + 1 + x].retrieved_at}
<1>1. \A n \in 1..Len(s) : s[n].retrieved_at \in Int
  BY OfferTypes
<1>2. 0 \in S
  <2>1. k + 1 \in 2..Len(s) /\ (k + 1) - 1 = k /\ k + 1 + 0 = k + 1
    OBVIOUS
  <2>. QED
    BY <2>1
<1>3. ASSUME NEW n \in S
      PROVE  n + 1 \in S
  <2>. SUFFICES ASSUME k + 1 + (n + 1) <= Len(s)
                PROVE  s[k].retrieved_at < s[k + 1 + (n + 1)].retrieved_at
    OBVIOUS
  <2>1. /\ k + 1 + (n + 1) \in 2..Len(s) /\ (k + 1 + (n + 1)) - 1 = k + 1 + n
        /\ k + 1 + n \in 1..Len(s)
    OBVIOUS
  <2>2. s[k + 1 + n].retrieved_at < s[k + 1 + (n + 1)].retrieved_at
    BY <2>1
  <2>3. s[k].retrieved_at < s[k + 1 + n].retrieved_at
    BY <2>1
  <2>. QED
    BY <1>1, <2>1, <2>2, <2>3
<1>4. S = Nat
  <2>1. S \in SUBSET Nat
    OBVIOUS
  <2>. HIDE DEF S
  <2>. QED
    BY <1>2, <1>3, <2>1, NatSetInduction
<1>5. m - (k + 1) \in S
  <2>1. m - (k + 1) \in Nat
    OBVIOUS
  <2>. HIDE DEF S
  <2>. QED
    BY <1>4, <2>1
<1>6. k + 1 + (m - (k + 1)) = m
  OBVIOUS
<1>. QED
  BY <1>5, <1>6

\* write_observation adds a row or replaces one: in either case each row the
\* transaction then sees is one it saw, a new period at its poll, or a row it
\* saw extended to its poll at an unchanged price.
LEMMA WriteEffect ==
    ASSUME TypeOK, NEW j \in Jobs, NEW i, write_observation(j, i)
    PROVE  \E new :
             /\ pending' = [pending EXCEPT ![j] = new]
             /\ \A r \in new :
                  \/ r \in pending[j]
                  \/ r = new_period(i, poll[j].offers[i], poll[j].retrieved_at)
                  \/ \E row \in pending[j] :
                        /\ row.itinerary_id = i
                        /\ row.price = poll[j].offers[i]
                        /\ r = extend(row, poll[j].retrieved_at)
<1>1. CASE pending' = [pending EXCEPT ![j] =
                @ \cup {new_period(i, poll[j].offers[i], poll[j].retrieved_at)}]
  <2>. DEFINE new == pending[j] \cup {new_period(i, poll[j].offers[i], poll[j].retrieved_at)}
  <2>1. pending' = [pending EXCEPT ![j] = new]
    BY <1>1
  <2>2. \A r \in new : \/ r \in pending[j]
                       \/ r = new_period(i, poll[j].offers[i], poll[j].retrieved_at)
    OBVIOUS
  <2>. HIDE DEF new
  <2>. QED
    BY <2>1, <2>2
<1>2. ASSUME NEW row \in latest(j, i),
             ~is_material_change(row.price, poll[j].offers[i]),
             pending' = [pending EXCEPT ![j] =
                (@ \ {row}) \cup {extend(row, poll[j].retrieved_at)}]
      PROVE  \E new :
             /\ pending' = [pending EXCEPT ![j] = new]
             /\ \A r \in new :
                  \/ r \in pending[j]
                  \/ r = new_period(i, poll[j].offers[i], poll[j].retrieved_at)
                  \/ \E q \in pending[j] :
                        /\ q.itinerary_id = i
                        /\ q.price = poll[j].offers[i]
                        /\ r = extend(q, poll[j].retrieved_at)
  <2>. DEFINE new == (pending[j] \ {row}) \cup {extend(row, poll[j].retrieved_at)}
  <2>1. pending' = [pending EXCEPT ![j] = new]
    BY <1>2
  <2>2. row \in pending[j] /\ row.itinerary_id = i
    BY <1>2 DEF latest
  <2>3. row.price = poll[j].offers[i]
    BY <1>2 DEF is_material_change
  <2>4. \A r \in new : r \in pending[j] \/ r = extend(row, poll[j].retrieved_at)
    OBVIOUS
  <2>. HIDE DEF new
  <2>. QED
    BY <2>1, <2>2, <2>3, <2>4
<1>. QED
  BY <1>1, <1>2 DEF write_observation

\* The two ways a row comes to be written keep its type.
LEMMA RowTypes ==
    ASSUME NEW i \in Itineraries, NEW price \in Prices, NEW at \in 1..MaxPolls
    PROVE  /\ new_period(i, price, at) \in CashObservation
           /\ \A row \in CashObservation : extend(row, at) \in CashObservation
<1>1. new_period(i, price, at) \in CashObservation
  BY DEF new_period, CashObservation
<1>2. ASSUME NEW row \in CashObservation
      PROVE  extend(row, at) \in CashObservation
  <2>. DEFINE seenAgain == [row EXCEPT !.last_seen_at = at]
  <2>1. seenAgain \in CashObservation /\ seenAgain.poll_count = row.poll_count
    BY DEF CashObservation
  <2>2. extend(row, at) = [seenAgain EXCEPT !.poll_count = row.poll_count + 1]
    BY DEF extend
  <2>3. row.poll_count + 1 \in Nat \ {0}
    BY DEF CashObservation
  <2>. HIDE DEF seenAgain
  <2>. QED
    BY <2>1, <2>2, <2>3 DEF CashObservation
<1>. QED
  BY <1>1, <1>2

\* Polls are only ever added, so what is backed stays backed.
LEMMA BackedGrows ==
    ASSUME NEW s \in Seq(Poll), NEW q \in Poll, NEW p, NEW r, Backed(r, s, p)
    PROVE  Backed(r, Append(s, q), p)
<1>1. \A n \in DOMAIN s : n \in DOMAIN Append(s, q) /\ Append(s, q)[n] = s[n]
  OBVIOUS
<1>. QED
  BY <1>1 DEF Backed

\* Once the poll is committed it need not be told from the others.
LEMMA BackedCommits ==
    ASSUME NEW s \in Seq(Poll), NEW p \in Poll, NEW r, Backed(r, s, p)
    PROVE  /\ \E n \in DOMAIN Append(s, p) : Observed(Append(s, p)[n], r, r.first_seen_at)
           /\ \E n \in DOMAIN Append(s, p) : Observed(Append(s, p)[n], r, r.last_seen_at)
<1>1. \A n \in DOMAIN s : n \in DOMAIN Append(s, p) /\ Append(s, p)[n] = s[n]
  OBVIOUS
<1>2. Len(s) + 1 \in DOMAIN Append(s, p) /\ Append(s, p)[Len(s) + 1] = p
  OBVIOUS
<1>. QED
  BY <1>1, <1>2 DEF Backed

-----------------------------------------------------------------------------

LEMMA InitInv == Init => Inv
<1>. SUFFICES ASSUME Init PROVE Inv
  OBVIOUS
<1>1. TypeOK
  <2>1. clock \in 0..MaxPolls /\ polls \in Seq(Poll)
    BY ObservationsAssumption DEF Init
  <2>. QED
    BY <2>1 DEF Init, TypeOK
<1>2. JobsHoldPolls /\ PendingBacked
  BY DEF Init, JobsHoldPolls, PendingBacked
<1>3. EndpointsObserved
  BY DEF Init, EndpointsObserved
<1>. QED
  BY <1>1, <1>2, <1>3 DEF Inv

\* A job that ends, in any way that commits nothing, leaves the others' polls
\* and transactions alone.
LEMMA EndKeepsInv ==
    ASSUME Inv, NEW j \in Jobs, EndJob(j), hasHealth' \in BOOLEAN, UNCHANGED <<clock, rows, lock, polls>>
    PROVE  Inv'
<1>1. TypeOK'
  <2>2. pc' \in [Jobs -> {"idle", "fetched", "flushing", "writing"}]
    BY DEF EndJob, Inv, TypeOK
  <2>3. poll' \in [Jobs -> Poll \cup {NoPoll}]
    BY DEF EndJob, Inv, TypeOK
  <2>4. seen' \in [Jobs -> BOOLEAN]
    BY DEF EndJob, Inv, TypeOK
  <2>5. todo' \in [Jobs -> SUBSET Itineraries]
    BY DEF EndJob, Inv, TypeOK
  <2>6. pending' \in [Jobs -> SUBSET CashObservation]
    BY DEF EndJob, Inv, TypeOK
  <2>. QED
    BY <2>2, <2>3, <2>4, <2>5, <2>6 DEF Inv, TypeOK
<1>2. \A k \in Jobs :
        \/ pc'[k] = "idle"
        \/ /\ pc'[k] = pc[k] /\ poll'[k] = poll[k]
           /\ todo'[k] = todo[k] /\ pending'[k] = pending[k]
  BY DEF EndJob, Inv, TypeOK
<1>3. JobsHoldPolls'
  BY <1>2 DEF Inv, JobsHoldPolls
<1>4. PendingBacked'
  BY <1>2 DEF Inv, PendingBacked
<1>5. EndpointsObserved'
  BY DEF Inv, EndpointsObserved
<1>. QED
  BY <1>1, <1>3, <1>4, <1>5 DEF Inv

LEMMA FetchKeepsInv == ASSUME Inv, NEW j \in Jobs, Fetch(j) PROVE Inv'
<1>1. PICK offers \in Offers :
        poll' = [poll EXCEPT ![j] = [retrieved_at |-> clock + 1, offers |-> offers]]
  BY DEF Fetch
<1>2. clock + 1 \in 1..MaxPolls
  BY ObservationsAssumption DEF Fetch, Inv, TypeOK
<1>3. [retrieved_at |-> clock + 1, offers |-> offers] \in Poll
  BY <1>2 DEF Poll
<1>4. poll' \in [Jobs -> Poll \cup {NoPoll}] /\ poll'[j] \in Poll
  BY <1>1, <1>3 DEF Inv, TypeOK
<1>5. pc' \in [Jobs -> {"idle", "fetched", "flushing", "writing"}] /\ pc'[j] = "fetched"
  BY DEF Fetch, Inv, TypeOK
<1>6. clock' \in 0..MaxPolls
  BY <1>2 DEF Fetch
<1>7. TypeOK'
  BY <1>4, <1>5, <1>6 DEF Fetch, Inv, TypeOK
<1>8. \A k \in Jobs \ {j} : pc'[k] = pc[k] /\ poll'[k] = poll[k]
  BY <1>1 DEF Fetch, Inv, TypeOK
<1>9. JobsHoldPolls'
  BY <1>4, <1>5, <1>8 DEF Fetch, Inv, JobsHoldPolls
<1>10. PendingBacked'
  BY <1>5, <1>8 DEF Fetch, Inv, PendingBacked
<1>11. EndpointsObserved'
  BY DEF Fetch, Inv, EndpointsObserved
<1>. QED
  BY <1>7, <1>9, <1>10, <1>11 DEF Inv

LEMMA RecordKeepsInv == ASSUME Inv, NEW j \in Jobs, RecordSuccess(j) PROVE Inv'
<1>1. TypeOK'
  BY DEF RecordSuccess, Inv, TypeOK
<1>2. pc'[j] = "flushing" /\ pc[j] = "fetched" /\ \A k \in Jobs \ {j} : pc'[k] = pc[k]
  BY DEF RecordSuccess, Inv, TypeOK
<1>3. JobsHoldPolls'
  BY <1>2 DEF RecordSuccess, Inv, JobsHoldPolls
<1>4. PendingBacked'
  BY <1>2 DEF RecordSuccess, Inv, PendingBacked
<1>5. EndpointsObserved'
  BY DEF RecordSuccess, Inv, EndpointsObserved
<1>. QED
  BY <1>1, <1>3, <1>4, <1>5 DEF Inv

\* The transaction starts from the committed rows, which the committed polls back.
LEMMA FlushKeepsInv == ASSUME Inv, NEW j \in Jobs, Flush(j) PROVE Inv'
<1>1. poll[j] \in Poll
  BY DEF Flush, BeginWrites, Inv, JobsHoldPolls
<1>2. DOMAIN poll[j].offers \subseteq Itineraries
  BY <1>1, OfferTypes
<1>3. TypeOK'
  <2>1. todo' \in [Jobs -> SUBSET Itineraries]
    BY <1>2 DEF Flush, BeginWrites, Inv, TypeOK
  <2>2. pc' \in [Jobs -> {"idle", "fetched", "flushing", "writing"}]
    BY DEF Flush, BeginWrites, Inv, TypeOK
  <2>3. pending' \in [Jobs -> SUBSET CashObservation]
    BY DEF Flush, BeginWrites, Inv, TypeOK
  <2>. QED
    BY <2>1, <2>2, <2>3 DEF Flush, BeginWrites, Inv, TypeOK
<1>4. /\ todo'[j] = DOMAIN poll[j].offers /\ pending'[j] = rows
      /\ \A k \in Jobs \ {j} : pc'[k] = pc[k] /\ todo'[k] = todo[k] /\ pending'[k] = pending[k]
  BY DEF Flush, BeginWrites, Inv, TypeOK
<1>5. JobsHoldPolls'
  BY <1>1, <1>4 DEF Flush, BeginWrites, Inv, JobsHoldPolls
<1>6. PendingBacked'
  BY <1>4 DEF Flush, BeginWrites, Inv, PendingBacked, EndpointsObserved, Backed
<1>7. EndpointsObserved'
  BY DEF Flush, BeginWrites, Inv, EndpointsObserved
<1>. QED
  BY <1>3, <1>5, <1>6, <1>7 DEF Inv

LEMMA WriteKeepsInv == ASSUME Inv, NEW j \in Jobs, Write(j) PROVE Inv'
<1>1. PICK i \in todo[j] : write_observation(j, i) /\ todo' = [todo EXCEPT ![j] = @ \ {i}]
  BY DEF Write
<1>. DEFINE price == poll[j].offers[i]
            at == poll[j].retrieved_at
<1>2. poll[j] \in Poll /\ i \in DOMAIN poll[j].offers
  BY <1>1 DEF Write, Inv, JobsHoldPolls
<1>3. i \in Itineraries /\ price \in Prices /\ at \in 1..MaxPolls
  BY <1>2, OfferTypes
<1>4. PICK new :
        /\ pending' = [pending EXCEPT ![j] = new]
        /\ \A r \in new :
             \/ r \in pending[j]
             \/ r = new_period(i, poll[j].offers[i], poll[j].retrieved_at)
             \/ \E row \in pending[j] :
                   /\ row.itinerary_id = i
                   /\ row.price = poll[j].offers[i]
                   /\ r = extend(row, poll[j].retrieved_at)
  <2>1. TypeOK /\ write_observation(j, i)
    BY <1>1 DEF Inv
  <2>. QED
    BY <2>1, WriteEffect
<1>5. new \subseteq CashObservation
  <2>1. pending[j] \subseteq CashObservation
    BY DEF Inv, TypeOK
  <2>2. /\ new_period(i, price, at) \in CashObservation
        /\ \A row \in CashObservation : extend(row, at) \in CashObservation
    BY <1>3, RowTypes
  <2>. QED
    BY <1>4, <2>1, <2>2
<1>6. pending' \in [Jobs -> SUBSET CashObservation]
  BY <1>4, <1>5 DEF Inv, TypeOK
<1>7. todo' \in [Jobs -> SUBSET Itineraries]
  BY <1>1 DEF Inv, TypeOK
<1>8. TypeOK'
  BY <1>6, <1>7 DEF Write, Inv, TypeOK
<1>9. /\ pending'[j] = new /\ todo'[j] \subseteq todo[j]
      /\ \A k \in Jobs \ {j} : pending'[k] = pending[k] /\ todo'[k] = todo[k]
  BY <1>1, <1>4 DEF Inv, TypeOK
<1>10. JobsHoldPolls'
  BY <1>9 DEF Write, Inv, JobsHoldPolls
<1>11. \A r \in new : Backed(r, polls, poll[j])
  <2>. TAKE r \in new
  <2>1. CASE r \in pending[j]
    BY <2>1 DEF Write, Inv, PendingBacked
  <2>2. CASE r = new_period(i, price, at)
    <3>1. /\ r.itinerary_id = i /\ r.price = price
          /\ r.first_seen_at = at /\ r.last_seen_at = at
      BY <2>2 DEF new_period
    <3>. QED
      BY <1>2, <3>1 DEF Backed, Observed
  <2>3. ASSUME NEW row \in pending[j],
               row.itinerary_id = i, row.price = price, r = extend(row, at)
        PROVE  Backed(r, polls, poll[j])
    <3>1. row \in CashObservation
      BY DEF Inv, TypeOK
    <3>. DEFINE seenAgain == [row EXCEPT !.last_seen_at = at]
    <3>2. /\ seenAgain.itinerary_id = i /\ seenAgain.price = price
          /\ seenAgain.first_seen_at = row.first_seen_at /\ seenAgain.last_seen_at = at
          /\ seenAgain \in CashObservation
      BY <1>3, <2>3, <3>1 DEF CashObservation
    <3>3. r = [seenAgain EXCEPT !.poll_count = row.poll_count + 1]
      BY <2>3 DEF extend
    <3>. HIDE DEF seenAgain
    <3>4. /\ r.itinerary_id = i /\ r.price = price
          /\ r.first_seen_at = row.first_seen_at /\ r.last_seen_at = at
      BY <3>2, <3>3 DEF CashObservation
    <3>5. Backed(row, polls, poll[j])
      BY DEF Write, Inv, PendingBacked
    <3>. QED
      BY <1>2, <2>3, <3>4, <3>5 DEF Backed, Observed
  <2>. QED
    BY <1>4, <2>1, <2>2, <2>3
<1>12. PendingBacked'
  BY <1>9, <1>11 DEF Write, Inv, PendingBacked
<1>13. EndpointsObserved'
  BY DEF Write, Inv, EndpointsObserved
<1>. QED
  BY <1>8, <1>10, <1>12, <1>13 DEF Inv

\* The poll joins the committed ones together with the rows it backs.
LEMMA CommitKeepsInv == ASSUME Inv, NEW j \in Jobs, Commit(j) PROVE Inv'
<1>1. poll[j] \in Poll /\ polls \in Seq(Poll) /\ polls' = Append(polls, poll[j])
  BY DEF Commit, Inv, JobsHoldPolls, TypeOK
<1>2. \A k \in Jobs :
        \/ pc'[k] = "idle"
        \/ /\ pc'[k] = pc[k] /\ poll'[k] = poll[k]
           /\ todo'[k] = todo[k] /\ pending'[k] = pending[k]
  BY DEF Commit, EndJob, Inv, TypeOK
<1>3. TypeOK'
  <2>1. rows' \subseteq CashObservation
    BY DEF Commit, Inv, TypeOK
  <2>2. polls' \in Seq(Poll)
    BY <1>1
  <2>3. pc' \in [Jobs -> {"idle", "fetched", "flushing", "writing"}]
    BY DEF Commit, EndJob, Inv, TypeOK
  <2>4. poll' \in [Jobs -> Poll \cup {NoPoll}]
    BY DEF Commit, EndJob, Inv, TypeOK
  <2>5. seen' \in [Jobs -> BOOLEAN]
    BY DEF Commit, EndJob, Inv, TypeOK
  <2>6. todo' \in [Jobs -> SUBSET Itineraries]
    BY DEF Commit, EndJob, Inv, TypeOK
  <2>7. pending' \in [Jobs -> SUBSET CashObservation]
    BY DEF Commit, EndJob, Inv, TypeOK
  <2>. QED
    BY <2>1, <2>2, <2>3, <2>4, <2>5, <2>6, <2>7 DEF Commit, Inv, TypeOK
<1>4. JobsHoldPolls'
  BY <1>2 DEF Inv, JobsHoldPolls
<1>5. PendingBacked'
  BY <1>1, <1>2, BackedGrows DEF Inv, PendingBacked
<1>6. EndpointsObserved'
  <2>1. \A r \in rows' : Backed(r, polls, poll[j])
    BY DEF Commit, Inv, PendingBacked
  <2>. QED
    BY <1>1, <2>1, BackedCommits DEF EndpointsObserved
<1>. QED
  BY <1>3, <1>4, <1>5, <1>6 DEF Inv

LEMMA CrashKeepsInv == ASSUME Inv, WorkerCrash PROVE Inv'
<1>1. TypeOK'
  BY DEF WorkerCrash, Inv, TypeOK
<1>2. JobsHoldPolls' /\ PendingBacked'
  BY DEF WorkerCrash, JobsHoldPolls, PendingBacked
<1>3. EndpointsObserved'
  BY DEF WorkerCrash, Inv, EndpointsObserved
<1>. QED
  BY <1>1, <1>2, <1>3 DEF Inv

-----------------------------------------------------------------------------

\* The invariant holds in every reachable state of write_observation's callers.
THEOREM Invariance == Spec => []Inv
<1>1. Inv /\ [Next]_vars => Inv'
  <2>. SUFFICES ASSUME Inv, [Next]_vars PROVE Inv'
    OBVIOUS
  <2>1. CASE UNCHANGED vars
    <3>1. TypeOK'
      BY <2>1 DEF Inv, TypeOK, vars
    <3>2. JobsHoldPolls' /\ PendingBacked'
      BY <2>1 DEF Inv, JobsHoldPolls, PendingBacked, vars
    <3>3. EndpointsObserved'
      BY <2>1 DEF Inv, EndpointsObserved, vars
    <3>. QED
      BY <3>1, <3>2, <3>3 DEF Inv
  <2>2. ASSUME NEW j \in Jobs, Fetch(j) PROVE Inv'
    BY <2>2, FetchKeepsInv
  <2>3. ASSUME NEW j \in Jobs, Fails(j) PROVE Inv'
    BY <2>3, EndKeepsInv DEF Fails, Inv, TypeOK
  <2>4. ASSUME NEW j \in Jobs, RecordSuccess(j) PROVE Inv'
    BY <2>4, RecordKeepsInv
  <2>5. ASSUME NEW j \in Jobs, Flush(j) PROVE Inv'
    BY <2>5, FlushKeepsInv
  <2>6. ASSUME NEW j \in Jobs, FlushConflicts(j) PROVE Inv'
    BY <2>6, EndKeepsInv DEF FlushConflicts, Inv, TypeOK
  <2>7. ASSUME NEW j \in Jobs, Write(j) PROVE Inv'
    BY <2>7, WriteKeepsInv
  <2>8. ASSUME NEW j \in Jobs, Commit(j) PROVE Inv'
    BY <2>8, CommitKeepsInv
  <2>9. CASE WorkerCrash
    BY <2>9, CrashKeepsInv
  <2>. QED
    BY <2>1, <2>2, <2>3, <2>4, <2>5, <2>6, <2>7, <2>8, <2>9 DEF Next
<1>. QED
  BY InitInv, <1>1, PTL DEF Spec

\* The tables and the job slots hold values of their types (models_search.py's
\* columns, with a poll count of at least one).
THEOREM TypeCorrectness == Spec => []TypeOK
<1>1. Inv => TypeOK
  BY DEF Inv
<1>. QED
  BY Invariance, <1>1, PTL

\* Whatever searches overlap and whichever crash, each committed row of
\* cash_observations begins and ends with a committed poll that saw its price.
THEOREM RowsAreObserved == Spec => []EndpointsObserved
<1>1. Inv => EndpointsObserved
  BY DEF Inv
<1>. QED
  BY Invariance, <1>1, PTL

-----------------------------------------------------------------------------
(* One poll after another *)

\* What a transaction in progress has done: it alone writes, on the rows as they
\* are committed, and per itinerary it has either recorded its poll or not begun to.
WritersHoldTheLock == \A j \in Jobs : pc[j] = "writing" => lock = j

HalfRecorded(j, i) ==
    IF i \in todo[j] THEN History!Of(pending[j], i) = History!Of(rows, i)
    ELSE History!Recorded(poll[j], i, History!Of(rows, i), History!Of(pending[j], i))

PendingIsHalfRecorded ==
    \A j \in Jobs : pc[j] = "writing" => \A i \in Itineraries : HalfRecorded(j, i)

SerialInv == WritersHoldTheLock /\ PendingIsHalfRecorded

-----------------------------------------------------------------------------

\* A step after which every writer stands as it stood, on the same rows, keeps
\* the invariant.
LEMMA OthersKeepSerial ==
    ASSUME SerialInv, UNCHANGED <<rows, lock>>,
           \A k \in Jobs : pc'[k] = "writing" =>
                /\ pc[k] = "writing" /\ poll'[k] = poll[k]
                /\ todo'[k] = todo[k] /\ pending'[k] = pending[k]
    PROVE  SerialInv'
<1>1. WritersHoldTheLock'
  BY DEF SerialInv, WritersHoldTheLock
<1>2. SUFFICES ASSUME NEW k \in Jobs, pc'[k] = "writing", NEW i \in Itineraries
               PROVE  HalfRecorded(k, i)'
  BY <1>1 DEF SerialInv, PendingIsHalfRecorded
<1>3. HalfRecorded(k, i)
  BY <1>2 DEF SerialInv, PendingIsHalfRecorded
<1>. QED
  BY <1>2, <1>3 DEF HalfRecorded

\* The transaction begins on the committed rows; nobody else is writing.
LEMMA FlushKeepsSerial ==
    ASSUME Inv, SerialInv, NEW j \in Jobs, Flush(j)
    PROVE  SerialInv'
<1>1. \A k \in Jobs : pc[k] # "writing"
  BY ObservationsAssumption DEF Flush, SerialInv, WritersHoldTheLock
<1>2. /\ lock' = j /\ pending'[j] = rows /\ todo'[j] = DOMAIN poll[j].offers
      /\ poll' = poll /\ rows' = rows
      /\ \A k \in Jobs \ {j} : pc'[k] = pc[k]
  BY DEF Flush, BeginWrites, Inv, TypeOK
<1>3. WritersHoldTheLock'
  BY <1>1, <1>2 DEF WritersHoldTheLock
<1>4. ASSUME NEW i \in Itineraries
      PROVE  HalfRecorded(j, i)'
  BY <1>2 DEF HalfRecorded, History!Recorded
<1>5. PendingIsHalfRecorded'
  BY <1>1, <1>2, <1>4 DEF PendingIsHalfRecorded
<1>. QED
  BY <1>3, <1>5 DEF SerialInv

\* write_observation changes the rows of its own itinerary only, and those as
\* the poll calls for.
LEMMA WriteRecords ==
    ASSUME Inv, NEW j \in Jobs, pc[j] = "writing", NEW i \in todo[j], write_observation(j, i),
           NEW k \in Itineraries
    PROVE  IF k = i
           THEN History!Recorded(poll[j], i, History!Of(pending[j], i), History!Of(pending'[j], i))
           ELSE History!Of(pending'[j], k) = History!Of(pending[j], k)
<1>. DEFINE price == poll[j].offers[i]
            at == poll[j].retrieved_at
<1>1. /\ poll[j] \in Poll /\ i \in DOMAIN poll[j].offers
      /\ pending[j] \subseteq CashObservation
      /\ pending \in [Jobs -> SUBSET CashObservation]
  BY DEF Inv, JobsHoldPolls, TypeOK
<1>2. i \in Itineraries /\ price \in Prices /\ at \in 1..MaxPolls
  BY <1>1, OfferTypes
<1>3. latest(j, i) = History!Current(History!Of(pending[j], i))
  BY DEF latest, History!Current, History!Of
<1>4. \A row \in latest(j, i) : row.price \in Prices
  BY <1>1 DEF latest, CashObservation
<1>5. CASE /\ latest(j, i) = {} \/ \E row \in latest(j, i) : is_material_change(row.price, price)
           /\ pending' = [pending EXCEPT ![j] = @ \cup {new_period(i, price, at)}]
  <2>1. pending'[j] = pending[j] \cup {new_period(i, price, at)}
    BY <1>1, <1>5
  <2>2. new_period(i, price, at).itinerary_id = i
    BY DEF new_period
  <2>3. History!Of(pending'[j], i) = History!Of(pending[j], i) \cup {new_period(i, price, at)}
    BY <2>1, <2>2 DEF History!Of
  <2>4. latest(j, i) = {} \/ \E r \in latest(j, i) : r.price # price
    BY <1>4, <1>5, ObservationsAssumption DEF is_material_change
  <2>5. History!Opens(poll[j], i, History!Of(pending[j], i), History!Of(pending'[j], i))
    BY <1>3, <2>3, <2>4 DEF History!Opens, new_period
  <2>6. k # i => History!Of(pending'[j], k) = History!Of(pending[j], k)
    BY <2>1, <2>2 DEF History!Of
  <2>. QED
    BY <1>1, <2>5, <2>6 DEF History!Recorded
<1>6. ASSUME NEW row \in latest(j, i), ~is_material_change(row.price, price),
             pending' = [pending EXCEPT ![j] = (@ \ {row}) \cup {extend(row, at)}]
      PROVE  IF k = i
             THEN History!Recorded(poll[j], i, History!Of(pending[j], i), History!Of(pending'[j], i))
             ELSE History!Of(pending'[j], k) = History!Of(pending[j], k)
  <2>1. pending'[j] = (pending[j] \ {row}) \cup {extend(row, at)}
    BY <1>1, <1>6
  <2>2. row \in CashObservation /\ row.itinerary_id = i
    BY <1>1 DEF latest
  <2>3. extend(row, at).itinerary_id = i
    BY <1>2, <2>2 DEF extend, CashObservation
  <2>4. History!Of(pending'[j], i) = (History!Of(pending[j], i) \ {row}) \cup {extend(row, at)}
    BY <2>1, <2>2, <2>3 DEF History!Of
  <2>5. row.price = price
    BY <1>6 DEF is_material_change
  <2>6. History!Continues(poll[j], i, History!Of(pending[j], i), History!Of(pending'[j], i))
    BY <1>3, <2>4, <2>5 DEF History!Continues, extend
  <2>7. k # i => History!Of(pending'[j], k) = History!Of(pending[j], k)
    BY <2>1, <2>2, <2>3 DEF History!Of
  <2>. QED
    BY <1>1, <2>6, <2>7 DEF History!Recorded
<1>. QED
  BY <1>5, <1>6 DEF write_observation

LEMMA WriteKeepsSerial ==
    ASSUME Inv, SerialInv, NEW j \in Jobs, Write(j)
    PROVE  SerialInv'
<1>1. PICK i \in todo[j] : write_observation(j, i) /\ todo' = [todo EXCEPT ![j] = @ \ {i}]
  BY DEF Write
<1>2. /\ pc[j] = "writing" /\ lock = j /\ lock' = lock /\ pc' = pc /\ poll' = poll /\ rows' = rows
      /\ todo'[j] = todo[j] \ {i}
  BY <1>1 DEF Write, SerialInv, WritersHoldTheLock, Inv, TypeOK
<1>3. WritersHoldTheLock'
  BY <1>2 DEF SerialInv, WritersHoldTheLock
<1>4. ASSUME NEW k \in Itineraries
      PROVE  HalfRecorded(j, k)'
  <2>1. HalfRecorded(j, k)
    BY <1>2 DEF SerialInv, PendingIsHalfRecorded
  <2>2. IF k = i
        THEN History!Recorded(poll[j], i, History!Of(pending[j], i), History!Of(pending'[j], i))
        ELSE History!Of(pending'[j], k) = History!Of(pending[j], k)
    BY <1>1, <1>2, WriteRecords
  <2>. QED
    BY <1>1, <1>2, <2>1, <2>2 DEF HalfRecorded
<1>5. \A k \in Jobs : pc'[k] = "writing" => k = j
  BY <1>2, <1>3 DEF WritersHoldTheLock
<1>6. PendingIsHalfRecorded'
  BY <1>4, <1>5 DEF PendingIsHalfRecorded
<1>. QED
  BY <1>3, <1>6 DEF SerialInv

\* Nobody writes any more once the writer has committed.
LEMMA CommitKeepsSerial ==
    ASSUME Inv, SerialInv, NEW j \in Jobs, Commit(j)
    PROVE  SerialInv'
<1>1. \A k \in Jobs : pc[k] = "writing" => k = j
  BY DEF Commit, SerialInv, WritersHoldTheLock
<1>2. \A k \in Jobs : pc'[k] # "writing"
  BY <1>1 DEF Commit, EndJob, Inv, TypeOK
<1>. QED
  BY <1>2 DEF SerialInv, WritersHoldTheLock, PendingIsHalfRecorded

\* What it commits is its poll, recorded as a whole on the rows as they are.
LEMMA CommitRecords ==
    ASSUME Inv, SerialInv, NEW j \in Jobs, Commit(j)
    PROVE  poll[j] \in Poll /\ History!Record(poll[j])
<1>1. poll[j] \in Poll /\ polls' = Append(polls, poll[j]) /\ rows' = pending[j]
  BY DEF Commit, Inv, JobsHoldPolls
<1>2. {r.itinerary_id : r \in rows'} \subseteq Itineraries
  BY <1>1 DEF Inv, TypeOK, CashObservation
<1>3. ASSUME NEW i \in Itineraries
      PROVE  History!Recorded(poll[j], i, History!Of(rows, i), History!Of(rows', i))
  <2>1. HalfRecorded(j, i) /\ i \notin todo[j]
    BY DEF Commit, SerialInv, PendingIsHalfRecorded
  <2>. QED
    BY <1>1, <2>1 DEF HalfRecorded
<1>. QED
  BY <1>1, <1>2, <1>3 DEF History!Record

-----------------------------------------------------------------------------

LEMMA SerialInit == Init => SerialInv /\ History!Init
  BY DEF Init, SerialInv, WritersHoldTheLock, PendingIsHalfRecorded, History!Init

\* Each step records one poll or none.
LEMMA SerialStep ==
    Inv /\ SerialInv /\ [Next]_vars => SerialInv' /\ [History!Next]_<<rows, polls>>
<1>. SUFFICES ASSUME Inv, SerialInv, [Next]_vars
              PROVE  SerialInv' /\ [History!Next]_<<rows, polls>>
  OBVIOUS
<1>1. CASE UNCHANGED vars
  BY <1>1, OthersKeepSerial DEF vars
<1>2. ASSUME NEW j \in Jobs, Fetch(j) \/ RecordSuccess(j)
      PROVE  SerialInv' /\ UNCHANGED <<rows, polls>>
  BY <1>2, OthersKeepSerial DEF Fetch, RecordSuccess, Inv, TypeOK
<1>3. ASSUME NEW j \in Jobs, Fails(j) \/ FlushConflicts(j)
      PROVE  SerialInv' /\ UNCHANGED <<rows, polls>>
  BY <1>3, OthersKeepSerial DEF Fails, FlushConflicts, EndJob, Inv, TypeOK
<1>4. ASSUME NEW j \in Jobs, Flush(j)
      PROVE  SerialInv' /\ UNCHANGED <<rows, polls>>
  BY <1>4, FlushKeepsSerial DEF Flush, BeginWrites
<1>5. ASSUME NEW j \in Jobs, Write(j)
      PROVE  SerialInv' /\ UNCHANGED <<rows, polls>>
  BY <1>5, WriteKeepsSerial DEF Write
<1>6. ASSUME NEW j \in Jobs, Commit(j)
      PROVE  SerialInv' /\ History!Next
  BY <1>6, CommitKeepsSerial, CommitRecords DEF History!Next
<1>7. CASE WorkerCrash
  BY <1>7 DEF WorkerCrash, SerialInv, WritersHoldTheLock, PendingIsHalfRecorded
<1>. QED
  BY <1>1, <1>2, <1>3, <1>4, <1>5, <1>6, <1>7 DEF Next

THEOREM SerialInvariance == Spec => []SerialInv
  BY SerialInit, SerialStep, Invariance, PTL DEF Spec

\* The searches implement the abstract history: their table is that of a source
\* whose polls are recorded one after another (write_observation's transactions
\* are serialized by the health row that record_success has touched).
THEOREM Serialization == Spec => Serializable
  BY SerialInit, SerialStep, SerialInvariance, Invariance, PTL
  DEF Spec, Serializable, History!Spec

-----------------------------------------------------------------------------
(* The history is run-length encoded: rows are the maximal runs of polls.   *)

Ordered(s) == \A n \in 2..Len(s) : s[n - 1].retrieved_at < s[n].retrieved_at

\* Polls are told apart, and put in order, by when they were fetched.
LEMMA OrderedPolls ==
    ASSUME NEW s \in Seq(Poll), Ordered(s), NEW k \in 1..Len(s), NEW m \in 1..Len(s)
    PROVE  /\ k <= m <=> s[k].retrieved_at <= s[m].retrieved_at
           /\ k = m <=> s[k].retrieved_at = s[m].retrieved_at
<1>1. s[k].retrieved_at \in Int /\ s[m].retrieved_at \in Int
  BY OfferTypes
<1>2. k < m => s[k].retrieved_at < s[m].retrieved_at
  BY LaterPolls DEF Ordered
<1>3. m < k => s[m].retrieved_at < s[k].retrieved_at
  BY LaterPolls DEF Ordered
<1>. QED
  BY <1>1, <1>2, <1>3

LEMMA RunsAre ==
    ASSUME NEW s, NEW i, NEW r
    PROVE  r \in Runs(s, i) <=>
               \E a, b \in Offering(s, i) : IsRun(s, i, a, b) /\ r = Run(s, i, a, b)
<1>1. ASSUME NEW a \in Offering(s, i), NEW b \in Offering(s, i), IsRun(s, i, a, b)
      PROVE  Run(s, i, a, b) \in Runs(s, i)
  <2>. DEFINE X == {x \in Offering(s, i) \X Offering(s, i) : IsRun(s, i, x[1], x[2])}
  <2>1. <<a, b>> \in X /\ <<a, b>>[1] = a /\ <<a, b>>[2] = b
    BY <1>1
  <2>2. Runs(s, i) = {Run(s, i, ab[1], ab[2]) : ab \in X}
    BY DEF Runs
  <2>. HIDE DEF X
  <2>. QED
    BY <2>1, <2>2
<1>2. ASSUME r \in Runs(s, i)
      PROVE  \E a, b \in Offering(s, i) : IsRun(s, i, a, b) /\ r = Run(s, i, a, b)
  BY <1>2 DEF Runs
<1>. QED
  BY <1>1, <1>2

\* The same about a set of positions and its end.
LEMMA GreatestPosition ==
    ASSUME NEW N \in Nat, NEW T \in SUBSET (1..N), T # {}
    PROVE  \E x \in T : \A y \in T : y <= x
<1>. DEFINE D == {d \in 0..N : N - d \in T}
<1>1. ASSUME NEW y \in T PROVE \E e \in D : N - e = y
  <2>1. y \in 1..N
    OBVIOUS
  <2>2. PICK e \in 0..N : N - e = y
    <3>1. N - y \in 0..N /\ N - (N - y) = y
      BY <2>1
    <3>. QED
      BY <3>1
  <2>. QED
    BY <2>2
<1>2. D \in SUBSET Nat /\ D # {}
  <2>1. D \in SUBSET Nat
    OBVIOUS
  <2>. HIDE DEF D
  <2>. QED
    BY <1>1, <2>1
<1>3. PICK d \in D : \A e \in D : d <= e
  <2>. HIDE DEF D
  <2>. QED
    BY <1>2, LeastNatural
<1>4. N - d \in T /\ d \in 0..N
  OBVIOUS
<1>5. ASSUME NEW y \in T PROVE y <= N - d
  <2>1. PICK e \in D : N - e = y
    BY <1>1
  <2>2. d <= e /\ e \in 0..N
    BY <1>3
  <2>. QED
    BY <1>4, <2>1, <2>2
<1>. QED
  BY <1>4, <1>5

\* Every poll that offered an itinerary lies in a run.
LEMMA RunAround ==
    ASSUME NEW s \in Seq(Poll), NEW i, NEW k \in Offering(s, i)
    PROVE  \E a, b \in Offering(s, i) : IsRun(s, i, a, b) /\ a <= k /\ k <= b
<1>. DEFINE O == Offering(s, i)
<1>1. O \in SUBSET (1..Len(s)) /\ O \in SUBSET Nat /\ Len(s) \in Nat
  BY DEF Offering
<1>2. k \in Int /\ Flat(s, i, k, k)
  BY <1>1 DEF Flat
<1>3. PICK a \in O : a <= k /\ Flat(s, i, a, k) /\ \A c \in O : c <= k /\ Flat(s, i, c, k) => a <= c
  <2>. DEFINE T == {c \in O : c <= k /\ Flat(s, i, c, k)}
  <2>1. T \in SUBSET Nat /\ T # {}
    BY <1>1, <1>2
  <2>2. PICK a \in T : \A c \in T : a <= c
    <3>. HIDE DEF T
    <3>. QED
      BY <2>1, LeastNatural
  <2>. QED
    BY <2>2
<1>4. PICK b \in O : k <= b /\ Flat(s, i, a, b) /\ \A c \in O : k <= c /\ Flat(s, i, a, c) => c <= b
  <2>. DEFINE T == {c \in O : k <= c /\ Flat(s, i, a, c)}
  <2>1. T \in SUBSET (1..Len(s)) /\ T # {}
    BY <1>1, <1>2, <1>3
  <2>2. PICK b \in T : \A c \in T : c <= b
    <3>. HIDE DEF T
    <3>. QED
      BY <1>1, <2>1, GreatestPosition
  <2>. QED
    BY <2>2
<1>. HIDE DEF O
<1>5. \A c \in O : c \in Int
  BY <1>1
<1>6. ASSUME NEW c \in O, c < a PROVE ~Flat(s, i, c, b)
  <2>1. c <= k /\ ~(a <= c)
    BY <1>3, <1>5, <1>6, <1>2
  <2>2. ~Flat(s, i, c, k)
    BY <1>3, <2>1
  <2>3. \A n \in O : n <= k => n <= b
    BY <1>2, <1>4, <1>5
  <2>. QED
    BY <2>2, <2>3 DEF Flat, O
<1>7. ASSUME NEW c \in O, b < c PROVE ~Flat(s, i, a, c)
  <2>1. k <= c /\ ~(c <= b)
    BY <1>4, <1>5, <1>7, <1>2
  <2>. QED
    BY <1>4, <2>1
<1>8. a <= b
  BY <1>2, <1>3, <1>4, <1>5
<1>. QED
  BY <1>3, <1>4, <1>6, <1>7, <1>8 DEF IsRun, O

\* If any poll offered an itinerary, the last that did so ends a run.
LEMMA LastRun ==
    ASSUME NEW s \in Seq(Poll), NEW i, Offering(s, i) # {}
    PROVE  \E a, b \in Offering(s, i) : IsRun(s, i, a, b) /\ \A n \in Offering(s, i) : n <= b
<1>1. Offering(s, i) \in SUBSET (1..Len(s)) /\ Len(s) \in Nat
  BY DEF Offering
<1>2. PICK k \in Offering(s, i) : \A n \in Offering(s, i) : n <= k
  BY <1>1, GreatestPosition
<1>3. PICK a, b \in Offering(s, i) : IsRun(s, i, a, b) /\ k <= b
  BY RunAround
<1>4. b = k
  BY <1>1, <1>2, <1>3
<1>. QED
  BY <1>2, <1>3, <1>4

\* No two runs end, or begin, together.
LEMMA RunsDiffer ==
    ASSUME NEW s \in Seq(Poll), NEW i, NEW b \in Offering(s, i),
           NEW a \in Offering(s, i), NEW c \in Offering(s, i),
           IsRun(s, i, a, b), IsRun(s, i, c, b)
    PROVE  a = c
<1>1. a \in Int /\ c \in Int
  BY DEF Offering
<1>. QED
  BY <1>1 DEF IsRun

\* The run that was seen last ends with the last poll.
LEMMA CurrentRun ==
    ASSUME NEW s \in Seq(Poll), Ordered(s), NEW i, NEW r \in History!Current(Runs(s, i))
    PROVE  \E a, b \in Offering(s, i) :
              /\ IsRun(s, i, a, b) /\ r = Run(s, i, a, b)
              /\ \A n \in Offering(s, i) : n <= b
<1>1. r \in Runs(s, i) /\ \A q \in Runs(s, i) : q.last_seen_at <= r.last_seen_at
  BY DEF History!Current
<1>2. PICK a, b \in Offering(s, i) : IsRun(s, i, a, b) /\ r = Run(s, i, a, b)
  BY <1>1, RunsAre
<1>3. PICK c, d \in Offering(s, i) : IsRun(s, i, c, d) /\ \A n \in Offering(s, i) : n <= d
  BY <1>2, LastRun
<1>4. Run(s, i, c, d) \in Runs(s, i)
  BY <1>3, RunsAre
<1>5. s[d].retrieved_at <= s[b].retrieved_at
  BY <1>1, <1>2, <1>4 DEF Run
<1>6. b \in 1..Len(s) /\ d \in 1..Len(s)
  BY DEF Offering
<1>7. d <= b
  BY <1>5, <1>6, OrderedPolls
<1>8. b = d
  BY <1>3, <1>6, <1>7
<1>. QED
  BY <1>2, <1>3, <1>8

\* There is one if there is any run.
LEMMA SomeCurrent ==
    ASSUME NEW s \in Seq(Poll), Ordered(s), NEW i, Offering(s, i) # {}
    PROVE  History!Current(Runs(s, i)) # {}
<1>1. PICK a, b \in Offering(s, i) : IsRun(s, i, a, b) /\ \A n \in Offering(s, i) : n <= b
  BY LastRun
<1>2. Run(s, i, a, b) \in Runs(s, i)
  BY <1>1, RunsAre
<1>3. ASSUME NEW q \in Runs(s, i)
      PROVE  q.last_seen_at <= Run(s, i, a, b).last_seen_at
  <2>1. PICK c, d \in Offering(s, i) : q = Run(s, i, c, d)
    BY RunsAre
  <2>2. b \in 1..Len(s) /\ d \in 1..Len(s) /\ d <= b
    BY <1>1 DEF Offering
  <2>3. s[d].retrieved_at <= s[b].retrieved_at
    BY <2>2, OrderedPolls
  <2>. QED
    BY <2>1, <2>3 DEF Run
<1>. QED
  BY <1>2, <1>3 DEF History!Current

\* A poll that follows all others records itself in the runs of its itineraries as
\* the history asks: it continues the last run or begins one.
LEMMA RecordKeepsRuns ==
    ASSUME NEW s \in Seq(Poll), NEW p \in Poll, Ordered(Append(s, p)), NEW i, NEW after,
           History!Recorded(p, i, Runs(s, i), after)
    PROVE  after = Runs(Append(s, p), i)
<1>. DEFINE N == Len(s) + 1
            t == Append(s, p)
            O == Offering(s, i)
            price == p.offers[i]
<1>1. /\ t \in Seq(Poll) /\ Len(t) = N /\ N \in Nat /\ t[N] = p
      /\ \A n \in 1..Len(s) : t[n] = s[n] /\ n \in 1..Len(t) /\ n < N
      /\ Ordered(s)
  BY DEF Ordered
<1>2. O \subseteq 1..Len(s) /\ O \subseteq Int
  BY DEF Offering
<1>0. /\ \A n : n \in Offering(t, i) <=> n \in O \/ (n = N /\ i \in DOMAIN p.offers)
      /\ \A n \in O : n < N /\ t[n] = s[n]
  <2>1. /\ \A n : n \in Offering(t, i) <=> n \in 1..N /\ i \in DOMAIN t[n].offers
        /\ \A n : n \in O <=> n \in 1..Len(s) /\ i \in DOMAIN s[n].offers
    BY <1>1 DEF Offering
  <2>2. \A n : n \in 1..N <=> n \in 1..Len(s) \/ n = N
    BY <1>1
  <2>3. t[N] = p /\ \A n \in 1..Len(s) : t[n] = s[n] /\ n < N
    BY <1>1
  <2>. HIDE DEF t, O, N
  <2>. QED
    BY <2>1, <2>2, <2>3
<1>3. ASSUME NEW a \in O, NEW b \in O
      PROVE  /\ Flat(t, i, a, b) <=> Flat(s, i, a, b)
             /\ Run(t, i, a, b) = Run(s, i, a, b)
  <2>1. a \in Int /\ b \in Int /\ b < N /\ t[a] = s[a] /\ t[b] = s[b]
    BY <1>1, <1>2
  <2>2. \A n : n \in Offering(t, i) /\ a <= n /\ n <= b <=> n \in O /\ a <= n /\ n <= b
    BY <1>1, <1>2, <2>1 DEF Offering
  <2>3. Flat(t, i, a, b) <=> Flat(s, i, a, b)
    <3>1. Flat(t, i, a, b) <=>
            \A n : n \in Offering(t, i) /\ a <= n /\ n <= b => t[n].offers[i] = t[a].offers[i]
      BY DEF Flat
    <3>2. Flat(s, i, a, b) <=>
            \A n : n \in O /\ a <= n /\ n <= b => s[n].offers[i] = s[a].offers[i]
      BY DEF Flat
    <3>3. \A n \in O : t[n] = s[n]
      BY <1>1, <1>2
    <3>. HIDE DEF t, O
    <3>. QED
      BY <2>1, <2>2, <3>1, <3>2, <3>3
  <2>4. {n \in Offering(t, i) : a <= n /\ n <= b} = {n \in O : a <= n /\ n <= b}
    BY <2>2
  <2>5. Run(t, i, a, b) = Run(s, i, a, b)
    BY <2>1, <2>4 DEF Run
  <2>. QED
    BY <2>3, <2>5
<1>. HIDE DEF N, t, O
<1>4. CASE i \notin DOMAIN p.offers
  <2>1. Offering(t, i) = O
    BY <1>0, <1>4
  <2>2. \A a, b \in O : IsRun(t, i, a, b) <=> IsRun(s, i, a, b)
    BY <1>3, <2>1 DEF IsRun, O
  <2>3. \A r : r \in Runs(t, i) <=> r \in Runs(s, i)
    BY <1>3, <2>1, <2>2, RunsAre DEF O
  <2>. QED
    BY <1>4, <2>3 DEF History!Recorded, t
<1>5. CASE i \in DOMAIN p.offers
  <2>1. Offering(t, i) = O \cup {N} /\ \A n \in O : n < N
    BY <1>0, <1>5
  <2>2. Flat(t, i, N, N) /\ t[N].offers[i] = price
    <3>1. \A n \in Offering(t, i) : n <= N /\ N <= n => n = N
      <4>0. N \in Int
        BY <1>1
      <4>1. \A n \in Offering(t, i) : n \in Int
        BY <1>2, <2>1, <4>0
      <4>. QED
        BY <1>1, <4>1
    <3>. QED
      BY <1>1, <3>1 DEF Flat, price
  \* What becomes of the runs that end before.
  <2>3. \A a, b \in O : IsRun(t, i, a, b) <=> IsRun(s, i, a, b) /\ ~Flat(t, i, a, N)
    <3>. SUFFICES ASSUME NEW a \in O, NEW b \in O
                  PROVE  IsRun(t, i, a, b) <=> IsRun(s, i, a, b) /\ ~Flat(t, i, a, N)
      OBVIOUS
    <3>1. \A c \in O : /\ Flat(t, i, a, c) <=> Flat(s, i, a, c)
                       /\ Flat(t, i, c, b) <=> Flat(s, i, c, b)
      BY <1>3
    <3>2. b < N /\ ~(N < a)
      BY <1>1, <1>2, <2>1
    <3>. QED
      BY <2>1, <3>1, <3>2 DEF IsRun, O
  \* Whether the last run goes on.
  <2>4. ASSUME NEW b \in O, \A n \in O : n <= b, NEW a \in O
        PROVE  Flat(t, i, a, N) <=> Flat(s, i, a, b) /\ s[a].offers[i] = price
    <3>1. /\ a <= b /\ a <= N /\ t[a].offers[i] = s[a].offers[i]
          /\ \A n \in O : n <= b /\ n <= N /\ t[n].offers[i] = s[n].offers[i]
      <4>1. \A n \in O : n \in Int /\ n < N
        BY <1>0, <1>2
      <4>2. \A n \in O : n <= b /\ n <= N
        BY <1>1, <2>4, <4>1
      <4>3. \A n \in O : t[n].offers[i] = s[n].offers[i]
        BY <1>0
      <4>. QED
        BY <4>2, <4>3
    <3>2. Flat(s, i, a, b) <=> \A n \in O : a <= n => s[n].offers[i] = s[a].offers[i]
      BY <3>1 DEF Flat, O
    <3>3. Flat(t, i, a, N) <=> \A n \in O \cup {N} : a <= n => t[n].offers[i] = t[a].offers[i]
      BY <1>1, <2>1, <3>1 DEF Flat
    <3>. QED
      BY <2>2, <3>1, <3>2, <3>3
  <2>5. CASE History!Opens(p, i, Runs(s, i), after)
    <3>1. ASSUME NEW a \in O, Flat(t, i, a, N)
          PROVE  FALSE
      <4>1. Ordered(s) /\ O # {}
        BY <1>1
      <4>2. PICK r \in History!Current(Runs(s, i)) : r.price # price
        BY <2>5, <4>1, SomeCurrent DEF History!Opens, price, O
      <4>3. PICK c, b \in O : IsRun(s, i, c, b) /\ r = Run(s, i, c, b) /\ \A n \in O : n <= b
        BY <4>1, CurrentRun DEF O
      <4>4. Flat(s, i, a, b) /\ s[a].offers[i] = price
        BY <2>4, <3>1, <4>3
      <4>5. a <= b /\ c <= b /\ b <= b
        BY <1>2, <4>3
      <4>6. s[b].offers[i] = price /\ s[b].offers[i] = s[c].offers[i]
        BY <4>3, <4>4, <4>5 DEF IsRun, Flat, O
      <4>. QED
        BY <4>2, <4>3, <4>6 DEF Run
    <3>2. IsRun(t, i, N, N)
      <4>0. N \in Int /\ \A c \in O : c \in Int /\ c < N
        BY <1>1, <1>2, <2>1
      <4>1. N <= N /\ \A c \in Offering(t, i) : c = N \/ (c \in O /\ ~(N < c))
        BY <2>1, <4>0
      <4>2. ~(N < N)
        BY <1>1
      <4>. QED
        BY <2>2, <3>1, <4>1, <4>2 DEF IsRun
    <3>3. \A c \in O : ~IsRun(t, i, c, N) /\ ~IsRun(t, i, N, c)
      <4>1. \A c \in O : ~(N <= c)
        BY <1>1, <1>2, <2>1
      <4>. QED
        BY <3>1, <4>1 DEF IsRun
    <3>4. Run(t, i, N, N) =
            [itinerary_id |-> i, price |-> price, first_seen_at |-> p.retrieved_at,
             last_seen_at |-> p.retrieved_at, poll_count |-> 1]
      <4>0. N \in Int /\ \A c \in O : c \in Int /\ c < N
        BY <1>1, <1>2, <2>1
      <4>1. {n \in Offering(t, i) : N <= n /\ n <= N} = {N}
        BY <2>1, <4>0
      <4>2. Cardinality({N}) = 1
        BY FS_Singleton
      <4>. QED
        BY <1>1, <4>1, <4>2 DEF Run, price
    <3>5. \A r : r \in Runs(t, i) <=> r \in Runs(s, i) \/ r = Run(t, i, N, N)
      <4>1. \A c, d \in O : IsRun(t, i, c, d) <=> IsRun(s, i, c, d)
        BY <2>3, <3>1
      <4>2. ASSUME NEW r
            PROVE  r \in Runs(t, i) <=>
                        \/ \E c, d \in O : IsRun(t, i, c, d) /\ r = Run(t, i, c, d)
                        \/ r = Run(t, i, N, N)
        BY <2>1, <3>2, <3>3, RunsAre
      <4>3. ASSUME NEW r
            PROVE  r \in Runs(s, i) <=> \E c, d \in O : IsRun(s, i, c, d) /\ r = Run(s, i, c, d)
        BY RunsAre DEF O
      <4>. QED
        BY <1>3, <4>1, <4>2, <4>3
    <3>6. after = Runs(s, i) \cup {Run(t, i, N, N)}
      BY <2>5, <3>4 DEF History!Opens, price
    <3>. QED
      BY <3>5, <3>6 DEF t
  <2>6. CASE History!Continues(p, i, Runs(s, i), after)
    <3>1. PICK r \in History!Current(Runs(s, i)) :
            /\ r.price = price
            /\ after = (Runs(s, i) \ {r}) \cup
                 {[r EXCEPT !.last_seen_at = p.retrieved_at, !.poll_count = @ + 1]}
      BY <2>6 DEF History!Continues, price
    <3>2. PICK a, b \in O : IsRun(s, i, a, b) /\ r = Run(s, i, a, b) /\ \A n \in O : n <= b
      <4>1. Ordered(s)
        BY <1>1
      <4>. QED
        BY <4>1, CurrentRun DEF O
    <3>3. Flat(t, i, a, N)
      <4>1. Flat(s, i, a, b) /\ s[a].offers[i] = price
        BY <3>1, <3>2 DEF IsRun, Run
      <4>. QED
        BY <2>4, <3>2, <4>1
    \* The run goes on, and no other one does.
    <3>4. \A c \in O : c # a => ~IsRun(t, i, c, N)
      <4>1. \A c \in O : c \in Int
        BY <1>2
      <4>2. ASSUME NEW c \in O, c < a
            PROVE  ~Flat(t, i, c, N)
        <5>1. ~Flat(s, i, c, b)
          BY <3>2, <4>2 DEF IsRun, O
        <5>. QED
          BY <2>4, <3>2, <5>1
      <4>. QED
        BY <2>1, <3>3, <4>1, <4>2 DEF IsRun
    <3>5. IsRun(t, i, a, N) /\ ~IsRun(t, i, N, N) /\ \A c \in O : ~IsRun(t, i, N, c)
      <4>1. /\ a < N /\ a <= N /\ ~(N < N)
            /\ \A c \in O : ~(N <= c) /\ ~(N < c)
        BY <1>1, <1>2, <2>1
      <4>2. ASSUME NEW c \in O, c < a
            PROVE  ~Flat(t, i, c, N)
        <5>1. ~Flat(s, i, c, b)
          BY <3>2, <4>2 DEF IsRun, O
        <5>. QED
          BY <2>4, <3>2, <5>1
      <4>3. ~(N < a)
        BY <4>1
      <4>. QED
        BY <1>1, <2>1, <3>3, <4>1, <4>2, <4>3 DEF IsRun
    <3>6. ASSUME NEW c \in O, NEW d \in O
          PROVE  IsRun(t, i, c, d) <=> IsRun(s, i, c, d) /\ Run(s, i, c, d) # r
      <4>1. b \in 1..Len(s) /\ d \in 1..Len(s) /\ Ordered(s)
        BY <1>1, <1>2
      <4>2. Run(s, i, c, d) = r => d = b
        BY <3>2, <4>1, OrderedPolls DEF Run
      <4>3. CASE d = b
        <5>1. IsRun(s, i, c, d) => c = a
          BY <3>2, <4>3, RunsDiffer DEF O
        <5>. QED
          BY <2>3, <3>2, <3>3, <4>3, <5>1
      <4>4. CASE d # b
        <5>1. d < b
          BY <1>2, <3>2, <4>4
        <5>2. IsRun(s, i, c, d) => ~Flat(s, i, c, b)
          BY <5>1 DEF IsRun, O
        <5>3. ~Flat(s, i, c, b) => ~Flat(t, i, c, N)
          BY <2>4, <3>2
        <5>. QED
          BY <2>3, <4>2, <4>4, <5>2, <5>3
      <4>. QED
        BY <4>3, <4>4
    <3>7. Run(t, i, a, N) = [r EXCEPT !.last_seen_at = p.retrieved_at, !.poll_count = @ + 1]
      <4>. DEFINE C == {n \in O : a <= n /\ n <= b}
      <4>0. N \in Int /\ \A c \in O : c \in Int /\ c < N
        BY <1>1, <1>2, <2>1
      <4>1. {n \in Offering(t, i) : a <= n /\ n <= N} = C \cup {N}
        <5>1. \A n \in O : n <= b /\ n <= N
          BY <3>2, <4>0
        <5>2. a <= N /\ N <= N
          BY <4>0
        <5>. QED
          BY <2>1, <5>1, <5>2
      <4>2. Cardinality(C \cup {N}) = Cardinality(C) + 1
        <5>1. IsFiniteSet(C)
          <6>0. Len(s) \in Int
            OBVIOUS
          <6>1. C \in SUBSET (1..Len(s))
            BY <1>2
          <6>2. IsFiniteSet(1..Len(s))
            BY <6>0, FS_Interval
          <6>. QED
            BY <6>1, <6>2, FS_Subset
        <5>2. N \notin C
          BY <4>0
        <5>. HIDE DEF C
        <5>. QED
          BY <5>1, <5>2, FS_AddElement
      <4>3. t[a].offers[i] = s[a].offers[i] /\ t[a].retrieved_at = s[a].retrieved_at /\ t[N] = p
        BY <1>0, <1>1
      <4>4. r = [itinerary_id |-> i, price |-> s[a].offers[i], first_seen_at |-> s[a].retrieved_at,
                 last_seen_at |-> s[b].retrieved_at, poll_count |-> Cardinality(C)]
        BY <3>2 DEF Run, O
      <4>5. Run(t, i, a, N) =
              [itinerary_id |-> i, price |-> s[a].offers[i], first_seen_at |-> s[a].retrieved_at,
               last_seen_at |-> p.retrieved_at, poll_count |-> Cardinality(C) + 1]
        BY <4>1, <4>2, <4>3 DEF Run
      <4>. DEFINE seenAgain == [r EXCEPT !.last_seen_at = p.retrieved_at]
      <4>. HIDE DEF C
      <4>6. seenAgain =
              [itinerary_id |-> i, price |-> s[a].offers[i], first_seen_at |-> s[a].retrieved_at,
               last_seen_at |-> p.retrieved_at, poll_count |-> Cardinality(C)]
        BY <4>4
      <4>7. r.poll_count = Cardinality(C)
        BY <4>4
      <4>8. [r EXCEPT !.last_seen_at = p.retrieved_at, !.poll_count = @ + 1] =
              [seenAgain EXCEPT !.poll_count = r.poll_count + 1]
        OBVIOUS
      <4>. HIDE DEF seenAgain
      <4>. QED
        BY <4>5, <4>6, <4>7, <4>8
    <3>8. \A x : x \in Runs(t, i) <=> x \in Runs(s, i) \ {r} \/ x = Run(t, i, a, N)
      <4>1. ASSUME NEW x
            PROVE  x \in Runs(t, i) <=>
                        \/ \E c, d \in O : IsRun(t, i, c, d) /\ x = Run(t, i, c, d)
                        \/ x = Run(t, i, a, N)
        <5>1. x \in Runs(t, i) <=>
                \E c, d \in O \cup {N} : IsRun(t, i, c, d) /\ x = Run(t, i, c, d)
          <6>1. x \in Runs(t, i) <=>
                  \E c, d \in Offering(t, i) : IsRun(t, i, c, d) /\ x = Run(t, i, c, d)
            BY RunsAre
          <6>. QED
            BY <2>1, <6>1
        <5>2. \A c \in O \cup {N} : IsRun(t, i, c, N) => c = a
          BY <3>4, <3>5
        <5>. QED
          BY <3>5, <5>1, <5>2
      <4>2. ASSUME NEW x
            PROVE  x \in Runs(s, i) <=> \E c, d \in O : IsRun(s, i, c, d) /\ x = Run(s, i, c, d)
        BY RunsAre DEF O
      <4>. QED
        BY <1>3, <3>6, <4>1, <4>2
    <3>. QED
      BY <3>1, <3>7, <3>8 DEF t
  <2>. QED
    BY <1>5, <2>5, <2>6 DEF History!Recorded
<1>. QED
  BY <1>4, <1>5

\* Once polls are recorded one after another, the runs are all there is.
LEMMA RunsStep ==
    TypeOK /\ RowsAreRuns /\ [History!Next]_<<rows, polls>> => RowsAreRuns'
<1>. SUFFICES ASSUME TypeOK, RowsAreRuns, [History!Next]_<<rows, polls>>, InOrder',
                     NEW i \in Itineraries
              PROVE  Periods(i)' = Runs(polls', i)
  BY DEF RowsAreRuns
<1>1. CASE UNCHANGED <<rows, polls>>
  BY <1>1 DEF RowsAreRuns, InOrder, Periods
<1>2. ASSUME NEW p \in Poll, History!Record(p)
      PROVE  Periods(i)' = Runs(polls', i)
  <2>1. polls \in Seq(Poll) /\ polls' = Append(polls, p) /\ Ordered(Append(polls, p))
    BY <1>2 DEF History!Record, TypeOK, InOrder, Ordered
  <2>2. InOrder
    BY <2>1 DEF InOrder, Ordered
  <2>3. /\ History!Of(rows, i) = Runs(polls, i)
        /\ History!Of(rows', i) = Periods(i)'
    BY <2>2 DEF RowsAreRuns, Periods, History!Of
  <2>4. History!Recorded(p, i, Runs(polls, i), Periods(i)')
    BY <1>2, <2>3 DEF History!Record
  <2>5. Periods(i)' = Runs(Append(polls, p), i)
    BY <2>1, <2>4, RecordKeepsRuns
  <2>. QED
    BY <2>1, <2>5
<1>. QED
  BY <1>1, <1>2 DEF History!Next

\* As long as polls commit in the order of their fetches, however the searches
\* overlap and crash, cash_observations holds one row for each maximal run of polls
\* that saw an itinerary at one price, and counts the polls of the run.
THEOREM PeriodsAreRuns == Spec => []RowsAreRuns
<1>1. Init => RowsAreRuns
  <2>. SUFFICES ASSUME Init, NEW i \in Itineraries PROVE Periods(i) = Runs(polls, i)
    BY DEF RowsAreRuns
  <2>1. Offering(polls, i) = {} /\ Periods(i) = {}
    BY DEF Init, Offering, Periods
  <2>2. \A r : r \notin Runs(polls, i)
    BY <2>1, RunsAre
  <2>. QED
    BY <2>1, <2>2
<1>2. Inv => TypeOK
  BY DEF Inv
<1>. QED
  BY <1>1, <1>2, RunsStep, SerialStep, SerialInvariance, Invariance, PTL DEF Spec

-----------------------------------------------------------------------------
(* The nightly job.  Two runs never leave a mixture because the later one   *)
(* finds every key of the earlier one: a table that keeps rows repeats a    *)
(* key, unless there is nothing to insert.  Keys are never lost as long as  *)
(* polls commit in the order in which they were fetched: periods then only  *)
(* begin or grow.                                                           *)

AllInOrder == \A n \in DOMAIN computed : InOrderUpTo(n)

ReadSnapshot == [rows : SUBSET CashObservation, polls : Seq(Poll)]

AggTypes ==
    /\ computed \in Seq(ReadSnapshot)
    /\ apc \in [Aggregators -> {"idle", "read", "deleting", "deleted"}]
    /\ run \in [Aggregators -> Nat]
    /\ \A a \in Aggregators : apc[a] # "idle" => run[a] \in DOMAIN computed
    /\ doomed = [a \in Aggregators |-> doomed[a]]

\* A later run finds every key of an earlier one, and so does whoever reads next.
KeysAreKept ==
    /\ InOrder => \A n \in DOMAIN computed : Keys(computed[n].rows) \subseteq Keys(rows)
    /\ \A n, m \in DOMAIN computed :
           (n <= m /\ InOrderUpTo(m)) => Keys(computed[n].rows) \subseteq Keys(computed[m].rows)

\* The rows of one run, all of them, or none.
OneRun(S) == S = {} \/ \E n \in DOMAIN computed : S = DailyRows(n)

DoomedIsOneRun == AllInOrder => \A a \in Aggregators : OneRun(doomed[a])

AggInv == AggTypes /\ KeysAreKept /\ DoomedIsOneRun /\ DailyIsOneRun

-----------------------------------------------------------------------------
(* The keys of the periods *)

\* A poll that commits after all the others it was fetched after loses no key: it
\* adds periods, and extends them towards its own time.
LEMMA CommitKeepsKeys ==
    ASSUME Inv, SerialInv, NEW j \in Jobs, Commit(j), InOrder'
    PROVE  Keys(rows) \subseteq Keys(rows')
<1>. DEFINE at == poll[j].retrieved_at
<1>1. poll[j] \in Poll /\ polls \in Seq(Poll) /\ polls' = Append(polls, poll[j])
  BY DEF Commit, Inv, JobsHoldPolls, TypeOK
<1>2. at \in 1..MaxPolls
  BY <1>1, OfferTypes
<1>3. \A n \in 1..Len(polls) : polls[n].retrieved_at < at
  <2>. SUFFICES ASSUME NEW n \in 1..Len(polls) PROVE polls[n].retrieved_at < at
    OBVIOUS
  <2>1. /\ polls' \in Seq(Poll) /\ Len(polls') = Len(polls) + 1
        /\ polls'[n] = polls[n] /\ polls'[Len(polls) + 1] = poll[j]
        /\ n \in 1..Len(polls') /\ Len(polls) + 1 \in 1..Len(polls') /\ n < Len(polls) + 1
    BY <1>1
  <2>2. \A k \in 2..Len(polls') : polls'[k - 1].retrieved_at < polls'[k].retrieved_at
    BY DEF InOrder
  <2>3. polls'[n].retrieved_at < polls'[Len(polls) + 1].retrieved_at
    BY <2>1, <2>2, LaterPolls
  <2>. QED
    BY <2>1, <2>3
<1>4. History!Record(poll[j])
  BY CommitRecords
<1>5. ASSUME NEW r \in rows
      PROVE  \E q \in rows' : q.price = r.price /\ dates_covered(r) \subseteq dates_covered(q)
  <2>. DEFINE i == r.itinerary_id
  <2>1. r \in CashObservation /\ i \in Itineraries
    BY DEF Inv, TypeOK, CashObservation
  <2>2. History!Recorded(poll[j], i, History!Of(rows, i), History!Of(rows', i))
    BY <1>4, <2>1 DEF History!Record
  <2>3. CASE r \in rows'
    BY <2>3
  <2>4. CASE r \notin rows'
    <3>1. r \in History!Of(rows, i) /\ r \notin History!Of(rows', i)
      BY <2>4 DEF History!Of
    <3>2. History!Continues(poll[j], i, History!Of(rows, i), History!Of(rows', i))
      BY <2>2, <3>1 DEF History!Recorded, History!Opens
    <3>3. PICK q \in History!Current(History!Of(rows, i)) :
            History!Of(rows', i) = (History!Of(rows, i) \ {q}) \cup
                {[q EXCEPT !.last_seen_at = at, !.poll_count = @ + 1]}
      BY <3>2 DEF History!Continues
    <3>4. r = q
      BY <3>1, <3>3
    <3>. DEFINE new == [r EXCEPT !.last_seen_at = at, !.poll_count = @ + 1]
    <3>5. new \in rows'
      BY <3>3, <3>4 DEF History!Of
    <3>6. new.price = r.price /\ new.first_seen_at = r.first_seen_at /\ new.last_seen_at = at
      <4>. DEFINE seenAgain == [r EXCEPT !.last_seen_at = at]
      <4>1. /\ seenAgain \in CashObservation /\ seenAgain.price = r.price
            /\ seenAgain.first_seen_at = r.first_seen_at /\ seenAgain.last_seen_at = at
        BY <1>2, <2>1 DEF CashObservation
      <4>2. new = [seenAgain EXCEPT !.poll_count = r.poll_count + 1]
        OBVIOUS
      <4>. HIDE DEF seenAgain, new
      <4>. QED
        BY <4>1, <4>2 DEF CashObservation
    <3>7. r.last_seen_at <= at
      <4>1. PICK n \in DOMAIN polls : polls[n].retrieved_at = r.last_seen_at
        BY DEF Inv, EndpointsObserved, Observed
      <4>. QED
        BY <1>1, <1>2, <1>3, <2>1, <4>1 DEF CashObservation
    <3>8. /\ r.last_seen_at \in 1..MaxPolls /\ r.first_seen_at \in 1..MaxPolls
          /\ DayOf(r.last_seen_at) \in Int /\ DayOf(at) \in Int /\ DayOf(r.first_seen_at) \in Int
          /\ DayOf(r.last_seen_at) <= DayOf(at)
      BY <1>2, <2>1, <3>7, DailyAggregatesAssumption DEF CashObservation
    <3>. HIDE DEF new
    <3>9. dates_covered(r) \subseteq dates_covered(new)
      BY <3>6, <3>8 DEF dates_covered
    <3>. QED
      BY <3>5, <3>6, <3>9
  <2>. QED
    BY <2>3, <2>4
<1>. SUFFICES ASSUME NEW key \in Keys(rows) PROVE key \in Keys(rows')
  OBVIOUS
<1>6. PICK r \in rows : key \in {[date |-> d, currency |-> Currency(r.price)] : d \in dates_covered(r)}
  BY DEF Keys
<1>7. PICK q \in rows' : q.price = r.price /\ dates_covered(r) \subseteq dates_covered(q)
  BY <1>5
<1>8. key \in {[date |-> d, currency |-> Currency(q.price)] : d \in dates_covered(q)}
  BY <1>6, <1>7
<1>. QED
  BY <1>8 DEF Keys

\* What a run inserts: one row, its own, for each key of what it read.
LEMMA RowsOfARun ==
    ASSUME NEW n
    PROVE  /\ \A r \in DailyRows(n) : r.by = n /\ r.agg.key \in Keys(computed[n].rows)
           /\ \A key \in Keys(computed[n].rows) : \E r \in DailyRows(n) : r.agg.key = key
<1>1. \A key : Aggregate(computed[n].rows, key).key = key
  BY DEF Aggregate
<1>2. DailyRows(n) = {[by |-> n, agg |-> a] : a \in compute_daily_aggregates(computed[n].rows)}
  BY DEF DailyRows
<1>3. compute_daily_aggregates(computed[n].rows) =
        {Aggregate(computed[n].rows, key) : key \in Keys(computed[n].rows)}
  BY DEF compute_daily_aggregates
<1>4. \A r \in DailyRows(n) : r.by = n /\ r.agg.key \in Keys(computed[n].rows)
  <2>. SUFFICES ASSUME NEW a \in compute_daily_aggregates(computed[n].rows)
                PROVE  a.key \in Keys(computed[n].rows)
    BY <1>2
  <2>. QED
    BY <1>1, <1>3
<1>5. ASSUME NEW key \in Keys(computed[n].rows)
      PROVE  \E r \in DailyRows(n) : r.agg.key = key
  <2>. DEFINE a == Aggregate(computed[n].rows, key)
  <2>1. a \in compute_daily_aggregates(computed[n].rows) /\ a.key = key
    BY <1>1, <1>3
  <2>. HIDE DEF a
  <2>2. [by |-> n, agg |-> a] \in DailyRows(n)
    BY <1>2, <2>1
  <2>. QED
    BY <2>1, <2>2
<1>. QED
  BY <1>4, <1>5

-----------------------------------------------------------------------------
(* The steps *)

LEMMA AggInit == DailyInit => AggInv
<1>. SUFFICES ASSUME DailyInit PROVE AggInv
  OBVIOUS
<1>1. computed = << >> /\ daily = {} /\ DOMAIN computed = {}
  BY DEF DailyInit
<1>2. AggTypes
  BY <1>1 DEF DailyInit, AggTypes
<1>3. KeysAreKept
  BY <1>1 DEF KeysAreKept
<1>4. DoomedIsOneRun
  BY DEF DailyInit, DoomedIsOneRun, OneRun
<1>5. DailyIsOneRun
  BY <1>1 DEF DailyIsOneRun
<1>. QED
  BY <1>2, <1>3, <1>4, <1>5 DEF AggInv

\* Searches lose no key of what a run has read.
LEMMA SearchesKeepKeys ==
    ASSUME Inv, SerialInv, AggInv, [Next]_vars, UNCHANGED computed
    PROVE  KeysAreKept'
<1>1. UNCHANGED <<rows, polls>> \/ \E j \in Jobs : Commit(j)
  BY DEF Next, vars, Fetch, Fails, RecordSuccess, Flush, BeginWrites, FlushConflicts, Write,
         WorkerCrash
<1>2. CASE UNCHANGED <<rows, polls>>
  BY <1>2 DEF AggInv, KeysAreKept, InOrder, InOrderUpTo, Keys
<1>3. ASSUME NEW j \in Jobs, Commit(j) PROVE KeysAreKept'
  <2>1. polls \in Seq(Poll) /\ poll[j] \in Poll /\ polls' = Append(polls, poll[j])
    BY <1>3 DEF Commit, Inv, JobsHoldPolls, TypeOK
  <2>2. InOrder' => InOrder
    BY <2>1 DEF InOrder
  <2>3. InOrder' => Keys(rows) \subseteq Keys(rows')
    BY <1>3, CommitKeepsKeys
  <2>4. InOrder' => \A n \in DOMAIN computed : Keys(computed[n].rows) \subseteq Keys(rows')
    BY <2>2, <2>3 DEF AggInv, KeysAreKept
  <2>. QED
    BY <2>4 DEF AggInv, KeysAreKept, InOrderUpTo, Keys
<1>. QED
  BY <1>1, <1>2, <1>3

\* As long as nobody reads, what the table and the DELETEs hold is judged by the
\* same runs.
LEMMA SameRuns ==
    ASSUME UNCHANGED computed
    PROVE  /\ AllInOrder' <=> AllInOrder
           /\ \A n : DailyRows(n)' = DailyRows(n)
           /\ \A S : S = {} \/ (\E n \in DOMAIN computed' : S = DailyRows(n)') <=> OneRun(S)
<1>1. \A n : DailyRows(n)' = DailyRows(n)
  BY DEF DailyRows
<1>2. AllInOrder' <=> AllInOrder
  BY DEF AllInOrder, InOrderUpTo
<1>. QED
  BY <1>1, <1>2 DEF OneRun

\* A run that ends leaves nothing behind; the table stays as it was.
LEMMA EndKeepsAgg ==
    ASSUME AggInv, NEW a \in Aggregators, EndRun(a), UNCHANGED <<vars, daily, computed>>
    PROVE  AggInv'
<1>1. /\ apc' \in [Aggregators -> {"idle", "read", "deleting", "deleted"}]
      /\ run' \in [Aggregators -> Nat]
      /\ doomed' = [b \in Aggregators |-> doomed'[b]]
  BY DEF EndRun, AggInv, AggTypes
<1>2. \A b \in Aggregators : \/ apc'[b] = "idle" /\ doomed'[b] = {}
                             \/ apc'[b] = apc[b] /\ run'[b] = run[b] /\ doomed'[b] = doomed[b]
  BY DEF EndRun, AggInv, AggTypes
<1>3. AggTypes'
  BY <1>1, <1>2 DEF AggInv, AggTypes
<1>4. KeysAreKept'
  BY DEF AggInv, KeysAreKept, vars, InOrder, InOrderUpTo, Keys
<1>5. DoomedIsOneRun' /\ DailyIsOneRun'
  BY <1>2, SameRuns DEF AggInv, DoomedIsOneRun, DailyIsOneRun, AllInOrder, OneRun
<1>. QED
  BY <1>3, <1>4, <1>5 DEF AggInv

\* A run reads the rows as they are; it is the latest, and found all keys so far.
LEMMA ReadKeepsAgg ==
    ASSUME Inv, AggInv, NEW a \in Aggregators, ReadRows(a)
    PROVE  AggInv'
<1>. DEFINE snapshot == [rows |-> rows, polls |-> polls]
<1>0. PICK new \in Nat : new = Len(computed) + 1
  BY DEF AggInv, AggTypes
<1>1. /\ snapshot \in ReadSnapshot /\ computed \in Seq(ReadSnapshot)
      /\ computed' = Append(computed, snapshot)
  BY DEF ReadRows, Inv, TypeOK, ReadSnapshot, AggInv, AggTypes
<1>2. /\ computed' \in Seq(ReadSnapshot) /\ Len(computed') = new /\ new \in Nat
      /\ DOMAIN computed = 1..Len(computed) /\ DOMAIN computed' = 1..new
      /\ \A n \in DOMAIN computed : n \in DOMAIN computed' /\ n # new /\ computed'[n] = computed[n]
      /\ computed'[new] = snapshot /\ new \in DOMAIN computed'
      /\ \A n \in DOMAIN computed' : n = new \/ n \in DOMAIN computed
  BY <1>0, <1>1
<1>3. computed'[new].rows = rows /\ computed'[new].polls = polls
  BY <1>2
<1>. HIDE DEF snapshot
<1>4. AggTypes'
  <2>1. /\ apc' \in [Aggregators -> {"idle", "read", "deleting", "deleted"}]
        /\ run' \in [Aggregators -> Nat]
        /\ run'[a] = new
        /\ \A b \in Aggregators \ {a} : apc'[b] = apc[b] /\ run'[b] = run[b]
    BY <1>0 DEF ReadRows, AggInv, AggTypes
  <2>2. \A b \in Aggregators : apc'[b] # "idle" => run'[b] \in DOMAIN computed'
    BY <1>2, <2>1 DEF AggInv, AggTypes
  <2>. QED
    BY <1>2, <2>1, <2>2 DEF ReadRows, AggInv, AggTypes
<1>5. /\ InOrder' <=> InOrder
      /\ InOrderUpTo(new)' <=> InOrder
      /\ \A n \in DOMAIN computed : InOrderUpTo(n)' <=> InOrderUpTo(n)
  <2>1. InOrder' <=> InOrder
    BY DEF ReadRows, vars, InOrder
  <2>2. InOrderUpTo(new)' <=> InOrder
    BY <1>3 DEF InOrderUpTo, InOrder, ReadRows, vars
  <2>3. \A n \in DOMAIN computed : InOrderUpTo(n)' <=> InOrderUpTo(n)
    BY <1>2 DEF InOrderUpTo
  <2>. QED
    BY <2>1, <2>2, <2>3
<1>6. \A S : Keys(S)' = Keys(S)
  BY DEF Keys, dates_covered
<1>7. KeysAreKept'
  <2>0. rows' = rows
    BY DEF ReadRows, vars
  <2>1. InOrder => \A n \in DOMAIN computed' : Keys(computed'[n].rows) \subseteq Keys(rows)
    BY <1>2, <1>3 DEF AggInv, KeysAreKept
  <2>2. ASSUME NEW n \in DOMAIN computed', NEW m \in DOMAIN computed', n <= m, InOrderUpTo(m)'
        PROVE  Keys(computed'[n].rows) \subseteq Keys(computed'[m].rows)
    <3>1. CASE m = new
      BY <1>3, <1>5, <2>1, <2>2, <3>1
    <3>2. CASE m \in DOMAIN computed
      <4>1. n \in DOMAIN computed
        BY <1>2, <2>2, <3>2
      <4>. QED
        BY <1>2, <1>5, <2>2, <3>2, <4>1 DEF AggInv, KeysAreKept
    <3>. QED
      BY <1>2, <3>1, <3>2
  <2>. QED
    BY <1>5, <1>6, <2>0, <2>1, <2>2 DEF KeysAreKept
<1>8. AllInOrder' => AllInOrder
  BY <1>2, <1>5 DEF AllInOrder
<1>9. \A n \in DOMAIN computed : DailyRows(n)' = DailyRows(n)
  BY <1>2 DEF DailyRows
<1>10. \A S : OneRun(S) => S = {} \/ \E n \in DOMAIN computed' : S = DailyRows(n)'
  BY <1>2, <1>9 DEF OneRun
<1>11. daily' = daily /\ doomed' = doomed
  BY DEF ReadRows
<1>12. DoomedIsOneRun'
  BY <1>8, <1>10, <1>11 DEF AggInv, DoomedIsOneRun, OneRun
<1>13. DailyIsOneRun'
  <2>1. AllInOrder' => OneRun(daily)
    BY <1>8 DEF AggInv, DailyIsOneRun, AllInOrder, OneRun
  <2>. QED
    BY <1>10, <1>11, <2>1 DEF DailyIsOneRun, AllInOrder
<1>. QED
  BY <1>4, <1>7, <1>12, <1>13 DEF AggInv

\* The DELETE covers the table as it is when it begins.
LEMMA DeleteKeepsAgg ==
    ASSUME AggInv, NEW a \in Aggregators, BeginDelete(a) \/ EndDelete(a)
    PROVE  AggInv'
<1>1. /\ UNCHANGED <<vars, daily, computed, run>>
      /\ apc' \in [Aggregators -> {"idle", "read", "deleting", "deleted"}]
      /\ apc[a] # "idle"
      /\ \A b \in Aggregators \ {a} : apc'[b] = apc[b]
      /\ doomed' = [b \in Aggregators |-> doomed'[b]]
      /\ \A b \in Aggregators : doomed'[b] = doomed[b] \/ doomed'[b] = daily
  BY DEF BeginDelete, EndDelete, AggInv, AggTypes
<1>2. AggTypes'
  BY <1>1 DEF AggInv, AggTypes
<1>3. KeysAreKept'
  BY <1>1 DEF AggInv, KeysAreKept, vars, InOrder, InOrderUpTo, Keys
<1>4. DoomedIsOneRun' /\ DailyIsOneRun'
  BY <1>1, SameRuns DEF AggInv, DoomedIsOneRun, DailyIsOneRun, AllInOrder, OneRun
<1>. QED
  BY <1>2, <1>3, <1>4 DEF AggInv

\* The heart of the argument.  Either the DELETE covered what the table holds, and
\* the run's rows replace it; or the table is the work of a run that committed
\* meanwhile, none of which is covered, and then any row to insert would repeat a
\* key or leave one of the table's unrepeated: only a run without rows commits.
LEMMA ReplaceIsOneRun ==
    ASSUME AggInv, NEW a \in Aggregators, CommitDaily(a), AllInOrder
    PROVE  OneRun(daily')
<1>1. PICK n \in DOMAIN computed : n = run[a]
  BY DEF CommitDaily, AggInv, AggTypes
<1>2. daily' = (daily \ doomed[a]) \cup DailyRows(n)
  BY <1>1 DEF CommitDaily, Replace
<1>3. OneRun(daily) /\ OneRun(doomed[a])
  BY DEF AggInv, DailyIsOneRun, DoomedIsOneRun, AllInOrder, OneRun
<1>4. CASE daily \ doomed[a] = {}
  BY <1>2, <1>4 DEF OneRun
<1>5. CASE daily \ doomed[a] # {}
  <2>1. PICK m \in DOMAIN computed : daily = DailyRows(m)
    BY <1>3, <1>5 DEF OneRun
  <2>2. \A r \in daily : r.by = m /\ r.agg.key \in Keys(computed[m].rows)
    BY <2>1, RowsOfARun
  <2>3. daily \ doomed[a] = daily
    <3>1. CASE doomed[a] = {}
      BY <3>1
    <3>2. ASSUME NEW k \in DOMAIN computed, doomed[a] = DailyRows(k)
          PROVE  daily \ doomed[a] = daily
      <4>1. \A r \in doomed[a] : r.by = k
        BY <3>2, RowsOfARun
      <4>2. k # m
        BY <1>5, <2>1, <3>2
      <4>. QED
        BY <2>2, <4>1, <4>2
    <3>. QED
      BY <1>3, <3>1, <3>2 DEF OneRun
  <2>4. \A r \in daily : \A new \in DailyRows(n) : new.agg.key # r.agg.key
    BY <1>1, <2>3 DEF CommitDaily, Repeats
  <2>5. DailyRows(n) = {}
    <3>0. n \in Int /\ m \in Int
      BY <1>1, <2>1 DEF AggInv, AggTypes
    <3>1. CASE n <= m
      <4>1. Keys(computed[n].rows) \subseteq Keys(computed[m].rows)
        BY <1>1, <2>1, <3>1 DEF AggInv, KeysAreKept, AllInOrder
      <4>2. SUFFICES ASSUME NEW new \in DailyRows(n) PROVE FALSE
        OBVIOUS
      <4>3. new.agg.key \in Keys(computed[m].rows)
        BY <4>1, RowsOfARun
      <4>4. \E r \in daily : r.agg.key = new.agg.key
        BY <2>1, <4>3, RowsOfARun
      <4>. QED
        BY <2>4, <4>4
    <3>2. CASE m <= n
      <4>1. Keys(computed[m].rows) \subseteq Keys(computed[n].rows)
        BY <1>1, <2>1, <3>2 DEF AggInv, KeysAreKept, AllInOrder
      <4>2. PICK r \in daily : TRUE
        BY <1>5
      <4>3. r.agg.key \in Keys(computed[n].rows)
        BY <2>2, <4>1
      <4>4. \A key \in Keys(computed[n].rows) : \E new \in DailyRows(n) : new.agg.key = key
        BY RowsOfARun
      <4>. QED
        BY <2>4, <4>3, <4>4
    <3>. QED
      BY <3>0, <3>1, <3>2
  <2>. QED
    BY <1>2, <2>1, <2>3, <2>5 DEF OneRun
<1>. QED
  BY <1>4, <1>5

LEMMA CommitDailyKeepsAgg ==
    ASSUME AggInv, NEW a \in Aggregators, CommitDaily(a)
    PROVE  AggInv'
<1>1. /\ UNCHANGED <<vars, computed>>
      /\ apc' \in [Aggregators -> {"idle", "read", "deleting", "deleted"}]
      /\ run' \in [Aggregators -> Nat]
      /\ doomed' = [b \in Aggregators |-> doomed'[b]]
  BY DEF CommitDaily, EndRun, AggInv, AggTypes
<1>2. \A b \in Aggregators : \/ apc'[b] = "idle" /\ doomed'[b] = {}
                             \/ apc'[b] = apc[b] /\ run'[b] = run[b] /\ doomed'[b] = doomed[b]
  BY DEF CommitDaily, EndRun, AggInv, AggTypes
<1>3. AggTypes'
  BY <1>1, <1>2 DEF AggInv, AggTypes
<1>4. KeysAreKept'
  BY <1>1 DEF AggInv, KeysAreKept, vars, InOrder, InOrderUpTo, Keys
<1>5. DoomedIsOneRun'
  BY <1>1, <1>2, SameRuns DEF AggInv, DoomedIsOneRun, OneRun
<1>6. AllInOrder => OneRun(daily')
  BY ReplaceIsOneRun
<1>7. DailyIsOneRun'
  BY <1>1, <1>6, SameRuns DEF DailyIsOneRun, AllInOrder
<1>. QED
  BY <1>3, <1>4, <1>5, <1>7 DEF AggInv

\* The worker's death ends every run and rolls back every DELETE.
LEMMA DeathKeepsAgg ==
    ASSUME Inv, SerialInv, AggInv, WorkerDies
    PROVE  AggInv'
<1>1. /\ UNCHANGED <<daily, computed>>
      /\ apc' = [a \in Aggregators |-> "idle"]
      /\ run' = [a \in Aggregators |-> 0]
      /\ doomed' = [a \in Aggregators |-> {}]
      /\ [Next]_vars
  BY DEF WorkerDies, Next
<1>2. AggTypes'
  BY <1>1 DEF AggInv, AggTypes
<1>3. KeysAreKept'
  BY <1>1, SearchesKeepKeys
<1>4. DoomedIsOneRun' /\ DailyIsOneRun'
  BY <1>1, SameRuns DEF AggInv, DoomedIsOneRun, DailyIsOneRun, AllInOrder, OneRun
<1>. QED
  BY <1>2, <1>3, <1>4 DEF AggInv

\* The job's runs leave the searches' state alone, and the searches theirs.
LEMMA DailyStep == [DailyNext]_<<vars, aggVars>> => [Next]_vars
  BY DEF DailyNext, Next, aggVars, ReadRows, BeginDelete, EndDelete, CommitDaily, RunFails,
         WorkerDies

LEMMA AggStep ==
    Inv /\ SerialInv /\ AggInv /\ [DailyNext]_<<vars, aggVars>> => AggInv'
<1>. SUFFICES ASSUME Inv, SerialInv, AggInv, [DailyNext]_<<vars, aggVars>>
              PROVE  AggInv'
  OBVIOUS
<1>1. CASE UNCHANGED aggVars
  <2>1. UNCHANGED <<daily, computed, apc, run, doomed>> /\ [Next]_vars
    BY <1>1, DailyStep DEF aggVars
  <2>2. AggTypes'
    BY <2>1 DEF AggInv, AggTypes
  <2>3. KeysAreKept'
    BY <2>1, SearchesKeepKeys
  <2>4. DoomedIsOneRun' /\ DailyIsOneRun'
    BY <2>1, SameRuns DEF AggInv, DoomedIsOneRun, DailyIsOneRun, AllInOrder, OneRun
  <2>. QED
    BY <2>2, <2>3, <2>4 DEF AggInv
<1>2. ASSUME NEW a \in Aggregators, ReadRows(a) PROVE AggInv'
  BY <1>2, ReadKeepsAgg
<1>3. ASSUME NEW a \in Aggregators, BeginDelete(a) \/ EndDelete(a) PROVE AggInv'
  BY <1>3, DeleteKeepsAgg
<1>4. ASSUME NEW a \in Aggregators, CommitDaily(a) PROVE AggInv'
  BY <1>4, CommitDailyKeepsAgg
<1>5. ASSUME NEW a \in Aggregators, RunFails(a) PROVE AggInv'
  BY <1>5, EndKeepsAgg DEF RunFails
<1>6. CASE WorkerDies
  BY <1>6, DeathKeepsAgg
<1>. QED
  BY <1>1, <1>2, <1>3, <1>4, <1>5, <1>6 DEF DailyNext, aggVars

-----------------------------------------------------------------------------

\* However runs of the nightly job overlap, fail or are cut short beside the
\* searches, flight_price_daily holds the aggregates of what one run read, all of
\* them and nothing else (as long as polls commit in the order of their fetches).
THEOREM DailyOfOneRun == DailySpec => []DailyIsOneRun
<1>1. DailySpec => Spec
  <2>1. DailyInit => Init
    BY DEF DailyInit
  <2>. QED
    BY <2>1, DailyStep, PTL DEF DailySpec, Spec
<1>2. AggInv => DailyIsOneRun
  BY DEF AggInv
<1>. QED
  BY <1>1, <1>2, Invariance, SerialInvariance, AggInit, AggStep, PTL DEF DailySpec

-----------------------------------------------------------------------------
(* What an aggregate says of its bucket *)

\* A finite bucket has a dearest row.
LEMMA Dearest ==
    ASSUME NEW B, IsFiniteSet(B), B # {}, \A r \in B : Minor(r.price) \in Int
    PROVE  \E r \in B : \A q \in B : Minor(q.price) <= Minor(r.price)
<1>. DEFINE Top(C, r) == r \in C /\ \A q \in C : Minor(q.price) <= Minor(r.price)
            S == {n \in Nat : \A C \in SUBSET B :
                    IsFiniteSet(C) /\ Cardinality(C) = n + 1 => \E r \in C : Top(C, r)}
<1>1. 0 \in S
  <2>. SUFFICES ASSUME NEW C \in SUBSET B, IsFiniteSet(C), Cardinality(C) = 0 + 1
                PROVE  \E r \in C : Top(C, r)
    OBVIOUS
  <2>0. Cardinality(C) = 1
    OBVIOUS
  <2>1. PICK x : C = {x}
    BY <2>0, FS_Singleton
  <2>2. Minor(x.price) <= Minor(x.price)
    BY <2>1
  <2>. QED
    BY <2>1, <2>2
<1>2. ASSUME NEW n \in S PROVE n + 1 \in S
  <2>. SUFFICES ASSUME NEW C \in SUBSET B, IsFiniteSet(C), Cardinality(C) = (n + 1) + 1
                PROVE  \E r \in C : Top(C, r)
    OBVIOUS
  <2>1. PICK x \in C : TRUE
    BY FS_EmptySet
  <2>2. IsFiniteSet(C \ {x}) /\ Cardinality(C \ {x}) = n + 1
    BY FS_RemoveElement
  <2>3. PICK r \in C \ {x} : Top(C \ {x}, r)
    BY <2>2
  <2>4. Minor(x.price) \in Int /\ \A q \in C : Minor(q.price) \in Int
    OBVIOUS
  <2>5. CASE Minor(x.price) <= Minor(r.price)
    BY <2>3, <2>5
  <2>6. CASE Minor(r.price) <= Minor(x.price)
    <3>1. \A q \in C : Minor(q.price) <= Minor(x.price)
      BY <2>3, <2>4, <2>6
    <3>. QED
      BY <2>1, <3>1
  <2>. QED
    BY <2>3, <2>4, <2>5, <2>6
<1>3. S = Nat
  <2>1. S \in SUBSET Nat
    OBVIOUS
  <2>. HIDE DEF S
  <2>. QED
    BY <1>1, <1>2, <2>1, NatSetInduction
<1>4. Cardinality(B) \in Nat /\ Cardinality(B) # 0
  BY FS_EmptySet, FS_CardinalityType
<1>5. PICK n \in Nat : Cardinality(B) = n + 1
  <2>1. Cardinality(B) - 1 \in Nat /\ Cardinality(B) = (Cardinality(B) - 1) + 1
    BY <1>4
  <2>. QED
    BY <2>1
<1>6. \E r \in B : Top(B, r)
  BY <1>3, <1>5
<1>. QED
  BY <1>6

\* A finite bucket can be sorted by price, so that sorted is a sorting of it.
LEMMA SortedSorts ==
    ASSUME NEW B, IsFiniteSet(B), \A r \in B : Minor(r.price) \in Int
    PROVE  /\ sorted(B) \in [1..Cardinality(B) -> B]
           /\ IsSorted(sorted(B), B)
<1>. DEFINE S == {n \in Nat : \A C \in SUBSET B :
                    IsFiniteSet(C) /\ Cardinality(C) = n => \E s \in [1..n -> C] : IsSorted(s, C)}
<1>1. 0 \in S
  <2>. SUFFICES ASSUME NEW C \in SUBSET B, IsFiniteSet(C), Cardinality(C) = 0
                PROVE  \E s \in [1..0 -> C] : IsSorted(s, C)
    OBVIOUS
  <2>1. C = {}
    BY FS_EmptySet
  <2>2. << >> \in [1..0 -> C] /\ IsSorted(<< >>, C)
    BY <2>1 DEF IsSorted
  <2>. QED
    BY <2>2
<1>2. ASSUME NEW n \in S PROVE n + 1 \in S
  <2>. SUFFICES ASSUME NEW C \in SUBSET B, IsFiniteSet(C), Cardinality(C) = n + 1
                PROVE  \E s \in [1..(n + 1) -> C] : IsSorted(s, C)
    OBVIOUS
  <2>1. PICK top \in C : \A q \in C : Minor(q.price) <= Minor(top.price)
    BY Dearest, FS_EmptySet
  <2>2. IsFiniteSet(C \ {top}) /\ Cardinality(C \ {top}) = n /\ C \ {top} \in SUBSET B
    BY FS_RemoveElement
  <2>3. PICK s \in [1..n -> C \ {top}] : IsSorted(s, C \ {top})
    BY <2>2
  <2>. DEFINE t == [k \in 1..(n + 1) |-> IF k = n + 1 THEN top ELSE s[k]]
  <2>4. t \in [1..(n + 1) -> C]
    BY <2>3
  <2>5. Len(s) = n /\ Len(t) = n + 1
    BY <2>3, <2>4
  <2>6. t[n + 1] = top /\ \A k \in 1..n : t[k] = s[k] /\ s[k] \in C
    BY <2>3
  <2>. HIDE DEF t
  <2>7. \A r \in C : \E k \in 1..Len(t) : t[k] = r
    <3>. SUFFICES ASSUME NEW r \in C PROVE \E k \in 1..(n + 1) : t[k] = r
      BY <2>5
    <3>1. CASE r = top
      BY <2>6, <3>1
    <3>2. CASE r # top
      <4>1. PICK k \in 1..n : s[k] = r
        BY <2>3, <2>5, <3>2 DEF IsSorted
      <4>. QED
        BY <2>6, <4>1
    <3>. QED
      BY <3>1, <3>2
  <2>8. ASSUME NEW k \in 1..Len(t), NEW m \in 1..Len(t), k <= m
        PROVE  Minor(t[k].price) <= Minor(t[m].price)
    <3>1. CASE m = n + 1
      BY <2>1, <2>4, <2>5, <2>6, <3>1
    <3>2. CASE m # n + 1
      <4>1. k \in 1..n /\ m \in 1..n
        BY <2>5, <2>8, <3>2
      <4>. QED
        BY <2>3, <2>5, <2>6, <2>8, <4>1 DEF IsSorted
    <3>. QED
      BY <3>1, <3>2
  <2>9. IsSorted(t, C)
    BY <2>7, <2>8 DEF IsSorted
  <2>. QED
    BY <2>4, <2>9
<1>3. S = Nat
  <2>1. S \in SUBSET Nat
    OBVIOUS
  <2>. HIDE DEF S
  <2>. QED
    BY <1>1, <1>2, <2>1, NatSetInduction
<1>4. Cardinality(B) \in Nat
  BY FS_CardinalityType
<1>5. \E s \in [1..Cardinality(B) -> B] : IsSorted(s, B)
  BY <1>3, <1>4
<1>. QED
  BY <1>5 DEF sorted

\* The minimum and the maximum bound every price of the bucket, and the median.
LEMMA AggregateBounds ==
    ASSUME NEW S, IsFiniteSet(S), \A r \in S : Minor(r.price) \in Int,
           NEW key, NEW r \in Bucket(S, key), NEW agg, agg = Aggregate(S, key)
    PROVE  /\ agg.key = key
           /\ agg.minimum <= Minor(r.price) /\ Minor(r.price) <= agg.maximum
           /\ agg.minimum <= agg.median /\ agg.median <= agg.maximum
<1>. DEFINE B == Bucket(S, key)
            cheapest == sorted(B)
            N == Len(cheapest)
            prices == [n \in 1..N |-> Minor(cheapest[n].price)]
<1>1. B \in SUBSET S
  BY DEF Bucket
<1>2. IsFiniteSet(B) /\ \A q \in B : Minor(q.price) \in Int
  BY <1>1, FS_Subset
<1>. HIDE DEF B
<1>3. cheapest \in [1..Cardinality(B) -> B] /\ IsSorted(cheapest, B)
  BY <1>2, SortedSorts
<1>4. Cardinality(B) \in Nat
  BY <1>2, FS_CardinalityType
<1>5. N = Cardinality(B) /\ N \in Nat
  BY <1>3, <1>4
<1>6. r \in B
  BY DEF B
<1>. HIDE DEF cheapest, N
<1>7. PICK k \in 1..N : cheapest[k] = r
  BY <1>3, <1>6 DEF IsSorted, N
<1>8. \A n \in 1..N : prices[n] \in Int
  BY <1>2, <1>3, <1>5
<1>9. \A m, n \in 1..N : m <= n => prices[m] <= prices[n]
  BY <1>3 DEF IsSorted, N
<1>10. Len(prices) = N
  BY <1>5
<1>11. prices[k] = Minor(r.price)
  BY <1>7
<1>12. agg = [key |-> key, minimum |-> prices[1], median |-> median(prices),
              maximum |-> prices[Len(prices)], observation_count |-> Len(prices)]
  BY DEF Aggregate, B, cheapest, N
<1>. HIDE DEF prices
<1>13. 1 \in 1..N /\ N \in 1..N /\ 1 <= k /\ k <= N
  BY <1>5, <1>7
<1>14. \A n \in 1..N : prices[1] <= prices[n] /\ prices[n] <= prices[N]
  BY <1>5, <1>9, <1>13
<1>15. prices[1] <= median(prices) /\ median(prices) <= prices[N]
  <2>1. CASE N % 2 = 1
    <3>1. (N \div 2) + 1 \in 1..N
      BY <1>5, <1>13, <2>1
    <3>. QED
      BY <1>10, <1>14, <2>1, <3>1 DEF median
  <2>2. CASE N % 2 # 1
    <3>1. N \div 2 \in 1..N /\ (N \div 2) + 1 \in 1..N
      BY <1>5, <1>13, <2>2
    <3>. DEFINE x == prices[N \div 2]
                y == prices[(N \div 2) + 1]
    <3>2. median(prices) = (x + y) \div 2
      BY <1>10, <2>2 DEF median
    <3>3. /\ x \in Int /\ y \in Int /\ prices[1] \in Int /\ prices[N] \in Int
          /\ prices[1] <= x /\ x <= prices[N] /\ prices[1] <= y /\ y <= prices[N]
      BY <1>8, <1>13, <1>14, <3>1
    <3>. HIDE DEF x, y
    <3>. QED
      BY <3>2, <3>3
  <2>. QED
    BY <2>1, <2>2
<1>. QED
  BY <1>7, <1>10, <1>11, <1>12, <1>14, <1>15

-----------------------------------------------------------------------------
(* What a run reads *)

\* Every transaction adds a row at a time, so that there are finitely many.
FiniteRows == IsFiniteSet(rows) /\ \A j \in Jobs : IsFiniteSet(pending[j])

LEMMA FiniteInit == Init => FiniteRows
  BY FS_EmptySet DEF Init, FiniteRows

LEMMA FiniteStep == TypeOK /\ FiniteRows /\ [Next]_vars => FiniteRows'
<1>. SUFFICES ASSUME TypeOK, FiniteRows, [Next]_vars PROVE FiniteRows'
  OBVIOUS
<1>1. CASE UNCHANGED <<rows, pending>>
  BY <1>1 DEF FiniteRows
<1>2. ASSUME NEW j \in Jobs, EndJob(j), rows' = rows \/ rows' = pending[j]
      PROVE  FiniteRows'
  BY <1>2, FS_EmptySet DEF FiniteRows, EndJob, TypeOK
<1>3. ASSUME NEW j \in Jobs, BeginWrites(j) PROVE FiniteRows'
  BY <1>3 DEF FiniteRows, BeginWrites, TypeOK
<1>4. ASSUME NEW j \in Jobs, Write(j) PROVE FiniteRows'
  <2>1. PICK i \in todo[j] : write_observation(j, i)
    BY <1>4 DEF Write
  <2>2. \A row, new : /\ IsFiniteSet(pending[j] \cup {new})
                      /\ IsFiniteSet((pending[j] \ {row}) \cup {new})
    BY FS_AddElement, FS_RemoveElement DEF FiniteRows
  <2>3. PICK S : IsFiniteSet(S) /\ pending' = [pending EXCEPT ![j] = S]
    <3>1. CASE \E new : pending' = [pending EXCEPT ![j] = @ \cup {new}]
      BY <2>2, <3>1
    <3>2. CASE \E row, new : pending' = [pending EXCEPT ![j] = (@ \ {row}) \cup {new}]
      BY <2>2, <3>2
    <3>. QED
      BY <2>1, <3>1, <3>2 DEF write_observation
  <2>4. IsFiniteSet(pending'[j]) /\ \A k \in Jobs \ {j} : pending'[k] = pending[k]
    BY <2>3 DEF TypeOK
  <2>5. rows' = rows
    BY <1>4 DEF Write
  <2>. QED
    BY <2>4, <2>5 DEF FiniteRows
<1>5. CASE WorkerCrash
  BY <1>5, FS_EmptySet DEF FiniteRows, WorkerCrash
<1>6. ASSUME NEW j \in Jobs, Fetch(j) \/ RecordSuccess(j) PROVE FiniteRows'
  BY <1>1, <1>6 DEF Fetch, RecordSuccess
<1>7. ASSUME NEW j \in Jobs, Fails(j) \/ FlushConflicts(j) \/ Commit(j) PROVE FiniteRows'
  BY <1>2, <1>7 DEF Fails, FlushConflicts, Commit
<1>8. ASSUME NEW j \in Jobs, Flush(j) PROVE FiniteRows'
  BY <1>3, <1>8 DEF Flush
<1>9. CASE UNCHANGED vars
  BY <1>1, <1>9 DEF vars
<1>. QED
  BY <1>4, <1>5, <1>6, <1>7, <1>8, <1>9 DEF Next

\* A run reads finitely many rows, the runs of the polls that had committed.
SnapshotsAreRuns ==
    \A n \in DOMAIN computed :
        /\ IsFiniteSet(computed[n].rows)
        /\ InOrderUpTo(n) => \A i \in Itineraries :
               {r \in computed[n].rows : r.itinerary_id = i} = Runs(computed[n].polls, i)

LEMMA SnapshotStep ==
    /\ AggTypes /\ FiniteRows /\ RowsAreRuns /\ SnapshotsAreRuns
    /\ [DailyNext]_<<vars, aggVars>>
    => SnapshotsAreRuns'
<1>. SUFFICES ASSUME AggTypes, FiniteRows, RowsAreRuns, SnapshotsAreRuns,
                     [DailyNext]_<<vars, aggVars>>
              PROVE  SnapshotsAreRuns'
  OBVIOUS
<1>1. CASE UNCHANGED computed
  BY <1>1 DEF SnapshotsAreRuns, InOrderUpTo
<1>2. ASSUME NEW a \in Aggregators, ReadRows(a) PROVE SnapshotsAreRuns'
  <2>1. /\ computed \in Seq(ReadSnapshot)
        /\ computed' = Append(computed, [rows |-> rows, polls |-> polls])
    BY <1>2 DEF ReadRows, AggTypes
  <2>2. \A n \in DOMAIN computed' :
            \/ n \in DOMAIN computed /\ computed'[n] = computed[n]
            \/ computed'[n].rows = rows /\ computed'[n].polls = polls
    BY <2>1
  <2>3. ASSUME NEW n \in DOMAIN computed, computed'[n] = computed[n]
        PROVE  /\ IsFiniteSet(computed'[n].rows)
               /\ InOrderUpTo(n)' => \A i \in Itineraries :
                    {r \in computed'[n].rows : r.itinerary_id = i} = Runs(computed'[n].polls, i)
    BY <2>3 DEF SnapshotsAreRuns, InOrderUpTo
  <2>4. ASSUME NEW n \in DOMAIN computed', computed'[n].rows = rows, computed'[n].polls = polls
        PROVE  /\ IsFiniteSet(computed'[n].rows)
               /\ InOrderUpTo(n)' => \A i \in Itineraries :
                    {r \in computed'[n].rows : r.itinerary_id = i} = Runs(computed'[n].polls, i)
    <3>1. InOrderUpTo(n)' <=> InOrder
      BY <2>4 DEF InOrderUpTo, InOrder
    <3>. QED
      BY <2>4, <3>1 DEF FiniteRows, RowsAreRuns, Periods
  <2>. QED
    BY <2>2, <2>3, <2>4 DEF SnapshotsAreRuns
<1>. QED
  BY <1>1, <1>2 DEF DailyNext, aggVars, BeginDelete, EndDelete, CommitDaily, RunFails, WorkerDies

\* So what each poll found is in a bucket of its day.
LEMMA PollsAreCounted ==
    ASSUME AggTypes, SnapshotsAreRuns, NEW n \in DOMAIN computed, InOrderUpTo(n),
           NEW k \in DOMAIN computed[n].polls, NEW i \in DOMAIN computed[n].polls[k].offers
    PROVE  \E r \in DailyRows(n) :
              Within(r.agg, computed[n].polls[k], computed[n].polls[k].offers[i])
<1>. DEFINE s == computed[n].polls
            p == s[k]
            price == p.offers[i]
            R == computed[n].rows
<1>1. computed[n] \in ReadSnapshot
  BY DEF AggTypes
<1>2. R \in SUBSET CashObservation /\ s \in Seq(Poll)
  BY <1>1 DEF ReadSnapshot
<1>. HIDE DEF R, s
<1>3. p \in Poll /\ k \in Offering(s, i) /\ i \in Itineraries
  <2>1. p \in Poll /\ k \in DOMAIN s
    BY <1>2 DEF s
  <2>2. i \in DOMAIN p.offers
    BY DEF s
  <2>. QED
    BY <2>1, <2>2, OfferTypes DEF Offering
<1>4. PICK a, b \in Offering(s, i) : IsRun(s, i, a, b) /\ a <= k /\ k <= b
  BY <1>2, <1>3, RunAround
<1>. DEFINE r == Run(s, i, a, b)
<1>5. r \in R
  <2>1. r \in Runs(s, i)
    BY <1>4, RunsAre
  <2>. HIDE DEF r
  <2>2. {q \in R : q.itinerary_id = i} = Runs(s, i)
    BY <1>3 DEF SnapshotsAreRuns, R, s
  <2>. QED
    BY <2>1, <2>2
<1>6. a \in 1..Len(s) /\ b \in 1..Len(s) /\ k \in 1..Len(s) /\ Ordered(s)
  BY <1>2, <1>3 DEF Offering, InOrderUpTo, Ordered, s
<1>7. /\ r.price = price
      /\ r.first_seen_at <= p.retrieved_at /\ p.retrieved_at <= r.last_seen_at
  <2>1. s[k].offers[i] = s[a].offers[i]
    BY <1>3, <1>4 DEF IsRun, Flat
  <2>2. s[a].retrieved_at <= s[k].retrieved_at /\ s[k].retrieved_at <= s[b].retrieved_at
    BY <1>2, <1>4, <1>6, OrderedPolls
  <2>. QED
    BY <2>1, <2>2 DEF Run
<1>. HIDE DEF r
<1>8. DayOf(p.retrieved_at) \in dates_covered(r)
  <2>1. /\ r.first_seen_at \in 1..MaxPolls /\ r.last_seen_at \in 1..MaxPolls
        /\ p.retrieved_at \in 1..MaxPolls
    BY <1>2, <1>3, <1>5, OfferTypes DEF CashObservation
  <2>. QED
    BY <1>7, <2>1, DailyAggregatesAssumption DEF dates_covered
<1>. DEFINE key == [date |-> DayOf(p.retrieved_at), currency |-> Currency(price)]
            agg == Aggregate(R, key)
<1>9. key \in Keys(R)
  BY <1>5, <1>7, <1>8 DEF Keys
<1>10. r \in Bucket(R, key)
  BY <1>5, <1>7, <1>8 DEF Bucket
<1>11. IsFiniteSet(R) /\ \A q \in R : Minor(q.price) \in Int
  BY <1>2, DailyAggregatesAssumption DEF SnapshotsAreRuns, R, CashObservation
<1>. HIDE DEF key
<1>12. /\ agg.key = key
       /\ agg.minimum <= Minor(price) /\ Minor(price) <= agg.maximum
       /\ agg.minimum <= agg.median /\ agg.median <= agg.maximum
  BY <1>7, <1>10, <1>11, AggregateBounds
<1>13. agg \in compute_daily_aggregates(R)
  BY <1>9 DEF compute_daily_aggregates
<1>. HIDE DEF agg
<1>14. [by |-> n, agg |-> agg] \in DailyRows(n)
  BY <1>13 DEF DailyRows, R
<1>15. Within(agg, p, price)
  BY <1>12 DEF Within, key
<1>. QED
  BY <1>14, <1>15 DEF s

\* The price each search had found when a run read the observations lies within the
\* bounds the table shows for the day of that search, whatever runs overlap (as
\* long as polls commit in the order of their fetches).
THEOREM PollsAreWithinBounds == DailySpec => []PollsWithinBounds
<1>1. DailySpec => Spec
  <2>1. DailyInit => Init
    BY DEF DailyInit
  <2>. QED
    BY <2>1, DailyStep, PTL DEF DailySpec, Spec
<1>2. DailyInit => SnapshotsAreRuns /\ FiniteRows
  BY FiniteInit DEF DailyInit, SnapshotsAreRuns
<1>3. AggTypes /\ SnapshotsAreRuns => PollsWithinBounds
  BY PollsAreCounted DEF PollsWithinBounds
<1>4. Inv => TypeOK
  BY DEF Inv
<1>5. AggInv => AggTypes
  BY DEF AggInv
<1>. QED
  BY <1>1, <1>2, <1>3, <1>4, <1>5, Invariance, SerialInvariance, PeriodsAreRuns, AggInit, AggStep,
     FiniteStep, DailyStep, SnapshotStep, PTL
  DEF DailySpec
=============================================================================

