-------------------------- MODULE PartitionsProofs --------------------------
(***************************************************************************)
(* Proofs about Partitions, for every window, retention and calendar,      *)
(* whatever runs of the maintenance are missed, repeated or cut short: the *)
(* window covers the current month, only payloads past their retention are *)
(* dropped, and a completed sweep leaves none of them behind.              *)
(*                                                                         *)
(* The months are counted by Index: first the calendar operators of the    *)
(* code are shown to be arithmetic on it, the recursive ones by induction. *)
(***************************************************************************)
EXTENDS Partitions, WellFoundedInduction, TLAPS

\* The month with an index, the inverse of Index.
MonthOf(k) == <<(k - 1) \div 12, ((k - 1) % 12) + 1>>

\* The month up to whose window partitions exist.
Ensured == Index(today) - overdue

\* Both tables hold the partitions of the window that was last ensured.
WindowIsEnsured ==
    \A t \in Tables : \A ym \in Month :
        Ensured <= Index(ym) /\ Index(ym) < Ensured + AHEAD_MONTHS =>
            partition_for_month(ym) \in partitions[t]

\* A run reads the clock after the last one that finished, and drops what the same
\* reading does not ensure.
RunsInOrder ==
    /\ Index(swept) <= Index(today)
    /\ run # "idle" => /\ asof \in Month
                       /\ Index(asof) <= Index(today)
                       /\ Ensured <= Index(asof)
                       /\ Index(swept) <= Index(asof)
    /\ run = "dropping" => Ensured = Index(asof)

\* A partition is that of a month, under the month's name.
Types ==
    /\ TypeOK
    /\ partitions \in [Tables -> SUBSET {partition_for_month(ym) : ym \in Month}]

Inv == Types /\ RunsInOrder

-----------------------------------------------------------------------------
(* Induction *)

\* A non-empty set of naturals has a least element.
LEMMA LeastNatural ==
    ASSUME NEW T \in SUBSET Nat, T # {}
    PROVE  \E x \in T : \A y \in T : x <= y
<1>1. \E x \in T : \A y \in T : ~(<<y, x>> \in OpToRel(<, Nat))
  BY NatLessThanWellFounded, WFMin, Zenon
<1>2. \A x, y \in Nat : y < x => <<y, x>> \in OpToRel(<, Nat)
  BY Zenon DEF OpToRel
<1>3. \E x \in T : \A y \in T : ~(y < x)
  BY <1>1, <1>2, Zenon
<1>. QED
  BY <1>3

\* Induction, for a property given as the set of the numbers that have it.
LEMMA NatSetInduction ==
    ASSUME NEW S \in SUBSET Nat, 0 \in S, \A n \in S : n + 1 \in S
    PROVE  S = Nat
<1>. SUFFICES ASSUME S # Nat PROVE FALSE
  OBVIOUS
<1>. DEFINE T == Nat \ S
<1>1. PICK x \in T : \A y \in T : x <= y
  <2>1. T \in SUBSET Nat /\ T # {}
    OBVIOUS
  <2>. HIDE DEF T
  <2>. QED
    BY <2>1, LeastNatural
<1>2. x - 1 \in Nat
  OBVIOUS
<1>3. x - 1 \in S
  BY <1>1, <1>2
<1>. QED
  BY <1>2, <1>3

-----------------------------------------------------------------------------
(* The calendar is arithmetic on Index *)

LEMMA IndexIsExact ==
    ASSUME NEW a \in Month, NEW b \in Month
    PROVE  /\ Index(a) \in Int
           /\ Index(a) = Index(b) => a = b
           /\ OnOrBefore(a, b) <=> Index(a) <= Index(b)
<1>1. /\ a[1] \in Int /\ a[2] \in 1..12 /\ a = <<a[1], a[2]>>
      /\ b[1] \in Int /\ b[2] \in 1..12 /\ b = <<b[1], b[2]>>
  BY DEF Month
<1>2. \A y, z \in Int : \A m, n \in 1..12 :
          /\ 12 * y + m = 12 * z + n => y = z /\ m = n
          /\ (y < z \/ (y = z /\ m <= n)) <=> 12 * y + m <= 12 * z + n
  OBVIOUS
<1>. QED
  BY <1>1, <1>2 DEF Index, OnOrBefore

LEMMA MonthOfIndex ==
    /\ \A k \in Int : MonthOf(k) \in Month /\ Index(MonthOf(k)) = k
    /\ \A ym \in Month : MonthOf(Index(ym)) = ym
<1>1. \A k \in Int : MonthOf(k) \in Month /\ Index(MonthOf(k)) = k
  BY DEF MonthOf, Month, Index
<1>. QED
  BY <1>1, IndexIsExact

LEMMA Neighbours ==
    ASSUME NEW ym \in Month
    PROVE  /\ next_month(ym) \in Month /\ Index(next_month(ym)) = Index(ym) + 1
           /\ previous_month(ym) \in Month /\ Index(previous_month(ym)) = Index(ym) - 1
  BY DEF Month, next_month, previous_month, Index

\* The months that the code reaches one after the other are those of an interval.
LEMMA MonthsFrom ==
    ASSUME NEW start \in Month, NEW count \in Nat
    PROVE  months_from(start, count) =
               {ym \in Month : Index(start) <= Index(ym) /\ Index(ym) < Index(start) + count}
<1>. DEFINE step(g) == [n \in 0..count |-> IF n = 0 THEN start ELSE next_month(g[n - 1])]
            closed == [n \in 0..count |-> MonthOf(Index(start) + n)]
            month == CHOOSE g : g = step(g)
<1>1. closed = step(closed)
  <2>1. ASSUME NEW n \in 0..count, n # 0
        PROVE  next_month(closed[n - 1]) = MonthOf(Index(start) + n)
    <3>. DEFINE k == Index(start) + n - 1
    <3>1. k \in Int /\ n - 1 \in 0..count
      BY <2>1, IndexIsExact
    <3>2. closed[n - 1] = MonthOf(k)
      BY <3>1
    <3>3. MonthOf(k) \in Month /\ Index(MonthOf(k)) = k
      BY <3>1, MonthOfIndex
    <3>4. next_month(MonthOf(k)) \in Month /\ Index(next_month(MonthOf(k))) = Index(start) + n
      BY <3>1, <3>3, IndexIsExact, Neighbours
    <3>. QED
      BY <3>2, <3>4, MonthOfIndex
  <2>2. MonthOf(Index(start) + 0) = start
    BY IndexIsExact, MonthOfIndex
  <2>. QED
    BY <2>1, <2>2
<1>2. month = step(month)
  BY <1>1
<1>3. months_from(start, count) = {month[n] : n \in 0..count - 1}
  BY DEF months_from
<1>. HIDE DEF month
<1>4. \A n \in 0..count : month[n] \in Month /\ Index(month[n]) = Index(start) + n
  <2>. DEFINE S == {n \in Nat : n <= count => month[n] \in Month /\ Index(month[n]) = Index(start) + n}
  <2>1. 0 \in S
    BY <1>2, IndexIsExact
  <2>2. ASSUME NEW n \in S PROVE n + 1 \in S
    <3>. SUFFICES ASSUME n + 1 <= count
                  PROVE  /\ month[n + 1] \in Month
                         /\ Index(month[n + 1]) = Index(start) + (n + 1)
      OBVIOUS
    <3>1. month[n] \in Month /\ Index(month[n]) = Index(start) + n
      OBVIOUS
    <3>2. month[n + 1] = next_month(month[n])
      BY <1>2
    <3>3. /\ next_month(month[n]) \in Month
          /\ Index(next_month(month[n])) = Index(month[n]) + 1
      BY <3>1, Neighbours
    <3>4. Index(start) \in Int
      BY IndexIsExact
    <3>. QED
      BY <3>1, <3>2, <3>3, <3>4
  <2>. HIDE DEF S
  <2>3. S = Nat
    BY <2>1, <2>2, NatSetInduction DEF S
  <2>. QED
    BY <2>3 DEF S
<1>. QED
  <2>1. ASSUME NEW ym \in Month, Index(start) <= Index(ym), Index(ym) < Index(start) + count
        PROVE  \E n \in 0..count - 1 : ym = month[n]
    <3>1. PICK n \in 0..count - 1 : Index(ym) = Index(start) + n
      <4>1. Index(ym) \in Int /\ Index(start) \in Int
        BY IndexIsExact
      <4>. DEFINE n == Index(ym) - Index(start)
      <4>2. n \in 0..count - 1 /\ Index(ym) = Index(start) + n
        BY <2>1, <4>1
      <4>. QED
        BY <4>2
    <3>. QED
      BY <1>4, <3>1, IndexIsExact
  <2>2. ASSUME NEW n \in 0..count - 1
        PROVE  /\ month[n] \in Month
               /\ Index(start) <= Index(month[n]) /\ Index(month[n]) < Index(start) + count
    BY <1>4, IndexIsExact
  <2>. QED
    BY <1>3, <2>1, <2>2

LEMMA MonthsBefore ==
    ASSUME NEW date \in Month, NEW months \in Nat
    PROVE  /\ months_before(date, months) \in Month
           /\ Index(months_before(date, months)) = Index(date) - months
<1>. DEFINE step(g) == [n \in 0..months |-> IF n = 0 THEN date ELSE previous_month(g[n - 1])]
            closed == [n \in 0..months |-> MonthOf(Index(date) - n)]
            month == CHOOSE g : g = step(g)
<1>1. closed = step(closed)
  <2>1. ASSUME NEW n \in 0..months, n # 0
        PROVE  previous_month(closed[n - 1]) = MonthOf(Index(date) - n)
    <3>. DEFINE k == Index(date) - (n - 1)
    <3>1. k \in Int /\ n - 1 \in 0..months
      BY <2>1, IndexIsExact
    <3>2. closed[n - 1] = MonthOf(k)
      BY <3>1
    <3>3. MonthOf(k) \in Month /\ Index(MonthOf(k)) = k
      BY <3>1, MonthOfIndex
    <3>4. previous_month(MonthOf(k)) \in Month /\ Index(previous_month(MonthOf(k))) = Index(date) - n
      BY <3>1, <3>3, IndexIsExact, Neighbours
    <3>. QED
      BY <3>2, <3>4, MonthOfIndex
  <2>2. MonthOf(Index(date) - 0) = date
    BY IndexIsExact, MonthOfIndex
  <2>. QED
    BY <2>1, <2>2
<1>2. month = step(month)
  BY <1>1
<1>3. months_before(date, months) = month[months]
  BY DEF months_before
<1>. HIDE DEF month
<1>. DEFINE S == {n \in Nat : n <= months => month[n] \in Month /\ Index(month[n]) = Index(date) - n}
<1>4. 0 \in S
  BY <1>2, IndexIsExact
<1>5. ASSUME NEW n \in S PROVE n + 1 \in S
  <2>. SUFFICES ASSUME n + 1 <= months
                PROVE  /\ month[n + 1] \in Month
                       /\ Index(month[n + 1]) = Index(date) - (n + 1)
    OBVIOUS
  <2>1. month[n] \in Month /\ Index(month[n]) = Index(date) - n
    OBVIOUS
  <2>2. month[n + 1] = previous_month(month[n])
    BY <1>2
  <2>3. /\ previous_month(month[n]) \in Month
        /\ Index(previous_month(month[n])) = Index(month[n]) - 1
    BY <2>1, Neighbours
  <2>4. Index(date) \in Int
    BY IndexIsExact
  <2>. QED
    BY <2>1, <2>2, <2>3, <2>4
<1>. HIDE DEF S
<1>6. S = Nat
  BY <1>4, <1>5, NatSetInduction DEF S
<1>. QED
  BY <1>3, <1>6 DEF S

LEMMA Expired ==
    ASSUME NEW ym \in Month, NEW cutoff \in Month
    PROVE  expired(partition_for_month(ym), cutoff) <=> Index(ym) < Index(cutoff)
  BY IndexIsExact, Neighbours DEF expired, partition_for_month

-----------------------------------------------------------------------------
(* The order of runs *)

LEMMA PartitionTypes ==
    ASSUME NEW new, new \in [Tables -> SUBSET {partition_for_month(ym) : ym \in Month}]
    PROVE  \A t \in Tables : \A p \in new[t] :
              p = partition_for_month(p.name) /\ {p.name, p.lower, p.upper} \subseteq Month
<1>. SUFFICES ASSUME NEW t \in Tables, NEW p \in new[t]
              PROVE  p = partition_for_month(p.name) /\ {p.name, p.lower, p.upper} \subseteq Month
  OBVIOUS
<1>1. PICK ym \in Month : p = partition_for_month(ym)
  OBVIOUS
<1>. QED
  BY <1>1, Neighbours DEF partition_for_month

LEMMA InvInit == Init => Inv
<1>. SUFFICES ASSUME Init PROVE Inv
  OBVIOUS
<1>1. /\ today \in Month /\ swept = today /\ overdue = 0 /\ run = "idle" /\ asof = NULL /\ row = NULL
      /\ partitions = [t \in Tables |-> {partition_for_month(ym) : ym \in BOOTSTRAP_MONTHS}]
  BY PartitionsAssumption DEF Init
<1>2. partitions \in [Tables -> SUBSET {partition_for_month(ym) : ym \in Month}]
  BY <1>1, PartitionsAssumption
<1>3. RunsInOrder
  BY <1>1, IndexIsExact DEF RunsInOrder
<1>. QED
  BY <1>1, <1>2, <1>3, PartitionTypes, PartitionsAssumption DEF Inv, Types, TypeOK

LEMMA InvStep == Inv /\ [Next]_vars => Inv'
<1>. SUFFICES ASSUME Inv, [Next]_vars PROVE Inv'
  OBVIOUS
<1>. USE DEF Inv, Types
<1>1. ASSUME NEW t \in Tables, Insert(t) PROVE Inv'
  <2>1. previous_month(today) \in Month
    BY Neighbours DEF TypeOK
  <2>2. row' \in Tables \X Month
    BY <1>1, <2>1 DEF Insert, TypeOK
  <2>. QED
    BY <1>1, <2>2 DEF Insert, TypeOK, RunsInOrder, Ensured
<1>2. CASE NewMonth
  <2>1. /\ today' \in Month /\ Index(today') = Index(today) + 1 /\ Index(today) \in Int
        /\ overdue' = overdue + 1 /\ overdue \in 0..MaxOverdue /\ overdue < MaxOverdue
        /\ Index(swept) \in Int /\ (run # "idle" => Index(asof) \in Int)
    BY <1>2, Neighbours, IndexIsExact DEF NewMonth, TypeOK, RunsInOrder
  <2>2. UNCHANGED <<run, asof, partitions, row, swept>>
    BY <1>2 DEF NewMonth
  <2>3. Ensured' = Ensured
    BY <2>1 DEF Ensured
  <2>4. RunsInOrder'
    BY <2>1, <2>2, <2>3 DEF RunsInOrder
  <2>. QED
    BY <2>1, <2>2, <2>4, PartitionsAssumption DEF TypeOK
<1>3. CASE StartRun
  <2>1. today \in Month /\ Index(today) \in Int /\ overdue \in Nat
    BY IndexIsExact, PartitionsAssumption DEF TypeOK
  <2>. QED
    BY <1>3, <2>1 DEF StartRun, TypeOK, RunsInOrder, Ensured
<1>4. CASE CreatePartitions
  <2>1. asof \in Month /\ run' = "dropping" /\ UNCHANGED <<today, asof, row, swept>>
        /\ overdue' = Index(today) - Index(asof)
    BY <1>4 DEF CreatePartitions, RunsInOrder
  <2>2. Index(asof) \in Int /\ Index(today) \in Int /\ overdue \in 0..MaxOverdue
    BY <2>1, IndexIsExact DEF TypeOK
  <2>3. overdue' \in 0..MaxOverdue /\ Ensured' = Index(asof)
    BY <1>4, <2>1, <2>2, PartitionsAssumption DEF RunsInOrder, Ensured, CreatePartitions
  <2>4. partitions' \in [Tables -> SUBSET {partition_for_month(ym) : ym \in Month}]
    BY <1>4, <2>1, MonthsFrom, PartitionsAssumption DEF CreatePartitions
  <2>5. RunsInOrder'
    BY <1>4, <2>1, <2>2, <2>3 DEF RunsInOrder, CreatePartitions
  <2>. QED
    BY <2>1, <2>3, <2>4, <2>5, PartitionTypes DEF TypeOK
<1>5. CASE DropPartitions
  <2>1. /\ asof \in Month /\ run' = "idle" /\ asof' = NULL /\ swept' = asof
        /\ UNCHANGED <<today, overdue>> /\ row' \in {row, NULL}
        /\ partitions' \in [Tables -> SUBSET {partition_for_month(ym) : ym \in Month}]
    BY <1>5 DEF DropPartitions, RunsInOrder, Tables
  <2>. QED
    BY <1>5, <2>1, PartitionTypes DEF TypeOK, RunsInOrder, Ensured, DropPartitions
<1>6. CASE RunFails
  BY <1>6 DEF RunFails, TypeOK, RunsInOrder, Ensured
<1>7. CASE UNCHANGED vars
  BY <1>7 DEF vars, TypeOK, RunsInOrder, Ensured
<1>. QED
  BY <1>1, <1>2, <1>3, <1>4, <1>5, <1>6, <1>7 DEF Next

THEOREM Invariance == Spec => []Inv
  BY InvInit, InvStep, PTL DEF Spec

\* The calendar, the runs, the partitions and the stored row keep their types.
THEOREM TypeCorrectness == Spec => []TypeOK
<1>1. Inv => TypeOK
  BY DEF Inv, Types
<1>. QED
  BY Invariance, <1>1, PTL

-----------------------------------------------------------------------------
(* The rolling window *)

LEMMA WindowInit == ASSUME EarlyInstalls, Init PROVE WindowIsEnsured
<1>1. /\ today \in InstallMonths /\ today \in Month /\ overdue = 0
      /\ partitions = [t \in Tables |-> {partition_for_month(ym) : ym \in BOOTSTRAP_MONTHS}]
  BY PartitionsAssumption DEF Init
<1>2. Ensured = Index(today)
  BY <1>1, IndexIsExact DEF Ensured
<1>3. /\ AHEAD_MONTHS \in Nat /\ BOOTSTRAP_MONTHS \subseteq Month
      /\ Index(today)..(Index(today) + AHEAD_MONTHS - 1) \subseteq {Index(b) : b \in BOOTSTRAP_MONTHS}
  BY <1>1, PartitionsAssumption DEF EarlyInstalls
<1>4. \A ym \in Month : Index(today) <= Index(ym) /\ Index(ym) < Index(today) + AHEAD_MONTHS =>
          ym \in BOOTSTRAP_MONTHS
  <2>. SUFFICES ASSUME NEW ym \in Month, Index(today) <= Index(ym),
                       Index(ym) < Index(today) + AHEAD_MONTHS
                PROVE  ym \in BOOTSTRAP_MONTHS
    OBVIOUS
  <2>1. Index(ym) \in Int /\ Index(today) \in Int
    BY <1>1, IndexIsExact
  <2>2. Index(ym) \in Index(today)..(Index(today) + AHEAD_MONTHS - 1)
    BY <1>3, <2>1
  <2>3. PICK b \in BOOTSTRAP_MONTHS : Index(ym) = Index(b)
    BY <1>3, <2>2
  <2>. QED
    BY <1>3, <2>3, IndexIsExact
<1>. QED
  BY <1>1, <1>2, <1>4 DEF WindowIsEnsured

LEMMA WindowStep == Inv /\ WindowIsEnsured /\ [Next]_vars => WindowIsEnsured'
<1>. SUFFICES ASSUME Inv, WindowIsEnsured, [Next]_vars PROVE WindowIsEnsured'
  OBVIOUS
<1>1. Types /\ RunsInOrder /\ TypeOK
  BY DEF Inv, Types
<1>2. ASSUME Ensured' = Ensured, UNCHANGED partitions PROVE WindowIsEnsured'
  BY <1>2 DEF WindowIsEnsured
<1>3. CASE NewMonth
  <2>1. /\ Index(today') = Index(today) + 1 /\ Index(today) \in Int
        /\ overdue' = overdue + 1 /\ overdue \in Int /\ UNCHANGED partitions
    BY <1>1, <1>3, Neighbours, IndexIsExact DEF NewMonth, TypeOK
  <2>2. Ensured' = Ensured
    BY <2>1 DEF Ensured
  <2>. QED
    BY <1>2, <2>1, <2>2
<1>4. CASE CreatePartitions
  <2>1. /\ asof \in Month /\ AHEAD_MONTHS \in Nat
        /\ \A t \in Tables : \A ym \in months_from(asof, AHEAD_MONTHS) :
              partition_for_month(ym) \in partitions'[t]
    BY <1>1, <1>4, PartitionsAssumption DEF CreatePartitions, RunsInOrder
  <2>2. Ensured' = Index(asof)
    <3>1. Index(asof) \in Int /\ Index(today) \in Int
      BY <1>1, <2>1, IndexIsExact DEF TypeOK
    <3>2. Ensured' = Index(today) - (Index(today) - Index(asof))
      BY <1>4 DEF Ensured, CreatePartitions, Index
    <3>. QED
      BY <3>1, <3>2
  <2>. QED
    BY <2>1, <2>2, MonthsFrom DEF WindowIsEnsured
<1>5. CASE DropPartitions
  <2>1. Ensured' = Ensured /\ Ensured = Index(asof) /\ asof \in Month
    BY <1>1, <1>5 DEF DropPartitions, RunsInOrder, Ensured
  <2>. DEFINE cutoff == months_before(asof, RETENTION_MONTHS)
  <2>2. cutoff \in Month /\ Index(cutoff) <= Index(asof)
    BY <2>1, MonthsBefore, IndexIsExact, PartitionsAssumption
  <2>3. \A t \in Tables : \A p \in partitions[t] :
            ~expired(partition_for_month(p.name), cutoff) => p \in partitions'[t]
    BY <1>1, <1>5 DEF DropPartitions, Types, Tables
  <2>. HIDE DEF cutoff
  <2>4. ASSUME NEW ym \in Month, Ensured <= Index(ym)
        PROVE  ~expired(partition_for_month(ym), cutoff)
    BY <2>1, <2>2, <2>4, Expired, IndexIsExact
  <2>5. \A ym \in Month : partition_for_month(ym).name = ym
    BY DEF partition_for_month
  <2>6. ASSUME NEW t \in Tables, NEW ym \in Month, Ensured <= Index(ym),
               partition_for_month(ym) \in partitions[t]
        PROVE  partition_for_month(ym) \in partitions'[t]
    BY <2>3, <2>4, <2>5, <2>6
  <2>. QED
    BY <2>1, <2>6 DEF WindowIsEnsured
<1>6. CASE (\E t \in Tables : Insert(t)) \/ StartRun \/ RunFails \/ UNCHANGED vars
  <2>1. UNCHANGED <<today, overdue, partitions>>
    BY <1>6 DEF Insert, StartRun, RunFails, vars
  <2>. QED
    BY <1>2, <2>1 DEF Ensured
<1>. QED
  BY <1>3, <1>4, <1>5, <1>6 DEF Next

\* A row of this month finds its partition in both tables until AHEAD_MONTHS runs in
\* a row are missed, even before the run of the first of the month.
THEOREM WindowIsCovered == ASSUME EarlyInstalls PROVE Spec => []WindowCoversToday
<1>1. Inv /\ WindowIsEnsured => WindowCoversToday
  <2>. SUFFICES ASSUME Inv, WindowIsEnsured, overdue < AHEAD_MONTHS, NEW t \in Tables
                PROVE  Holds(t, today)
    BY DEF WindowCoversToday
  <2>1. /\ today \in Month /\ Index(today) \in Int
        /\ overdue \in Nat /\ AHEAD_MONTHS \in Nat
    BY IndexIsExact, PartitionsAssumption DEF Inv, Types, TypeOK
  <2>2. partition_for_month(today) \in partitions[t]
    BY <2>1 DEF WindowIsEnsured, Ensured
  <2>3. OnOrBefore(today, today) /\ ~OnOrBefore(next_month(today), today)
    BY <2>1, IndexIsExact, Neighbours
  <2>. QED
    BY <2>2, <2>3 DEF Holds, partition_for_month
<1>2. Init => WindowIsEnsured
  BY WindowInit
<1>. QED
  BY <1>1, <1>2, WindowStep, Invariance, PTL DEF Spec

-----------------------------------------------------------------------------
(* Retention *)

\* A payload of month ym that a sweep drops is past the retention.
LEMMA GoneIsOld ==
    ASSUME NEW ym \in Month, NEW from \in Month
    PROVE  expired(partition_for_month(ym), months_before(from, RETENTION_MONTHS))
              <=> Index(from) - Index(ym) > RETENTION_MONTHS
<1>1. RETENTION_MONTHS \in Nat /\ Index(ym) \in Int /\ Index(from) \in Int
  BY PartitionsAssumption, IndexIsExact
<1>2. /\ months_before(from, RETENTION_MONTHS) \in Month
      /\ Index(months_before(from, RETENTION_MONTHS)) = Index(from) - RETENTION_MONTHS
  BY <1>1, MonthsBefore
<1>3. expired(partition_for_month(ym), months_before(from, RETENTION_MONTHS))
          <=> Index(ym) < Index(from) - RETENTION_MONTHS
  BY <1>2, Expired
<1>. QED
  BY <1>1, <1>3

\* Whenever runs were missed, repeated, cut short or overtaken by the end of the
\* month, an observation is never dropped and a payload only past its retention.
THEOREM OnlyOldIsDropped == Spec => OnlyOldPayloadsAreDropped
<1>1. ASSUME Inv, [Next]_vars, row # NULL, row' # row
      PROVE  row[1] = "raw_payloads" /\ Index(today) - Index(row[2]) > RETENTION_MONTHS
  <2>1. DropPartitions
    BY <1>1 DEF Next, vars, Insert, NewMonth, StartRun, CreatePartitions, RunFails
  <2>2. /\ asof \in Month /\ Index(asof) <= Index(today) /\ today \in Month
        /\ partitions \in [Tables -> SUBSET {partition_for_month(ym) : ym \in Month}]
    BY <1>1, <2>1 DEF DropPartitions, Inv, Types, TypeOK, RunsInOrder
  <2>3. PICK p \in partitions["raw_payloads"] :
            /\ expired(partition_for_month(p.name), months_before(asof, RETENTION_MONTHS))
            /\ row = <<"raw_payloads", p.name>>
    BY <1>1, <2>1 DEF DropPartitions
  <2>4. p.name \in Month
    BY <2>2, PartitionTypes DEF Tables
  <2>5. Index(asof) - Index(p.name) > RETENTION_MONTHS
    BY <2>2, <2>3, <2>4, GoneIsOld
  <2>6. Index(today) - Index(p.name) > RETENTION_MONTHS
    BY <2>2, <2>4, <2>5, IndexIsExact, PartitionsAssumption
  <2>. QED
    BY <2>3, <2>6
<1>. QED
  BY <1>1, Invariance, PTL DEF Spec, OnlyOldPayloadsAreDropped

LEMMA SweptStep == Inv /\ NothingOutlivesRetention /\ [Next]_vars => NothingOutlivesRetention'
<1>. SUFFICES ASSUME Inv, NothingOutlivesRetention, [Next]_vars PROVE NothingOutlivesRetention'
  OBVIOUS
<1>1. Types /\ RunsInOrder /\ TypeOK
  BY DEF Inv, Types
<1>2. CASE UNCHANGED <<swept, partitions>>
  BY <1>2 DEF NothingOutlivesRetention
<1>3. CASE CreatePartitions
  <2>1. asof \in Month /\ Index(swept) <= Index(asof) /\ swept' = swept
    BY <1>1, <1>3 DEF CreatePartitions, RunsInOrder
  <2>2. Index(asof) \in Int /\ Index(swept) \in Int /\ RETENTION_MONTHS \in Nat /\ AHEAD_MONTHS \in Nat
    BY <1>1, <2>1, IndexIsExact, PartitionsAssumption DEF TypeOK
  <2>3. ASSUME NEW ym \in months_from(asof, AHEAD_MONTHS)
        PROVE  Index(swept) - Index(ym) <= RETENTION_MONTHS
    <3>1. ym \in Month /\ Index(asof) <= Index(ym)
      BY <2>1, <2>2, MonthsFrom
    <3>2. Index(ym) \in Int
      BY <3>1, IndexIsExact
    <3>. QED
      BY <2>1, <2>2, <3>1, <3>2
  <2>4. partitions'["raw_payloads"] = partitions["raw_payloads"]
            \cup {partition_for_month(ym) : ym \in months_from(asof, AHEAD_MONTHS)}
    BY <1>3 DEF CreatePartitions, Tables
  <2>5. \A ym : partition_for_month(ym).name = ym
    BY DEF partition_for_month
  <2>. QED
    BY <2>1, <2>3, <2>4, <2>5 DEF NothingOutlivesRetention
<1>4. CASE DropPartitions
  <2>1. asof \in Month /\ swept' = asof
    BY <1>1, <1>4 DEF DropPartitions, RunsInOrder
  <2>2. \A p \in partitions'["raw_payloads"] :
            /\ p \in partitions["raw_payloads"]
            /\ ~expired(partition_for_month(p.name), months_before(asof, RETENTION_MONTHS))
    BY <1>1, <1>4 DEF DropPartitions, Types, Tables
  <2>3. ASSUME NEW p \in partitions'["raw_payloads"]
        PROVE  Index(asof) - Index(p.name) <= RETENTION_MONTHS
    <3>1. p.name \in Month
      BY <1>1, <2>2, PartitionTypes DEF Types, Tables
    <3>2. ~(Index(asof) - Index(p.name) > RETENTION_MONTHS)
      BY <2>1, <2>2, <3>1, GoneIsOld
    <3>. QED
      BY <2>1, <3>1, <3>2, IndexIsExact, PartitionsAssumption
  <2>. QED
    BY <2>1, <2>3 DEF NothingOutlivesRetention
<1>. QED
  BY <1>2, <1>3, <1>4 DEF Next, vars, Insert, NewMonth, StartRun, RunFails

\* A completed sweep leaves no payload older than the retention behind, not even
\* what earlier sweeps that failed should have taken.
THEOREM SweepsAreComplete == ASSUME EarlyInstalls PROVE Spec => []NothingOutlivesRetention
<1>1. Init => NothingOutlivesRetention
  <2>. SUFFICES ASSUME Init PROVE NothingOutlivesRetention
    OBVIOUS
  <2>1. /\ swept \in InstallMonths
        /\ partitions["raw_payloads"] = {partition_for_month(ym) : ym \in BOOTSTRAP_MONTHS}
    BY DEF Init, Tables
  <2>2. \A ym : partition_for_month(ym).name = ym
    BY DEF partition_for_month
  <2>. QED
    BY <2>1, <2>2 DEF EarlyInstalls, NothingOutlivesRetention
<1>. QED
  BY <1>1, SweptStep, Invariance, PTL DEF Spec
=============================================================================
