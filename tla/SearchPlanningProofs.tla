------------------------ MODULE SearchPlanningProofs ------------------------
(***************************************************************************)
(* Theorems about SearchPlanning, for every set of requests, every tuning, *)
(* calendar and budget: that no task is lost or repeated from the query to *)
(* the budget, that what was never observed comes first, and that spending *)
(* a daily budget covers every task within a round.                        *)
(*                                                                         *)
(* Sorting, picking and collapsing place things by counting, so the proofs *)
(* rest on ranks: in a finite set with a total order every element has its *)
(* own place, and every place is taken.                                    *)
(***************************************************************************)
EXTENDS SearchPlanning, SequenceTheorems, FiniteSetTheorems, WellFoundedInduction, TLAPS

-----------------------------------------------------------------------------
(* Induction *)

\* A non-empty set of naturals has a least element.
LEMMA LeastNatural ==
    ASSUME NEW T \in SUBSET Nat, T # {}
    PROVE  \E x \in T : \A y \in T : x <= y
<1>1. \E x \in T : \A y \in T : ~(<<y, x>> \in OpToRel(<, Nat))
  BY NatLessThanWellFounded, WFMin, Zenon
<1>2. \A x, y \in Nat : y < x => <<y, x>> \in OpToRel(<, Nat)
  BY Zenon DEF OpToRel
<1>3. \E x \in T : \A y \in T : ~(y < x)
  BY <1>1, <1>2, Zenon
<1>. QED
  BY <1>3

\* Induction, for a property given as the set of the numbers that have it.
LEMMA NatSetInduction ==
    ASSUME NEW S \in SUBSET Nat, 0 \in S, \A n \in S : n + 1 \in S
    PROVE  S = Nat
<1>. SUFFICES ASSUME S # Nat PROVE FALSE
  OBVIOUS
<1>. DEFINE T == Nat \ S
<1>1. PICK x \in T : \A y \in T : x <= y
  <2>1. T \in SUBSET Nat /\ T # {}
    OBVIOUS
  <2>. HIDE DEF T
  <2>. QED
    BY <2>1, LeastNatural
<1>2. x - 1 \in Nat
  OBVIOUS
<1>3. x - 1 \in S
  BY <1>1, <1>2
<1>. QED
  BY <1>2, <1>3

-----------------------------------------------------------------------------
(* Ranks: in a finite set with a total order, every element has its place. *)

Upto(S, R, i) == {k \in S : <<k, i>> \in R}

Rank(S, R, i) == Cardinality(Upto(S, R, i))

IsTotalOrder(S, R) ==
    /\ \A i, j \in S : <<i, j>> \in R \/ <<j, i>> \in R
    /\ \A i, j \in S : <<i, j>> \in R /\ <<j, i>> \in R => i = j
    /\ \A i, j, k \in S : <<i, j>> \in R /\ <<j, k>> \in R => <<i, k>> \in R

LEMMA RanksAreInOrder ==
    ASSUME NEW S, IsFiniteSet(S), NEW R, IsTotalOrder(S, R), NEW i \in S, NEW j \in S
    PROVE  /\ Rank(S, R, i) \in 1..Cardinality(S)
           /\ i # j /\ <<i, j>> \in R => Rank(S, R, i) < Rank(S, R, j)
<1>1. \A k \in S : /\ IsFiniteSet(Upto(S, R, k)) /\ Rank(S, R, k) \in Nat
                   /\ Rank(S, R, k) <= Cardinality(S)
  BY FS_Subset, FS_CardinalityType DEF Upto, Rank
<1>2. Rank(S, R, i) # 0
  <2>1. i \in Upto(S, R, i)
    BY DEF Upto, IsTotalOrder
  <2>. QED
    BY <1>1, <2>1, FS_EmptySet DEF Rank
<1>3. ASSUME i # j, <<i, j>> \in R PROVE Rank(S, R, i) < Rank(S, R, j)
  <2>1. Upto(S, R, i) \in SUBSET Upto(S, R, j)
    BY <1>3 DEF Upto, IsTotalOrder
  <2>2. j \in Upto(S, R, j) /\ j \notin Upto(S, R, i)
    BY <1>3 DEF Upto, IsTotalOrder
  <2>3. /\ Rank(S, R, i) <= Rank(S, R, j)
        /\ Rank(S, R, j) = Rank(S, R, i) => Upto(S, R, j) = Upto(S, R, i)
    BY <1>1, <2>1, FS_Subset DEF Rank
  <2>. QED
    BY <1>1, <2>2, <2>3
<1>4. Cardinality(S) \in Nat
  BY FS_CardinalityType
<1>. QED
  BY <1>1, <1>2, <1>3, <1>4

LEMMA RanksAreDistinct ==
    ASSUME NEW S, IsFiniteSet(S), NEW R, IsTotalOrder(S, R), NEW i \in S, NEW j \in S,
           Rank(S, R, i) = Rank(S, R, j)
    PROVE  i = j
<1>1. Rank(S, R, i) \in Int
  <2>1. Rank(S, R, i) \in 1..Cardinality(S)
    BY RanksAreInOrder
  <2>. QED
    BY <2>1
<1>2. <<i, j>> \in R \/ <<j, i>> \in R
  BY DEF IsTotalOrder
<1>3. ~(Rank(S, R, i) < Rank(S, R, j)) /\ ~(Rank(S, R, j) < Rank(S, R, i))
  BY <1>1
<1>. QED
  BY <1>2, <1>3, RanksAreInOrder

LEMMA EveryRankIsTaken ==
    ASSUME NEW S, IsFiniteSet(S), NEW R, IsTotalOrder(S, R)
    PROVE  \A p \in 1..Cardinality(S) : \E i \in S : Rank(S, R, i) = p
<1>. DEFINE n == Cardinality(S)
            f == [i \in S |-> Rank(S, R, i)]
<1>1. n \in Nat /\ IsFiniteSet(1..n) /\ Cardinality(1..n) = n
  BY FS_CardinalityType, FS_Interval
<1>2. f \in Injection(S, 1..n)
  <2>1. f \in [S -> 1..n]
    BY RanksAreInOrder
  <2>2. \A i, j \in S : f[i] = f[j] => i = j
    BY RanksAreDistinct
  <2>. QED
    BY <2>1, <2>2 DEF Injection, IsInjective
<1>3. f \in Surjection(S, 1..n)
  <2>. HIDE DEF f
  <2>. QED
    BY <1>1, <1>2, FS_Injection
<1>. QED
  BY <1>3 DEF Surjection

LEMMA Intervals ==
    ASSUME NEW n \in Nat
    PROVE  /\ IsFiniteSet(1..n) /\ Cardinality(1..n) = n
           /\ \A S \in SUBSET (1..n) :
                  /\ IsFiniteSet(S) /\ Cardinality(S) \in Nat /\ Cardinality(S) <= n
                  /\ Cardinality(S) = n => S = 1..n
<1>1. IsFiniteSet(1..n) /\ Cardinality(1..n) = n
  BY FS_Interval
<1>2. ASSUME NEW S \in SUBSET (1..n)
      PROVE  /\ IsFiniteSet(S) /\ Cardinality(S) <= n
             /\ Cardinality(S) = n => S = 1..n
  <2>1. /\ IsFiniteSet(S) /\ Cardinality(S) <= Cardinality(1..n)
        /\ Cardinality(1..n) = Cardinality(S) => 1..n = S
    BY <1>1, FS_Subset
  <2>. QED
    BY <1>1, <2>1
<1>3. \A S : IsFiniteSet(S) => Cardinality(S) \in Nat
  BY FS_CardinalityType
<1>. QED
  BY <1>1, <1>2, <1>3

\* A way through S in the order of R is the way by rank.
LEMMA InOrderIsByRank ==
    ASSUME NEW S, IsFiniteSet(S), NEW R, IsTotalOrder(S, R), NEW n \in Nat,
           NEW f \in [1..n -> S], \A i \in S : \E p \in 1..n : f[p] = i,
           \A p, q \in 1..n : p < q => f[p] # f[q] /\ <<f[p], f[q]>> \in R
    PROVE  /\ n = Cardinality(S)
           /\ \A p \in 1..n : Rank(S, R, f[p]) = p
<1>1. \A p, q \in 1..n : f[p] = f[q] => p = q
  <2>. SUFFICES ASSUME NEW p \in 1..n, NEW q \in 1..n, f[p] = f[q], p # q PROVE FALSE
    OBVIOUS
  <2>1. p < q \/ q < p
    OBVIOUS
  <2>. QED
    BY <2>1
<1>2. \A m \in 0..n : Cardinality({f[p] : p \in 1..m}) = m
  <2>. SUFFICES ASSUME NEW m \in 0..n PROVE Cardinality({f[p] : p \in 1..m}) = m
    OBVIOUS
  <2>. DEFINE T == {f[p] : p \in 1..m}
              g == [p \in 1..m |-> f[p]]
  <2>1. g \in [1..m -> T] /\ (\A t \in T : \E p \in 1..m : g[p] = t)
    OBVIOUS
  <2>2. \A p, q \in 1..m : g[p] = g[q] => p = q
    BY <1>1
  <2>3. DOMAIN g = 1..m
    OBVIOUS
  <2>4. IsFiniteSet(1..m) /\ Cardinality(1..m) = m
    BY FS_Interval
  <2>. HIDE DEF T, g
  <2>5. g \in Bijection(1..m, T)
    BY <2>1, <2>2, <2>3 DEF Bijection, Injection, Surjection, IsInjective
  <2>6. ExistsBijection(1..m, T)
    BY <2>5 DEF ExistsBijection
  <2>7. Cardinality(T) = m
    BY <2>4, <2>6, FS_Bijection
  <2>. QED
    BY <2>7 DEF T
<1>3. n = Cardinality(S)
  <2>1. S = {f[p] : p \in 1..n}
    OBVIOUS
  <2>. QED
    BY <1>2, <2>1
<1>4. ASSUME NEW p \in 1..n PROVE Rank(S, R, f[p]) = p
  <2>1. \A q \in 1..n : <<f[q], f[p]>> \in R <=> q <= p
    <3>1. ASSUME NEW q \in 1..n, q <= p PROVE <<f[q], f[p]>> \in R
      BY <3>1 DEF IsTotalOrder
    <3>2. ASSUME NEW q \in 1..n, <<f[q], f[p]>> \in R, ~(q <= p) PROVE FALSE
      <4>1. p < q
        BY <3>2
      <4>. QED
        BY <3>2, <4>1 DEF IsTotalOrder
    <3>. QED
      BY <3>1, <3>2
  <2>2. Upto(S, R, f[p]) \subseteq {f[q] : q \in 1..p}
    <3>. SUFFICES ASSUME NEW k \in S, <<k, f[p]>> \in R PROVE k \in {f[q] : q \in 1..p}
      BY DEF Upto
    <3>1. PICK q \in 1..n : f[q] = k
      OBVIOUS
    <3>2. q \in 1..p
      BY <2>1, <3>1
    <3>. QED
      BY <3>1, <3>2
  <2>3. {f[q] : q \in 1..p} \subseteq Upto(S, R, f[p])
    <3>. SUFFICES ASSUME NEW q \in 1..p PROVE f[q] \in Upto(S, R, f[p])
      OBVIOUS
    <3>1. q \in 1..n
      OBVIOUS
    <3>. QED
      BY <2>1, <3>1 DEF Upto
  <2>4. Upto(S, R, f[p]) = {f[q] : q \in 1..p} /\ p \in 0..n
    BY <2>2, <2>3
  <2>. QED
    BY <1>2, <2>4 DEF Rank
<1>. QED
  BY <1>3, <1>4

-----------------------------------------------------------------------------
(* Sequences *)

LEMMA SequenceOf ==
    ASSUME NEW T, NEW n \in Nat, NEW f \in [1..n -> T]
    PROVE  f \in Seq(T) /\ Len(f) = n /\ DOMAIN f = 1..n
<1>1. f \in Seq(T)
  BY SeqDef
<1>2. Len(f) \in Nat /\ DOMAIN f = 1..Len(f)
  BY <1>1, LenProperties
<1>3. DOMAIN f = 1..n
  OBVIOUS
<1>. QED
  BY <1>1, <1>2, <1>3

LEMMA ToSetOfSeq ==
    ASSUME NEW T, NEW s \in Seq(T)
    PROVE  /\ Len(s) \in Nat /\ DOMAIN s = 1..Len(s) /\ ToSet(s) \subseteq T
           /\ \A x : x \in ToSet(s) <=> \E i \in 1..Len(s) : s[i] = x
<1>1. Len(s) \in Nat /\ DOMAIN s = 1..Len(s) /\ \A i \in 1..Len(s) : s[i] \in T
  BY LenProperties
<1>. QED
  BY <1>1 DEF ToSet

\* One sequence after another.
LEMMA Concatenation ==
    ASSUME NEW T, NEW s \in Seq(T), NEW t \in Seq(T)
    PROVE  /\ s \o t \in Seq(T)
           /\ ToSet(s \o t) = ToSet(s) \cup ToSet(t)
           /\ IsInjective(s) /\ IsInjective(t) /\ ToSet(s) \cap ToSet(t) = {} => IsInjective(s \o t)
<1>. DEFINE u == s \o t
<1>1. /\ u \in Seq(T) /\ Len(u) = Len(s) + Len(t)
      /\ \A i \in 1..Len(s) + Len(t) : u[i] = IF i <= Len(s) THEN s[i] ELSE t[i - Len(s)]
  BY ConcatProperties
<1>2. Len(s) \in Nat /\ DOMAIN s = 1..Len(s) /\ Len(t) \in Nat /\ DOMAIN t = 1..Len(t)
  BY ToSetOfSeq
<1>3. Len(u) \in Nat /\ DOMAIN u = 1..Len(u)
  BY <1>1, ToSetOfSeq
<1>. HIDE DEF u
<1>4. \A i \in 1..Len(s) : i \in 1..Len(u) /\ u[i] = s[i]
  BY <1>1, <1>2
<1>5. \A i \in 1..Len(t) : Len(s) + i \in 1..Len(u) /\ u[Len(s) + i] = t[i]
  BY <1>1, <1>2
<1>6. \A i \in 1..Len(u) : \/ i \in 1..Len(s) /\ u[i] = s[i]
                           \/ i - Len(s) \in 1..Len(t) /\ u[i] = t[i - Len(s)]
  BY <1>1, <1>2
<1>7. ToSet(u) = ToSet(s) \cup ToSet(t)
  <2>1. ToSet(u) \subseteq ToSet(s) \cup ToSet(t)
    BY <1>2, <1>3, <1>6 DEF ToSet
  <2>2. ToSet(s) \subseteq ToSet(u)
    BY <1>2, <1>3, <1>4 DEF ToSet
  <2>3. ToSet(t) \subseteq ToSet(u)
    BY <1>2, <1>3, <1>5 DEF ToSet
  <2>. QED
    BY <2>1, <2>2, <2>3
<1>8. ASSUME IsInjective(s), IsInjective(t), ToSet(s) \cap ToSet(t) = {} PROVE IsInjective(u)
  <2>. SUFFICES ASSUME NEW i \in 1..Len(u), NEW j \in 1..Len(u), u[i] = u[j] PROVE i = j
    BY <1>3 DEF IsInjective
  <2>1. \A a \in 1..Len(s), b \in 1..Len(t) : s[a] # t[b]
    BY <1>2, <1>8 DEF ToSet
  <2>2. \A a, b \in 1..Len(s) : s[a] = s[b] => a = b
    BY <1>2, <1>8 DEF IsInjective
  <2>3. \A a, b \in 1..Len(t) : t[a] = t[b] => a = b
    BY <1>2, <1>8 DEF IsInjective
  <2>. QED
    BY <1>2, <1>6, <2>1, <2>2, <2>3
<1>. QED
  BY <1>1, <1>7, <1>8 DEF u

\* The sequences of F one after another, up to each of them.
LEMMA FlattenExists ==
    ASSUME NEW F, NEW m \in Nat
    PROVE  \E f : f = [i \in 1..m |-> IF i = 1 THEN F[i] ELSE f[i - 1] \o F[i]]
<1>. DEFINE Exists(k) == \E f : f = [i \in 1..k |-> IF i = 1 THEN F[i] ELSE f[i - 1] \o F[i]]
            S == {k \in Nat : Exists(k)}
<1>1. Exists(0)
  <2>. DEFINE e == [i \in 1..0 |-> F[i]]
  <2>1. e = [i \in 1..0 |-> IF i = 1 THEN F[i] ELSE e[i - 1] \o F[i]]
    OBVIOUS
  <2>. QED
    BY <2>1
<1>2. ASSUME NEW k \in Nat, Exists(k) PROVE Exists(k + 1)
  <2>1. PICK f : f = [i \in 1..k |-> IF i = 1 THEN F[i] ELSE f[i - 1] \o F[i]]
    BY <1>2
  <2>. DEFINE g == [i \in 1..(k + 1) |-> IF i = k + 1 THEN IF i = 1 THEN F[i] ELSE f[k] \o F[i]
                                         ELSE f[i]]
  <2>2. \A i \in 1..(k + 1) : g[i] = IF i = 1 THEN F[i] ELSE g[i - 1] \o F[i]
    <3>. SUFFICES ASSUME NEW i \in 1..(k + 1) PROVE g[i] = IF i = 1 THEN F[i] ELSE g[i - 1] \o F[i]
      OBVIOUS
    <3>1. CASE i = 1 /\ i = k + 1
      BY <3>1
    <3>2. CASE i = 1 /\ i # k + 1
      <4>1. i \in 1..k
        BY <3>2
      <4>2. f[i] = F[i]
        BY <2>1, <3>2, <4>1
      <4>. QED
        BY <3>2, <4>2
    <3>3. CASE i # 1 /\ i = k + 1
      <4>1. i - 1 = k /\ k \in 1..(k + 1) /\ k # k + 1
        BY <3>3
      <4>2. g[k] = f[k]
        BY <4>1
      <4>. QED
        BY <3>3, <4>1, <4>2
    <3>4. CASE i # 1 /\ i # k + 1
      <4>1. i \in 1..k /\ i - 1 \in 1..(k + 1) /\ i - 1 # k + 1
        BY <3>4
      <4>2. f[i] = f[i - 1] \o F[i]
        BY <2>1, <3>4, <4>1
      <4>3. g[i - 1] = f[i - 1] /\ g[i] = f[i]
        BY <3>4, <4>1
      <4>. QED
        BY <3>4, <4>2, <4>3
    <3>. QED
      BY <3>1, <3>2, <3>3, <3>4
  <2>3. g = [i \in 1..(k + 1) |-> g[i]]
    OBVIOUS
  <2>. HIDE DEF g
  <2>4. g = [i \in 1..(k + 1) |-> IF i = 1 THEN F[i] ELSE g[i - 1] \o F[i]]
    BY <2>2, <2>3
  <2>. QED
    BY <2>4
<1>. HIDE DEF Exists
<1>3. 0 \in S /\ \A k \in S : k + 1 \in S
  BY <1>1, <1>2
<1>4. S \in SUBSET Nat
  OBVIOUS
<1>. HIDE DEF S
<1>5. S = Nat
  BY <1>3, <1>4, NatSetInduction
<1>6. Exists(m)
  BY <1>5 DEF S
<1>. QED
  BY <1>6 DEF Exists

Apart(F, n) ==
    /\ \A i \in 1..n : IsInjective(F[i])
    /\ \A i, j \in 1..n : i # j => ToSet(F[i]) \cap ToSet(F[j]) = {}

\* Flattened, sequences without repetition that share nothing repeat nothing.
LEMMA Flattening ==
    ASSUME NEW T, NEW n \in Nat, NEW F \in [1..n -> Seq(T)]
    PROVE  /\ FlattenSeq(F) \in Seq(T)
           /\ \A x : x \in ToSet(FlattenSeq(F)) <=> \E i \in 1..n : x \in ToSet(F[i])
           /\ Apart(F, n) => IsInjective(FlattenSeq(F))
<1>. DEFINE Flat(f) == f = [i \in 1..n |-> IF i = 1 THEN F[i] ELSE f[i - 1] \o F[i]]
            flat == CHOOSE f : Flat(f)
            Good(m) == m \in 1..n => /\ flat[m] \in Seq(T)
                                     /\ ToSet(flat[m]) = UNION {ToSet(F[i]) : i \in 1..m}
                                     /\ Apart(F, n) => IsInjective(flat[m])
            S == {m \in Nat : Good(m)}
<1>1. Len(F) = n
  BY SequenceOf
<1>2. CASE n = 0
  <2>1. FlattenSeq(F) = F
    BY <1>1, <1>2 DEF FlattenSeq
  <2>2. F = <<>> /\ ToSet(F) = {} /\ IsInjective(F) /\ 1..n = {}
    BY <1>2 DEF ToSet, IsInjective
  <2>3. <<>> \in Seq(T)
    BY EmptySeq
  <2>. QED
    BY <1>2, <2>1, <2>2, <2>3
<1>3. CASE n # 0
  <2>1. \E f : Flat(f)
    BY FlattenExists
  <2>2. Flat(flat)
    <3>. HIDE DEF Flat
    <3>. QED
      BY <2>1
  <2>3. FlattenSeq(F) = flat[n]
    BY <1>1, <1>3, Zenon DEF FlattenSeq
  <2>4. \A i \in 1..n : flat[i] = IF i = 1 THEN F[i] ELSE flat[i - 1] \o F[i]
    <3>. HIDE DEF flat
    <3>. QED
      BY <2>2
  <2>. HIDE DEF flat, Flat
  <2>5. Good(0)
    OBVIOUS
  <2>6. ASSUME NEW m \in Nat, Good(m) PROVE Good(m + 1)
    <3>. SUFFICES ASSUME m + 1 \in 1..n PROVE Good(m + 1)
      OBVIOUS
    <3>1. F[m + 1] \in Seq(T)
      OBVIOUS
    <3>2. CASE m = 0
      <4>1. m + 1 = 1 /\ 1 \in 1..n /\ flat[1] = F[1] /\ 1..1 = {1} /\ F[1] \in Seq(T)
        BY <2>4, <3>1, <3>2
      <4>2. UNION {ToSet(F[i]) : i \in {1}} = ToSet(F[1])
        OBVIOUS
      <4>3. Apart(F, n) => IsInjective(F[1])
        BY <4>1 DEF Apart
      <4>. QED
        BY <4>1, <4>2, <4>3
    <3>3. CASE m # 0
      <4>1. m \in 1..n /\ m + 1 # 1 /\ (m + 1) - 1 = m
        BY <3>3
      <4>2. flat[m + 1] = flat[m] \o F[m + 1]
        BY <2>4, <4>1
      <4>3. flat[m] \in Seq(T) /\ ToSet(flat[m]) = UNION {ToSet(F[i]) : i \in 1..m}
        BY <2>6, <4>1
      <4>4. Apart(F, n) => IsInjective(flat[m]) /\ IsInjective(F[m + 1])
        BY <2>6, <4>1 DEF Apart
      <4>5. Apart(F, n) => ToSet(flat[m]) \cap ToSet(F[m + 1]) = {}
        <5>. SUFFICES ASSUME Apart(F, n), NEW x \in ToSet(flat[m]), x \in ToSet(F[m + 1]) PROVE FALSE
          OBVIOUS
        <5>1. PICK i \in 1..m : x \in ToSet(F[i])
          BY <4>3
        <5>2. i \in 1..n /\ i # m + 1
          OBVIOUS
        <5>. QED
          BY <5>1, <5>2 DEF Apart
      <4>6. ToSet(flat[m]) \cup ToSet(F[m + 1]) = UNION {ToSet(F[i]) : i \in 1..(m + 1)}
        <5>1. 1..(m + 1) = 1..m \cup {m + 1}
          OBVIOUS
        <5>. QED
          BY <4>3, <5>1
      <4>7. /\ flat[m + 1] \in Seq(T)
            /\ ToSet(flat[m + 1]) = ToSet(flat[m]) \cup ToSet(F[m + 1])
            /\ IsInjective(flat[m]) /\ IsInjective(F[m + 1]) /\ ToSet(flat[m]) \cap ToSet(F[m + 1]) = {}
               => IsInjective(flat[m + 1])
        BY <3>1, <4>2, <4>3, Concatenation
      <4>8. Apart(F, n) => IsInjective(flat[m + 1])
        BY <4>4, <4>5, <4>7
      <4>. QED
        BY <4>6, <4>7, <4>8
    <3>. QED
      BY <3>2, <3>3
  <2>. HIDE DEF Good
  <2>7. S \in SUBSET Nat /\ 0 \in S /\ \A m \in S : m + 1 \in S
    BY <2>5, <2>6
  <2>. HIDE DEF S
  <2>8. S = Nat
    BY <2>7, NatSetInduction
  <2>9. Good(n)
    BY <2>8 DEF S
  <2>10. n \in 1..n
    BY <1>3
  <2>11. \A x : x \in ToSet(flat[n]) <=> \E i \in 1..n : x \in ToSet(F[i])
    BY <2>9, <2>10 DEF Good
  <2>. QED
    BY <2>3, <2>9, <2>10, <2>11 DEF Good
<1>. QED
  BY <1>2, <1>3

-----------------------------------------------------------------------------
(* Expansion *)

LEMMA OneElement == \A x : ToSet(<<x>>) = {x} /\ IsInjective(<<x>>)
<1>. SUFFICES ASSUME NEW x PROVE ToSet(<<x>>) = {x} /\ IsInjective(<<x>>)
  OBVIOUS
<1>1. DOMAIN <<x>> = {1} /\ <<x>>[1] = x
  OBVIOUS
<1>. QED
  BY <1>1 DEF ToSet, IsInjective

LoopsOver(F, s, U, field) ==
    /\ \A i \in 1..Len(s) : ToSet(F[i]) = {t \in U : field[t] = s[i]}
    /\ \A t \in U : field[t] \in ToSet(s)

\* One of the nested loops: the tasks of U, one value of a field after another.
LEMMA Loop ==
    ASSUME NEW P, NEW V, NEW s \in Seq(V), NEW F \in [1..Len(s) -> Seq(P)],
           NEW U \in SUBSET P, NEW field, LoopsOver(F, s, U, field)
    PROVE  /\ FlattenSeq(F) \in Seq(P)
           /\ ToSet(FlattenSeq(F)) = U
           /\ (\A i \in 1..Len(s) : IsInjective(F[i])) /\ IsInjective(s) => IsInjective(FlattenSeq(F))
<1>. DEFINE n == Len(s)
<1>0. n \in Nat
  BY LenProperties
<1>1. DOMAIN s = 1..n /\ \A x \in ToSet(s) : \E i \in 1..n : s[i] = x
  BY ToSetOfSeq
<1>. HIDE DEF n
<1>2. /\ \A i \in 1..n : ToSet(F[i]) = {t \in U : field[t] = s[i]}
      /\ \A t \in U : field[t] \in ToSet(s)
  BY DEF LoopsOver, n
<1>3. F \in [1..n -> Seq(P)]
  BY DEF n
<1>4. /\ FlattenSeq(F) \in Seq(P)
      /\ \A x : x \in ToSet(FlattenSeq(F)) <=> \E i \in 1..n : x \in ToSet(F[i])
      /\ Apart(F, n) => IsInjective(FlattenSeq(F))
  BY <1>0, <1>3, Flattening
<1>5. ToSet(FlattenSeq(F)) = U
  <2>1. ASSUME NEW t \in U PROVE \E i \in 1..n : t \in ToSet(F[i])
    <3>1. PICK i \in 1..n : s[i] = field[t]
      BY <1>1, <1>2
    <3>. QED
      BY <1>2, <3>1
  <2>2. \A i \in 1..n : ToSet(F[i]) \subseteq U
    BY <1>2
  <2>. QED
    BY <1>4, <2>1, <2>2
<1>6. ASSUME IsInjective(s), \A i \in 1..n : IsInjective(F[i]) PROVE Apart(F, n)
  <2>. SUFFICES ASSUME NEW i \in 1..n, NEW j \in 1..n, i # j,
                       NEW t \in ToSet(F[i]), t \in ToSet(F[j])
                PROVE  FALSE
    BY <1>6 DEF Apart
  <2>1. s[i] = s[j]
    BY <1>2
  <2>. QED
    BY <1>1, <1>6, <2>1 DEF IsInjective
<1>. QED
  BY <1>4, <1>5, <1>6 DEF n

LEMMA DatesInRange ==
    ASSUME NEW start \in Int, NEW end \in Int
    PROVE  LET dates == _dates_in_range(start, end)
           IN  dates \in Seq(Int) /\ ToSet(dates) = start..end /\ IsInjective(dates)
<1>. DEFINE dates == _dates_in_range(start, end)
<1>1. dates = [i \in 1..(end - start + 1) |-> start + i - 1]
  BY DEF _dates_in_range
<1>. HIDE DEF dates
<1>2. dates \in Seq(Int)
  <2>. DEFINE n == IF end - start + 1 < 0 THEN 0 ELSE end - start + 1
  <2>1. n \in Nat /\ 1..(end - start + 1) = 1..n
    OBVIOUS
  <2>2. dates \in [1..n -> Int]
    BY <1>1, <2>1
  <2>. QED
    BY <2>1, <2>2, SequenceOf
<1>3. ToSet(dates) = start..end
  <2>1. ASSUME NEW d \in start..end PROVE d \in ToSet(dates)
    <3>1. d - start + 1 \in 1..(end - start + 1) /\ start + (d - start + 1) - 1 = d
      OBVIOUS
    <3>2. d - start + 1 \in DOMAIN dates /\ dates[d - start + 1] = d
      BY <1>1, <3>1
    <3>. QED
      BY <3>2 DEF ToSet
  <2>2. ASSUME NEW i \in DOMAIN dates PROVE dates[i] \in start..end
    BY <1>1
  <2>. QED
    BY <2>1, <2>2 DEF ToSet
<1>4. IsInjective(dates)
  BY <1>1 DEF IsInjective
<1>. QED
  BY <1>2, <1>3, <1>4 DEF dates

Locations(s) == s \in Seq(ToSet(s)) /\ \A l \in ToSet(s) : l.weight \in Int

codes(s) == [i \in DOMAIN s |-> s[i].code]

\* The product of the dimensions of a query.
Product(q) ==
    [origin : {l.code : l \in ToSet(q.origins)},
     destination : {l.code : l \in ToSet(q.destinations)},
     departure_date : q.date_start..q.date_end,
     trip_length_nights : q.min_nights..q.max_nights,
     cabin : ToSet(q.cabins)]

LEMMA CodesOfLocations ==
    ASSUME NEW s, Locations(s)
    PROVE  /\ codes(s) \in Seq({l.code : l \in ToSet(s)}) /\ Len(codes(s)) = Len(s)
           /\ ToSet(codes(s)) = {l.code : l \in ToSet(s)}
           /\ \A i \in 1..Len(s) : codes(s)[i] = s[i].code
<1>1. Len(s) \in Nat /\ DOMAIN s = 1..Len(s) /\ \A i \in 1..Len(s) : s[i] \in ToSet(s)
  BY ToSetOfSeq DEF Locations
<1>2. codes(s) = [i \in 1..Len(s) |-> s[i].code]
  BY <1>1 DEF codes
<1>3. codes(s) \in [1..Len(s) -> {l.code : l \in ToSet(s)}]
  BY <1>1, <1>2
<1>4. codes(s) \in Seq({l.code : l \in ToSet(s)}) /\ Len(codes(s)) = Len(s)
  BY <1>1, <1>3, SequenceOf
<1>5. ToSet(codes(s)) = {l.code : l \in ToSet(s)}
  BY <1>1, <1>2 DEF ToSet
<1>. QED
  BY <1>2, <1>4, <1>5

QueryTypes(q) ==
    /\ {q.date_start, q.date_end, q.min_nights, q.max_nights} \subseteq Int
    /\ q.cabins \in Seq(ToSet(q.cabins))
    /\ Locations(q.origins) /\ Locations(q.destinations)

RepeatsNothing(q) ==
    IsInjective(q.cabins) /\ IsInjective(codes(q.origins)) /\ IsInjective(codes(q.destinations))

\* The loops of expand, from the innermost to the outermost, each give the tasks of
\* the product that agree with the values of the loops around it.
LEMMA ExpansionIsTheProduct ==
    ASSUME NEW q, QueryTypes(q)
    PROVE  /\ expand(q) \in Seq(Product(q))
           /\ ToSet(expand(q)) = Product(q)
           /\ RepeatsNothing(q) => IsInjective(expand(q))
<1>. DEFINE P == Product(q)
            O == codes(q.origins)
            D == codes(q.destinations)
            Y == _dates_in_range(q.date_start, q.date_end)
            N == _dates_in_range(q.min_nights, q.max_nights)
            C == q.cabins
            task(i, j, k, l, m) == [origin |-> O[i], destination |-> D[j], departure_date |-> Y[k],
                                    trip_length_nights |-> N[l], cabin |-> C[m]]
            Cabins(i, j, k, l) == [m \in 1..Len(C) |-> <<task(i, j, k, l, m)>>]
            Nights(i, j, k) == [l \in 1..Len(N) |-> FlattenSeq(Cabins(i, j, k, l))]
            Dates(i, j) == [k \in 1..Len(Y) |-> FlattenSeq(Nights(i, j, k))]
            Destinations(i) == [j \in 1..Len(D) |-> FlattenSeq(Dates(i, j))]
            Origins == [i \in 1..Len(O) |-> FlattenSeq(Destinations(i))]
            Good(s, U) == s \in Seq(P) /\ ToSet(s) = U /\ (RepeatsNothing(q) => IsInjective(s))
            U1(i) == {t \in P : t.origin = O[i]}
            U2(i, j) == {t \in U1(i) : t.destination = D[j]}
            U3(i, j, k) == {t \in U2(i, j) : t.departure_date = Y[k]}
            U4(i, j, k, l) == {t \in U3(i, j, k) : t.trip_length_nights = N[l]}
<1>1. /\ O \in Seq({l.code : l \in ToSet(q.origins)}) /\ Len(O) = Len(q.origins)
      /\ ToSet(O) = {l.code : l \in ToSet(q.origins)}
      /\ \A i \in 1..Len(O) : O[i] = q.origins[i].code
  BY CodesOfLocations DEF QueryTypes
<1>2. /\ D \in Seq({l.code : l \in ToSet(q.destinations)}) /\ Len(D) = Len(q.destinations)
      /\ ToSet(D) = {l.code : l \in ToSet(q.destinations)}
      /\ \A j \in 1..Len(D) : D[j] = q.destinations[j].code
  BY CodesOfLocations DEF QueryTypes
<1>3. Y \in Seq(Int) /\ ToSet(Y) = q.date_start..q.date_end /\ IsInjective(Y)
  BY DatesInRange DEF QueryTypes
<1>4. N \in Seq(Int) /\ ToSet(N) = q.min_nights..q.max_nights /\ IsInjective(N)
  BY DatesInRange DEF QueryTypes
<1>5. C \in Seq(ToSet(C))
  BY DEF QueryTypes
<1>6. P = [origin : ToSet(O), destination : ToSet(D), departure_date : ToSet(Y),
           trip_length_nights : ToSet(N), cabin : ToSet(C)]
  BY <1>1, <1>2, <1>3, <1>4 DEF Product
<1>7. expand(q) = FlattenSeq(Origins)
  <2>1. Origins = [i \in 1..Len(q.origins) |->
            FlattenSeq([j \in 1..Len(q.destinations) |->
            FlattenSeq([k \in 1..Len(Y) |->
            FlattenSeq([l \in 1..Len(N) |->
            FlattenSeq([m \in 1..Len(C) |->
                <<[origin |-> q.origins[i].code, destination |-> q.destinations[j].code,
                   departure_date |-> Y[k], trip_length_nights |-> N[l], cabin |-> C[m]]>>])])])])]
    BY <1>1, <1>2
  <2>2. expand(q) = FlattenSeq([i \in 1..Len(q.origins) |->
            FlattenSeq([j \in 1..Len(q.destinations) |->
            FlattenSeq([k \in 1..Len(Y) |->
            FlattenSeq([l \in 1..Len(N) |->
            FlattenSeq([m \in 1..Len(C) |->
                <<[origin |-> q.origins[i].code, destination |-> q.destinations[j].code,
                   departure_date |-> Y[k], trip_length_nights |-> N[l], cabin |-> C[m]]>>])])])])])
    BY Zenon DEF expand, ForEach
  <2>. QED
    BY <2>1, <2>2, Zenon
<1>. HIDE DEF O, D, Y, N, P
<1>8. \A i \in 1..Len(O), j \in 1..Len(D), k \in 1..Len(Y), l \in 1..Len(N) :
          Good(FlattenSeq(Cabins(i, j, k, l)), U4(i, j, k, l))
  <2>. SUFFICES ASSUME NEW i \in 1..Len(O), NEW j \in 1..Len(D), NEW k \in 1..Len(Y), NEW l \in 1..Len(N)
                PROVE  Good(FlattenSeq(Cabins(i, j, k, l)), U4(i, j, k, l))
    OBVIOUS
  <2>. DEFINE F == Cabins(i, j, k, l)
              cabin == [t \in P |-> t.cabin]
              U == U4(i, j, k, l)
  <2>1. O[i] \in ToSet(O) /\ D[j] \in ToSet(D) /\ Y[k] \in ToSet(Y) /\ N[l] \in ToSet(N)
    BY <1>1, <1>2, <1>3, <1>4, ToSetOfSeq
  <2>2. \A m \in 1..Len(C) : C[m] \in ToSet(C)
    BY <1>5, ToSetOfSeq
  <2>3. \A m \in 1..Len(C) : task(i, j, k, l, m) \in P /\ task(i, j, k, l, m) \in U
    BY <1>6, <2>1, <2>2
  <2>4. \A m \in 1..Len(C) : F[m] = <<task(i, j, k, l, m)>>
    OBVIOUS
  <2>5. F \in [1..Len(C) -> Seq(P)]
    BY <2>3
  <2>6. \A m \in 1..Len(C) : ToSet(F[m]) = {task(i, j, k, l, m)} /\ IsInjective(F[m])
    BY <2>4, OneElement
  <2>7. \A m \in 1..Len(C) : {task(i, j, k, l, m)} = {t \in U : cabin[t] = C[m]}
    BY <1>6, <2>3
  <2>8. \A t \in U : cabin[t] \in ToSet(C)
    BY <1>6
  <2>9. U \in SUBSET P
    OBVIOUS
  <2>10. RepeatsNothing(q) => IsInjective(C)
    BY DEF RepeatsNothing
  <2>11. LoopsOver(F, C, U, cabin)
    BY <2>6, <2>7, <2>8 DEF LoopsOver
  <2>. HIDE DEF F, U, cabin
  <2>12. /\ FlattenSeq(F) \in Seq(P) /\ ToSet(FlattenSeq(F)) = U
         /\ (\A m \in 1..Len(C) : IsInjective(F[m])) /\ IsInjective(C) => IsInjective(FlattenSeq(F))
    BY <1>5, <2>5, <2>9, <2>11, Loop
  <2>. QED
    BY <2>6, <2>10, <2>12 DEF F, U
<1>9. \A i \in 1..Len(O), j \in 1..Len(D), k \in 1..Len(Y) :
          Good(FlattenSeq(Nights(i, j, k)), U3(i, j, k))
  <2>. SUFFICES ASSUME NEW i \in 1..Len(O), NEW j \in 1..Len(D), NEW k \in 1..Len(Y)
                PROVE  Good(FlattenSeq(Nights(i, j, k)), U3(i, j, k))
    OBVIOUS
  <2>. DEFINE F == Nights(i, j, k)
              field == [t \in P |-> t.trip_length_nights]
              U == U3(i, j, k)
  <2>1. \A l \in 1..Len(N) : Good(F[l], U4(i, j, k, l))
    BY <1>8
  <2>2. F = [l \in 1..Len(N) |-> F[l]]
    OBVIOUS
  <2>3. \A l \in 1..Len(N) : U4(i, j, k, l) = {t \in U : field[t] = N[l]}
    OBVIOUS
  <2>4. U \in SUBSET P /\ \A t \in U : field[t] \in ToSet(N)
    BY <1>6
  <2>. HIDE DEF F, U, field
  <2>5. F \in [1..Len(N) -> Seq(P)]
    BY <2>1, <2>2
  <2>6. LoopsOver(F, N, U, field)
    BY <2>1, <2>3, <2>4 DEF LoopsOver
  <2>7. /\ FlattenSeq(F) \in Seq(P) /\ ToSet(FlattenSeq(F)) = U
        /\ (\A l \in 1..Len(N) : IsInjective(F[l])) /\ IsInjective(N) => IsInjective(FlattenSeq(F))
    BY <1>4, <2>4, <2>5, <2>6, Loop
  <2>. QED
    BY <1>4, <2>1, <2>7 DEF F, U
<1>10. \A i \in 1..Len(O), j \in 1..Len(D) : Good(FlattenSeq(Dates(i, j)), U2(i, j))
  <2>. SUFFICES ASSUME NEW i \in 1..Len(O), NEW j \in 1..Len(D) PROVE Good(FlattenSeq(Dates(i, j)), U2(i, j))
    OBVIOUS
  <2>. DEFINE F == Dates(i, j)
              field == [t \in P |-> t.departure_date]
              U == U2(i, j)
  <2>1. \A k \in 1..Len(Y) : Good(F[k], U3(i, j, k))
    BY <1>9
  <2>2. F = [k \in 1..Len(Y) |-> F[k]]
    OBVIOUS
  <2>3. \A k \in 1..Len(Y) : U3(i, j, k) = {t \in U : field[t] = Y[k]}
    OBVIOUS
  <2>4. U \in SUBSET P /\ \A t \in U : field[t] \in ToSet(Y)
    BY <1>6
  <2>. HIDE DEF F, U, field
  <2>5. F \in [1..Len(Y) -> Seq(P)]
    BY <2>1, <2>2
  <2>6. LoopsOver(F, Y, U, field)
    BY <2>1, <2>3, <2>4 DEF LoopsOver
  <2>7. /\ FlattenSeq(F) \in Seq(P) /\ ToSet(FlattenSeq(F)) = U
        /\ (\A k \in 1..Len(Y) : IsInjective(F[k])) /\ IsInjective(Y) => IsInjective(FlattenSeq(F))
    BY <1>3, <2>4, <2>5, <2>6, Loop
  <2>. QED
    BY <1>3, <2>1, <2>7 DEF F, U
<1>11. \A i \in 1..Len(O) : Good(FlattenSeq(Destinations(i)), U1(i))
  <2>. SUFFICES ASSUME NEW i \in 1..Len(O) PROVE Good(FlattenSeq(Destinations(i)), U1(i))
    OBVIOUS
  <2>. DEFINE F == Destinations(i)
              field == [t \in P |-> t.destination]
              U == U1(i)
  <2>1. \A j \in 1..Len(D) : Good(F[j], U2(i, j))
    BY <1>10
  <2>2. F = [j \in 1..Len(D) |-> F[j]]
    OBVIOUS
  <2>3. \A j \in 1..Len(D) : U2(i, j) = {t \in U : field[t] = D[j]}
    OBVIOUS
  <2>4. U \in SUBSET P /\ \A t \in U : field[t] \in ToSet(D)
    BY <1>6
  <2>. HIDE DEF F, U, field
  <2>5. F \in [1..Len(D) -> Seq(P)]
    BY <2>1, <2>2
  <2>6. LoopsOver(F, D, U, field)
    BY <2>1, <2>3, <2>4 DEF LoopsOver
  <2>7. /\ FlattenSeq(F) \in Seq(P) /\ ToSet(FlattenSeq(F)) = U
        /\ (\A j \in 1..Len(D) : IsInjective(F[j])) /\ IsInjective(D) => IsInjective(FlattenSeq(F))
    BY <1>2, <2>4, <2>5, <2>6, Loop
  <2>8. RepeatsNothing(q) => IsInjective(D)
    BY DEF RepeatsNothing, D
  <2>. QED
    BY <2>8, <2>1, <2>7 DEF F, U
<1>12. Good(FlattenSeq(Origins), P)
  <2>. DEFINE F == Origins
              field == [t \in P |-> t.origin]
              U == P
  <2>1. \A i \in 1..Len(O) : Good(F[i], U1(i))
    BY <1>11
  <2>2. F = [i \in 1..Len(O) |-> F[i]]
    OBVIOUS
  <2>3. \A i \in 1..Len(O) : U1(i) = {t \in U : field[t] = O[i]}
    OBVIOUS
  <2>4. U \in SUBSET P /\ \A t \in U : field[t] \in ToSet(O)
    BY <1>6
  <2>. HIDE DEF F, U, field
  <2>5. F \in [1..Len(O) -> Seq(P)]
    BY <2>1, <2>2
  <2>6. LoopsOver(F, O, U, field)
    BY <2>1, <2>3, <2>4 DEF LoopsOver
  <2>7. /\ FlattenSeq(F) \in Seq(P) /\ ToSet(FlattenSeq(F)) = U
        /\ (\A i \in 1..Len(O) : IsInjective(F[i])) /\ IsInjective(O) => IsInjective(FlattenSeq(F))
    BY <1>1, <2>4, <2>5, <2>6, Loop
  <2>8. RepeatsNothing(q) => IsInjective(O)
    BY DEF RepeatsNothing, O
  <2>. QED
    BY <2>8, <2>1, <2>7 DEF F, U
<1>. QED
  BY <1>7, <1>12 DEF P

-----------------------------------------------------------------------------
(* Batches *)

AtMost(S) == {pair \in S \X S : pair[1] <= pair[2]}

\* Picked takes the positions in their order, each once.
LEMMA PickedPositions ==
    ASSUME NEW n \in Nat, NEW S \in SUBSET (1..n), NEW xs
    PROVE  \E pos \in [1..Cardinality(S) -> S] :
               /\ Picked(xs, S) = [p \in 1..Cardinality(S) |-> xs[pos[p]]]
               /\ \A i \in S : \E p \in 1..Cardinality(S) : pos[p] = i
               /\ \A p, q \in 1..Cardinality(S) : p < q => pos[p] < pos[q]
<1>. DEFINE pos == [p \in 1..Cardinality(S) |-> CHOOSE i \in S : Cardinality({k \in S : k <= i}) = p]
<1>1. IsFiniteSet(S) /\ Cardinality(S) \in Nat
  BY Intervals
<1>2. IsTotalOrder(S, AtMost(S))
  BY DEF IsTotalOrder, AtMost
<1>3. \A i \in S : Rank(S, AtMost(S), i) = Cardinality({k \in S : k <= i})
  <2>. SUFFICES ASSUME NEW i \in S PROVE Upto(S, AtMost(S), i) = {k \in S : k <= i}
    BY DEF Rank
  <2>. QED
    BY DEF Upto, AtMost
<1>4. \A p \in 1..Cardinality(S) : \E i \in S : Cardinality({k \in S : k <= i}) = p
  <2>1. \A p \in 1..Cardinality(S) : \E i \in S : Rank(S, AtMost(S), i) = p
    BY <1>1, <1>2, EveryRankIsTaken
  <2>. QED
    BY <1>3, <2>1
<1>5. \A p \in 1..Cardinality(S) : pos[p] \in S /\ Rank(S, AtMost(S), pos[p]) = p
  <2>. SUFFICES ASSUME NEW p \in 1..Cardinality(S)
                PROVE  pos[p] \in S /\ Rank(S, AtMost(S), pos[p]) = p
    OBVIOUS
  <2>1. pos[p] = CHOOSE i \in S : Cardinality({k \in S : k <= i}) = p
    OBVIOUS
  <2>2. pos[p] \in S /\ Cardinality({k \in S : k <= pos[p]}) = p
    BY <1>4, <2>1
  <2>. QED
    BY <1>3, <2>2
<1>6. Picked(xs, S) = [p \in 1..Cardinality(S) |-> xs[pos[p]]]
  BY DEF Picked
<1>7. DOMAIN pos = 1..Cardinality(S) /\ pos = [p \in 1..Cardinality(S) |-> pos[p]]
  OBVIOUS
<1>. HIDE DEF pos
<1>8. pos \in [1..Cardinality(S) -> S]
  BY <1>5, <1>7
<1>9. ASSUME NEW i \in S PROVE \E p \in 1..Cardinality(S) : pos[p] = i
  <2>1. Rank(S, AtMost(S), i) \in 1..Cardinality(S)
    BY <1>1, <1>2, RanksAreInOrder
  <2>2. PICK p \in 1..Cardinality(S) : p = Rank(S, AtMost(S), i)
    BY <2>1
  <2>3. pos[p] \in S /\ Rank(S, AtMost(S), pos[p]) = Rank(S, AtMost(S), i)
    BY <1>5, <2>2
  <2>4. pos[p] = i
    BY <1>1, <1>2, <2>3, RanksAreDistinct
  <2>. QED
    BY <2>4
<1>10. ASSUME NEW p \in 1..Cardinality(S), NEW q \in 1..Cardinality(S), p < q PROVE pos[p] < pos[q]
  <2>0. pos[p] \in Nat /\ pos[q] \in Nat
    <3>1. pos[p] \in S /\ pos[q] \in S
      BY <1>8
    <3>2. \A i \in S : i \in Nat
      OBVIOUS
    <3>. QED
      BY <3>1, <3>2
  <2>. SUFFICES ASSUME pos[q] <= pos[p] PROVE FALSE
    BY <2>0
  <2>1. pos[p] \in S /\ pos[q] \in S /\ Rank(S, AtMost(S), pos[p]) = p /\ Rank(S, AtMost(S), pos[q]) = q
    BY <1>5
  <2>2. <<pos[q], pos[p]>> \in AtMost(S) /\ pos[q] # pos[p]
    BY <1>10, <2>1 DEF AtMost
  <2>3. Rank(S, AtMost(S), pos[q]) < Rank(S, AtMost(S), pos[p])
    BY <1>1, <1>2, <2>1, <2>2, RanksAreInOrder
  <2>. QED
    BY <1>10, <2>1, <2>3
<1>. QED
  BY <1>6, <1>8, <1>9, <1>10

LEMMA PickedElements ==
    ASSUME NEW T, NEW xs \in Seq(T), NEW S \in SUBSET (1..Len(xs))
    PROVE  /\ Picked(xs, S) \in Seq(T) /\ Len(Picked(xs, S)) = Cardinality(S)
           /\ ToSet(Picked(xs, S)) = {xs[i] : i \in S}
<1>. DEFINE n == Len(xs)
<1>1. n \in Nat /\ S \in SUBSET (1..n) /\ \A i \in 1..n : xs[i] \in T
  BY LenProperties
<1>. HIDE DEF n
<1>2. PICK pos \in [1..Cardinality(S) -> S] :
          /\ Picked(xs, S) = [p \in 1..Cardinality(S) |-> xs[pos[p]]]
          /\ \A i \in S : \E p \in 1..Cardinality(S) : pos[p] = i
          /\ \A p, q \in 1..Cardinality(S) : p < q => pos[p] < pos[q]
  BY <1>1, PickedPositions
<1>3. Cardinality(S) \in Nat
  BY <1>1, Intervals
<1>4. Picked(xs, S) \in [1..Cardinality(S) -> T]
  BY <1>1, <1>2
<1>5. Picked(xs, S) \in Seq(T) /\ Len(Picked(xs, S)) = Cardinality(S)
  BY <1>3, <1>4, SequenceOf
<1>6. ToSet(Picked(xs, S)) = {xs[i] : i \in S}
  <2>1. \A p \in 1..Cardinality(S) : Picked(xs, S)[p] = xs[pos[p]] /\ pos[p] \in S
    BY <1>2
  <2>2. \A x : x \in ToSet(Picked(xs, S)) <=> \E p \in 1..Cardinality(S) : Picked(xs, S)[p] = x
    BY <1>5, ToSetOfSeq
  <2>3. \A x : x \in ToSet(Picked(xs, S)) => x \in {xs[i] : i \in S}
    BY <2>1, <2>2
  <2>4. \A i \in S : xs[i] \in ToSet(Picked(xs, S))
    BY <1>2, <2>1, <2>2
  <2>. QED
    BY <2>3, <2>4
<1>. QED
  BY <1>5, <1>6

\* Batches have the tasks of one key each, and every key of a task is that of one batch.
LEMMA BatchesArePartition ==
    ASSUME NEW P, NEW ts \in Seq(P), NEW gs, gs = collapse_batchable(ts)
    PROVE  /\ \A g, h \in 1..Len(gs) : g # h => ToSet(gs[g]) \cap ToSet(gs[h]) = {}
           /\ UNION {ToSet(gs[g]) : g \in 1..Len(gs)} = ToSet(ts)
           /\ \A g \in 1..Len(gs) : \A s, t \in ToSet(gs[g]) : batch_key(s) = batch_key(t)
<1>. DEFINE n == Len(ts)
            key(i) == batch_key(ts[i])
            first == {i \in 1..n : \A k \in 1..(i - 1) : key(k) # key(i)}
            batch == [i \in 1..n |-> Picked(ts, {k \in 1..n : key(k) = key(i)})]
            c == Cardinality(first)
<1>1. n \in Nat /\ ToSet(ts) = {ts[i] : i \in 1..n}
  <2>1. n \in Nat /\ DOMAIN ts = 1..n
    BY LenProperties
  <2>. QED
    BY <2>1 DEF ToSet
<1>2. gs = Picked(batch, first)
  BY DEF collapse_batchable
<1>3. \A i \in 1..n : ToSet(batch[i]) = {ts[k] : k \in {k \in 1..n : key(k) = key(i)}}
  <2>. SUFFICES ASSUME NEW i \in 1..n
                PROVE  ToSet(batch[i]) = {ts[k] : k \in {k \in 1..n : key(k) = key(i)}}
    OBVIOUS
  <2>. DEFINE S == {k \in 1..n : key(k) = key(i)}
  <2>1. S \in SUBSET (1..Len(ts)) /\ batch[i] = Picked(ts, S)
    OBVIOUS
  <2>. HIDE DEF S, batch
  <2>2. ToSet(Picked(ts, S)) = {ts[k] : k \in S}
    BY <2>1, PickedElements
  <2>. QED
    BY <2>1, <2>2 DEF S
<1>4. first \in SUBSET (1..n)
  OBVIOUS
<1>5. \A i \in 1..n : \E f \in first : key(f) = key(i)
  <2>. SUFFICES ASSUME NEW i \in 1..n PROVE \E f \in first : key(f) = key(i)
    OBVIOUS
  <2>. DEFINE S == {k \in 1..n : key(k) = key(i)}
  <2>1. S \in SUBSET Nat /\ S # {}
    BY <1>1
  <2>2. PICK f \in S : \A k \in S : f <= k
    <3>. HIDE DEF S
    <3>. QED
      BY <2>1, LeastNatural
  <2>3. f \in 1..n /\ key(f) = key(i)
    OBVIOUS
  <2>4. \A k \in 1..(f - 1) : k \in 1..n /\ ~(f <= k)
    BY <1>1, <2>3
  <2>5. \A k \in 1..(f - 1) : key(k) # key(f)
    BY <2>2, <2>3, <2>4
  <2>. QED
    BY <2>3, <2>5
<1>6. \A i, f \in first : key(i) = key(f) => i = f
  <2>. SUFFICES ASSUME NEW i \in first, NEW f \in first, key(i) = key(f), i # f PROVE FALSE
    OBVIOUS
  <2>1. i \in 1..(f - 1) \/ f \in 1..(i - 1)
    BY <1>1
  <2>. QED
    BY <2>1
<1>7. PICK pos \in [1..c -> first] :
          /\ gs = [p \in 1..c |-> batch[pos[p]]]
          /\ \A i \in first : \E p \in 1..c : pos[p] = i
          /\ \A p, q \in 1..c : p < q => pos[p] < pos[q]
  <2>. HIDE DEF batch, first, n
  <2>1. \E pos \in [1..Cardinality(first) -> first] :
            /\ Picked(batch, first) = [p \in 1..Cardinality(first) |-> batch[pos[p]]]
            /\ \A i \in first : \E p \in 1..Cardinality(first) : pos[p] = i
            /\ \A p, q \in 1..Cardinality(first) : p < q => pos[p] < pos[q]
    BY <1>1, <1>4, PickedPositions
  <2>. QED
    BY <1>2, <2>1, Zenon
<1>8. c \in Nat
  <2>. HIDE DEF first, n
  <2>. QED
    BY <1>1, <1>4, Intervals
<1>. HIDE DEF c, batch
<1>9. Len(gs) = c /\ \A g \in 1..c : gs[g] = batch[pos[g]] /\ pos[g] \in first
  BY <1>7, <1>8
<1>10. \A g, h \in 1..c : g # h => pos[g] # pos[h]
  <2>. SUFFICES ASSUME NEW g \in 1..c, NEW h \in 1..c, g # h PROVE pos[g] # pos[h]
    OBVIOUS
  <2>1. pos[g] \in Nat /\ pos[h] \in Nat /\ (g < h \/ h < g)
    BY <1>1, <1>4, <1>8
  <2>. QED
    BY <1>7, <2>1
<1>. DEFINE Members(i) == {ts[k] : k \in {k \in 1..n : key(k) = key(i)}}
<1>m. \A g \in 1..c : ToSet(gs[g]) = Members(pos[g]) /\ pos[g] \in 1..n /\ pos[g] \in first
  <2>. HIDE DEF first, n
  <2>. QED
    BY <1>3, <1>4, <1>9
<1>11. \A g \in 1..c : \A t \in ToSet(gs[g]) : batch_key(t) = key(pos[g])
  <2>1. \A i : \A t \in Members(i) : batch_key(t) = key(i)
    OBVIOUS
  <2>. HIDE DEF Members, key
  <2>. QED
    BY <1>m, <2>1
<1>12. \A g, h \in 1..c : g # h => ToSet(gs[g]) \cap ToSet(gs[h]) = {}
  <2>. SUFFICES ASSUME NEW g \in 1..c, NEW h \in 1..c, g # h, NEW t \in ToSet(gs[g]), t \in ToSet(gs[h])
                PROVE  FALSE
    OBVIOUS
  <2>. HIDE DEF first
  <2>. QED
    BY <1>6, <1>9, <1>10, <1>11
<1>13. \A g \in 1..c : ToSet(gs[g]) \subseteq ToSet(ts)
  <2>1. \A i : Members(i) \subseteq ToSet(ts)
    BY <1>1
  <2>. HIDE DEF Members
  <2>. QED
    BY <1>m, <2>1
<1>14. ASSUME NEW i \in 1..n PROVE \E g \in 1..c : ts[i] \in ToSet(gs[g])
  <2>1. PICK f \in first : key(f) = key(i)
    BY <1>5
  <2>2. PICK g \in 1..c : pos[g] = f
    BY <1>7, <2>1
  <2>3. ts[i] \in ToSet(batch[f])
    BY <1>3, <1>4, <2>1
  <2>. QED
    BY <1>9, <2>2, <2>3
<1>15. UNION {ToSet(gs[g]) : g \in 1..c} = ToSet(ts)
  <2>1. \A t \in ToSet(ts) : \E g \in 1..c : t \in ToSet(gs[g])
    BY <1>1, <1>14
  <2>. QED
    BY <1>13, <2>1
<1>16. \A g \in 1..c : \A s, t \in ToSet(gs[g]) : batch_key(s) = batch_key(t)
  <2>. HIDE DEF key
  <2>. QED
    BY <1>11
<1>17. Len(gs) = c
  BY <1>9
<1>. QED
  BY <1>12, <1>15, <1>16, <1>17, Zenon

-----------------------------------------------------------------------------
(* Ranking and allocation *)

Ranked(s) == s.never_observed \in BOOLEAN /\ s.normalized_age \in Int /\ s.tie_break \in Int

\* _rank_key orders scores, so that ties are all that is left to the sort.
LEMMA OutranksIsAnOrder ==
    ASSUME NEW s, NEW t, NEW u, Ranked(s), Ranked(t), Ranked(u)
    PROVE  /\ ~outranks(s, s)
           /\ ~(outranks(s, t) /\ outranks(t, s))
           /\ outranks(s, t) /\ ~outranks(u, t) => outranks(s, u)
           /\ outranks(s, t) /\ ~outranks(s, u) => outranks(u, t)
           /\ ~outranks(t, s) /\ ~outranks(u, t) => ~outranks(u, s)
BY DEF outranks, Ranked

NotAfter(scored, n) ==
    {pair \in (1..n) \X (1..n) :
        \/ outranks(scored[pair[1]], scored[pair[2]])
        \/ pair[1] <= pair[2] /\ ~outranks(scored[pair[2]], scored[pair[1]])}

\* rank_tasks is a permutation in which nothing stands before what outranks it.
LEMMA RankingIsAPermutation ==
    ASSUME NEW n \in Nat, NEW scored, Len(scored) = n, \A i \in 1..n : Ranked(scored[i])
    PROVE  \E f \in [1..n -> 1..n] :
               /\ rank_tasks(scored) = [p \in 1..n |-> scored[f[p]]]
               /\ \A i \in 1..n : \E p \in 1..n : f[p] = i
               /\ \A p, q \in 1..n : f[p] = f[q] => p = q
               /\ \A p, q \in 1..n : p < q => ~outranks(scored[f[q]], scored[f[p]])
<1>. DEFINE S == 1..n
            R == NotAfter(scored, n)
            place(i) == Cardinality({k \in 1..n : \/ outranks(scored[k], scored[i])
                                                  \/ k <= i /\ ~outranks(scored[i], scored[k])})
            f == [p \in 1..n |-> CHOOSE i \in 1..n : place(i) = p]
<1>1. IsFiniteSet(S) /\ Cardinality(S) = n
  BY FS_Interval
<1>2. IsTotalOrder(S, R)
  <2>0. \A i, j \in S : <<i, j>> \in R <=> \/ outranks(scored[i], scored[j])
                                           \/ i <= j /\ ~outranks(scored[j], scored[i])
    BY DEF NotAfter
  <2>1. \A i, j \in S : <<i, j>> \in R \/ <<j, i>> \in R
    <3>. SUFFICES ASSUME NEW i \in S, NEW j \in S PROVE <<i, j>> \in R \/ <<j, i>> \in R
      OBVIOUS
    <3>. QED
      BY OutranksIsAnOrder DEF NotAfter
  <2>2. \A i, j \in S : <<i, j>> \in R /\ <<j, i>> \in R => i = j
    <3>. SUFFICES ASSUME NEW i \in S, NEW j \in S, <<i, j>> \in R, <<j, i>> \in R PROVE i = j
      OBVIOUS
    <3>. QED
      BY OutranksIsAnOrder DEF NotAfter
  <2>3. \A i, j, k \in S : <<i, j>> \in R /\ <<j, k>> \in R => <<i, k>> \in R
    <3>. SUFFICES ASSUME NEW i \in S, NEW j \in S, NEW k \in S, <<i, j>> \in R, <<j, k>> \in R
                  PROVE  <<i, k>> \in R
      OBVIOUS
    <3>1. Ranked(scored[i]) /\ Ranked(scored[j]) /\ Ranked(scored[k])
      OBVIOUS
    <3>2. /\ outranks(scored[i], scored[j]) \/ (i <= j /\ ~outranks(scored[j], scored[i]))
          /\ outranks(scored[j], scored[k]) \/ (j <= k /\ ~outranks(scored[k], scored[j]))
      BY <2>0
    <3>3. \/ outranks(scored[i], scored[k])
          \/ i <= k /\ ~outranks(scored[k], scored[i])
      <4>1. i <= j /\ j <= k => i <= k
        OBVIOUS
      <4>2. /\ ~outranks(scored[k], scored[j]) /\ ~outranks(scored[j], scored[i])
               => ~outranks(scored[k], scored[i])
            /\ outranks(scored[i], scored[j]) /\ ~outranks(scored[k], scored[j])
               => outranks(scored[i], scored[k])
            /\ ~(outranks(scored[j], scored[k]) /\ outranks(scored[k], scored[j]))
            /\ ~(outranks(scored[i], scored[j]) /\ outranks(scored[j], scored[i]))
        BY <3>1, OutranksIsAnOrder
      <4>3. outranks(scored[j], scored[k]) /\ ~outranks(scored[j], scored[i])
            => outranks(scored[i], scored[k])
        BY <3>1, OutranksIsAnOrder
      <4>. QED
        BY <3>2, <4>1, <4>2, <4>3
    <3>. QED
      BY <2>0, <3>3
  <2>. QED
    BY <2>1, <2>2, <2>3 DEF IsTotalOrder
<1>3. \A i \in S : Rank(S, R, i) = place(i)
  <2>. SUFFICES ASSUME NEW i \in S
                PROVE  Upto(S, R, i) = {k \in 1..n : \/ outranks(scored[k], scored[i])
                                                     \/ k <= i /\ ~outranks(scored[i], scored[k])}
    BY DEF Rank
  <2>. QED
    BY DEF Upto, NotAfter
<1>4. rank_tasks(scored) = [p \in 1..n |-> scored[f[p]]]
  BY DEF rank_tasks
<1>5. f = [p \in 1..n |-> CHOOSE i \in S : place(i) = p]
  OBVIOUS
<1>. HIDE DEF place, f, R
<1>6. \A p \in 1..n : f[p] \in S /\ Rank(S, R, f[p]) = p
  <2>. SUFFICES ASSUME NEW p \in 1..n PROVE f[p] \in S /\ Rank(S, R, f[p]) = p
    OBVIOUS
  <2>1. \E i \in S : Rank(S, R, i) = p
    BY <1>1, <1>2, EveryRankIsTaken
  <2>2. \E i \in S : place(i) = p
    BY <1>3, <2>1
  <2>3. f[p] = CHOOSE i \in S : place(i) = p
    BY <1>5
  <2>4. f[p] \in S /\ place(f[p]) = p
    BY <2>2, <2>3
  <2>. QED
    BY <1>3, <2>4
<1>7. f \in [1..n -> 1..n]
  BY <1>5, <1>6
<1>8. ASSUME NEW i \in 1..n PROVE \E p \in 1..n : f[p] = i
  <2>1. Rank(S, R, i) \in 1..n
    BY <1>1, <1>2, RanksAreInOrder
  <2>2. PICK p \in 1..n : p = Rank(S, R, i)
    BY <2>1
  <2>3. f[p] \in S /\ Rank(S, R, f[p]) = Rank(S, R, i)
    BY <1>6, <2>2
  <2>4. f[p] = i
    BY <1>1, <1>2, <2>3, RanksAreDistinct
  <2>. QED
    BY <2>4
<1>9. ASSUME NEW p \in 1..n, NEW q \in 1..n, f[p] = f[q] PROVE p = q
  BY <1>6, <1>9
<1>10. ASSUME NEW p \in 1..n, NEW q \in 1..n, p < q PROVE ~outranks(scored[f[q]], scored[f[p]])
  <2>1. f[p] \in S /\ f[q] \in S /\ Rank(S, R, f[p]) = p /\ Rank(S, R, f[q]) = q
    BY <1>6
  <2>2. <<f[q], f[p]>> \notin R
    <3>. SUFFICES ASSUME <<f[q], f[p]>> \in R PROVE FALSE
      OBVIOUS
    <3>1. f[q] # f[p]
      BY <1>9, <1>10
    <3>2. Rank(S, R, f[q]) < Rank(S, R, f[p])
      BY <1>1, <1>2, <2>1, <3>1, RanksAreInOrder
    <3>. QED
      BY <1>10, <2>1, <3>2
  <2>. QED
    BY <2>1, <2>2 DEF R, NotAfter
<1>. QED
  BY <1>4, <1>7, <1>8, <1>9, <1>10

-----------------------------------------------------------------------------
(* The invariant: what is kept is what expand, collapse_batchable and          *)
(* allocate_budget make of the request and of the days its tasks were observed. *)

Scores(r, ts, seen, now) == [i \in 1..Len(ts) |-> score_task(r, ts[i], seen[ts[i]], now)]

Asked ==
    /\ request \in Requests
    /\ tasks = expand(request.query) /\ groups = collapse_batchable(tasks)
    /\ last_observed \in [ToSet(tasks) -> {NULL} \cup 0..(today - 1)]

Inv ==
    /\ today \in Nat /\ FirstDay <= today
    /\ request # NULL => Asked
    /\ request = NULL => tasks = <<>> /\ groups = <<>> /\ allocation = NULL /\ today = FirstDay
    /\ allocation # NULL =>
           allocation = allocate_budget(Scores(request, tasks, last_observed, today), request.budget)

LEMMA RequestTypes ==
    ASSUME NEW r \in Requests
    PROVE  /\ r.budget \in Nat /\ r.max_staleness_days \in Int
           /\ r.weights.preference \in Int /\ r.weights.proximity \in Int
           /\ QueryTypes(r.query)
BY SearchPlanningAssumption DEF QueryTypes, Locations

LEMMA InitInv == Init => Inv
BY SearchPlanningAssumption DEF Init, Inv

LEMMA NextInv == Inv /\ [Next]_vars => Inv'
<1>. SUFFICES ASSUME Inv, [Next]_vars PROVE Inv'
  OBVIOUS
<1>1. ASSUME NEW r \in Requests, Ask(r) PROVE Inv'
  <2>1. request' = r /\ r # NULL /\ today' = today /\ allocation' = allocation /\ allocation = NULL
    BY <1>1, SearchPlanningAssumption DEF Ask, Inv
  <2>2. today \in Nat /\ FirstDay <= today /\ FirstDay \in Nat /\ PastDays \subseteq 0..(FirstDay - 1)
    BY SearchPlanningAssumption DEF Inv
  <2>3. {NULL} \cup PastDays \subseteq {NULL} \cup 0..(today - 1)
    <3>1. \A d \in PastDays : d \in 0..(today - 1)
      BY <2>2
    <3>. QED
      BY <3>1
  <2>4. last_observed' \in [ToSet(tasks') -> {NULL} \cup 0..(today' - 1)]
    BY <1>1, <2>1, <2>3 DEF Ask
  <2>5. Asked'
    BY <1>1, <2>1, <2>4 DEF Asked, Ask
  <2>. QED
    BY <2>1, <2>2, <2>5 DEF Inv
<1>2. CASE Allocate
  <2>1. allocation' = allocate_budget(Scores(request, tasks, last_observed, today), request.budget)
    BY <1>2 DEF Allocate, Scores
  <2>2. /\ UNCHANGED <<today, request, tasks, groups, last_observed>> /\ request # NULL
    BY <1>2 DEF Allocate
  <2>3. (request # NULL => Asked)'
    BY <2>2 DEF Inv, Asked
  <2>4. Scores(request, tasks, last_observed, today)' = Scores(request, tasks, last_observed, today)
    BY <2>2
  <2>. QED
    BY <2>1, <2>2, <2>3, <2>4 DEF Inv
<1>3. CASE CallsReturn
  <2>1. /\ today' = today + 1 /\ allocation' = NULL /\ request # NULL
        /\ UNCHANGED <<request, tasks, groups>> /\ today \in Nat /\ Asked
    BY <1>3 DEF CallsReturn, Inv
  <2>2. PICK found : last_observed' = [t \in DOMAIN last_observed |->
                                          IF t \in found THEN today ELSE last_observed[t]]
    BY <1>3 DEF CallsReturn
  <2>3. last_observed' \in [ToSet(tasks) -> {NULL} \cup 0..((today + 1) - 1)]
    <3>1. DOMAIN last_observed = ToSet(tasks)
      BY <2>1 DEF Asked
    <3>2. \A t \in ToSet(tasks) : last_observed'[t] \in {NULL} \cup 0..today
      BY <2>1, <2>2, <3>1 DEF Asked
    <3>. QED
      BY <2>1, <2>2, <3>1, <3>2
  <2>4. Asked'
    BY <2>1, <2>3 DEF Asked
  <2>. QED
    BY <2>1, <2>4, SearchPlanningAssumption DEF Inv
<1>4. CASE UNCHANGED vars
  <2>1. Scores(request, tasks, last_observed, today)' = Scores(request, tasks, last_observed, today)
    BY <1>4 DEF vars
  <2>. QED
    BY <1>4, <2>1 DEF vars, Inv, Asked
<1>. QED
  BY <1>1, <1>2, <1>3, <1>4 DEF Next

THEOREM Invariance == Spec => []Inv
BY InitInv, NextInv, PTL DEF Spec

-----------------------------------------------------------------------------
(* What an allocation is *)

LEMMA MinOfTwo ==
    ASSUME NEW a \in Nat, NEW b \in Nat
    PROVE  Min({a, b}) \in Nat /\ Min({a, b}) <= a /\ Min({a, b}) <= b /\ Min({a, b}) \in {a, b}
<1>1. \E x \in {a, b} : \A y \in {a, b} : x <= y
  OBVIOUS
<1>2. Min({a, b}) = CHOOSE x \in {a, b} : \A y \in {a, b} : x <= y
  BY DEF Min
<1>3. Min({a, b}) \in {a, b} /\ \A y \in {a, b} : Min({a, b}) <= y
  BY <1>1, <1>2
<1>. QED
  BY <1>3

LEMMA WeightType ==
    ASSUME NEW s, Locations(s), NEW c \in {l.code : l \in ToSet(s)}
    PROVE  weight_of(s, c) \in Int
<1>1. \E l \in ToSet(s) : l.code = c
  OBVIOUS
<1>. DEFINE l == CHOOSE l \in ToSet(s) : l.code = c
<1>2. l \in ToSet(s)
  BY <1>1
<1>3. l.weight \in Int /\ FULL_WEIGHT \in Nat
  BY <1>2, SearchPlanningAssumption DEF Locations
<1>4. weight_of(s, c) = clamp(l.weight, FULL_WEIGHT)
  BY DEF weight_of
<1>. HIDE DEF l
<1>. QED
  BY <1>3, <1>4 DEF clamp

LEMMA ScoreTypes ==
    ASSUME NEW r \in Requests, NEW t \in Product(r.query), NEW now \in Nat, NEW seen \in {NULL} \cup Int
    PROVE  LET s == score_task(r, t, seen, now) IN s.task = t /\ Ranked(s)
<1>. DEFINE s == score_task(r, t, seen, now)
<1>1. /\ t.origin \in {l.code : l \in ToSet(r.query.origins)}
      /\ t.destination \in {l.code : l \in ToSet(r.query.destinations)}
      /\ t.departure_date \in Int
  BY RequestTypes DEF Product, QueryTypes
<1>2. preference(r.query, t) \in Int
  <2>1. weight_of(r.query.origins, t.origin) \in Int /\ weight_of(r.query.destinations, t.destination) \in Int
    BY <1>1, RequestTypes, WeightType DEF QueryTypes
  <2>. QED
    BY <2>1 DEF preference
<1>3. _closeness(t.departure_date, now) \in Int
  BY <1>1, SearchPlanningAssumption DEF _closeness, clamp
<1>4. normalized_age(seen, now, r.max_staleness_days) \in Int
  BY RequestTypes, SearchPlanningAssumption DEF normalized_age, clamp
<1>5. /\ s.task = t /\ s.never_observed = (seen = NULL)
      /\ s.normalized_age = normalized_age(seen, now, r.max_staleness_days)
      /\ s.tie_break = r.weights.preference * HORIZON_DAYS * preference(r.query, t)
                       + r.weights.proximity * FULL_WEIGHT * FULL_WEIGHT * _closeness(t.departure_date, now)
  BY DEF score_task
<1>6. s.tie_break \in Int
  <2>1. \A a, b, c, d, e, f \in Int : a * b * c + d * e * e * f \in Int
    OBVIOUS
  <2>2. /\ r.weights.preference \in Int /\ r.weights.proximity \in Int
        /\ HORIZON_DAYS \in Int /\ FULL_WEIGHT \in Int
    BY RequestTypes, SearchPlanningAssumption
  <2>. QED
    BY <1>2, <1>3, <1>5, <2>1, <2>2
<1>. HIDE DEF s
<1>. QED
  BY <1>4, <1>5, <1>6 DEF s, Ranked

Score(t) == score_task(request, t, last_observed[t], today)

Spent == Min({request.budget, Len(tasks)})

LEMMA TasksTypes ==
    ASSUME Asked
    PROVE  /\ tasks \in Seq(Product(request.query)) /\ Len(tasks) \in Nat
           /\ DOMAIN tasks = 1..Len(tasks)
           /\ ToSet(tasks) = Product(request.query)
           /\ \A i \in 1..Len(tasks) : tasks[i] \in ToSet(tasks)
<1>1. tasks \in Seq(Product(request.query)) /\ ToSet(tasks) = Product(request.query)
  BY RequestTypes, ExpansionIsTheProduct DEF Asked
<1>. QED
  BY <1>1, ToSetOfSeq

\* An allocation cuts a permutation of the tasks in two.
LEMMA AllocationIsAPermutation ==
    ASSUME Inv, allocation # NULL
    PROVE  /\ Spent \in 0..Len(tasks) /\ Spent \in {request.budget, Len(tasks)}
           /\ \E f \in [1..Len(tasks) -> 1..Len(tasks)] :
                  /\ \A i \in 1..Len(tasks) : \E p \in 1..Len(tasks) : f[p] = i
                  /\ \A p, q \in 1..Len(tasks) : f[p] = f[q] => p = q
                  /\ \A p, q \in 1..Len(tasks) :
                         p < q => ~outranks(Score(tasks[f[q]]), Score(tasks[f[p]]))
                  /\ allocation.to_execute \in Seq(ToSet(tasks))
                  /\ Len(allocation.to_execute) = Spent
                  /\ \A p \in 1..Spent : allocation.to_execute[p] = tasks[f[p]]
                  /\ allocation.not_explored \in Seq(ToSet(tasks))
                  /\ Len(allocation.not_explored) = Len(tasks) - Spent
                  /\ \A p \in 1..(Len(tasks) - Spent) :
                         allocation.not_explored[p] = tasks[f[Spent + p]]
<1>. DEFINE n == Len(tasks)
            scored == Scores(request, tasks, last_observed, today)
            ranked == [p \in 1..Len(scored) |-> rank_tasks(scored)[p].task]
<1>1. Asked /\ today \in Nat /\ allocation = allocate_budget(scored, request.budget)
  BY DEF Inv
<1>2. /\ tasks \in Seq(Product(request.query)) /\ n \in Nat /\ ToSet(tasks) = Product(request.query)
      /\ \A i \in 1..n : tasks[i] \in ToSet(tasks)
  BY <1>1, TasksTypes
<1>3. request.budget \in Nat
  BY <1>1, RequestTypes DEF Asked
<1>4. \A i \in 1..n : /\ scored[i] = Score(tasks[i])
                      /\ Score(tasks[i]).task = tasks[i] /\ Ranked(Score(tasks[i]))
  <2>. SUFFICES ASSUME NEW i \in 1..n
                PROVE  /\ scored[i] = Score(tasks[i])
                       /\ Score(tasks[i]).task = tasks[i] /\ Ranked(Score(tasks[i]))
    OBVIOUS
  <2>1. scored[i] = Score(tasks[i])
    BY DEF Scores, Score
  <2>2. last_observed[tasks[i]] \in {NULL} \cup Int /\ request \in Requests
    BY <1>1, <1>2 DEF Asked
  <2>3. tasks[i] \in Product(request.query)
    BY <1>2
  <2>. QED
    BY <1>1, <2>1, <2>2, <2>3, ScoreTypes DEF Score
<1>5. Len(scored) = n
  <2>1. DOMAIN scored = 1..n /\ scored = [i \in 1..n |-> scored[i]]
    BY DEF Scores
  <2>2. scored \in [1..n -> {scored[i] : i \in 1..n}]
    BY <2>1
  <2>. QED
    BY <1>2, <2>2, SequenceOf
<1>. HIDE DEF scored
<1>6. PICK f \in [1..n -> 1..n] :
          /\ rank_tasks(scored) = [p \in 1..n |-> scored[f[p]]]
          /\ \A i \in 1..n : \E p \in 1..n : f[p] = i
          /\ \A p, q \in 1..n : f[p] = f[q] => p = q
          /\ \A p, q \in 1..n : p < q => ~outranks(scored[f[q]], scored[f[p]])
  <2>1. \A i \in 1..n : Ranked(scored[i])
    BY <1>4
  <2>. HIDE DEF n
  <2>. QED
    BY <1>2, <2>1, <1>5, RankingIsAPermutation
<1>7. ranked = [p \in 1..n |-> tasks[f[p]]]
  BY <1>4, <1>5, <1>6
<1>8. ranked \in Seq(ToSet(tasks)) /\ Len(ranked) = n
  <2>1. ranked \in [1..n -> ToSet(tasks)]
    BY <1>2, <1>7
  <2>. HIDE DEF ranked
  <2>. QED
    BY <1>2, <2>1, SequenceOf
<1>9. /\ allocation.to_execute = SubSeq(ranked, 1, Spent)
      /\ allocation.not_explored = SubSeq(ranked, Spent + 1, n)
  <2>1. allocation = [to_execute |-> SubSeq(ranked, 1, Min({request.budget, Len(ranked)})),
                      not_explored |-> SubSeq(ranked, Min({request.budget, Len(ranked)}) + 1, Len(ranked))]
    BY <1>1 DEF allocate_budget
  <2>. HIDE DEF ranked
  <2>. QED
    BY <1>8, <2>1 DEF Spent
<1>10. Spent \in Nat /\ Spent <= n /\ Spent \in {request.budget, n}
  BY <1>2, <1>3, MinOfTwo DEF Spent
<1>11. \A p \in 1..n : ranked[p] = tasks[f[p]] /\ ranked[p] \in ToSet(tasks)
  BY <1>2, <1>7
<1>. HIDE DEF ranked, n
<1>12. /\ allocation.to_execute \in Seq(ToSet(tasks)) /\ Len(allocation.to_execute) = Spent
       /\ \A p \in 1..Spent : allocation.to_execute[p] = tasks[f[p]]
  <2>1. 1 \in Int /\ Spent \in Int /\ \A i \in 1..Spent : i \in 1..n /\ ranked[i] \in ToSet(tasks)
    BY <1>2, <1>10, <1>11
  <2>2. /\ SubSeq(ranked, 1, Spent) \in Seq(ToSet(tasks))
        /\ Len(SubSeq(ranked, 1, Spent)) = IF 1 <= Spent THEN Spent - 1 + 1 ELSE 0
        /\ \A i \in 1..(Spent - 1 + 1) : SubSeq(ranked, 1, Spent)[i] = ranked[1 + i - 1]
    BY <2>1, SubSeqProperties
  <2>3. \A i \in 1..Spent : 1 + i - 1 = i /\ i \in 1..(Spent - 1 + 1)
    BY <1>10
  <2>. QED
    BY <1>9, <1>10, <1>11, <2>1, <2>2, <2>3
<1>13. /\ allocation.not_explored \in Seq(ToSet(tasks)) /\ Len(allocation.not_explored) = n - Spent
       /\ \A p \in 1..(n - Spent) : allocation.not_explored[p] = tasks[f[Spent + p]]
  <2>1. /\ Spent + 1 \in Int /\ n \in Int
        /\ \A i \in (Spent + 1)..n : i \in 1..n /\ ranked[i] \in ToSet(tasks)
    BY <1>2, <1>10, <1>11
  <2>2. /\ SubSeq(ranked, Spent + 1, n) \in Seq(ToSet(tasks))
        /\ Len(SubSeq(ranked, Spent + 1, n)) = IF Spent + 1 <= n THEN n - (Spent + 1) + 1 ELSE 0
        /\ \A i \in 1..(n - (Spent + 1) + 1) :
               SubSeq(ranked, Spent + 1, n)[i] = ranked[(Spent + 1) + i - 1]
    BY <2>1, SubSeqProperties
  <2>3. \A i \in 1..(n - Spent) : /\ (Spent + 1) + i - 1 = Spent + i /\ Spent + i \in 1..n
                                  /\ i \in 1..(n - (Spent + 1) + 1)
    BY <1>2, <1>10
  <2>4. Len(SubSeq(ranked, Spent + 1, n)) = n - Spent
    BY <1>2, <1>10, <2>2
  <2>. QED
    BY <1>9, <1>11, <2>2, <2>3, <2>4
<1>14. \A p, q \in 1..n : p < q => ~outranks(Score(tasks[f[q]]), Score(tasks[f[p]]))
  <2>. SUFFICES ASSUME NEW p \in 1..n, NEW q \in 1..n, p < q
                PROVE  ~outranks(Score(tasks[f[q]]), Score(tasks[f[p]]))
    OBVIOUS
  <2>1. f[p] \in 1..n /\ f[q] \in 1..n
    OBVIOUS
  <2>2. scored[f[p]] = Score(tasks[f[p]]) /\ scored[f[q]] = Score(tasks[f[q]])
    BY <1>4, <2>1 DEF n
  <2>. QED
    BY <1>6, <2>2
<1>15. Spent \in 0..n
  BY <1>2, <1>10
<1>16. /\ \A i \in 1..n : \E p \in 1..n : f[p] = i
       /\ \A p, q \in 1..n : f[p] = f[q] => p = q
  BY <1>6
<1>. QED
  BY <1>10, <1>12, <1>13, <1>14, <1>15, <1>16, Zenon DEF n

-----------------------------------------------------------------------------
(* The order in which the budget is spent *)

\* What a call is spent on is not outranked by what is passed over.
LEMMA ExecutedIsNotOutranked ==
    ASSUME Inv, allocation # NULL,
           NEW run \in ToSet(allocation.to_execute), NEW passed \in ToSet(allocation.not_explored)
    PROVE  run \in ToSet(tasks) /\ passed \in ToSet(tasks) /\ ~outranks(Score(passed), Score(run))
<1>. DEFINE n == Len(tasks)
<1>1. Asked /\ n \in Nat
  BY TasksTypes DEF Inv
<1>2. PICK f \in [1..n -> 1..n] :
          /\ \A p, q \in 1..n : p < q => ~outranks(Score(tasks[f[q]]), Score(tasks[f[p]]))
          /\ allocation.to_execute \in Seq(ToSet(tasks))
          /\ Len(allocation.to_execute) = Spent
          /\ \A p \in 1..Spent : allocation.to_execute[p] = tasks[f[p]]
          /\ allocation.not_explored \in Seq(ToSet(tasks))
          /\ Len(allocation.not_explored) = n - Spent
          /\ \A p \in 1..(n - Spent) : allocation.not_explored[p] = tasks[f[Spent + p]]
  BY AllocationIsAPermutation
<1>3. Spent \in 0..n
  BY AllocationIsAPermutation
<1>4. PICK p \in 1..Spent : allocation.to_execute[p] = run
  BY <1>2, ToSetOfSeq
<1>5. PICK q \in 1..(n - Spent) : allocation.not_explored[q] = passed
  BY <1>2, ToSetOfSeq
<1>6. run \in ToSet(tasks) /\ passed \in ToSet(tasks)
  BY <1>2, ToSetOfSeq
<1>7. p \in 1..n /\ Spent + q \in 1..n /\ p < Spent + q
  BY <1>1, <1>3
<1>. QED
  BY <1>2, <1>4, <1>5, <1>6, <1>7

\* How scores compare, in days.
LEMMA OutrankedByDays ==
    ASSUME Inv, Asked, NEW s \in ToSet(tasks), NEW t \in ToSet(tasks), ~outranks(Score(t), Score(s)),
           last_observed[s] # NULL
    PROVE  /\ last_observed[t] # NULL
           /\ last_observed[s] \in 0..(today - 1) /\ last_observed[t] \in 0..(today - 1)
           /\ \/ last_observed[s] <= last_observed[t]
              \/ /\ today - last_observed[t] >= request.max_staleness_days
                 /\ today - last_observed[s] >= request.max_staleness_days
<1>. DEFINE m == request.max_staleness_days
            a == last_observed[s]
            b == last_observed[t]
<1>1. /\ today \in Nat /\ m \in Int /\ NULL \notin Int
      /\ a \in {NULL} \cup 0..(today - 1) /\ b \in {NULL} \cup 0..(today - 1)
  BY RequestTypes, SearchPlanningAssumption DEF Inv, Asked
<1>2. /\ Score(s).never_observed = (a = NULL) /\ Score(t).never_observed = (b = NULL)
      /\ Score(s).normalized_age = normalized_age(a, today, m)
      /\ Score(t).normalized_age = normalized_age(b, today, m)
  BY DEF Score, score_task
<1>3. b # NULL
  BY <1>2 DEF outranks
<1>. HIDE DEF a, b
<1>4. ~(normalized_age(b, today, m) > normalized_age(a, today, m))
  BY <1>2, <1>3 DEF outranks, a
<1>. HIDE DEF m
<1>5. a \in 0..(today - 1) /\ b \in 0..(today - 1)
  BY <1>1, <1>3 DEF a
<1>6. a <= b \/ (today - b >= m /\ today - a >= m)
  BY <1>1, <1>4, <1>5 DEF normalized_age, clamp
<1>. QED
  BY <1>3, <1>5, <1>6 DEF a, b, m

\* A call is never spent on a task that was observed while one that never was is
\* passed over, nor on one seen more recently than one passed over, as far as
\* staleness is counted: whatever the weights of rank_tasks' tie-break.
THEOREM UnknownFirst == Spec => []UnknownOutranksKnown
<1>1. Inv => UnknownOutranksKnown
  <2>. SUFFICES ASSUME Inv, allocation # NULL,
                       NEW run \in ToSet(allocation.to_execute), NEW passed \in ToSet(allocation.not_explored),
                       last_observed[run] # NULL
                PROVE  /\ last_observed[passed] # NULL
                       /\ \/ last_observed[run] <= last_observed[passed]
                          \/ today - last_observed[passed] >= request.max_staleness_days
    BY DEF UnknownOutranksKnown
  <2>1. Asked
    BY DEF Inv
  <2>. QED
    BY <2>1, ExecutedIsNotOutranked, OutrankedByDays
<1>. QED
  BY <1>1, Invariance, PTL

-----------------------------------------------------------------------------
(* Coverage.  Count the tasks observed since day w, while every call is       *)
(* answered: each day adds the whole budget to them, because a task observed  *)
(* since w is called again only when no other is left.                        *)

Since(w) == {i \in 1..Len(tasks) : last_observed[tasks[i]] # NULL /\ last_observed[tasks[i]] >= w}

Covered(w) ==
    \/ Cardinality(Since(w)) >= Len(tasks)
    \/ Cardinality(Since(w)) >= request.budget * (today - w)

CoverageInv ==
    request # NULL /\ answered =>
        \A w \in FirstDay..today : today - w <= request.max_staleness_days => Covered(w)

LEMMA CoveredAtOnce == Inv /\ Asked => Covered(today)
<1>. SUFFICES ASSUME Inv, Asked PROVE Covered(today)
  OBVIOUS
<1>1. /\ Len(tasks) \in Nat /\ Since(today) \in SUBSET (1..Len(tasks))
      /\ request.budget \in Nat /\ today \in Nat
  BY TasksTypes, RequestTypes DEF Since, Asked, Inv
<1>2. Cardinality(Since(today)) \in Nat
  BY <1>1, Intervals
<1>3. request.budget * (today - today) = 0
  BY <1>1
<1>. QED
  BY <1>2, <1>3 DEF Covered

LEMMA InitCoverage == Init => CoverageInv
BY DEF Init, CoverageInv

\* The positions an allocation executes.
LEMMA ExecutedPositions ==
    ASSUME Inv, allocation # NULL
    PROVE  \E E \in SUBSET (1..Len(tasks)) :
               /\ IsFiniteSet(E) /\ Cardinality(E) = Spent
               /\ ToSet(allocation.to_execute) = {tasks[i] : i \in E}
               /\ \A i \in E, k \in (1..Len(tasks)) \ E : ~outranks(Score(tasks[k]), Score(tasks[i]))
<1>. DEFINE n == Len(tasks)
<1>1. n \in Nat /\ Spent \in 0..n
  BY AllocationIsAPermutation, TasksTypes DEF Inv
<1>2. PICK f \in [1..n -> 1..n] :
          /\ \A i \in 1..n : \E p \in 1..n : f[p] = i
          /\ \A p, q \in 1..n : f[p] = f[q] => p = q
          /\ \A p, q \in 1..n : p < q => ~outranks(Score(tasks[f[q]]), Score(tasks[f[p]]))
          /\ allocation.to_execute \in Seq(ToSet(tasks))
          /\ Len(allocation.to_execute) = Spent
          /\ \A p \in 1..Spent : allocation.to_execute[p] = tasks[f[p]]
  BY AllocationIsAPermutation
<1>. HIDE DEF n
<1>. DEFINE E == {f[p] : p \in 1..Spent}
            g == [p \in 1..Spent |-> f[p]]
<1>3. \A p \in 1..Spent : p \in 1..n
  BY <1>1
<1>4. g \in [1..Spent -> E] /\ (\A i \in E : \E p \in 1..Spent : g[p] = i) /\ DOMAIN g = 1..Spent
  OBVIOUS
<1>5. \A p, q \in 1..Spent : g[p] = g[q] => p = q
  BY <1>2, <1>3
<1>6. E \in SUBSET (1..n)
  BY <1>3
<1>7. ToSet(allocation.to_execute) = {tasks[i] : i \in E}
  <2>1. ToSet(allocation.to_execute) \subseteq {tasks[i] : i \in E}
    <3>. SUFFICES ASSUME NEW x \in ToSet(allocation.to_execute) PROVE x \in {tasks[i] : i \in E}
      OBVIOUS
    <3>1. PICK p \in 1..Spent : allocation.to_execute[p] = x
      BY <1>2, ToSetOfSeq
    <3>2. f[p] \in E /\ tasks[f[p]] = x
      BY <1>2, <3>1
    <3>. QED
      BY <3>2
  <2>2. \A p \in 1..Spent : tasks[f[p]] \in ToSet(allocation.to_execute)
    BY <1>2, ToSetOfSeq
  <2>. QED
    BY <2>1, <2>2
<1>8. ASSUME NEW i \in E, NEW k \in (1..n) \ E PROVE ~outranks(Score(tasks[k]), Score(tasks[i]))
  <2>1. PICK p \in 1..Spent : f[p] = i
    OBVIOUS
  <2>2. PICK q \in 1..n : f[q] = k
    BY <1>2
  <2>3. q \notin 1..Spent
    BY <2>2
  <2>4. p \in 1..n /\ p < q
    BY <1>1, <1>3, <2>3
  <2>. QED
    BY <1>2, <2>1, <2>2, <2>4
<1>. HIDE DEF E, g
<1>9. IsFiniteSet(E) /\ Cardinality(E) = Spent
  <2>1. g \in Bijection(1..Spent, E)
    BY <1>4, <1>5 DEF Bijection, Injection, Surjection, IsInjective
  <2>2. ExistsBijection(1..Spent, E)
    BY <2>1 DEF ExistsBijection
  <2>3. IsFiniteSet(1..Spent) /\ Cardinality(1..Spent) = Spent
    BY <1>1, FS_Interval
  <2>. QED
    BY <2>2, <2>3, FS_Bijection
<1>. QED
  BY <1>6, <1>7, <1>8, <1>9 DEF n

\* A task that is not outranked by one observed less than max_staleness_days ago, was
\* itself observed no earlier than any day that one was observed since.
LEMMA PassedOverSince ==
    ASSUME Inv, Asked, NEW w \in Nat, w <= today, today - w < request.max_staleness_days,
           NEW i \in Since(w), NEW k \in 1..Len(tasks), ~outranks(Score(tasks[k]), Score(tasks[i]))
    PROVE  k \in Since(w)
<1>1. i \in 1..Len(tasks) /\ last_observed[tasks[i]] # NULL /\ last_observed[tasks[i]] >= w
  BY DEF Since
<1>2. tasks[i] \in ToSet(tasks) /\ tasks[k] \in ToSet(tasks)
  BY <1>1, TasksTypes
<1>. DEFINE a == last_observed[tasks[i]]
            b == last_observed[tasks[k]]
<1>3. /\ b # NULL /\ a \in 0..(today - 1) /\ b \in 0..(today - 1)
      /\ a <= b \/ (today - b >= request.max_staleness_days /\ today - a >= request.max_staleness_days)
  BY <1>1, <1>2, OutrankedByDays
<1>4. today \in Nat /\ request.max_staleness_days \in Int
  BY RequestTypes DEF Inv, Asked
<1>5. a >= w
  BY <1>1
<1>6. b >= w
  <2>. HIDE DEF a, b
  <2>. QED
    BY <1>3, <1>4, <1>5
<1>. QED
  BY <1>3, <1>6 DEF Since

LEMMA NextCoverage == Inv /\ CoverageInv /\ [Next]_vars => CoverageInv'
<1>. SUFFICES ASSUME Inv, Inv', CoverageInv, [Next]_vars, request' # NULL, answered'
              PROVE  \A w \in FirstDay..today' : today' - w <= request'.max_staleness_days => Covered(w)'
  BY NextInv DEF CoverageInv
<1>0. Asked' /\ today \in Nat /\ FirstDay \in Nat
  BY SearchPlanningAssumption DEF Inv
<1>1. ASSUME NEW r \in Requests, Ask(r)
      PROVE  \A w \in FirstDay..today' : today' - w <= request'.max_staleness_days => Covered(w)'
  <2>1. today' = FirstDay
    BY <1>1 DEF Ask, Inv
  <2>2. \A w \in FirstDay..today' : w = today'
    BY <1>0, <2>1
  <2>3. (Inv /\ Asked => Covered(today))'
    BY CoveredAtOnce, PTL
  <2>4. Covered(today)'
    BY <1>0, <2>3
  <2>5. ASSUME NEW w \in FirstDay..today', w = today' PROVE Covered(w)'
    BY <2>4, <2>5 DEF Covered, Since
  <2>. QED
    BY <2>2, <2>5
<1>2. CASE Allocate \/ UNCHANGED vars
  <2>1. UNCHANGED <<today, request, tasks, last_observed, answered>>
    BY <1>2 DEF Allocate, vars
  <2>2. \A w : Covered(w)' <=> Covered(w)
    BY <2>1 DEF Covered, Since
  <2>. QED
    BY <2>1, <2>2 DEF CoverageInv
<1>3. CASE CallsReturn
  <2>1. /\ allocation # NULL /\ request # NULL /\ today' = today + 1
        /\ UNCHANGED <<request, tasks, groups>> /\ Asked
    BY <1>3 DEF CallsReturn, Inv
  <2>2. /\ answered
        /\ last_observed' = [t \in ToSet(tasks) |-> IF t \in ToSet(allocation.to_execute)
                                                    THEN today ELSE last_observed[t]]
    BY <1>3, <2>1 DEF CallsReturn, Asked
  <2>. DEFINE n == Len(tasks)
  <2>3. n \in Nat /\ \A i \in 1..n : tasks[i] \in ToSet(tasks)
    BY <2>1, TasksTypes
  <2>4. PICK E \in SUBSET (1..n) :
            /\ IsFiniteSet(E) /\ Cardinality(E) = Spent
            /\ ToSet(allocation.to_execute) = {tasks[i] : i \in E}
            /\ \A i \in E, k \in (1..n) \ E : ~outranks(Score(tasks[k]), Score(tasks[i]))
    BY <2>1, ExecutedPositions
  <2>5. /\ request.budget \in Nat /\ request.max_staleness_days \in Int
        /\ Spent \in 0..n /\ Spent \in {request.budget, n}
    BY <2>1, RequestTypes, AllocationIsAPermutation DEF Asked
  <2>. SUFFICES ASSUME NEW w \in FirstDay..today', today' - w <= request'.max_staleness_days
                PROVE  Covered(w)'
    OBVIOUS
  <2>6. CASE w = today'
    <3>1. (Inv /\ Asked => Covered(today))'
      BY CoveredAtOnce, PTL
    <3>2. Covered(today)'
      BY <1>0, <3>1
    <3>. QED
      BY <2>6, <3>2 DEF Covered, Since
  <2>7. CASE w # today'
    <3>1. w \in FirstDay..today /\ w \in Nat /\ today - w < request.max_staleness_days
      BY <1>0, <2>1, <2>5, <2>7
    <3>2. Covered(w)
      <4>1. today - w <= request.max_staleness_days
        BY <1>0, <2>5, <3>1
      <4>. QED
        BY <2>1, <2>2, <3>1, <4>1 DEF CoverageInv
    <3>3. Since(w) \cup E \subseteq Since(w)'
      <4>1. \A i \in Since(w) : i \in 1..n /\ tasks[i] \in ToSet(tasks) /\ last_observed[tasks[i]] # NULL
                                /\ last_observed[tasks[i]] >= w
        BY <2>3 DEF Since
      <4>2. \A i \in Since(w) \cup E : i \in 1..n /\ last_observed'[tasks[i]] # NULL
                                       /\ last_observed'[tasks[i]] >= w
        <5>1. today # NULL /\ today >= w
          BY <1>0, <3>1, SearchPlanningAssumption
        <5>2. \A i \in E : tasks[i] \in ToSet(tasks) /\ tasks[i] \in ToSet(allocation.to_execute)
          BY <2>3, <2>4
        <5>. QED
          BY <2>2, <4>1, <5>1, <5>2
      <4>. QED
        BY <2>1, <4>2 DEF Since
    <3>4. /\ Since(w)' \in SUBSET (1..n) /\ IsFiniteSet(Since(w)') /\ Cardinality(Since(w)') \in Nat
          /\ IsFiniteSet(Since(w)) /\ Cardinality(Since(w)) \in Nat
      <4>1. Since(w)' \in SUBSET (1..n) /\ Since(w) \in SUBSET (1..n)
        BY <2>1 DEF Since
      <4>. QED
        BY <4>1, <2>3, Intervals
    <3>5. CASE E \cap Since(w) # {}
      <4>1. PICK i \in E : i \in Since(w)
        BY <3>5
      <4>2. ASSUME NEW k \in (1..n) \ E PROVE k \in Since(w)
        <5>1. k \in 1..Len(tasks) /\ ~outranks(Score(tasks[k]), Score(tasks[i])) /\ w <= today
          BY <2>4, <3>1
        <5>. QED
          BY <2>1, <3>1, <4>1, <5>1, PassedOverSince
      <4>3. Since(w)' = 1..n
        BY <3>3, <3>4, <4>2
      <4>4. Cardinality(Since(w)') = Len(tasks)'
        BY <2>1, <2>3, <4>3, Intervals
      <4>. QED
        BY <2>1, <2>3, <4>4 DEF Covered
    <3>6. CASE E \cap Since(w) = {}
      <4>1. Cardinality(Since(w)') >= Cardinality(Since(w)) + Spent
        <5>1. Cardinality(Since(w) \cup E) = Cardinality(Since(w)) + Cardinality(E) - Cardinality(Since(w) \cap E)
          BY <2>4, <3>4, FS_Union
        <5>2. Cardinality(Since(w) \cap E) = 0 /\ Spent \in Nat
          <6>1. Since(w) \cap E = {}
            BY <3>6
          <6>. QED
            BY <2>3, <2>5, <6>1, FS_EmptySet
        <5>3. Cardinality(Since(w) \cup E) <= Cardinality(Since(w)')
          BY <3>3, <3>4, FS_Subset
        <5>4. Cardinality(Since(w) \cup E) = Cardinality(Since(w)) + Spent
          BY <2>4, <3>4, <5>1, <5>2
        <5>. QED
          BY <3>4, <5>2, <5>3, <5>4
      <4>2. request.budget * ((today + 1) - w) = request.budget * (today - w) + request.budget
        <5>1. \A a, b \in Int : a * (b + 1) = a * b + a
          OBVIOUS
        <5>. DEFINE d == today - w
        <5>2. (today + 1) - w = d + 1 /\ d \in Int /\ request.budget \in Int
          BY <1>0, <2>5, <3>1
        <5>. HIDE DEF d
        <5>3. request.budget * (d + 1) = request.budget * d + request.budget
          BY <5>1, <5>2, Zenon
        <5>. QED
          BY <5>2, <5>3, Zenon DEF d
      <4>3. request.budget * (today - w) \in Int
        BY <1>0, <2>5, <3>1
      <4>4. Cardinality(Since(w)') >= n \/ Cardinality(Since(w)') >= request.budget * ((today + 1) - w)
        BY <2>3, <2>5, <3>2, <3>4, <4>1, <4>2, <4>3 DEF Covered
      <4>. QED
        BY <2>1, <4>4 DEF Covered
    <3>. QED
      BY <3>5, <3>6
  <2>. QED
    BY <2>6, <2>7
<1>. QED
  BY <1>1, <1>2, <1>3 DEF Next

LEMMA RoundsCover ==
    ASSUME NEW n \in Nat, NEW b \in Nat \ {0}
    PROVE  LET round == (n + b - 1) \div b IN round \in Nat /\ b * round >= n
OBVIOUS

\* While every call is answered, and staleness is counted for as long as a round takes,
\* spending a daily budget observes every task again within a round.
THEOREM EveryTaskHasItsTurn == Spec => []NoTaskStarves
<1>1. Spec => []CoverageInv
  BY InitCoverage, NextCoverage, Invariance, PTL DEF Spec
<1>2. Inv /\ CoverageInv => NoTaskStarves
  <2>. SUFFICES ASSUME Inv, CoverageInv, request # NULL, request.budget > 0, answered
                PROVE  LET round == (Len(tasks) + request.budget - 1) \div request.budget
                       IN  (request.max_staleness_days >= round /\ today - FirstDay >= round) =>
                               \A t \in ToSet(tasks) : last_observed[t] # NULL
                                                       /\ today - last_observed[t] <= round
    BY DEF NoTaskStarves
  <2>. DEFINE n == Len(tasks)
              round == (n + request.budget - 1) \div request.budget
  <2>1. /\ Asked /\ today \in Nat /\ FirstDay \in Nat /\ n \in Nat
        /\ request.budget \in Nat \ {0} /\ request.max_staleness_days \in Int
    BY TasksTypes, RequestTypes, SearchPlanningAssumption DEF Inv, Asked
  <2>2. round \in Nat /\ request.budget * round >= n
    BY <2>1, RoundsCover
  <2>. HIDE DEF round
  <2>. SUFFICES ASSUME request.max_staleness_days >= round, today - FirstDay >= round,
                       NEW t \in ToSet(tasks)
                PROVE  last_observed[t] # NULL /\ today - last_observed[t] <= round
    BY DEF round
  <2>. DEFINE w == today - round
  <2>3. w \in FirstDay..today /\ today - w = round
    BY <2>1, <2>2
  <2>4. Covered(w)
    BY <2>3 DEF CoverageInv
  <2>5. Since(w) \in SUBSET (1..n)
    BY DEF Since
  <2>6. /\ IsFiniteSet(1..n) /\ Cardinality(1..n) = n
        /\ Cardinality(Since(w)) \in Nat /\ Cardinality(Since(w)) <= n
    BY <2>1, <2>5, Intervals
  <2>7. Cardinality(Since(w)) >= n
    <3>1. request.budget * (today - w) >= n
      BY <2>2, <2>3
    <3>2. request.budget * (today - w) \in Int
      BY <2>1, <2>2, <2>3
    <3>. QED
      BY <2>1, <2>4, <2>6, <3>1, <3>2 DEF Covered
  <2>8. Since(w) = 1..n
    BY <2>1, <2>5, <2>6, <2>7, Intervals
  <2>9. PICK i \in 1..n : tasks[i] = t
    BY <2>1, TasksTypes, ToSetOfSeq
  <2>10. last_observed[t] # NULL /\ last_observed[t] >= w
    BY <2>8, <2>9 DEF Since
  <2>11. last_observed[t] \in 0..(today - 1)
    BY <2>1, <2>10 DEF Asked
  <2>. QED
    BY <2>1, <2>2, <2>10, <2>11
<1>. QED
  BY <1>1, <1>2, Invariance, PTL

-----------------------------------------------------------------------------
(* No task is lost and none is repeated *)

LEMMA BatchKeys ==
    ASSUME NEW q, NEW s \in Product(q), NEW t \in Product(q), batch_key(s) = batch_key(t)
    PROVE  /\ MonthOf[s.departure_date] = MonthOf[t.departure_date]
           /\ [s EXCEPT !.departure_date = t.departure_date] = t
<1>1. /\ s.origin = t.origin /\ s.destination = t.destination /\ s.cabin = t.cabin
      /\ s.trip_length_nights = t.trip_length_nights
      /\ MonthOf[s.departure_date] = MonthOf[t.departure_date]
  BY DEF batch_key
<1>. QED
  BY <1>1 DEF Product

\* An allocation keeps every task, in one part or in the other.
LEMMA NothingDropped == ASSUME Inv PROVE NothingIsDropped
<1>. SUFFICES ASSUME allocation # NULL
              PROVE  /\ Len(allocation.to_execute) = Spent
                     /\ Len(allocation.to_execute) + Len(allocation.not_explored) = Len(tasks)
                     /\ ToSet(allocation.to_execute \o allocation.not_explored) = ToSet(tasks)
  BY DEF NothingIsDropped, Spent
<1>. DEFINE n == Len(tasks)
<1>1. Asked /\ n \in Nat /\ Spent \in 0..n
  BY AllocationIsAPermutation, TasksTypes DEF Inv
<1>2. PICK f \in [1..n -> 1..n] :
          /\ \A i \in 1..n : \E p \in 1..n : f[p] = i
          /\ allocation.to_execute \in Seq(ToSet(tasks))
          /\ Len(allocation.to_execute) = Spent
          /\ \A p \in 1..Spent : allocation.to_execute[p] = tasks[f[p]]
          /\ allocation.not_explored \in Seq(ToSet(tasks))
          /\ Len(allocation.not_explored) = n - Spent
          /\ \A p \in 1..(n - Spent) : allocation.not_explored[p] = tasks[f[Spent + p]]
  BY AllocationIsAPermutation
<1>3. /\ ToSet(allocation.to_execute \o allocation.not_explored)
             = ToSet(allocation.to_execute) \cup ToSet(allocation.not_explored)
      /\ ToSet(allocation.to_execute) \subseteq ToSet(tasks)
      /\ ToSet(allocation.not_explored) \subseteq ToSet(tasks)
  BY <1>2, Concatenation, ToSetOfSeq
<1>4. ASSUME NEW t \in ToSet(tasks)
      PROVE  t \in ToSet(allocation.to_execute) \/ t \in ToSet(allocation.not_explored)
  <2>1. PICK i \in 1..n : tasks[i] = t
    BY <1>1, TasksTypes, ToSetOfSeq
  <2>2. PICK p \in 1..n : f[p] = i
    BY <1>2
  <2>3. CASE p <= Spent
    <3>1. p \in 1..Spent
      BY <1>1, <2>3
    <3>2. allocation.to_execute[p] = t
      BY <1>2, <2>1, <2>2, <3>1
    <3>3. \E j \in 1..Len(allocation.to_execute) : allocation.to_execute[j] = t
      BY <1>2, <3>1, <3>2
    <3>. QED
      BY <1>2, <3>3, ToSetOfSeq
  <2>4. CASE ~(p <= Spent)
    <3>1. p - Spent \in 1..(n - Spent) /\ Spent + (p - Spent) = p
      BY <1>1, <2>4
    <3>2. allocation.not_explored[p - Spent] = t
      BY <1>2, <2>1, <2>2, <3>1
    <3>3. \E j \in 1..Len(allocation.not_explored) : allocation.not_explored[j] = t
      BY <1>2, <3>1, <3>2
    <3>. QED
      BY <1>2, <3>3, ToSetOfSeq
  <2>. QED
    BY <2>3, <2>4
<1>. QED
  BY <1>1, <1>2, <1>3, <1>4

\* From the query to the budget no task is lost and none is repeated: expand gives the
\* product of the dimensions once, collapse_batchable partitions it into what one call
\* can answer, allocate_budget keeps it all; for queries that name nothing twice.
THEOREM TasksAreKept == ASSUME QueriesRepeatNothing PROVE Spec => []TasksAreConserved
<1>1. ASSUME Inv PROVE EveryCombinationOnce
  <2>. SUFFICES ASSUME request # NULL
                PROVE  /\ ToSet(tasks) = Product(request.query)
                       /\ Len(tasks) = Cardinality(Product(request.query))
    BY DEF EveryCombinationOnce, Product
  <2>1. Asked /\ request \in Requests
    BY <1>1 DEF Inv, Asked
  <2>2. RepeatsNothing(request.query)
    BY <2>1 DEF QueriesRepeatNothing, RepeatsNothing, codes
  <2>3. /\ ToSet(tasks) = Product(request.query) /\ IsInjective(tasks)
        /\ Len(tasks) \in Nat /\ DOMAIN tasks = 1..Len(tasks)
        /\ tasks \in Seq(Product(request.query))
    BY <2>1, <2>2, RequestTypes, ExpansionIsTheProduct, TasksTypes DEF Asked
  <2>4. tasks \in [1..Len(tasks) -> Product(request.query)]
    BY <2>3, LenProperties
  <2>5. \A t \in Product(request.query) : \E i \in 1..Len(tasks) : tasks[i] = t
    BY <2>3, ToSetOfSeq
  <2>6. tasks \in Bijection(1..Len(tasks), Product(request.query))
    BY <2>3, <2>4, <2>5 DEF Bijection, Injection, Surjection
  <2>7. ExistsBijection(1..Len(tasks), Product(request.query))
    BY <2>6 DEF ExistsBijection
  <2>8. IsFiniteSet(1..Len(tasks)) /\ Cardinality(1..Len(tasks)) = Len(tasks)
    BY <2>3, Intervals
  <2>9. Cardinality(Product(request.query)) = Cardinality(1..Len(tasks))
    BY <2>7, <2>8, FS_Bijection
  <2>. QED
    BY <2>3, <2>8, <2>9
<1>2. ASSUME Inv PROVE BatchesPartitionTasks
  <2>1. CASE request = NULL
    <3>1. tasks = <<>> /\ groups = <<>>
      BY <1>2, <2>1 DEF Inv
    <3>2. Len(groups) = 0 /\ ToSet(tasks) = {}
      BY <3>1 DEF ToSet
    <3>. QED
      BY <3>2 DEF BatchesPartitionTasks
  <2>2. CASE request # NULL
    <3>1. Asked /\ tasks \in Seq(Product(request.query)) /\ groups = collapse_batchable(tasks)
      BY <1>2, <2>2, TasksTypes DEF Inv, Asked
    <3>2. /\ \A g, h \in 1..Len(groups) : g # h => ToSet(groups[g]) \cap ToSet(groups[h]) = {}
          /\ UNION {ToSet(groups[g]) : g \in 1..Len(groups)} = ToSet(tasks)
          /\ \A g \in 1..Len(groups) : \A s, t \in ToSet(groups[g]) : batch_key(s) = batch_key(t)
      BY <3>1, BatchesArePartition
    <3>3. ToSet(tasks) = Product(request.query)
      BY <3>1, TasksTypes
    <3>4. \A g \in 1..Len(groups) : ToSet(groups[g]) \subseteq Product(request.query)
      BY <3>2, <3>3
    <3>5. ASSUME NEW g \in 1..Len(groups), NEW s \in ToSet(groups[g]), NEW t \in ToSet(groups[g])
          PROVE  /\ MonthOf[s.departure_date] = MonthOf[t.departure_date]
                 /\ [s EXCEPT !.departure_date = t.departure_date] = t
      <4>1. s \in Product(request.query) /\ t \in Product(request.query) /\ batch_key(s) = batch_key(t)
        BY <3>2, <3>4
      <4>. QED
        BY <4>1, BatchKeys
    <3>. QED
      BY <3>2, <3>5 DEF BatchesPartitionTasks
  <2>. QED
    BY <2>1, <2>2
<1>3. Inv => TasksAreConserved
  BY <1>1, <1>2, NothingDropped DEF TasksAreConserved
<1>. QED
  BY <1>3, Invariance, PTL
=============================================================================
