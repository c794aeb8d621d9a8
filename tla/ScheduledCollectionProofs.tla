--------------------- MODULE ScheduledCollectionProofs ---------------------
(***************************************************************************)
(* Theorems about the search pipeline with the daily collection beside it, *)
(* for any number of searches and routes and every bound.                  *)
(*                                                                         *)
(* The first part is about SourceHealth alone, whatever else its jobs do:  *)
(* type correctness, that no interleaving opens the circuit before the     *)
(* source has failed FAILURE_THRESHOLD times, that the row is accurate     *)
(* until one job writes over another's update, and that a failed trial     *)
(* starts a new cooldown.  The breaker inside the pipeline takes only      *)
(* steps of SourceHealth, so its invariants hold there.  Around it, the    *)
(* invariant follows each search from its commit to its job's end: who     *)
(* still has to enqueue it, and where its handler may stand.               *)
(***************************************************************************)
EXTENDS ScheduledCollection, FiniteSetTheorems, TLAPS

-----------------------------------------------------------------------------
(* The source's health *)

USE DEF CircuitState, Locations, Outcomes, Ended

Rows == CircuitSnapshot \cup {NULL}

-----------------------------------------------------------------------------
(* The breaker's operators return snapshots. *)

\* What the row reads as is a snapshot, whether the row exists or not.
LEMMA SnapshotType ==
    ASSUME NEW row \in Rows
    PROVE  snapshot_from_row(row) \in CircuitSnapshot
BY DEF Rows, snapshot_from_row, initial_snapshot, CircuitSnapshot

\* next_state_after_failure counts one more failure; it leaves the circuit closed
\* only below the threshold, and a circuit it closes or finds closed is undated.
LEMMA FailureResult ==
    ASSUME NEW s \in CircuitSnapshot, NEW now \in Nat
    PROVE  LET n == next_state_after_failure(s, now)
           IN  /\ n \in CircuitSnapshot
               /\ n.consecutive_failures = s.consecutive_failures + 1
               /\ n.state \in {"open", "closed"}
               /\ s.state = "half_open" => n.state = "open" /\ n.opened_at = now
               /\ s.state # "half_open" =>
                    (n.state = "closed" <=> s.consecutive_failures + 1 < FAILURE_THRESHOLD)
               /\ n.state = "closed" <=> n.opened_at = NULL
               /\ n.opened_at \in {NULL, now, s.opened_at}
<1> DEFINE f == s.consecutive_failures + 1
<1>0. /\ f \in Nat /\ FAILURE_THRESHOLD \in Nat /\ NULL \notin Nat
      /\ s.state \in {"closed", "open", "half_open"}
      /\ s.opened_at \in Nat \cup {NULL}
  BY BreakerAssumption DEF CircuitSnapshot
<1>1. CASE s.state = "half_open"
  <2>1. next_state_after_failure(s, now) =
          [state |-> "open", consecutive_failures |-> f, opened_at |-> now]
    BY <1>1, <1>0 DEF next_state_after_failure
  <2> QED BY <2>1, <1>1, <1>0 DEF CircuitSnapshot
<1>2. CASE s.state # "half_open" /\ f >= FAILURE_THRESHOLD
  <2>1. next_state_after_failure(s, now) =
          [state |-> "open", consecutive_failures |-> f,
           opened_at |-> IF s.opened_at = NULL THEN now ELSE s.opened_at]
    BY <1>2, <1>0 DEF next_state_after_failure
  <2> QED BY <2>1, <1>2, <1>0 DEF CircuitSnapshot
<1>3. CASE s.state # "half_open" /\ ~(f >= FAILURE_THRESHOLD)
  <2>1. next_state_after_failure(s, now) =
          [state |-> "closed", consecutive_failures |-> f, opened_at |-> NULL]
    BY <1>3, <1>0 DEF next_state_after_failure
  <2> QED BY <2>1, <1>3, <1>0 DEF CircuitSnapshot
<1> QED BY <1>1, <1>2, <1>3

\* may_attempt keeps the snapshot, or turns an open one half-open once its cooldown is over.
LEMMA AttemptResult ==
    ASSUME NEW s \in CircuitSnapshot, NEW now \in Nat, may_attempt_asserts(s)
    PROVE  LET a == may_attempt(s, now)
           IN  \/ a = [allowed |-> TRUE, next |-> s] /\ s.state # "open"
               \/ a = [allowed |-> FALSE, next |-> s] /\ s.state = "open"
               \/ /\ a = [allowed |-> TRUE, next |-> [s EXCEPT !.state = "half_open"]]
                  /\ s.state = "open"
                  /\ s.opened_at \in Nat
                  /\ now >= s.opened_at + COOLDOWN
<1>0. s.opened_at \in Nat \cup {NULL} /\ COOLDOWN \in Nat
  BY BreakerAssumption DEF CircuitSnapshot
<1>1. CASE s.state # "open"
  BY <1>1 DEF may_attempt
<1>2. CASE s.state = "open" /\ cooldown_elapsed(s, now)
  <2>1. may_attempt(s, now) = [allowed |-> TRUE, next |-> [s EXCEPT !.state = "half_open"]]
    BY <1>2 DEF may_attempt
  <2>2. s.opened_at \in Nat
    BY <1>2, <1>0 DEF may_attempt_asserts
  <2>3. now >= s.opened_at + COOLDOWN
    BY <1>2, <1>0, <2>2 DEF cooldown_elapsed
  <2> QED BY <2>1, <2>2, <2>3, <1>2
<1>3. CASE s.state = "open" /\ ~cooldown_elapsed(s, now)
  BY <1>3 DEF may_attempt
<1> QED BY <1>1, <1>2, <1>3

\* An update mixes, column by column, the current row with the staged snapshot.
LEMMA UpdateMixes ==
    ASSUME NEW row \in CircuitSnapshot, NEW before \in CircuitSnapshot,
           NEW after \in CircuitSnapshot
    PROVE  LET new == UpdateRow(row, before, after)
           IN  /\ new \in CircuitSnapshot
               /\ new.state \in {row.state, after.state}
               /\ new.opened_at \in {row.opened_at, after.opened_at}
               /\ new.consecutive_failures \in {row.consecutive_failures, after.consecutive_failures}
               /\ row = before => new = after
BY DEF UpdateRow, Column, Reopened, CircuitSnapshot

-----------------------------------------------------------------------------
(* Type correctness needs to know which of the jobs' fields are in use.     *)

Open(j) == pc[j] \in {"admitting", "persisting", "saving"}

TypeInv ==
    /\ TypeOK
    /\ \A j \in Jobs :
        /\ loaded[j] # NULL => health # NULL
        /\ Open(j) => staged[j] # NULL
        /\ pc[j] \in {"answered", "persisting", "saving"} => outcome[j] # "none"

LEMMA ConstantTypes ==
    /\ FAILURE_THRESHOLD \in Nat \ {0} /\ COOLDOWN \in Nat \ {0} /\ JOB_TIMEOUT \in Nat
    /\ MaxClock \in Nat /\ MaxCrashes \in Nat
    /\ NULL \notin Nat /\ NULL \notin CircuitSnapshot
BY BreakerAssumption, RowAssumption, SourceHealthAssumption

LEMMA InitTypeInv == Init => TypeInv
BY ConstantTypes DEF Init, TypeInv, TypeOK, Open

LEMMA NextTypeInv == TypeInv /\ [Next]_healthVars => TypeInv'
<1> SUFFICES ASSUME TypeInv, [Next]_healthVars PROVE TypeInv'
  OBVIOUS
<1> USE ConstantTypes DEF TypeInv, TypeOK, Open
<1>0. health \in Rows /\ clock \in Nat /\ snapshot_from_row(health) \in CircuitSnapshot
  BY SnapshotType DEF Rows
<1>1. ASSUME NEW j \in Jobs, MayCallAllows(j) PROVE TypeInv'
  <2> DEFINE a == may_attempt(snapshot_from_row(health), clock)
  <2>1. a.next \in CircuitSnapshot
    BY <1>0, <1>1, AttemptResult DEF MayCallAllows, CircuitSnapshot
  <2>2. staged' = [staged EXCEPT ![j] = a.next] /\ loaded' = [loaded EXCEPT ![j] = health]
        /\ pc' = [pc EXCEPT ![j] = "admitting"] /\ started' = [started EXCEPT ![j] = clock]
        /\ UNCHANGED <<clock, health, genuine, tally, crashes, outcome>>
    BY <1>1 DEF MayCallAllows, MayCall
  <2> HIDE DEF a
  <2> QED BY <2>1, <2>2
<1>2. ASSUME NEW j \in Jobs, MayCallRejects(j) PROVE TypeInv'
  BY <1>2 DEF MayCallRejects, MayCall
<1>3. ASSUME NEW j \in Jobs, MayCallAsserts(j) PROVE TypeInv'
  BY <1>3 DEF MayCallAsserts, MayCall, EndJob
<1>4. ASSUME NEW j \in Jobs, CommitMayCall(j) PROVE TypeInv'
  <2>1. health' \in Rows /\ (health # NULL => health' # NULL)
    <3>1. CASE loaded[j] = NULL
      BY <3>1, <1>4, <1>0 DEF CommitMayCall
    <3>2. CASE loaded[j] # NULL
      BY <3>2, <1>4, UpdateMixes DEF CommitMayCall, Rows
    <3> QED BY <3>1, <3>2
  <2> QED BY <2>1, <1>4 DEF CommitMayCall, Rows
<1>5. ASSUME NEW j \in Jobs, CallEnds(j) PROVE TypeInv'
  BY <1>5 DEF CallEnds, CallSucceeds, CallFails, CallFailsIrrelevantly, CallEscapes, Answer, EndJob
<1>6. ASSUME NEW j \in Jobs, RecordGet(j) PROVE TypeInv'
  <2>1. PICK n \in CircuitSnapshot : staged' = [staged EXCEPT ![j] = n]
    <3>1. next_state_after_success(snapshot_from_row(health)) \in CircuitSnapshot
      BY DEF next_state_after_success, initial_snapshot, CircuitSnapshot
    <3>2. next_state_after_failure(snapshot_from_row(health), clock) \in CircuitSnapshot
      BY <1>0, FailureResult
    <3> QED BY <1>6, <3>1, <3>2 DEF RecordGet
  <2> QED BY <2>1, <1>6 DEF RecordGet
<1>7. ASSUME NEW j \in Jobs, PersistGet(j) PROVE TypeInv'
  BY <1>7 DEF PersistGet
<1>8. ASSUME NEW j \in Jobs, CommitUpdate(j) PROVE TypeInv'
  <2>1. health' \in CircuitSnapshot
    BY <1>8, UpdateMixes DEF CommitUpdate
  <2> QED BY <2>1, <1>8 DEF CommitUpdate, CountGenuine, Tally, EndJob
<1>9. ASSUME NEW j \in Jobs, CommitInsert(j) PROVE TypeInv'
  BY <1>9 DEF CommitInsert, CountGenuine, Tally, EndJob
<1>10. ASSUME NEW j \in Jobs, CommitConflicts(j) PROVE TypeInv'
  BY <1>10 DEF CommitConflicts, EndJob
<1>11. ASSUME NEW j \in Jobs, JobTimesOut(j) \/ TransactionFails(j) PROVE TypeInv'
  BY <1>11 DEF JobTimesOut, TransactionFails, EndJob
<1>12. CASE Tick
  BY <1>12 DEF Tick
<1>13. CASE WorkerCrash
  BY <1>13 DEF WorkerCrash
<1>14. CASE UNCHANGED healthVars
  BY <1>14 DEF healthVars
<1> QED BY <1>1, <1>2, <1>3, <1>4, <1>5, <1>6, <1>7, <1>8, <1>9, <1>10, <1>11, <1>12,
           <1>13, <1>14 DEF Next, JobStep, MayCallRefuses, CommitOfInsert

\* Every reachable state is well typed: TypeInv is inductive.
THEOREM TypeInvariance == Spec => []TypeInv
<1>1. Init => TypeInv
  BY InitTypeInv
<1>2. TypeInv /\ [Next]_healthVars => TypeInv'
  BY NextTypeInv
<1> QED BY <1>1, <1>2, PTL DEF Spec

\* Every reachable state is well typed.
THEOREM TypeCorrectness == Spec => []TypeOK
<1>1. TypeInv => TypeOK
  BY DEF TypeInv
<1> QED BY <1>1, TypeInvariance, PTL

-----------------------------------------------------------------------------
(* The circuit never opens early.  Before the threshold-th genuine failure  *)
(* commits, the row, what open transactions loaded and what they staged are *)
(* all closed and count no more failures than were committed - one more for *)
(* the failure a transaction is about to commit - and no job was rejected.  *)

Below(row, count) == row # NULL => row.state = "closed" /\ row.consecutive_failures <= count

StagedBelow(j) ==
    CASE outcome[j] = "success" -> staged[j] = initial_snapshot
      [] outcome[j] = "failure" -> /\ staged[j].consecutive_failures <= genuine + 1
                                   /\ genuine + 1 < FAILURE_THRESHOLD => staged[j].state = "closed"
      [] OTHER -> FALSE

EarlyInv ==
    genuine < FAILURE_THRESHOLD =>
        /\ Below(health, genuine)
        /\ \A j \in Jobs :
            /\ outcome[j] # "rejected"
            /\ Below(loaded[j], genuine)
            /\ pc[j] = "admitting" => Below(staged[j], genuine)
            /\ pc[j] \in {"persisting", "saving"} => StagedBelow(j)

LEMMA InitEarlyInv == Init => EarlyInv
BY DEF Init, EarlyInv, Below

\* A failure on top of a row below the threshold stages at most one failure more.
LEMMA FailureBelow ==
    ASSUME TypeOK, Below(health, genuine), NEW n,
           n = next_state_after_failure(snapshot_from_row(health), clock)
    PROVE  /\ n.consecutive_failures <= genuine + 1
           /\ genuine + 1 < FAILURE_THRESHOLD => n.state = "closed"
<1> DEFINE s == snapshot_from_row(health)
<1>1. s \in CircuitSnapshot /\ clock \in Nat /\ genuine \in Nat /\ FAILURE_THRESHOLD \in Nat
  BY SnapshotType, ConstantTypes DEF TypeOK, Rows
<1>2. s.state = "closed" /\ s.consecutive_failures <= genuine /\ s.consecutive_failures \in Nat
  BY <1>1 DEF Below, snapshot_from_row, initial_snapshot, CircuitSnapshot
<1> HIDE DEF s
<1>3. /\ n.consecutive_failures = s.consecutive_failures + 1
      /\ n.state = "closed" <=> s.consecutive_failures + 1 < FAILURE_THRESHOLD
  BY <1>1, <1>2, FailureResult DEF s
<1> QED BY <1>1, <1>2, <1>3

LEMMA NextEarlyInv == TypeInv /\ EarlyInv /\ [Next]_healthVars => EarlyInv'
<1> SUFFICES ASSUME TypeInv, EarlyInv, [Next]_healthVars, genuine' < FAILURE_THRESHOLD
             PROVE  EarlyInv'
  BY DEF EarlyInv
<1>0. /\ genuine \in Nat /\ FAILURE_THRESHOLD \in Nat /\ clock \in Nat /\ health \in Rows
      /\ snapshot_from_row(health) \in CircuitSnapshot
      /\ loaded \in [Jobs -> Rows] /\ staged \in [Jobs -> Rows]
      /\ pc \in [Jobs -> Locations] /\ outcome \in [Jobs -> Outcomes]
  BY ConstantTypes, SnapshotType DEF TypeInv, TypeOK, Rows
<1>1. genuine <= genuine'
  <2>1. genuine' = genuine \/ \E j \in Jobs : CountGenuine(j)
    BY DEF Next, JobStep, MayCallRefuses, CommitOfInsert, CallEnds,
           MayCallAllows, MayCallRejects, MayCallAsserts, MayCall,
           CommitMayCall, CallSucceeds, CallFails, CallFailsIrrelevantly, CallEscapes, Answer,
           RecordGet, PersistGet, CommitUpdate, CommitInsert, CommitConflicts, JobTimesOut,
           TransactionFails, Tick, WorkerCrash, healthVars
  <2> QED BY <2>1, <1>0 DEF CountGenuine
<1>2. genuine < FAILURE_THRESHOLD
  <2>1. genuine' \in Nat
    BY NextTypeInv, ConstantTypes DEF TypeInv, TypeOK
  <2> QED BY <2>1, <1>0, <1>1
<1>3. /\ Below(health, genuine)
      /\ \A j \in Jobs :
            /\ outcome[j] # "rejected"
            /\ Below(loaded[j], genuine)
            /\ pc[j] = "admitting" => Below(staged[j], genuine)
            /\ pc[j] \in {"persisting", "saving"} => StagedBelow(j)
  BY <1>2 DEF EarlyInv
<1>4. snapshot_from_row(health).state = "closed"
      /\ snapshot_from_row(health).consecutive_failures <= genuine
  BY <1>0, <1>3 DEF Below, snapshot_from_row, initial_snapshot
<1>5. may_attempt(snapshot_from_row(health), clock)
        = [allowed |-> TRUE, next |-> snapshot_from_row(health)]
  BY <1>0, <1>4, AttemptResult DEF may_attempt_asserts
<1>6. ASSUME NEW j \in Jobs, MayCallAllows(j) PROVE EarlyInv'
  <2>1. /\ staged' = [staged EXCEPT ![j] = snapshot_from_row(health)]
        /\ loaded' = [loaded EXCEPT ![j] = health]
        /\ pc' = [pc EXCEPT ![j] = "admitting"]
        /\ UNCHANGED <<health, genuine, outcome>>
    BY <1>6, <1>5 DEF MayCallAllows, MayCall
  <2> QED BY <2>1, <1>0, <1>3, <1>4 DEF EarlyInv, Below, StagedBelow
<1>7. ASSUME NEW j \in Jobs, MayCallRejects(j) PROVE EarlyInv'
  BY <1>7, <1>5 DEF MayCallRejects
<1>8. ASSUME NEW j \in Jobs, MayCallAsserts(j) PROVE EarlyInv'
  BY <1>8, <1>4 DEF MayCallAsserts, may_attempt_asserts
<1>9. ASSUME NEW j \in Jobs, CommitMayCall(j) PROVE EarlyInv'
  <2>1. Below(health', genuine)
    <3>1. CASE loaded[j] = NULL
      BY <3>1, <1>9, <1>3 DEF CommitMayCall
    <3>2. CASE loaded[j] # NULL
      <4>1. /\ health \in CircuitSnapshot /\ loaded[j] \in CircuitSnapshot
            /\ staged[j] \in CircuitSnapshot /\ health # NULL /\ staged[j] # NULL
        BY <3>2, <1>0, <1>9, ConstantTypes DEF TypeInv, Rows, Open, CommitMayCall
      <4>2. health' = UpdateRow(health, loaded[j], staged[j])
        BY <3>2, <1>9 DEF CommitMayCall
      <4> QED BY <4>1, <4>2, <1>3, <1>9, UpdateMixes DEF Below, CommitMayCall
    <3> QED BY <3>1, <3>2
  <2> QED BY <2>1, <1>9, <1>0, <1>3 DEF CommitMayCall, EarlyInv, Below, StagedBelow
<1>10. ASSUME NEW j \in Jobs, CallEnds(j) PROVE EarlyInv'
  BY <1>10, <1>0, <1>3 DEF CallEnds, CallSucceeds, CallFails, CallFailsIrrelevantly,
     CallEscapes, Answer, EndJob, EarlyInv, Below, StagedBelow
<1>11. ASSUME NEW j \in Jobs, RecordGet(j) PROVE EarlyInv'
  <2>1. outcome[j] \in {"success", "failure"}
    BY <1>11, <1>0, <1>3 DEF RecordGet, TypeInv
  <2>2. /\ pc' = [pc EXCEPT ![j] = IF health = NULL THEN "persisting" ELSE "saving"]
        /\ loaded' = [loaded EXCEPT ![j] = health]
        /\ UNCHANGED <<health, outcome, genuine>>
    BY <1>11 DEF RecordGet
  <2>3. StagedBelow(j)'
    <3>1. CASE outcome[j] = "success"
      <4>1. staged' = [staged EXCEPT ![j] = initial_snapshot]
        BY <3>1, <1>11 DEF RecordGet, next_state_after_success
      <4> QED BY <4>1, <3>1, <2>2, <1>0 DEF StagedBelow
    <3>2. CASE outcome[j] = "failure"
      <4> DEFINE n == next_state_after_failure(snapshot_from_row(health), clock)
      <4>1. staged' = [staged EXCEPT ![j] = n]
        BY <3>2, <1>11 DEF RecordGet
      <4>2. /\ n.consecutive_failures <= genuine + 1
            /\ genuine + 1 < FAILURE_THRESHOLD => n.state = "closed"
        BY <1>3, FailureBelow DEF TypeInv
      <4> HIDE DEF n
      <4> QED BY <4>1, <4>2, <3>2, <2>2, <1>0 DEF StagedBelow
    <3> QED BY <2>1, <3>1, <3>2
  <2>4. \A k \in Jobs \ {j} : staged'[k] = staged[k] /\ pc'[k] = pc[k] /\ loaded'[k] = loaded[k]
    BY <1>11, <1>0 DEF RecordGet
  <2> QED BY <2>2, <2>3, <2>4, <1>0, <1>3 DEF EarlyInv, Below, StagedBelow
<1>12. ASSUME NEW j \in Jobs, PersistGet(j) PROVE EarlyInv'
  BY <1>12, <1>0, <1>3 DEF PersistGet, EarlyInv, Below, StagedBelow
<1>13. ASSUME NEW j \in Jobs, CommitUpdate(j) \/ CommitInsert(j) PROVE EarlyInv'
  <2>1. outcome[j] \in {"success", "failure"} /\ pc[j] = "saving"
    BY <1>13, <1>0, <1>3 DEF CommitUpdate, CommitInsert, TypeInv
  <2>2. staged[j] \in CircuitSnapshot
    BY <2>1, <1>0 DEF TypeInv, Open, Rows
  <2>3. Below(staged[j], genuine')
    <3>1. StagedBelow(j) /\ CountGenuine(j)
      BY <2>1, <1>3, <1>13 DEF CommitUpdate, CommitInsert
    <3>2. CASE outcome[j] = "success"
      BY <3>1, <3>2, <1>0, <1>2 DEF StagedBelow, CountGenuine, Below, initial_snapshot
    <3>3. CASE outcome[j] = "failure"
      BY <3>1, <3>3, <1>0, <1>2 DEF StagedBelow, CountGenuine, Below
    <3> QED BY <2>1, <3>2, <3>3
  <2>4. Below(health', genuine')
    <3>1. CASE CommitInsert(j)
      BY <3>1, <2>3 DEF CommitInsert
    <3>2. CASE CommitUpdate(j)
      <4>1. health \in CircuitSnapshot /\ loaded[j] \in CircuitSnapshot /\ health # NULL
            /\ staged[j] # NULL
        BY <3>2, <2>1, <1>0 DEF CommitUpdate, TypeInv, Rows, Open
      <4>2. health' = UpdateRow(health, loaded[j], staged[j])
        BY <3>2 DEF CommitUpdate
      <4>3. genuine' \in Nat
        BY <3>2, <1>0 DEF CommitUpdate, CountGenuine
      <4> DEFINE new == UpdateRow(health, loaded[j], staged[j])
      <4>4. /\ new.state \in {health.state, staged[j].state}
            /\ new.consecutive_failures \in {health.consecutive_failures, staged[j].consecutive_failures}
        BY <4>1, <2>2, UpdateMixes
      <4>5. health.consecutive_failures \in Nat
        BY <4>1 DEF CircuitSnapshot
      <4> HIDE DEF new
      <4> QED BY <4>1, <4>2, <4>3, <4>4, <4>5, <2>3, <1>0, <1>1, <1>3 DEF Below, new
    <3> QED BY <1>13, <3>1, <3>2
  <2>5. /\ pc' = [pc EXCEPT ![j] = "idle"] /\ outcome' = [outcome EXCEPT ![j] = "none"]
        /\ loaded' = [loaded EXCEPT ![j] = NULL] /\ staged' = [staged EXCEPT ![j] = NULL]
    BY <1>13 DEF CommitUpdate, CommitInsert, EndJob
  <2>6. ASSUME NEW k \in Jobs
        PROVE  /\ outcome'[k] # "rejected"
               /\ Below(loaded'[k], genuine')
               /\ pc'[k] = "admitting" => Below(staged'[k], genuine')
               /\ pc'[k] \in {"persisting", "saving"} => StagedBelow(k)'
    <3>1. CASE k = j
      BY <3>1, <2>5, <1>0 DEF Below
    <3>2. CASE k # j
      <4>1. /\ outcome'[k] = outcome[k] /\ loaded'[k] = loaded[k]
            /\ pc'[k] = pc[k] /\ staged'[k] = staged[k]
        BY <3>2, <2>5, <1>0
      <4>2. genuine' \in Nat
        BY <1>13, <1>0 DEF CommitUpdate, CommitInsert, CountGenuine
      <4>3. loaded[k] \in Rows /\ staged[k] \in Rows
        BY <1>0
      <4>4. Below(loaded'[k], genuine') /\ (pc'[k] = "admitting" => Below(staged'[k], genuine'))
        BY <4>1, <4>2, <4>3, <1>0, <1>1, <1>3 DEF Below, Rows, CircuitSnapshot
      <4>5. ASSUME pc'[k] \in {"persisting", "saving"} PROVE StagedBelow(k)'
        <5>1. StagedBelow(k) /\ staged[k] \in CircuitSnapshot
          BY <4>1, <4>5, <4>3, <1>3 DEF TypeInv, Open, Rows
        <5>2. staged[k].consecutive_failures \in Nat
          BY <5>1 DEF CircuitSnapshot
        <5> QED BY <5>1, <5>2, <4>1, <4>2, <1>0, <1>1 DEF StagedBelow
      <4> QED BY <4>1, <4>4, <4>5, <1>3
    <3> QED BY <3>1, <3>2
  <2> QED BY <2>4, <2>6 DEF EarlyInv
<1>14. ASSUME NEW j \in Jobs, CommitConflicts(j) \/ JobTimesOut(j) \/ TransactionFails(j)
       PROVE  EarlyInv'
  BY <1>14, <1>0, <1>3 DEF CommitConflicts, JobTimesOut, TransactionFails, EndJob, EarlyInv, Below, StagedBelow
<1>15. CASE Tick
  BY <1>15, <1>3 DEF Tick, EarlyInv, Below, StagedBelow
<1>16. CASE WorkerCrash
  BY <1>16, <1>3 DEF WorkerCrash, EarlyInv, Below, StagedBelow
<1>17. CASE UNCHANGED healthVars
  BY <1>17, <1>3 DEF healthVars, EarlyInv, Below, StagedBelow
<1> QED BY <1>6, <1>7, <1>8, <1>9, <1>10, <1>11, <1>12, <1>13, <1>14, <1>15, <1>16, <1>17
        DEF Next, JobStep, MayCallRefuses, CommitOfInsert

\* However jobs interleave, crash or time out, the circuit is never open or half-open
\* before the source itself has failed FAILURE_THRESHOLD times.
THEOREM NeverEarly == Spec => []NeverOpensEarly
<1>1. Init => TypeInv /\ EarlyInv
  BY InitTypeInv, InitEarlyInv
<1>2. TypeInv /\ EarlyInv /\ [Next]_healthVars => (TypeInv /\ EarlyInv)'
  BY NextTypeInv, NextEarlyInv
<1>3. TypeInv /\ EarlyInv => NeverOpensEarly
  BY ConstantTypes DEF TypeInv, TypeOK, EarlyInv, Below, NeverOpensEarly
<1> QED BY <1>1, <1>2, <1>3, PTL DEF Spec

-----------------------------------------------------------------------------
(* The row is accurate while no job has written over another's update.  A   *)
(* decision is a function of the row it was taken from; committed over that *)
(* same row it replaces it as a whole, and counts one failure more or none. *)

Accurate(row, count, now) ==
    row # NULL =>
        /\ row.consecutive_failures = count
        /\ row.state = "closed" <=> row.opened_at = NULL
        /\ row.state = "closed" <=> count < FAILURE_THRESHOLD
        /\ row.state = "half_open" => now >= row.opened_at + COOLDOWN

\* What may_call staged is what it loaded, or that row half-open after its cooldown.
AttemptOf(before, after, now) ==
    \/ after = before
    \/ /\ before.state = "open" /\ before.opened_at \in Nat /\ now >= before.opened_at + COOLDOWN
       /\ after = [before EXCEPT !.state = "half_open"]

FailureOf(before, after) ==
    \E t \in Nat : after = next_state_after_failure(snapshot_from_row(before), t)

Recording(j) == pc[j] \in {"persisting", "saving"}

DecisionInv(j) ==
    /\ pc[j] = "admitting" /\ loaded[j] # NULL => AttemptOf(loaded[j], staged[j], clock)
    /\ pc[j] = "persisting" => loaded[j] = NULL
    /\ Recording(j) /\ outcome[j] = "success" => staged[j] = initial_snapshot
    /\ Recording(j) /\ outcome[j] # "success" /\ (loaded[j] = NULL \/ tally # NULL) =>
            FailureOf(loaded[j], staged[j])

RowInv ==
    /\ health = NULL => tally = 0
    /\ tally # NULL => Accurate(health, tally, clock)

TallyInv == RowInv /\ \A j \in Jobs : DecisionInv(j)

LEMMA InitTallyInv == Init => TallyInv
BY ConstantTypes DEF Init, TallyInv, RowInv, DecisionInv, Recording, Accurate

\* What a row reads as is as accurate as the row; an absent one counts nothing.
LEMMA ReadAccurately ==
    ASSUME TypeInv, RowInv, tally # NULL
    PROVE  Accurate(snapshot_from_row(health), tally, clock) /\ tally \in Nat
BY ConstantTypes DEF TypeInv, TypeOK, RowInv, Accurate, snapshot_from_row, initial_snapshot

\* A failure on top of an accurate row leaves it accurate, with one failure more.
LEMMA FailureAccurate ==
    ASSUME NEW row \in CircuitSnapshot, NEW after, NEW count \in Nat, NEW now \in Nat,
           Accurate(row, count, now), FailureOf(row, after)
    PROVE  Accurate(after, count + 1, now)
<1>1. PICK t \in Nat : after = next_state_after_failure(row, t)
  BY ConstantTypes DEF FailureOf, snapshot_from_row
<1>2. /\ after.consecutive_failures = row.consecutive_failures + 1
      /\ after.state \in {"open", "closed"}
      /\ row.state = "half_open" => after.state = "open"
      /\ row.state # "half_open" =>
           (after.state = "closed" <=> row.consecutive_failures + 1 < FAILURE_THRESHOLD)
      /\ after.state = "closed" <=> after.opened_at = NULL
  BY <1>1, FailureResult
<1>3. row # NULL /\ FAILURE_THRESHOLD \in Nat
  BY ConstantTypes
<1> QED BY <1>2, <1>3 DEF Accurate

LEMMA AttemptAccurate ==
    ASSUME NEW row \in CircuitSnapshot, NEW after, NEW count \in Nat, NEW now \in Nat,
           Accurate(row, count, now), AttemptOf(row, after, now)
    PROVE  Accurate(after, count, now)
<1>1. CASE after = row
  BY <1>1
<1>2. CASE after # row
  <2>1. /\ row # NULL /\ NULL \notin Nat /\ row.opened_at \in Nat /\ row.state = "open"
        /\ now >= row.opened_at + COOLDOWN
        /\ after = [row EXCEPT !.state = "half_open"]
    BY <1>2, ConstantTypes DEF AttemptOf
  <2>2. /\ after.state = "half_open" /\ after.opened_at = row.opened_at
        /\ after.consecutive_failures = row.consecutive_failures
    BY <2>1 DEF CircuitSnapshot
  <2> QED BY <2>1, <2>2 DEF Accurate
<1> QED BY <1>1, <1>2

\* The step is not about job k, nor does it set the row right under its decision.
Untouched(k) ==
    /\ pc'[k] = pc[k] /\ outcome'[k] = outcome[k] /\ loaded'[k] = loaded[k] /\ staged'[k] = staged[k]
    /\ clock' \in {clock, clock + 1}
    /\ Recording(k) /\ tally' # NULL => tally # NULL

LEMMA UntouchedDecision ==
    ASSUME TypeInv, NEW k \in Jobs, DecisionInv(k), Untouched(k)
    PROVE  DecisionInv(k)'
<1>1. clock \in Nat /\ COOLDOWN \in Nat
  BY ConstantTypes DEF TypeInv, TypeOK
<1>2. ASSUME AttemptOf(loaded[k], staged[k], clock) PROVE AttemptOf(loaded[k], staged[k], clock')
  BY <1>1, <1>2 DEF AttemptOf, Untouched
<1> QED BY <1>2 DEF DecisionInv, Untouched, Recording

\* One job's step: the rest of the invariant follows from that job's part and the row's.
LEMMA OneDecision ==
    ASSUME TypeInv, TallyInv, NEW j \in Jobs, DecisionInv(j)', RowInv',
           \A k \in Jobs \ {j} : Untouched(k)
    PROVE  TallyInv'
BY UntouchedDecision DEF TallyInv

\* A job that ends leaves no decision behind.
LEMMA EndedDecision ==
    ASSUME TypeInv, TallyInv, NEW j \in Jobs, NEW how \in Ended, EndJob(j, how), clock' = clock,
           RowInv', \A k \in Jobs \ {j} : Recording(k) /\ tally' # NULL => tally # NULL
    PROVE  TallyInv'
<1>1. /\ pc \in [Jobs -> Locations] /\ outcome \in [Jobs -> Outcomes]
      /\ loaded \in [Jobs -> Rows] /\ staged \in [Jobs -> Rows]
  BY DEF TypeInv, TypeOK, Rows
<1>2. \A k \in Jobs \ {j} : Untouched(k)
  BY <1>1 DEF EndJob, Untouched
<1>3. DecisionInv(j)'
  BY <1>1 DEF EndJob, DecisionInv, Recording, Ended
<1> QED BY <1>2, <1>3, OneDecision

LEMMA NextTallyInv ==
    ASSUME TypeInv, TallyInv, [Next]_healthVars
    PROVE  TallyInv'
<1>0. /\ clock \in Nat /\ health \in Rows /\ tally \in Nat \cup {NULL} /\ NULL \notin Nat
      /\ snapshot_from_row(health) \in CircuitSnapshot
      /\ loaded \in [Jobs -> Rows] /\ staged \in [Jobs -> Rows]
      /\ pc \in [Jobs -> Locations] /\ outcome \in [Jobs -> Outcomes]
  BY ConstantTypes, SnapshotType DEF TypeInv, TypeOK, Rows
<1>1. ASSUME NEW j \in Jobs, MayCallAllows(j) PROVE TallyInv'
  <2> DEFINE s == snapshot_from_row(health)
             a == may_attempt(s, clock)
  <2>1. /\ staged' = [staged EXCEPT ![j] = a.next] /\ loaded' = [loaded EXCEPT ![j] = health]
        /\ pc' = [pc EXCEPT ![j] = "admitting"] /\ UNCHANGED <<clock, health, tally, outcome>>
    BY <1>1 DEF MayCallAllows, MayCall
  <2>2. health # NULL => AttemptOf(health, a.next, clock)
    <3>1. s \in CircuitSnapshot /\ may_attempt_asserts(s)
      BY <1>0, <1>1 DEF MayCallAllows
    <3>2. AttemptOf(s, a.next, clock)
      <4> HIDE DEF s
      <4> QED BY <3>1, <1>0, AttemptResult DEF AttemptOf
    <3> QED BY <3>2 DEF snapshot_from_row
  <2> HIDE DEF a, s
  <2>3. DecisionInv(j)'
    BY <2>1, <2>2, <1>0 DEF DecisionInv, Recording
  <2>4. \A k \in Jobs \ {j} : Untouched(k)
    BY <2>1, <1>0 DEF Untouched
  <2>5. RowInv'
    BY <2>1 DEF TallyInv, RowInv, Accurate
  <2> QED BY <2>3, <2>4, <2>5, OneDecision
<1>2. ASSUME NEW j \in Jobs, MayCallRejects(j) PROVE TallyInv'
  <2>1. /\ pc' = [pc EXCEPT ![j] = "answered"] /\ outcome' = [outcome EXCEPT ![j] = "rejected"]
        /\ UNCHANGED <<clock, health, tally, loaded, staged>>
    BY <1>2 DEF MayCallRejects, MayCall
  <2>2. DecisionInv(j)' /\ RowInv' /\ \A k \in Jobs \ {j} : Untouched(k)
    BY <2>1, <1>0 DEF TallyInv, RowInv, Accurate, DecisionInv, Recording, Untouched
  <2> QED BY <2>2, OneDecision
<1>3. ASSUME NEW j \in Jobs, CommitMayCall(j) PROVE TallyInv'
  <2>1. /\ pc[j] = "admitting" /\ pc' = [pc EXCEPT ![j] = "calling"]
        /\ loaded' = [loaded EXCEPT ![j] = NULL] /\ UNCHANGED <<clock, outcome, staged>>
        /\ health' = IF loaded[j] = NULL THEN health ELSE UpdateRow(health, loaded[j], staged[j])
        /\ tally' = IF loaded[j] # NULL /\ staged[j] # loaded[j] /\ health # loaded[j]
                    THEN NULL ELSE tally
    BY <1>3 DEF CommitMayCall
  <2>2. DecisionInv(j)' /\ \A k \in Jobs \ {j} : Untouched(k)
    BY <2>1, <1>0 DEF DecisionInv, Recording, Untouched
  <2>3. RowInv'
    <3>1. CASE loaded[j] = NULL
      BY <3>1, <2>1 DEF TallyInv, RowInv, Accurate
    <3>2. CASE loaded[j] # NULL
      <4>1. /\ health \in CircuitSnapshot /\ loaded[j] \in CircuitSnapshot /\ staged[j] \in CircuitSnapshot
            /\ health # NULL
        BY <3>2, <2>1, <1>0, ConstantTypes DEF TypeInv, Rows, Open
      <4>2. AttemptOf(loaded[j], staged[j], clock)
        BY <3>2, <2>1 DEF TallyInv, DecisionInv
      <4>3. health' \in CircuitSnapshot /\ health' # NULL
        BY <3>2, <2>1, <4>1, UpdateMixes, ConstantTypes
      <4>4. CASE tally' = NULL
        BY <4>3, <4>4 DEF RowInv
      <4>5. CASE tally' # NULL /\ staged[j] = loaded[j]
        <5>1. health' = health /\ tally' = tally
          BY <3>2, <4>1, <4>5, <2>1 DEF UpdateRow, Column, Reopened, CircuitSnapshot
        <5> QED BY <5>1, <2>1 DEF TallyInv, RowInv, Accurate
      <4>6. CASE tally' # NULL /\ staged[j] # loaded[j]
        <5>1. health = loaded[j] /\ tally' = tally
          BY <3>2, <4>6, <2>1
        <5>2. health' = staged[j]
          BY <5>1, <3>2, <4>1, <2>1, UpdateMixes
        <5>3. Accurate(health, tally, clock) /\ tally \in Nat
          BY <5>1, <4>6, <1>0 DEF TallyInv, RowInv
        <5>4. Accurate(staged[j], tally, clock)
          BY <5>1, <5>3, <4>1, <4>2, <1>0, AttemptAccurate
        <5> QED BY <5>1, <5>2, <5>4, <4>3, <2>1 DEF RowInv
      <4> QED BY <4>4, <4>5, <4>6
    <3> QED BY <3>1, <3>2
  <2> QED BY <2>2, <2>3, OneDecision
<1>4. ASSUME NEW j \in Jobs, CallSucceeds(j) \/ CallFails(j) PROVE TallyInv'
  <2>1. PICK result \in {"success", "failure"} :
          /\ pc' = [pc EXCEPT ![j] = "answered"] /\ outcome' = [outcome EXCEPT ![j] = result]
          /\ staged' = [staged EXCEPT ![j] = NULL] /\ UNCHANGED <<clock, health, tally, loaded>>
    BY <1>4 DEF CallSucceeds, CallFails, Answer
  <2>2. DecisionInv(j)' /\ RowInv' /\ \A k \in Jobs \ {j} : Untouched(k)
    BY <2>1, <1>0 DEF TallyInv, RowInv, Accurate, DecisionInv, Recording, Untouched
  <2> QED BY <2>2, OneDecision
<1>5. ASSUME NEW j \in Jobs, RecordGet(j) PROVE TallyInv'
  <2> DEFINE n == IF outcome[j] = "success"
                  THEN next_state_after_success(snapshot_from_row(health))
                  ELSE next_state_after_failure(snapshot_from_row(health), clock)
  <2>1. /\ staged' = [staged EXCEPT ![j] = n] /\ loaded' = [loaded EXCEPT ![j] = health]
        /\ pc' = [pc EXCEPT ![j] = IF health = NULL THEN "persisting" ELSE "saving"]
        /\ UNCHANGED <<clock, health, tally, outcome>>
    BY <1>5 DEF RecordGet
  <2>2. outcome[j] = "success" => n = initial_snapshot
    BY DEF next_state_after_success
  <2>3. outcome[j] # "success" => FailureOf(health, n)
    BY <1>0 DEF FailureOf
  <2> HIDE DEF n
  <2>4. DecisionInv(j)'
    BY <2>1, <2>2, <2>3, <1>0 DEF DecisionInv, Recording
  <2>5. RowInv' /\ \A k \in Jobs \ {j} : Untouched(k)
    BY <2>1, <1>0 DEF TallyInv, RowInv, Accurate, Untouched
  <2> QED BY <2>4, <2>5, OneDecision
<1>6. ASSUME NEW j \in Jobs, PersistGet(j) PROVE TallyInv'
  <2>1. /\ pc[j] = "persisting" /\ pc' = [pc EXCEPT ![j] = "saving"]
        /\ loaded' = [loaded EXCEPT ![j] = health]
        /\ tally' = IF health = NULL THEN tally ELSE NULL
        /\ UNCHANGED <<clock, health, outcome, staged>>
    BY <1>6 DEF PersistGet
  <2>2. DecisionInv(j)'
    BY <2>1, <1>0 DEF TallyInv, DecisionInv, Recording
  <2>3. RowInv' /\ \A k \in Jobs \ {j} : Untouched(k)
    BY <2>1, <1>0 DEF TallyInv, RowInv, Accurate, Untouched
  <2> QED BY <2>2, <2>3, OneDecision
<1>7. ASSUME NEW j \in Jobs, CommitUpdate(j) \/ CommitInsert(j) PROVE TallyInv'
  <2>1. /\ pc[j] = "saving" /\ EndJob(j, "idle") /\ clock' = clock /\ Tally(j)
        /\ loaded[j] = NULL => health = NULL /\ health' = staged[j]
        /\ loaded[j] # NULL => health' = UpdateRow(health, loaded[j], staged[j])
    BY <1>7 DEF CommitUpdate, CommitInsert
  <2>2. staged[j] \in CircuitSnapshot /\ staged[j] # NULL
    BY <2>1, <1>0 DEF TypeInv, Open, Rows
  <2>3. health' \in CircuitSnapshot /\ health' # NULL /\ (health = loaded[j] => health' = staged[j])
    <3>1. CASE loaded[j] = NULL
      BY <3>1, <2>1, <2>2
    <3>2. CASE loaded[j] # NULL
      <4>1. loaded[j] \in CircuitSnapshot /\ health \in CircuitSnapshot
        BY <3>2, <1>0 DEF TypeInv, Rows
      <4> QED BY <3>2, <4>1, <2>1, <2>2, UpdateMixes, ConstantTypes
    <3> QED BY <3>1, <3>2
  <2>4. RowInv'
    <3>1. SUFFICES ASSUME tally' # NULL PROVE Accurate(staged[j], tally', clock) /\ health' = staged[j]
      BY <2>1, <2>3 DEF RowInv
    <3>2. health = loaded[j] /\ health' = staged[j]
      BY <2>1, <2>3, <3>1 DEF Tally
    <3>3. CASE outcome[j] = "success"
      <4>1. tally' = 0 /\ staged[j] = initial_snapshot
        BY <2>1, <3>1, <3>3 DEF Tally, TallyInv, DecisionInv, Recording
      <4> QED BY <4>1, <3>2, ConstantTypes DEF Accurate, initial_snapshot
    <3>4. CASE outcome[j] # "success"
      <4>1. tally # NULL /\ tally' = tally + 1
        BY <2>1, <3>1, <3>2, <3>4 DEF Tally
      <4>2. FailureOf(health, staged[j])
        BY <2>1, <3>2, <3>4, <4>1 DEF TallyInv, DecisionInv, Recording
      <4>3. FailureOf(snapshot_from_row(health), staged[j])
        BY <4>2 DEF FailureOf, snapshot_from_row
      <4>4. Accurate(snapshot_from_row(health), tally, clock) /\ tally \in Nat
        BY <4>1, ReadAccurately DEF TallyInv
      <4>5. Accurate(staged[j], tally + 1, clock)
        BY <4>3, <4>4, <1>0, FailureAccurate
      <4> QED BY <4>1, <4>5, <3>2
    <3> QED BY <3>3, <3>4
  <2>5. \A k \in Jobs \ {j} : Recording(k) /\ tally' # NULL => tally # NULL
    BY <2>1 DEF Tally, OthersRecord, Recording
  <2>6. "idle" \in Ended
    BY DEF Ended
  <2> QED BY <2>1, <2>4, <2>5, <2>6, EndedDecision
<1>8. ASSUME NEW j \in Jobs,
             \/ MayCallAsserts(j) \/ CallFailsIrrelevantly(j) \/ CallEscapes(j)
             \/ CommitConflicts(j) \/ JobTimesOut(j) \/ TransactionFails(j)
      PROVE  TallyInv'
  <2>1. (EndJob(j, "idle") \/ EndJob(j, "escaped")) /\ UNCHANGED <<clock, health, tally>>
    BY <1>8 DEF MayCallAsserts, MayCall, CallFailsIrrelevantly, CallEscapes, CommitConflicts,
       JobTimesOut, TransactionFails
  <2>2. RowInv'
    BY <2>1 DEF TallyInv, RowInv, Accurate
  <2>3. "idle" \in Ended /\ "escaped" \in Ended
    BY DEF Ended
  <2> QED BY <2>1, <2>2, <2>3, EndedDecision
<1>9. CASE Tick
  <2>1. clock' = clock + 1 /\ UNCHANGED <<health, tally, pc, outcome, loaded, staged>>
    BY <1>9 DEF Tick
  <2>2. \A k \in Jobs : DecisionInv(k)'
    BY <2>1, UntouchedDecision DEF Untouched, TallyInv
  <2>3. RowInv'
    <3>1. health # NULL /\ health.state = "half_open" /\ clock >= health.opened_at + COOLDOWN
            /\ health.opened_at # NULL => clock + 1 >= health.opened_at + COOLDOWN
      BY <1>0, ConstantTypes DEF Rows, CircuitSnapshot
    <3>2. health # NULL /\ health.state = "half_open" /\ tally # NULL => health.opened_at # NULL
      BY DEF TallyInv, RowInv, Accurate
    <3> QED BY <2>1, <3>1, <3>2 DEF TallyInv, RowInv, Accurate
  <2> QED BY <2>2, <2>3 DEF TallyInv
<1>10. CASE WorkerCrash
  BY <1>10 DEF WorkerCrash, TallyInv, RowInv, Accurate, DecisionInv, Recording
<1>11. CASE UNCHANGED healthVars
  BY <1>11 DEF healthVars, TallyInv, RowInv, Accurate, DecisionInv, Recording, AttemptOf, FailureOf
<1> QED BY <1>1, <1>2, <1>3, <1>4, <1>5, <1>6, <1>7, <1>8, <1>9, <1>10, <1>11
        DEF Next, JobStep, MayCallRefuses, CommitOfInsert, CallEnds

\* However many jobs interleave, crash, time out or fail to commit, the row counts the
\* failures since the last success and describes one state of the breaker, until one
\* job writes over what another recorded; nothing else makes it wrong, and the next
\* success recorded over the row it read sets it right.
THEOREM RowAccuracy == Spec => []RowIsAccurate
<1>1. Init => TypeInv /\ TallyInv
  BY InitTypeInv, InitTallyInv
<1>2. TypeInv /\ TallyInv /\ [Next]_healthVars => (TypeInv /\ TallyInv)'
  BY NextTypeInv, NextTallyInv
<1>3. TallyInv => RowIsAccurate
  BY DEF TallyInv, RowInv, Accurate, RowIsAccurate
<1> QED BY <1>1, <1>2, <1>3, PTL DEF Spec

-----------------------------------------------------------------------------
(* A failed trial stages a new opening time.  Only _persist's second lookup *)
(* could put another row under a decision already taken; by then the row is *)
(* too young to have served a cooldown and be half-open.                    *)

Young(row, since) ==
    row # NULL => /\ row.state # "half_open"
                  /\ row.opened_at # NULL => row.opened_at + JOB_TIMEOUT >= since

AllYoung(since) ==
    /\ Young(health, since)
    /\ \A k \in Jobs : Open(k) => Young(loaded[k], since) /\ Young(staged[k], since)

\* A job ends within its timeout.
InTime(j) == started[j] <= clock /\ (pc[j] \notin Ended => clock <= started[j] + JOB_TIMEOUT)

\* Before there is a row, decisions are taken from an absent one.
FirstDecision(j) ==
    health = NULL /\ Open(j) =>
        /\ staged[j].state # "half_open"
        /\ staged[j].opened_at # NULL => staged[j].opened_at >= started[j]

TrialStaged(j) ==
    pc[j] = "saving" /\ outcome[j] = "failure" /\ loaded[j] # NULL /\ loaded[j].state = "half_open"
        => staged[j].state = "open" /\ staged[j].opened_at >= started[j]

TrialInv ==
    \A j \in Jobs :
        /\ InTime(j)
        /\ FirstDecision(j)
        /\ pc[j] = "persisting" => AllYoung(started[j])
        /\ TrialStaged(j)

LEMMA InitTrialInv == Init => TrialInv
BY ConstantTypes DEF Init, TrialInv, InTime, FirstDecision, TrialStaged, AllYoung, Open
LEMMA MixedYoung ==
    ASSUME NEW row \in CircuitSnapshot, NEW before \in CircuitSnapshot, NEW after \in CircuitSnapshot,
           NEW since, Young(row, since), Young(after, since)
    PROVE  Young(UpdateRow(row, before, after), since)
<1>1. row # NULL /\ after # NULL
  BY ConstantTypes
<1>2. /\ UpdateRow(row, before, after).state \in {row.state, after.state}
      /\ UpdateRow(row, before, after).opened_at \in {row.opened_at, after.opened_at}
  BY UpdateMixes
<1> QED BY <1>1, <1>2 DEF Young

\* What job k does under the eyes of a job that waits in _persist.
LEMMA YoungKept ==
    ASSUME 2 * JOB_TIMEOUT < COOLDOWN, TypeInv, NEW since \in Nat, since <= clock,
           clock <= since + JOB_TIMEOUT, AllYoung(since), Next
    PROVE  AllYoung(since)'
<1>0. /\ clock \in Nat /\ health \in Rows /\ NULL \notin Nat
      /\ JOB_TIMEOUT \in Nat /\ COOLDOWN \in Nat
      /\ snapshot_from_row(health) \in CircuitSnapshot
      /\ loaded \in [Jobs -> Rows] /\ staged \in [Jobs -> Rows]
      /\ pc \in [Jobs -> Locations] /\ outcome \in [Jobs -> Outcomes]
  BY ConstantTypes, SnapshotType DEF TypeInv, TypeOK, Rows
<1>1. Young(snapshot_from_row(health), since) /\ Young(initial_snapshot, since)
  BY <1>0 DEF AllYoung, Young, snapshot_from_row, initial_snapshot
<1>2. ASSUME NEW k \in Jobs, MayCallAllows(k) PROVE AllYoung(since)'
  <2> DEFINE s == snapshot_from_row(health)
             a == may_attempt(s, clock)
  <2>1. /\ staged' = [staged EXCEPT ![k] = a.next] /\ loaded' = [loaded EXCEPT ![k] = health]
        /\ pc' = [pc EXCEPT ![k] = "admitting"] /\ UNCHANGED health
    BY <1>2 DEF MayCallAllows, MayCall
  <2>2. a.next = s
    <3>1. s \in CircuitSnapshot /\ s # NULL /\ may_attempt_asserts(s)
      BY <1>0, <1>2, ConstantTypes DEF MayCallAllows
    <3>2. s.opened_at \in Nat => s.opened_at + JOB_TIMEOUT >= since
      BY <1>0, <1>1, <3>1 DEF Young
    <3>3. ~(s.opened_at \in Nat /\ clock >= s.opened_at + COOLDOWN)
      BY <1>0, <3>2
    <3> HIDE DEF s
    <3> QED BY <1>0, <3>1, <3>3, AttemptResult
  <2>3. Young(a.next, since)
    BY <1>1, <2>2
  <2> HIDE DEF a, s
  <2> QED BY <1>0, <2>1, <2>3 DEF AllYoung, Young, Open
<1>3. ASSUME NEW k \in Jobs, MayCallRejects(k) PROVE AllYoung(since)'
  BY <1>0, <1>3 DEF MayCallRejects, MayCall, AllYoung, Young, Open
<1>4. ASSUME NEW k \in Jobs, CommitMayCall(k) PROVE AllYoung(since)'
  <2>1. Young(health', since)
    <3>1. CASE loaded[k] = NULL
      BY <3>1, <1>4 DEF CommitMayCall, AllYoung
    <3>2. CASE loaded[k] # NULL
      <4>1. /\ health \in CircuitSnapshot /\ loaded[k] \in CircuitSnapshot /\ staged[k] \in CircuitSnapshot
            /\ health' = UpdateRow(health, loaded[k], staged[k])
            /\ Young(health, since) /\ Young(staged[k], since)
        BY <3>2, <1>0, <1>4 DEF TypeInv, Rows, Open, CommitMayCall, AllYoung
      <4> QED BY <4>1, MixedYoung
    <3> QED BY <3>1, <3>2
  <2> QED BY <1>0, <1>4, <2>1 DEF CommitMayCall, AllYoung, Young, Open
<1>5. ASSUME NEW k \in Jobs, CallEnds(k) PROVE AllYoung(since)'
  BY <1>0, <1>5 DEF CallEnds, CallSucceeds, CallFails, CallFailsIrrelevantly, CallEscapes,
     Answer, EndJob, AllYoung, Young, Open
<1>6. ASSUME NEW k \in Jobs, RecordGet(k) PROVE AllYoung(since)'
  <2> DEFINE n == IF outcome[k] = "success"
                  THEN next_state_after_success(snapshot_from_row(health))
                  ELSE next_state_after_failure(snapshot_from_row(health), clock)
  <2>1. /\ staged' = [staged EXCEPT ![k] = n] /\ loaded' = [loaded EXCEPT ![k] = health]
        /\ pc' = [pc EXCEPT ![k] = IF health = NULL THEN "persisting" ELSE "saving"]
        /\ UNCHANGED health
    BY <1>6 DEF RecordGet
  <2>2. Young(n, since)
    <3>1. CASE outcome[k] = "success"
      BY <3>1, <1>1 DEF next_state_after_success
    <3>2. CASE outcome[k] # "success"
      <4> DEFINE s == snapshot_from_row(health)
      <4>1. s \in CircuitSnapshot /\ s # NULL /\ Young(s, since)
        BY <1>0, <1>1, ConstantTypes
      <4>2. n = next_state_after_failure(s, clock)
        BY <3>2
      <4> HIDE DEF n, s
      <4>3. n.state \in {"open", "closed"} /\ n.opened_at \in {NULL, clock, s.opened_at}
        BY <1>0, <4>1, <4>2, FailureResult
      <4> QED BY <1>0, <4>1, <4>3 DEF Young
    <3> QED BY <3>1, <3>2
  <2> HIDE DEF n
  <2> QED BY <1>0, <2>1, <2>2 DEF AllYoung, Young, Open
<1>7. ASSUME NEW k \in Jobs, PersistGet(k) PROVE AllYoung(since)'
  BY <1>0, <1>7 DEF PersistGet, AllYoung, Young, Open
<1>8. ASSUME NEW k \in Jobs, CommitUpdate(k) \/ CommitInsert(k) PROVE AllYoung(since)'
  <2>1. pc[k] = "saving" /\ EndJob(k, "idle") /\ Young(staged[k], since) /\ staged[k] \in CircuitSnapshot
    BY <1>0, <1>8 DEF CommitUpdate, CommitInsert, AllYoung, Open, TypeInv, Rows
  <2>2. Young(health', since)
    <3>1. CASE CommitInsert(k)
      BY <3>1, <2>1 DEF CommitInsert
    <3>2. CASE CommitUpdate(k)
      <4>1. /\ health \in CircuitSnapshot /\ loaded[k] \in CircuitSnapshot
            /\ health' = UpdateRow(health, loaded[k], staged[k]) /\ Young(health, since)
        BY <3>2, <1>0 DEF CommitUpdate, TypeInv, Rows, AllYoung
      <4> QED BY <4>1, <2>1, MixedYoung
    <3> QED BY <1>8, <3>1, <3>2
  <2> QED BY <1>0, <2>1, <2>2 DEF EndJob, AllYoung, Young, Open
<1>9. ASSUME NEW k \in Jobs,
             MayCallAsserts(k) \/ CommitConflicts(k) \/ JobTimesOut(k) \/ TransactionFails(k)
      PROVE  AllYoung(since)'
  BY <1>0, <1>9 DEF MayCallAsserts, MayCall, CommitConflicts, JobTimesOut, TransactionFails, EndJob,
     AllYoung, Young, Open
<1>10. CASE Tick \/ WorkerCrash
  BY <1>10 DEF Tick, WorkerCrash, AllYoung, Young, Open
<1> QED BY <1>2, <1>3, <1>4, <1>5, <1>6, <1>7, <1>8, <1>9, <1>10
        DEF Next, JobStep, MayCallRefuses, CommitOfInsert

\* Before there is a row, whatever is staged is as young as any job.
FirstKnown == \A k \in Jobs : InTime(k) /\ FirstDecision(k)

FirstFact == TypeInv /\ FirstKnown /\ health = NULL => \A j \in Jobs : AllYoung(started[j])

LEMMA FirstYoung == FirstFact
<1> SUFFICES ASSUME NEW j \in Jobs, TypeInv, FirstKnown, health = NULL PROVE AllYoung(started[j])
  BY DEF FirstFact
<1>1. /\ clock \in Nat /\ JOB_TIMEOUT \in Nat /\ started \in [Jobs -> Nat]
      /\ staged \in [Jobs -> Rows] /\ started[j] <= clock
  BY ConstantTypes DEF TypeInv, TypeOK, Rows, FirstKnown, InTime
<1>2. ASSUME NEW k \in Jobs, Open(k) PROVE Young(loaded[k], started[j]) /\ Young(staged[k], started[j])
  <2>1. loaded[k] = NULL
    BY DEF TypeInv
  <2>2. /\ staged[k] # NULL /\ staged[k] \in CircuitSnapshot /\ staged[k].state # "half_open"
        /\ staged[k].opened_at # NULL => staged[k].opened_at >= started[k]
        /\ clock <= started[k] + JOB_TIMEOUT
    BY <1>1, <1>2 DEF FirstKnown, FirstDecision, InTime, Open, TypeInv, Rows, Ended
  <2>3. staged[k].opened_at \in Nat \cup {NULL}
    BY <2>2 DEF CircuitSnapshot
  <2> QED BY <1>1, <2>1, <2>2, <2>3 DEF Young
<1> QED BY <1>2 DEF AllYoung, Young

\* The invariant's part about one job, whose own fields a step of the others leaves alone.
TrialOf(j) == InTime(j) /\ FirstDecision(j) /\ TrialStaged(j)

LEMMA TrialSame ==
    ASSUME TypeInv, NEW k \in Jobs, TrialOf(k), UNCHANGED <<clock, pc[k], outcome[k], loaded[k], staged[k], started[k]>>,
           health' = NULL => health = NULL
    PROVE  TrialOf(k)'
BY DEF TrialOf, InTime, FirstDecision, TrialStaged, Open

LEMMA TrialEnded ==
    ASSUME TypeInv, NEW j \in Jobs, NEW how \in Ended, EndJob(j, how), clock' = clock,
           health' = NULL => health = NULL, \A k \in Jobs : TrialOf(k)
    PROVE  \A k \in Jobs : TrialOf(k)'
<1>1. /\ pc \in [Jobs -> Locations] /\ outcome \in [Jobs -> Outcomes] /\ clock \in Nat
      /\ loaded \in [Jobs -> Rows] /\ staged \in [Jobs -> Rows] /\ started \in [Jobs -> Nat]
  BY ConstantTypes DEF TypeInv, TypeOK, Rows
<1>2. \A k \in Jobs \ {j} : TrialOf(k)'
  BY <1>1, TrialSame DEF EndJob
<1>3. TrialOf(j)'
  BY <1>1 DEF EndJob, TrialOf, InTime, FirstDecision, TrialStaged, Open, Ended
<1> QED BY <1>2, <1>3

LEMMA NextTrialOf ==
    ASSUME 2 * JOB_TIMEOUT < COOLDOWN, TypeInv, TrialInv, [Next]_healthVars
    PROVE  \A k \in Jobs : TrialOf(k)'
<1>0. /\ clock \in Nat /\ health \in Rows /\ NULL \notin Nat /\ JOB_TIMEOUT \in Nat
      /\ snapshot_from_row(health) \in CircuitSnapshot
      /\ loaded \in [Jobs -> Rows] /\ staged \in [Jobs -> Rows] /\ started \in [Jobs -> Nat]
      /\ pc \in [Jobs -> Locations] /\ outcome \in [Jobs -> Outcomes]
  BY ConstantTypes, SnapshotType DEF TypeInv, TypeOK, Rows
<1>00. \A k \in Jobs : TrialOf(k)
  BY DEF TrialInv, TrialOf
<1>1. ASSUME NEW j \in Jobs, MayCallAllows(j) PROVE \A k \in Jobs : TrialOf(k)'
  <2> DEFINE a == may_attempt(snapshot_from_row(health), clock)
  <2>1. /\ staged' = [staged EXCEPT ![j] = a.next] /\ loaded' = [loaded EXCEPT ![j] = health]
        /\ pc' = [pc EXCEPT ![j] = "admitting"] /\ started' = [started EXCEPT ![j] = clock]
        /\ UNCHANGED <<clock, health, outcome>>
    BY <1>1 DEF MayCallAllows, MayCall
  <2>2. health = NULL => a.next = initial_snapshot
    BY DEF snapshot_from_row, initial_snapshot, may_attempt
  <2> HIDE DEF a
  <2>3. TrialOf(j)'
    BY <1>0, <2>1, <2>2 DEF TrialOf, InTime, FirstDecision, TrialStaged, Open, initial_snapshot
  <2> QED BY <1>0, <1>00, <2>1, <2>3, TrialSame
<1>2. ASSUME NEW j \in Jobs, MayCallRejects(j) PROVE \A k \in Jobs : TrialOf(k)'
  <2>1. /\ pc' = [pc EXCEPT ![j] = "answered"] /\ outcome' = [outcome EXCEPT ![j] = "rejected"]
        /\ started' = [started EXCEPT ![j] = clock] /\ UNCHANGED <<clock, health, loaded, staged>>
    BY <1>2 DEF MayCallRejects, MayCall
  <2>2. TrialOf(j)'
    BY <1>0, <2>1 DEF TrialOf, InTime, FirstDecision, TrialStaged, Open
  <2> QED BY <1>0, <1>00, <2>1, <2>2, TrialSame
<1>3. ASSUME NEW j \in Jobs, CommitMayCall(j) \/ CallSucceeds(j) \/ CallFails(j)
      PROVE  \A k \in Jobs : TrialOf(k)'
  <2>1. /\ pc[j] \in {"admitting", "calling"} /\ pc'[j] \in {"calling", "answered"}
        /\ UNCHANGED <<clock, started>>
        /\ health' = NULL => health = NULL
        /\ \A k \in Jobs \ {j} : UNCHANGED <<pc[k], outcome[k], loaded[k], staged[k]>>
    <3>1. CASE CommitMayCall(j)
      <4>1. loaded[j] # NULL => health' # NULL
        <5>1. loaded[j] # NULL => /\ health' = UpdateRow(health, loaded[j], staged[j])
                                  /\ health \in CircuitSnapshot /\ loaded[j] \in CircuitSnapshot
                                  /\ staged[j] \in CircuitSnapshot
          BY <3>1, <1>0 DEF CommitMayCall, TypeInv, Rows, Open
        <5> QED BY <5>1, UpdateMixes, ConstantTypes
      <4> QED BY <1>0, <3>1, <4>1 DEF CommitMayCall
    <3>2. CASE CallSucceeds(j) \/ CallFails(j)
      BY <1>0, <3>2 DEF CallSucceeds, CallFails, Answer
    <3> QED BY <1>3, <3>1, <3>2
  <2>2. TrialOf(j)'
    BY <1>0, <1>00, <2>1 DEF TrialOf, InTime, FirstDecision, TrialStaged, Open, Ended
  <2> QED BY <1>0, <1>00, <2>1, <2>2, TrialSame
<1>4. ASSUME NEW j \in Jobs, RecordGet(j) PROVE \A k \in Jobs : TrialOf(k)'
  <2> DEFINE s == snapshot_from_row(health)
             n == IF outcome[j] = "success" THEN next_state_after_success(s)
                  ELSE next_state_after_failure(s, clock)
  <2>1. /\ staged' = [staged EXCEPT ![j] = n] /\ loaded' = [loaded EXCEPT ![j] = health]
        /\ pc[j] = "answered" /\ pc' = [pc EXCEPT ![j] = IF health = NULL THEN "persisting" ELSE "saving"]
        /\ UNCHANGED <<clock, health, outcome, started>>
    BY <1>4 DEF RecordGet
  <2>2. outcome[j] = "success" => n = initial_snapshot
    BY DEF next_state_after_success
  <2>3. outcome[j] # "success" =>
          /\ n.state \in {"open", "closed"}
          /\ n.opened_at \in {NULL, clock, s.opened_at}
          /\ s.state = "half_open" => n.state = "open" /\ n.opened_at = clock
    <3>1. s \in CircuitSnapshot
      BY <1>0
    <3> HIDE DEF s
    <3> QED BY <1>0, <3>1, FailureResult
  <2>4. health = NULL => s.opened_at = NULL
    BY DEF snapshot_from_row, initial_snapshot
  <2>5. health # NULL => s = health
    BY DEF snapshot_from_row
  <2> HIDE DEF n, s
  <2>6. started[j] <= clock /\ clock <= started[j] + JOB_TIMEOUT /\ started[j] \in Nat
    BY <1>0, <1>00, <2>1 DEF TrialOf, InTime, Ended
  <2>7. TrialOf(j)'
    BY <1>0, <2>1, <2>2, <2>3, <2>4, <2>5, <2>6 DEF TrialOf, InTime, FirstDecision, TrialStaged, Open, initial_snapshot
  <2> QED BY <1>0, <1>00, <2>1, <2>7, TrialSame
<1>5. ASSUME NEW j \in Jobs, PersistGet(j) PROVE \A k \in Jobs : TrialOf(k)'
  <2>1. /\ pc[j] = "persisting" /\ pc' = [pc EXCEPT ![j] = "saving"]
        /\ loaded' = [loaded EXCEPT ![j] = health]
        /\ UNCHANGED <<clock, health, outcome, staged, started>>
    BY <1>5 DEF PersistGet
  <2>2. health # NULL => health.state # "half_open"
    BY <2>1 DEF TrialInv, AllYoung, Young
  <2>3. TrialOf(j)'
    BY <1>0, <1>00, <2>1, <2>2 DEF TrialOf, InTime, FirstDecision, TrialStaged, Open, Ended
  <2> QED BY <1>0, <1>00, <2>1, <2>3, TrialSame
<1>6. ASSUME NEW j \in Jobs,
             \/ MayCallAsserts(j) \/ CallFailsIrrelevantly(j) \/ CallEscapes(j)
             \/ CommitUpdate(j) \/ CommitInsert(j)
             \/ CommitConflicts(j) \/ JobTimesOut(j) \/ TransactionFails(j)
      PROVE  \A k \in Jobs : TrialOf(k)'
  <2>1. (EndJob(j, "idle") \/ EndJob(j, "escaped")) /\ clock' = clock
    BY <1>6 DEF MayCallAsserts, MayCall, CallFailsIrrelevantly, CallEscapes, CommitUpdate,
       CommitInsert, CommitConflicts, JobTimesOut, TransactionFails
  <2>2. health' = NULL => health = NULL
    <3>1. CASE CommitUpdate(j)
      <4>1. /\ health' = UpdateRow(health, loaded[j], staged[j]) /\ health \in CircuitSnapshot
            /\ loaded[j] \in CircuitSnapshot /\ staged[j] \in CircuitSnapshot
        BY <3>1, <1>0 DEF CommitUpdate, TypeInv, Rows, Open
      <4>2. health' \in CircuitSnapshot
        BY <4>1, UpdateMixes
      <4> QED BY <4>2, ConstantTypes
    <3> QED BY <1>6, <3>1 DEF MayCallAsserts, MayCall, CallFailsIrrelevantly, CallEscapes, CommitInsert,
       CommitConflicts, JobTimesOut, TransactionFails
  <2>3. "idle" \in Ended /\ "escaped" \in Ended
    BY DEF Ended
  <2> QED BY <1>00, <2>1, <2>2, <2>3, TrialEnded
<1>7. CASE Tick
  <2>1. /\ clock' = clock + 1 /\ UNCHANGED <<health, pc, outcome, loaded, staged, started>>
        /\ \A k \in Jobs : pc[k] \notin Ended => clock < started[k] + JOB_TIMEOUT
    BY <1>0, <1>7 DEF Tick, TimedOut
  <2> QED BY <1>0, <1>00, <2>1 DEF TrialOf, InTime, FirstDecision, TrialStaged, Open
<1>8. CASE WorkerCrash
  BY <1>0, <1>8 DEF WorkerCrash, TrialOf, InTime, FirstDecision, TrialStaged, Open, Ended
<1>9. CASE UNCHANGED healthVars
  BY <1>00, <1>9 DEF healthVars, TrialOf, InTime, FirstDecision, TrialStaged, Open
<1> QED BY <1>1, <1>2, <1>3, <1>4, <1>5, <1>6, <1>7, <1>8, <1>9
        DEF Next, JobStep, MayCallRefuses, CommitOfInsert, CallEnds

\* A job begins to wait in _persist only by looking up an absent row.
LEMMA BeginsToPersist ==
    ASSUME TypeInv, [Next]_healthVars, NEW j \in Jobs, pc'[j] = "persisting", pc[j] # "persisting"
    PROVE  health' = NULL /\ clock' = clock
BY DEF TypeInv, TypeOK, Next, JobStep, MayCallRefuses, CommitOfInsert, CallEnds, MayCallAllows,
   MayCallRejects, MayCallAsserts, MayCall, CommitMayCall, CallSucceeds, CallFails,
   CallFailsIrrelevantly, CallEscapes, Answer, RecordGet, PersistGet, CommitUpdate, CommitInsert,
   CommitConflicts, JobTimesOut, TransactionFails, EndJob, Tick, WorkerCrash, healthVars

LEMMA StaysPersisting ==
    ASSUME TypeInv, [Next]_healthVars, NEW j \in Jobs, pc'[j] = "persisting", pc[j] = "persisting"
    PROVE  started'[j] = started[j]
BY DEF TypeInv, TypeOK, Next, JobStep, MayCallRefuses, CommitOfInsert, CallEnds, MayCallAllows,
   MayCallRejects, MayCallAsserts, MayCall, CommitMayCall, CallSucceeds, CallFails,
   CallFailsIrrelevantly, CallEscapes, Answer, RecordGet, PersistGet, CommitUpdate, CommitInsert,
   CommitConflicts, JobTimesOut, TransactionFails, EndJob, Tick, WorkerCrash, healthVars, Ended

LEMMA NextTrialInv ==
    ASSUME 2 * JOB_TIMEOUT < COOLDOWN, TypeInv, TypeInv', TrialInv, [Next]_healthVars
    PROVE  TrialInv'
<1>1. \A k \in Jobs : TrialOf(k)'
  BY NextTrialOf
<1>2. ASSUME NEW j \in Jobs, pc'[j] = "persisting" PROVE AllYoung(started[j])'
  <2>1. started \in [Jobs -> Nat] /\ clock \in Nat /\ (started'[j] \in Nat /\ clock' \in Nat)
    BY ConstantTypes DEF TypeInv, TypeOK
  <2>2. CASE pc[j] = "persisting"
    <3>1. started'[j] = started[j]
      BY <1>2, <2>2, StaysPersisting
    <3>2. AllYoung(started[j]) /\ started[j] <= clock /\ clock <= started[j] + JOB_TIMEOUT
      BY <2>2 DEF TrialInv, InTime, Ended
    <3>3. CASE Next
      <4>1. ASSUME NEW since \in Nat, since = started[j] PROVE AllYoung(since)'
        BY <2>1, <3>2, <3>3, <4>1, YoungKept
      <4> QED BY <2>1, <3>1, <4>1 DEF AllYoung
    <3>4. CASE UNCHANGED healthVars
      BY <3>2, <3>4 DEF healthVars, AllYoung, Young, Open
    <3> QED BY <3>3, <3>4
  <2>3. CASE pc[j] # "persisting"
    <3>1. health' = NULL
      BY <1>2, <2>3, BeginsToPersist
    <3>2. FirstKnown'
      BY <1>1 DEF TrialOf, FirstKnown
    <3>3. FirstFact'
      BY FirstYoung, PTL
    <3> QED BY <3>1, <3>2, <3>3 DEF FirstFact
  <2> QED BY <2>2, <2>3
<1> QED BY <1>1, <1>2 DEF TrialInv, TrialOf

\* The step in which a job goes from "saving" to "idle" is the commit of its update or insert.
LEMMA RecordsCommits ==
    ASSUME TypeInv, [Next]_healthVars, NEW j \in Jobs, NEW what, Records(j, what)
    PROVE  CommitUpdate(j) \/ CommitInsert(j)
<1>1. /\ pc \in [Jobs -> Locations] /\ crashes \in Nat
      /\ pc[j] = "saving" /\ pc'[j] = "idle" /\ crashes' = crashes
  BY ConstantTypes DEF TypeInv, TypeOK, Records
<1>2. ~Tick /\ ~WorkerCrash /\ ~UNCHANGED healthVars
  BY <1>1 DEF Tick, WorkerCrash, healthVars
<1>3. ASSUME NEW k \in Jobs,
             \/ MayCallAllows(k) \/ MayCallRejects(k) \/ MayCallAsserts(k) \/ CommitMayCall(k)
             \/ RecordGet(k) \/ PersistGet(k) \/ CommitConflicts(k) \/ CallEnds(k) \/ JobTimesOut(k)
             \/ TransactionFails(k)
      PROVE  FALSE
  BY <1>1, <1>3 DEF MayCallAllows, MayCallRejects, MayCallAsserts, MayCall, CommitMayCall, RecordGet,
     PersistGet, CommitConflicts, CallEnds, CallSucceeds, CallFails, CallFailsIrrelevantly,
     CallEscapes, Answer, JobTimesOut, TransactionFails, EndJob
<1>4. ASSUME NEW k \in Jobs, CommitUpdate(k) \/ CommitInsert(k) PROVE k = j
  BY <1>1, <1>4 DEF CommitUpdate, CommitInsert, EndJob
<1> QED BY <1>2, <1>3, <1>4 DEF Next, JobStep, MayCallRefuses, CommitOfInsert

\* With a cooldown of more than two job timeouts, a failed trial re-opens the circuit
\* and dates it no earlier than the job that tried, however many trials and other
\* updates run beside it.
THEOREM TrialsRestartTheCooldown ==
    ASSUME 2 * JOB_TIMEOUT < COOLDOWN
    PROVE  Spec => FailedTrialRestartsCooldown
<1> DEFINE Restart == \A j \in Jobs :
              Records(j, "failure") /\ loaded[j] # NULL /\ loaded[j].state = "half_open"
                => health'.state = "open" /\ health'.opened_at >= started[j]
<1>1. ASSUME TypeInv, TrialInv, [Next]_healthVars, NEW j \in Jobs,
             Records(j, "failure"), loaded[j] # NULL, loaded[j].state = "half_open"
      PROVE  health'.state = "open" /\ health'.opened_at >= started[j]
  <2>1. CommitUpdate(j) /\ pc[j] = "saving" /\ outcome[j] = "failure"
    BY <1>1, RecordsCommits DEF CommitInsert, Records
  <2>2. staged[j].state = "open" /\ staged[j].opened_at >= started[j]
    BY <1>1, <2>1 DEF TrialInv, TrialStaged
  <2>3. Reopened(loaded[j], staged[j]) /\ health' = UpdateRow(health, loaded[j], staged[j])
    BY <1>1, <2>1, <2>2 DEF Reopened, CommitUpdate
  <2> QED BY <1>1, <2>2, <2>3 DEF UpdateRow, Column
<1>2. TypeInv /\ TrialInv /\ [Next]_healthVars => [Restart]_healthVars
  BY <1>1
<1>3. Init => TypeInv /\ TrialInv
  BY InitTypeInv, InitTrialInv
<1>4. TypeInv /\ TrialInv /\ [Next]_healthVars => (TypeInv /\ TrialInv)'
  BY NextTypeInv, NextTrialInv
<1> QED BY <1>2, <1>3, <1>4, PTL DEF Spec, FailedTrialRestartsCooldown

-----------------------------------------------------------------------------
(* The pipeline *)

HIDE DEF CircuitState, Locations, Outcomes, Ended

BusySteps == Steps \ {"off", "returned"}
Busy(s) == step[s] \in BusySteps

\* No job has run for the search, and none is queued.
Unqueued(s) == step[s] = "off" /\ tries[s] = 0 /\ s \notin queue

\* Where a search may stand, and how often its job may have started: each time but
\* the first, a process has died.
Life(s) ==
    /\ request[s] = "none" => search[s] = NULL /\ Unqueued(s)
    /\ request[s] # "none" => search[s] # NULL
    /\ request[s] = "committed" => search[s] = NewSearch /\ Unqueued(s)
    /\ s \in committed => request[s] = "collected" /\ search[s] = NewSearch /\ Unqueued(s)
    /\ IsState(s, {"pending"}) => step[s] \in {"off", "returned"}
    /\ Busy(s) => IsState(s, {"running"})
    /\ pc[s] \notin Ended => Busy(s)
    /\ step[s] # "off" => tries[s] > 0
    /\ tries[s] <= crashes + 1
    /\ step[s] = "off" /\ s \in queue => tries[s] <= crashes

\* Stranded, and the collection no longer has it in hand.
Lost == {s \in Stranded : s \notin committed}

LostIsBounded == IsFiniteSet(Lost) /\ Cardinality(Lost) <= cut + crashes

CollectionTypeOK ==
    /\ routes \subseteq Routes /\ plan \subseteq Routes
    /\ collection \in {"off", "queued", "looping", "returned"}
    /\ committed \subseteq Jobs
    /\ collections \in 0..MaxCollections
    /\ cut \in Nat

HealthInv == TypeInv /\ EarlyInv

CollectionInv ==
    /\ HealthInv
    /\ PipelineTypeOK
    /\ CollectionTypeOK
    /\ \A s \in Jobs : Life(s)
    /\ \A s, k \in committed : s = k
    /\ committed # {} => collection = "looping"
    /\ LostIsBounded

-----------------------------------------------------------------------------
(* What a step of one search leaves alone *)

LEMMA PipelineConstants ==
    /\ MAX_JOBS \in Nat \ {0} /\ MAX_TRIES \in Nat \ {0} /\ MaxOutages \in Nat
    /\ MaxCollections \in Nat /\ MaxCrashes \in Nat
    /\ \A row \in Search : row # NULL
BY SearchPipelineAssumption, ScheduledCollectionAssumption, SourceHealthAssumption

\* The step is not about search k.
Same(k) ==
    /\ search'[k] = search[k] /\ request'[k] = request[k]
    /\ step'[k] = step[k] /\ tries'[k] = tries[k] /\ pc'[k] = pc[k]
    /\ k \in queue' <=> k \in queue
    /\ k \in committed' <=> k \in committed

LEMMA SameKeepsLife ==
    ASSUME NEW k \in Jobs, Life(k), Same(k), crashes' = crashes
    PROVE  Life(k)'
BY DEF Life, Same, IsState, Busy, Unqueued, NewSearch

LEMMA SameKeepsLost ==
    ASSUME NEW k \in Jobs, Same(k)
    PROVE  k \in Lost' => k \in Lost
<1>1. k \in Lost <=>
        /\ request[k] = "collected" /\ IsState(k, {"pending"}) /\ tries[k] = 0
        /\ k \notin queue /\ k \notin committed
  BY DEF Lost, Stranded
<1>2. k \in Lost' <=>
        (/\ request[k] = "collected" /\ IsState(k, {"pending"}) /\ tries[k] = 0
         /\ k \notin queue /\ k \notin committed)'
  BY DEF Lost, Stranded
<1> QED BY <1>1, <1>2 DEF Same, IsState

LEMMA Counts ==
    ASSUME CollectionInv
    PROVE  crashes \in Nat /\ cut \in Nat /\ tries \in [Jobs -> Nat]
BY PipelineConstants DEF CollectionInv, CollectionTypeOK, PipelineTypeOK, TypeOK

LEMMA NoneLost ==
    ASSUME LostIsBounded, Lost' \subseteq Lost, UNCHANGED <<cut, crashes>>,
           cut \in Nat, crashes \in Nat
    PROVE  LostIsBounded'
<1>1. IsFiniteSet(Lost') /\ Cardinality(Lost') <= Cardinality(Lost)
  BY FS_Subset DEF LostIsBounded
<1>2. Cardinality(Lost) \in Nat /\ Cardinality(Lost') \in Nat
  BY <1>1, FS_CardinalityType DEF LostIsBounded
<1> QED BY <1>1, <1>2 DEF LostIsBounded

\* One search lost, and one more run cut short or crash.
LEMMA OneLost ==
    ASSUME LostIsBounded, NEW lost, Lost' \subseteq Lost \cup {lost},
           cut \in Nat, crashes \in Nat, cut' + crashes' = cut + crashes + 1
    PROVE  LostIsBounded'
<1>1. IsFiniteSet(Lost \cup {lost}) /\ Cardinality(Lost) \in Nat
      /\ Cardinality(Lost \cup {lost}) <= Cardinality(Lost) + 1
  BY FS_AddElement, FS_CardinalityType DEF LostIsBounded
<1>2. IsFiniteSet(Lost') /\ Cardinality(Lost') <= Cardinality(Lost \cup {lost})
  BY <1>1, FS_Subset
<1>3. Cardinality(Lost') \in Nat /\ Cardinality(Lost \cup {lost}) \in Nat
  BY <1>1, <1>2, FS_CardinalityType
<1> QED BY <1>1, <1>2, <1>3 DEF LostIsBounded

\* The breaker inside the pipeline keeps the invariants of SourceHealth.
LEMMA HealthKept ==
    ASSUME HealthInv, [Next]_healthVars
    PROVE  HealthInv'
BY NextTypeInv, NextEarlyInv DEF HealthInv

LEMMA StepOfOne ==
    ASSUME CollectionInv, NEW s \in Jobs, HealthInv', PipelineTypeOK', UNCHANGED collectionVars,
           crashes' = crashes, Life(s)', s \in Lost' => s \in Lost,
           \A k \in Jobs \ {s} : Same(k)
    PROVE  CollectionInv'
<1>1. \A k \in Jobs : Life(k)'
  BY SameKeepsLife DEF CollectionInv
<1>2. CollectionTypeOK'
  BY DEF CollectionInv, CollectionTypeOK, collectionVars
<1>3. Lost' \subseteq Lost
  BY SameKeepsLost DEF Lost, Stranded
<1>4. cut' = cut /\ cut \in Nat /\ crashes \in Nat
  BY PipelineConstants DEF CollectionInv, collectionVars, CollectionTypeOK, PipelineTypeOK, TypeOK
<1>5. LostIsBounded'
  BY <1>3, <1>4, NoneLost DEF CollectionInv
<1> QED BY <1>1, <1>2, <1>5 DEF CollectionInv, collectionVars

\* The breaker's steps of one job leave the other jobs where they are.
LEMMA HealthStepOfOne ==
    ASSUME TypeInv, NEW s \in Jobs,
           JobStep(s) \/ CallEnds(s) \/ JobTimesOut(s) \/ TransactionFails(s) \/ UNCHANGED healthVars
    PROVE  /\ [Next]_healthVars
           /\ crashes' = crashes
           /\ \A k \in Jobs \ {s} : pc'[k] = pc[k]
<1>1. [Next]_healthVars
  BY DEF Next
<1>2. pc \in [Jobs -> Locations]
  BY DEF TypeInv, TypeOK
<1>3. CASE JobStep(s)
  BY <1>1, <1>2, <1>3 DEF JobStep, MayCallAllows, MayCallRefuses, MayCallRejects, MayCallAsserts, MayCall,
     CommitMayCall, RecordGet, PersistGet, CommitUpdate, CommitOfInsert, CommitInsert,
     CommitConflicts, EndJob
<1>4. CASE CallEnds(s) \/ JobTimesOut(s) \/ TransactionFails(s)
  BY <1>1, <1>2, <1>4 DEF CallEnds, CallSucceeds, CallFails, CallFailsIrrelevantly, CallEscapes,
     Answer, JobTimesOut, TransactionFails, EndJob
<1>5. CASE UNCHANGED healthVars
  BY <1>1, <1>5 DEF healthVars
<1> QED BY <1>3, <1>4, <1>5

\* The handler of search s gets on, and the search's row does not change.
LEMMA GotoKeepsInv ==
    ASSUME CollectionInv, UNCHANGED collectionVars,
           NEW s \in Jobs, NEW from \in BusySteps, NEW to \in BusySteps \cup {"returned"}, Goto(s, from, to),
           JobStep(s) \/ CallEnds(s) \/ JobTimesOut(s) \/ TransactionFails(s) \/ UNCHANGED healthVars,
           kind' \in [Jobs -> Kinds \cup {NULL}], raw' \subseteq Jobs,
           to = "returned" => pc'[s] \in Ended
    PROVE  CollectionInv'
<1>1. /\ step[s] = from /\ step' = [step EXCEPT ![s] = to]
      /\ UNCHANGED <<request, pool, redis, outages, search, queue, tries, committed>>
  BY DEF Goto, apiVars, redisVars, collectionVars
<1>2. crashes' = crashes /\ HealthInv' /\ \A k \in Jobs \ {s} : pc'[k] = pc[k]
  BY HealthStepOfOne, HealthKept DEF CollectionInv, HealthInv
<1>3. /\ step \in [Jobs -> Steps] /\ to \in Steps /\ from \notin {"off", "returned"}
      /\ to # "off"
  BY DEF CollectionInv, PipelineTypeOK, BusySteps, Steps
<1>4. PipelineTypeOK'
  BY <1>1, <1>2, <1>3 DEF CollectionInv, HealthInv, TypeInv, PipelineTypeOK
<1>5. \A k \in Jobs \ {s} : Same(k)
  BY <1>1, <1>2, <1>3 DEF Same
<1>6. step'[s] = to /\ Life(s) /\ Busy(s) /\ IsState(s, {"running"})
  BY <1>1, <1>3 DEF CollectionInv, Life, Busy
<1>7. Life(s)'
  BY <1>1, <1>2, <1>3, <1>6 DEF Life, Busy, BusySteps, IsState, Unqueued, NewSearch
<1>8. s \in Lost' => s \in Lost
  BY <1>1 DEF Lost, Stranded, IsState
<1> QED BY <1>2, <1>4, <1>5, <1>7, <1>8, StepOfOne

-----------------------------------------------------------------------------
(* The steps of a search *)

LEMMA CreateKeepsInv ==
    ASSUME CollectionInv, NEW s \in Jobs, CreateSearch(s), UNCHANGED <<collection, plan, committed, collections, cut, abandoned>>,
           routes' \subseteq Routes
    PROVE  CollectionInv'
<1>1. /\ request[s] = "none" /\ pool' = TRUE
      /\ search' = [search EXCEPT ![s] = NewSearch] /\ request' = [request EXCEPT ![s] = "committed"]
      /\ UNCHANGED healthVars
      /\ UNCHANGED <<redis, outages, step, kind, queue, tries, raw>>
  BY DEF CreateSearch, redisVars, jobVars
<1>2. HealthInv'
  BY <1>1, HealthKept DEF CollectionInv
<1>3. NewSearch \in Search /\ NewSearch # NULL /\ pc' = pc /\ crashes' = crashes
  BY <1>1, PipelineConstants DEF NewSearch, Search, SearchState, healthVars
<1>4. search \in [Jobs -> Search \cup {NULL}] /\ DOMAIN request = Jobs
  BY DEF CollectionInv, PipelineTypeOK
<1>5. PipelineTypeOK'
  BY <1>1, <1>2, <1>3 DEF CollectionInv, HealthInv, TypeInv, PipelineTypeOK
<1>6. Life(s)'
  BY <1>1, <1>3, <1>4, Counts DEF CollectionInv, Life, Unqueued, IsState, Busy, BusySteps, NewSearch
<1>7. \A k \in Jobs \ {s} : Same(k)
  BY <1>1, <1>3, <1>4 DEF Same
<1>8. \A k \in Jobs : Life(k)'
  BY <1>3, <1>6, <1>7, SameKeepsLife DEF CollectionInv
<1>9. s \notin Lost'
  BY <1>1, <1>4 DEF Lost, Stranded
<1>10. Lost' \subseteq Lost
  BY <1>7, <1>9, SameKeepsLost DEF Lost, Stranded
<1>11. cut' = cut /\ cut \in Nat /\ crashes \in Nat
  BY PipelineConstants DEF CollectionInv, CollectionTypeOK, PipelineTypeOK, TypeOK
<1>12. LostIsBounded'
  BY <1>3, <1>10, <1>11, NoneLost DEF CollectionInv
<1> QED BY <1>2, <1>5, <1>8, <1>12 DEF CollectionInv, CollectionTypeOK

LEMMA EnqueueKeepsInv ==
    ASSUME CollectionInv, NEW s \in Jobs, ApiStep(s), UNCHANGED collectionVars
    PROVE  CollectionInv'
<1>1. PICK how \in {"accepted", "error"} :
        /\ request[s] = "committed" /\ request' = [request EXCEPT ![s] = how]
        /\ queue' = queue \/ queue' = queue \cup {s}
        /\ UNCHANGED healthVars
        /\ UNCHANGED <<redis, outages, step, kind, search, pool, tries, raw, committed>>
  BY DEF ApiStep, EnqueueJob, EnqueueFails, redisVars, jobVars, collectionVars
<1>2. HealthInv'
  BY <1>1, HealthKept DEF CollectionInv
<1>3. DOMAIN request = Jobs /\ request'[s] = how /\ pc' = pc /\ crashes' = crashes
  BY <1>1 DEF CollectionInv, PipelineTypeOK, healthVars
<1>4. PipelineTypeOK'
  BY <1>1, <1>2 DEF CollectionInv, HealthInv, TypeInv, PipelineTypeOK
<1>5. Life(s)'
  <2>1. /\ search'[s] = NewSearch /\ step'[s] = "off" /\ tries'[s] = 0 /\ 0 <= crashes'
        /\ s \notin committed' /\ pc'[s] \in Ended /\ NewSearch # NULL
    BY <1>1, <1>3, Counts DEF CollectionInv, Life, Unqueued, Busy, BusySteps
  <2> QED BY <1>3, <2>1, Counts DEF Life, IsState, Busy, BusySteps, NewSearch
<1>6. \A k \in Jobs \ {s} : Same(k)
  BY <1>1, <1>3 DEF Same
<1>7. s \notin Lost'
  BY <1>1, <1>3 DEF Lost, Stranded
<1> QED BY <1>2, <1>3, <1>4, <1>5, <1>6, <1>7, StepOfOne

LEMMA StartKeepsInv ==
    ASSUME CollectionInv, NEW s \in Jobs, StartJob(s), UNCHANGED collectionVars
    PROVE  CollectionInv'
<1> DEFINE row == [search[s] EXCEPT !.state = "running"]
<1>1. /\ s \in queue /\ step[s] = "off" /\ tries[s] < MAX_TRIES
      /\ tries' = [tries EXCEPT ![s] = tries[s] + 1]
      /\ UNCHANGED healthVars
      /\ UNCHANGED <<request, pool, redis, outages, queue, kind, raw, committed>>
  BY DEF StartJob, apiVars, redisVars, collectionVars
<1>2. HealthInv' /\ pc' = pc /\ crashes' = crashes
  BY <1>1, HealthKept DEF CollectionInv, healthVars
<1>3. search[s] # NULL /\ s \notin committed
  BY <1>1 DEF CollectionInv, Life, Unqueued
<1>4. search[s] \in Search
  BY <1>3 DEF CollectionInv, PipelineTypeOK
<1>5. \/ step' = [step EXCEPT ![s] = "returned"] /\ search' = search
      \/ step' = [step EXCEPT ![s] = "started"] /\ search' = [search EXCEPT ![s] = row]
  BY <1>3 DEF StartJob
<1>6. search[s] = [state |-> search[s].state, failure_reason |-> search[s].failure_reason,
                   completed |-> search[s].completed]
  BY <1>4 DEF Search
<1>7. row = [state |-> "running", failure_reason |-> search[s].failure_reason,
             completed |-> search[s].completed]
  BY <1>6
<1>8. row \in Search /\ row # NULL /\ row.state = "running"
  BY <1>4, <1>7, PipelineConstants DEF Search, SearchState
<1>9. tries[s] + 1 \in 1..MAX_TRIES
  BY <1>1, PipelineConstants DEF CollectionInv, PipelineTypeOK
<1> HIDE DEF row
<1>10. /\ \/ search'[s] = search[s] /\ step'[s] = "returned"
          \/ search'[s] = row /\ step'[s] = "started"
       /\ tries'[s] = tries[s] + 1
       /\ DOMAIN search = Jobs /\ DOMAIN step = Jobs /\ DOMAIN tries = Jobs
  BY <1>1, <1>5 DEF CollectionInv, PipelineTypeOK
<1>11. PipelineTypeOK'
  BY <1>1, <1>2, <1>5, <1>8, <1>9 DEF CollectionInv, HealthInv, TypeInv, PipelineTypeOK, Steps
<1>12. pc[s] \in Ended /\ request[s] \notin {"none", "committed"}
  BY <1>1 DEF CollectionInv, Life, Unqueued, Busy, BusySteps
<1>13. tries[s] <= crashes /\ crashes \in Nat /\ tries[s] \in Nat
  BY <1>1, Counts DEF CollectionInv, Life
<1>14. Life(s)'
  BY <1>1, <1>2, <1>3, <1>8, <1>10, <1>12, <1>13
  DEF Life, Unqueued, IsState, Busy, BusySteps, Steps
<1>15. \A k \in Jobs \ {s} : Same(k)
  BY <1>1, <1>2, <1>5, <1>10 DEF Same
<1>16. s \notin Lost'
  BY <1>1 DEF Lost, Stranded
<1> QED BY <1>2, <1>11, <1>14, <1>15, <1>16, StepOfOne

LEMMA LeaveKeepsInv ==
    ASSUME CollectionInv, NEW s \in Jobs, DropJob(s) \/ FinishJob(s), UNCHANGED collectionVars
    PROVE  CollectionInv'
<1>1. /\ queue' = queue \ {s} /\ step[s] \in {"off", "returned"} /\ step' = [step EXCEPT ![s] = "off"]
      /\ step[s] = "off" => s \in queue /\ tries[s] = MAX_TRIES
      /\ UNCHANGED healthVars
      /\ UNCHANGED <<request, pool, redis, outages, search, kind, tries, raw, committed>>
  BY DEF DropJob, FinishJob, apiVars, redisVars, jobVars, collectionVars, CollectionInv, PipelineTypeOK
<1>2. HealthInv' /\ pc' = pc /\ crashes' = crashes
  BY <1>1, HealthKept DEF CollectionInv, healthVars
<1>3. PipelineTypeOK'
  BY <1>1, <1>2 DEF CollectionInv, HealthInv, TypeInv, PipelineTypeOK, Steps
<1>4. DOMAIN step = Jobs /\ step'[s] = "off"
  BY <1>1 DEF CollectionInv, PipelineTypeOK
<1>5. tries[s] # 0
  BY <1>1, PipelineConstants DEF CollectionInv, Life
<1>6. Life(s)'
  BY <1>1, <1>2, <1>4, <1>5, Counts DEF CollectionInv, Life, Unqueued, IsState, Busy, BusySteps
<1>7. \A k \in Jobs \ {s} : Same(k)
  BY <1>1, <1>2, <1>4 DEF Same
<1>8. s \notin Lost'
  BY <1>1, <1>5 DEF Lost, Stranded
<1> QED BY <1>2, <1>3, <1>6, <1>7, <1>8, StepOfOne

\* The transaction that ends the search.
LEMMA EndKeepsInv ==
    ASSUME CollectionInv, NEW s \in Jobs, CommitReady(s) \/ CommitFailed(s), UNCHANGED collectionVars
    PROVE  CollectionInv'
<1>1. /\ step[s] \in {"writing", "failing"} /\ step' = [step EXCEPT ![s] = "returned"]
      /\ kind' = [kind EXCEPT ![s] = NULL]
      /\ UNCHANGED <<request, pool, redis, outages, queue, tries, raw, committed>>
  BY DEF CommitReady, CommitFailed, EndSearch, apiVars, redisVars, collectionVars
<1>2. JobStep(s) \/ CallEnds(s) \/ UNCHANGED healthVars
  BY DEF CommitReady, CommitFailed, RecordsFailure, JobStep, CommitOfInsert, CommitInsert, CallEnds
<1>3. HealthInv' /\ crashes' = crashes /\ \A k \in Jobs \ {s} : pc'[k] = pc[k]
  BY <1>2, HealthStepOfOne, HealthKept DEF CollectionInv, HealthInv
<1>4. pc'[s] \in Ended
  <2>1. \/ CommitUpdate(s) \/ CommitInsert(s) \/ CallFailsIrrelevantly(s)
        \/ pc[s] \in Ended /\ UNCHANGED healthVars
    BY DEF CommitReady, CommitFailed, RecordsFailure
  <2>2. pc' = [pc EXCEPT ![s] = "idle"] \/ (pc' = pc /\ pc[s] \in Ended)
    BY <2>1 DEF CommitUpdate, CommitInsert, CallFailsIrrelevantly, EndJob, healthVars
  <2>3. pc \in [Jobs -> Locations]
    BY DEF CollectionInv, HealthInv, TypeInv, TypeOK
  <2> QED BY <2>2, <2>3 DEF Ended
<1>5. /\ search[s] # NULL /\ s \notin committed /\ request[s] \notin {"none", "committed"}
      /\ tries[s] > 0 /\ tries[s] <= crashes + 1
  BY <1>1 DEF CollectionInv, Life, Unqueued
<1>6. search[s] \in Search /\ kind[s] \in Kinds \cup {NULL}
  BY <1>5 DEF CollectionInv, PipelineTypeOK
<1>7. PICK row \in Search : search' = [search EXCEPT ![s] = row] /\ row.state \in {"ready", "failed"}
  <2>1. CASE CommitReady(s)
    <3> DEFINE row == [state |-> "ready", failure_reason |-> search[s].failure_reason, completed |-> TRUE]
    <3>1. row \in Search
      BY <1>6 DEF Search, SearchState
    <3> QED BY <2>1, <3>1 DEF CommitReady
  <2>2. CASE CommitFailed(s)
    <3> DEFINE row == [state |-> "failed", failure_reason |-> kind[s], completed |-> TRUE]
    <3>1. row \in Search
      BY <1>6 DEF Search, SearchState
    <3> QED BY <2>2, <3>1 DEF CommitFailed
  <2> QED BY <2>1, <2>2
<1>8. /\ search'[s] = row /\ row # NULL /\ step'[s] = "returned"
      /\ DOMAIN search = Jobs /\ DOMAIN step = Jobs
  BY <1>1, <1>7, PipelineConstants DEF CollectionInv, PipelineTypeOK
<1>9. PipelineTypeOK'
  BY <1>1, <1>3, <1>7 DEF CollectionInv, HealthInv, TypeInv, PipelineTypeOK, Steps
<1>10. Life(s)'
  BY <1>1, <1>3, <1>4, <1>5, <1>7, <1>8 DEF Life, Unqueued, IsState, Busy, BusySteps
<1>11. \A k \in Jobs \ {s} : Same(k)
  BY <1>1, <1>3, <1>7, <1>8 DEF Same
<1>12. s \notin Lost'
  BY <1>7, <1>8 DEF Lost, Stranded, IsState
<1> QED BY <1>3, <1>9, <1>10, <1>11, <1>12, StepOfOne

\* What is left of the worker's steps: the handler gets on.
LEMMA HandlerKeepsInv ==
    ASSUME CollectionInv, NEW s \in Jobs, UNCHANGED collectionVars,
           \/ NoTimezone(s) \/ Admitted(s) \/ CircuitOpen(s) \/ AdmissionAsserts(s) \/ AdmissionCommits(s)
           \/ FetchFails(s) \/ FetchFailsIrrelevantly(s) \/ FetchReturns(s) \/ StoreRaw(s)
           \/ NormalizeFails(s) \/ NormalizeReturns(s) \/ CallRaisesOther(s) \/ RecordConflicts(s)
           \/ DatabaseFails(s)
    PROVE  CollectionInv'
<1>1. kind \in [Jobs -> Kinds \cup {NULL}] /\ raw \subseteq Jobs /\ pc \in [Jobs -> Locations]
  BY DEF CollectionInv, PipelineTypeOK, TypeOK
<1>2. \A k \in Kinds : [kind EXCEPT ![s] = k] \in [Jobs -> Kinds \cup {NULL}]
  BY <1>1
<1>3. /\ "UPSTREAM_ERROR" \in Kinds /\ "BLOCKED" \in Kinds
      /\ "NOT_AVAILABLE" \in Kinds /\ "SCHEMA_CHANGE" \in Kinds
  BY DEF Kinds
<1> DEFINE Handled(from, to) ==
        /\ from \in BusySteps /\ to \in BusySteps \cup {"returned"} /\ Goto(s, from, to)
        /\ JobStep(s) \/ CallEnds(s) \/ JobTimesOut(s) \/ TransactionFails(s) \/ UNCHANGED healthVars
        /\ kind' \in [Jobs -> Kinds \cup {NULL}] /\ raw' \subseteq Jobs
        /\ to = "returned" => pc'[s] \in Ended
<1>4. ASSUME NEW from, NEW to, Handled(from, to) PROVE CollectionInv'
  BY <1>4, GotoKeepsInv
<1> USE DEF BusySteps, Steps
<1>5. CASE NoTimezone(s)
  <2>1. Handled("started", "failing")
    BY <1>1, <1>2, <1>3, <1>5 DEF NoTimezone, Raise
  <2> QED BY <2>1, <1>4
<1>6. CASE Admitted(s)
  <2>1. Handled("started", "admitting")
    BY <1>1, <1>6 DEF Admitted, JobStep
  <2> QED BY <2>1, <1>4
<1>7. CASE CircuitOpen(s)
  <2>1. Handled("started", "failing")
    BY <1>1, <1>2, <1>3, <1>7 DEF CircuitOpen, Raise, JobStep, MayCallRefuses, MayCallRejects
  <2> QED BY <2>1, <1>4
<1>8. CASE AdmissionAsserts(s)
  <2>1. Handled("started", "returned")
    BY <1>1, <1>8 DEF AdmissionAsserts, JobStep, MayCallRefuses, MayCallAsserts, EndJob, Ended
  <2> QED BY <2>1, <1>4
<1>9. CASE AdmissionCommits(s)
  <2>1. Handled("admitting", "fetching")
    BY <1>1, <1>9 DEF AdmissionCommits, JobStep
  <2> QED BY <2>1, <1>4
<1>10. CASE FetchFails(s)
  <2>1. Handled("fetching", "failing")
    BY <1>1, <1>2, <1>3, <1>10 DEF FetchFails, Raise, CallEnds
  <2> QED BY <2>1, <1>4
<1>11. CASE FetchFailsIrrelevantly(s)
  <2>1. Handled("fetching", "failing")
    BY <1>1, <1>2, <1>11 DEF FetchFailsIrrelevantly, Raise
  <2> QED BY <2>1, <1>4
<1>12. CASE FetchReturns(s)
  <2>1. Handled("fetching", "storing")
    BY <1>1, <1>12 DEF FetchReturns
  <2> QED BY <2>1, <1>4
<1>13. CASE StoreRaw(s)
  <2>1. Handled("storing", "normalizing")
    BY <1>1, <1>13 DEF StoreRaw
  <2> QED BY <2>1, <1>4
<1>14. CASE NormalizeFails(s)
  <2>1. Handled("normalizing", "failing")
    BY <1>1, <1>2, <1>3, <1>14 DEF NormalizeFails, Raise
  <2> QED BY <2>1, <1>4
<1>15. CASE NormalizeReturns(s)
  <2>1. Handled("normalizing", "writing")
    BY <1>1, <1>15 DEF NormalizeReturns, CallEnds
  <2> QED BY <2>1, <1>4
<1>16. CASE CallRaisesOther(s)
  <2>1. PICK from \in {"fetching", "normalizing"} : Goto(s, from, "returned")
    BY <1>16 DEF CallRaisesOther
  <2>2. Handled(from, "returned")
    BY <1>1, <1>16, <2>1 DEF CallRaisesOther, CallEnds, CallEscapes, EndJob, Ended
  <2> QED BY <2>2, <1>4
<1>17. CASE RecordConflicts(s)
  <2>1. PICK from \in {"writing", "failing"} : Goto(s, from, "returned")
    BY <1>17 DEF RecordConflicts
  <2>2. Handled(from, "returned")
    BY <1>1, <1>17, <2>1 DEF RecordConflicts, JobStep, CommitOfInsert, CommitConflicts, EndJob, Ended
  <2> QED BY <2>2, <1>4
<1>18. CASE DatabaseFails(s)
  <2>1. PICK from \in {"started", "admitting", "storing", "writing", "failing"} : Goto(s, from, "returned")
    BY <1>18 DEF DatabaseFails
  <2>2. pc'[s] \in Ended
    BY <1>1, <1>18 DEF DatabaseFails, TransactionFails, CallEscapes, EndJob, Ended, healthVars
  <2>3. Handled(from, "returned")
    BY <1>1, <1>18, <2>1, <2>2 DEF DatabaseFails, CallEnds
  <2> QED BY <2>3, <1>4
<1> QED BY <1>5, <1>6, <1>7, <1>8, <1>9, <1>10, <1>11, <1>12, <1>13, <1>14, <1>15, <1>16, <1>17, <1>18

LEMMA WorkerKeepsInv ==
    ASSUME CollectionInv, NEW s \in Jobs, WorkerStep(s), UNCHANGED collectionVars
    PROVE  CollectionInv'
<1>1. CASE Record(s)
  <2>1. step[s] \in BusySteps /\ UNCHANGED pipelineVars
    BY <1>1 DEF Record, BusySteps, Steps
  <2>2. JobStep(s)
    BY <1>1 DEF Record, JobStep
  <2>3. HealthInv' /\ crashes' = crashes /\ \A k \in Jobs \ {s} : pc'[k] = pc[k]
    BY <2>2, HealthStepOfOne, HealthKept DEF CollectionInv, HealthInv
  <2>4. PipelineTypeOK'
    BY <2>1, <2>3 DEF CollectionInv, HealthInv, TypeInv, PipelineTypeOK, pipelineVars
  <2>5. Life(s)'
    BY <2>1, <2>3 DEF CollectionInv, Life, Busy, Unqueued, IsState, NewSearch, pipelineVars, collectionVars
  <2>6. \A k \in Jobs \ {s} : Same(k)
    BY <2>1, <2>3 DEF Same, pipelineVars, collectionVars
  <2>7. s \in Lost' => s \in Lost
    BY <2>1 DEF Lost, Stranded, IsState, pipelineVars, collectionVars
  <2> QED BY <2>3, <2>4, <2>5, <2>6, <2>7, StepOfOne
<1> QED BY <1>1, StartKeepsInv, LeaveKeepsInv, HandlerKeepsInv, EndKeepsInv DEF WorkerStep

\* A job that is cancelled is one that runs.
LEMMA CancelKeepsInv ==
    ASSUME CollectionInv, NEW s \in Jobs, JobCancelled(s), UNCHANGED collectionVars
    PROVE  CollectionInv'
<1>1. step[s] \in BusySteps
  BY DEF JobCancelled, JobTimesOut, TimedOut, CollectionInv, Life, Busy
<1>2. Goto(s, step[s], "returned")
  BY DEF JobCancelled, Goto
<1>3. kind' \in [Jobs -> Kinds \cup {NULL}] /\ raw' \subseteq Jobs
  BY DEF JobCancelled, CollectionInv, PipelineTypeOK
<1>4. pc'[s] \in Ended /\ JobTimesOut(s)
  BY DEF JobCancelled, JobTimesOut, EndJob, CollectionInv, HealthInv, TypeInv, TypeOK, Ended
<1> QED BY <1>1, <1>2, <1>3, <1>4, GotoKeepsInv

-----------------------------------------------------------------------------
(* The steps of the collection *)

\* A step of the collection's job that no search takes part in.
LEMMA JobOnlyKeepsInv ==
    ASSUME CollectionInv, UNCHANGED <<vars, routes, committed, cut>>, committed = {},
           plan' \subseteq Routes, collection' \in {"off", "queued", "looping", "returned"},
           collections' \in 0..MaxCollections
    PROVE  CollectionInv'
<1>1. UNCHANGED <<healthVars, pipelineVars>>
  BY DEF vars
<1>2. HealthInv' /\ crashes' = crashes /\ pc' = pc
  BY <1>1, HealthKept DEF CollectionInv, healthVars
<1>3. PipelineTypeOK'
  BY <1>1, <1>2 DEF CollectionInv, HealthInv, TypeInv, PipelineTypeOK, pipelineVars
<1>4. \A k \in Jobs : Same(k)
  BY <1>1, <1>2 DEF Same, pipelineVars
<1>5. \A k \in Jobs : Life(k)'
  BY <1>2, <1>4, SameKeepsLife DEF CollectionInv
<1>6. Lost' \subseteq Lost
  BY <1>4, SameKeepsLost DEF Lost, Stranded
<1>7. LostIsBounded'
  BY <1>2, <1>6, NoneLost, PipelineConstants DEF CollectionInv, CollectionTypeOK, PipelineTypeOK, TypeOK
<1> QED BY <1>2, <1>3, <1>5, <1>7 DEF CollectionInv, CollectionTypeOK

LEMMA StartCollectionKeepsInv ==
    ASSUME CollectionInv, StartCollection
    PROVE  CollectionInv'
<1>1. committed = {}
  BY DEF StartCollection, Due, CollectionInv
<1>2. /\ plan' \subseteq Routes /\ collection' \in {"off", "queued", "looping", "returned"}
      /\ UNCHANGED <<vars, routes, committed, cut>>
  BY DEF StartCollection, CollectionInv, CollectionTypeOK
<1>3. collections' \in 0..MaxCollections
  BY PipelineConstants DEF StartCollection, Due, CollectionInv, CollectionTypeOK
<1> QED BY <1>1, <1>2, <1>3, JobOnlyKeepsInv

LEMMA FinishCollectionKeepsInv ==
    ASSUME CollectionInv, FinishCollection
    PROVE  CollectionInv'
BY JobOnlyKeepsInv DEF FinishCollection, CollectionInv, CollectionTypeOK

LEMMA CommitNextKeepsInv ==
    ASSUME CollectionInv, CommitNext
    PROVE  CollectionInv'
<1>1. PICK route \in plan, s \in Free :
        /\ plan' = plan \ {route} /\ committed' = {s}
        /\ search' = [search EXCEPT ![s] = NewSearch] /\ request' = [request EXCEPT ![s] = "collected"]
  BY DEF CommitNext
<1>2. /\ collection = "looping" /\ committed = {}
      /\ UNCHANGED healthVars
      /\ UNCHANGED <<pool, redis, outages, step, kind, queue, tries, raw, routes, collection, collections, cut>>
  BY DEF CommitNext, redisVars, jobVars
<1>3. HealthInv' /\ crashes' = crashes /\ pc' = pc
  BY <1>2, HealthKept DEF CollectionInv, healthVars
<1>4. /\ s \in Jobs /\ request[s] = "none" /\ NewSearch \in Search /\ NewSearch # NULL
      /\ DOMAIN search = Jobs /\ DOMAIN request = Jobs
  BY PipelineConstants DEF Free, NewSearch, Search, SearchState, CollectionInv, PipelineTypeOK
<1>5. PipelineTypeOK'
  BY <1>1, <1>2, <1>3, <1>4 DEF CollectionInv, HealthInv, TypeInv, PipelineTypeOK
<1>6. Life(s)'
  BY <1>1, <1>2, <1>3, <1>4 DEF CollectionInv, Life, Unqueued, IsState, Busy, BusySteps, NewSearch
<1>7. \A k \in Jobs \ {s} : Same(k)
  BY <1>1, <1>2, <1>3, <1>4 DEF Same
<1>8. \A k \in Jobs : Life(k)'
  BY <1>3, <1>6, <1>7, SameKeepsLife DEF CollectionInv
<1>9. s \notin Lost'
  BY <1>1 DEF Lost
<1>10. Lost' \subseteq Lost
  BY <1>7, <1>9, SameKeepsLost DEF Lost, Stranded
<1>11. LostIsBounded'
  BY <1>2, <1>3, <1>10, NoneLost, PipelineConstants DEF CollectionInv, CollectionTypeOK, PipelineTypeOK, TypeOK
<1>12. CollectionTypeOK'
  BY <1>1, <1>2, <1>4 DEF CollectionInv, CollectionTypeOK
<1> QED BY <1>1, <1>2, <1>3, <1>5, <1>8, <1>11, <1>12 DEF CollectionInv

LEMMA EnqueueNextKeepsInv ==
    ASSUME CollectionInv, EnqueueNext
    PROVE  CollectionInv'
<1>1. PICK s \in committed : queue' = queue \cup {s} /\ committed' = committed \ {s}
  BY DEF EnqueueNext
<1>2. /\ UNCHANGED healthVars
      /\ UNCHANGED <<request, pool, redis, outages, step, kind, search, tries, raw, routes, plan, collections, cut>>
  BY DEF EnqueueNext, apiVars, redisVars, jobVars
<1>3. committed = {s} /\ committed' = {} /\ s \in Jobs
  BY <1>1 DEF CollectionInv, CollectionTypeOK
<1>4. HealthInv' /\ crashes' = crashes /\ pc' = pc
  BY <1>2, HealthKept DEF CollectionInv, healthVars
<1>5. PipelineTypeOK'
  BY <1>1, <1>2, <1>3, <1>4 DEF CollectionInv, HealthInv, TypeInv, PipelineTypeOK
<1>6. Life(s)'
  <2>1. /\ search[s] = NewSearch /\ request[s] = "collected" /\ Unqueued(s)
        /\ Life(s) /\ search[s] # NULL
    BY <1>3 DEF CollectionInv, Life
  <2>2. pc[s] \in Ended /\ 0 <= crashes
    BY <2>1, Counts DEF Life, Busy, BusySteps, Unqueued
  <2>3. /\ search'[s] = NewSearch /\ step'[s] = "off" /\ tries'[s] = 0 /\ 0 <= crashes'
        /\ request'[s] = "collected" /\ pc'[s] \in Ended /\ search'[s] # NULL
    BY <1>2, <1>4, <2>1, <2>2 DEF Unqueued
  <2> QED BY <1>3, <1>4, <2>3, Counts DEF Life, IsState, Busy, BusySteps, NewSearch
<1>7. \A k \in Jobs \ {s} : Same(k)
  BY <1>1, <1>2, <1>4 DEF Same
<1>8. \A k \in Jobs : Life(k)'
  BY <1>4, <1>6, <1>7, SameKeepsLife DEF CollectionInv
<1>9. s \notin Lost'
  BY <1>1 DEF Lost, Stranded
<1>10. Lost' \subseteq Lost
  BY <1>7, <1>9, SameKeepsLost DEF Lost, Stranded
<1>11. LostIsBounded'
  BY <1>2, <1>4, <1>10, NoneLost, PipelineConstants DEF CollectionInv, CollectionTypeOK, PipelineTypeOK, TypeOK
<1>12. CollectionTypeOK'
  BY <1>2, <1>3 DEF EnqueueNext, CollectionInv, CollectionTypeOK
<1> QED BY <1>3, <1>4, <1>5, <1>8, <1>11, <1>12 DEF CollectionInv

\* The search in hand, if there is one, is what a run that ends early loses.
LEMMA InHand ==
    ASSUME UNCHANGED <<search, request, queue, tries>>, NEW lost, committed \subseteq {lost}
    PROVE  Lost' \subseteq Lost \cup {lost}
<1>1. Stranded' \subseteq Stranded
  BY DEF Stranded, IsState
<1> QED BY <1>1 DEF Lost

\* A run of the collection that is cut short.
LEMMA CutKeepsInv ==
    ASSUME CollectionInv, CollectionCut, UNCHANGED <<vars, routes, collections>>
    PROVE  CollectionInv'
<1>1. UNCHANGED <<healthVars, pipelineVars>>
  BY DEF vars
<1>2. HealthInv' /\ crashes' = crashes /\ pc' = pc
  BY <1>1, HealthKept DEF CollectionInv, healthVars
<1>3. PipelineTypeOK'
  BY <1>1, <1>2 DEF CollectionInv, HealthInv, TypeInv, PipelineTypeOK, pipelineVars
<1>4. \A k \in Jobs : Life(k)'
  BY <1>1, <1>2 DEF CollectionInv, CollectionCut, Life, Busy, Unqueued, IsState, NewSearch, pipelineVars
<1>5. PICK lost : committed \subseteq {lost}
  BY DEF CollectionInv
<1>6. Lost' \subseteq Lost \cup {lost}
  BY <1>1, <1>5, InHand DEF pipelineVars
<1>7. /\ cut \in Nat /\ crashes \in Nat /\ cut' \in Nat
      /\ cut' + crashes' = cut + crashes + 1
  BY <1>2, PipelineConstants DEF CollectionCut, CollectionInv, CollectionTypeOK, PipelineTypeOK, TypeOK
<1>8. LostIsBounded'
  BY <1>6, <1>7, OneLost DEF CollectionInv
<1>9. CollectionTypeOK'
  BY <1>7 DEF CollectionCut, CollectionInv, CollectionTypeOK
<1> QED BY <1>2, <1>3, <1>4, <1>8, <1>9 DEF CollectionInv, CollectionCut

-----------------------------------------------------------------------------
(* Faults and time *)

LEMMA WorkerDiesKeepsInv ==
    ASSUME CollectionInv, WorkerDiesToo
    PROVE  CollectionInv'
<1>1. /\ WorkerCrash /\ step' = [s \in Jobs |-> "off"] /\ kind' = [s \in Jobs |-> NULL]
      /\ UNCHANGED <<request, pool, redis, outages, search, queue, tries, raw, routes, collections, cut>>
      /\ committed' = {} /\ plan' = {}
      /\ collection' \in {"off", "queued"}
  BY DEF WorkerDiesToo, WorkerDies, apiVars, redisVars, CollectionInv, CollectionTypeOK
<1>2. HealthInv'
  BY <1>1, HealthKept DEF CollectionInv, Next
<1>3. PipelineTypeOK'
  BY <1>1, <1>2 DEF CollectionInv, HealthInv, TypeInv, PipelineTypeOK, Steps
<1>4. crashes' = crashes + 1 /\ pc' = [j \in Jobs |-> "idle"]
  BY <1>1 DEF WorkerCrash
<1>5. crashes \in Nat /\ cut \in Nat
  BY PipelineConstants DEF CollectionInv, CollectionTypeOK, PipelineTypeOK, TypeOK
<1>6. \A k \in Jobs : Life(k)'
  <2>. SUFFICES ASSUME NEW k \in Jobs PROVE Life(k)'
    OBVIOUS
  <2>1. step'[k] = "off" /\ pc'[k] \in Ended /\ tries[k] \in Nat
    BY <1>1, <1>4, Counts DEF Ended
  <2>2. Life(k)
    BY DEF CollectionInv
  <2> QED BY <1>1, <1>4, <1>5, <2>1, <2>2 DEF Life, Busy, BusySteps, Unqueued, IsState, NewSearch
<1>7. PICK lost : committed \subseteq {lost}
  BY DEF CollectionInv
<1>8. Lost' \subseteq Lost \cup {lost}
  BY <1>1, <1>7, InHand
<1>9. LostIsBounded'
  BY <1>1, <1>4, <1>5, <1>8, OneLost DEF CollectionInv
<1> QED BY <1>1, <1>2, <1>3, <1>6, <1>9 DEF CollectionInv, CollectionTypeOK

LEMMA ApiDiesKeepsInv ==
    ASSUME CollectionInv, ApiDies, UNCHANGED collectionVars
    PROVE  CollectionInv'
<1>1. /\ crashes < MaxCrashes /\ crashes' = crashes + 1 /\ pool' = FALSE
      /\ request' = [s \in Jobs |-> IF request[s] = "committed" THEN "error" ELSE request[s]]
      /\ UNCHANGED <<clock, health, pc, outcome, loaded, staged, started, genuine, tally>>
      /\ UNCHANGED <<redis, outages, step, kind, search, queue, tries, raw>>
      /\ UNCHANGED <<routes, collection, plan, committed, collections, cut>>
  BY DEF ApiDies, redisVars, jobVars, collectionVars
<1>2. crashes \in Nat /\ cut \in Nat /\ crashes' \in 0..MaxCrashes /\ crashes' # 0
  BY <1>1, PipelineConstants DEF CollectionInv, CollectionTypeOK, PipelineTypeOK, TypeOK
<1>3. HealthInv'
  BY <1>1, <1>2 DEF CollectionInv, HealthInv, TypeInv, TypeOK, Open, EarlyInv, Below, StagedBelow
<1>4. PipelineTypeOK'
  BY <1>1, <1>3 DEF CollectionInv, HealthInv, TypeInv, PipelineTypeOK
<1>5. \A k \in Jobs : Life(k)'
  <2>. SUFFICES ASSUME NEW k \in Jobs PROVE Life(k)'
    OBVIOUS
  <2>1. request'[k] = IF request[k] = "committed" THEN "error" ELSE request[k]
    BY <1>1
  <2>2. tries[k] \in Nat
    BY Counts
  <2>3. Life(k)
    BY DEF CollectionInv
  <2> QED BY <1>1, <1>2, <2>1, <2>2, <2>3 DEF Life, Busy, Unqueued, IsState, NewSearch
<1>6. PICK lost : committed \subseteq {lost}
  BY DEF CollectionInv
<1>7. Lost' \subseteq Lost \cup {lost}
  BY <1>1 DEF Lost, Stranded, IsState
<1>8. LostIsBounded'
  BY <1>1, <1>2, <1>7, OneLost DEF CollectionInv
<1> QED BY <1>1, <1>3, <1>4, <1>5, <1>8 DEF CollectionInv, CollectionTypeOK

LEMMA SurroundingsKeepInv ==
    ASSUME CollectionInv, RedisFails \/ RedisReturns \/ TimePasses \/ UNCHANGED vars, UNCHANGED collectionVars
    PROVE  CollectionInv'
<1>1. /\ UNCHANGED healthVars \/ Tick
      /\ UNCHANGED <<request, pool, step, kind, search, queue, tries, raw>>
      /\ redis' \in BOOLEAN /\ outages' \in 0..MaxOutages
      /\ UNCHANGED <<routes, collection, plan, committed, collections, cut>>
  <2>1. redis \in BOOLEAN /\ outages \in 0..MaxOutages /\ MaxOutages \in Nat
    BY PipelineConstants DEF CollectionInv, PipelineTypeOK
  <2>2. CASE RedisFails
    <3>1. outages < MaxOutages /\ outages' = outages + 1 /\ redis' = FALSE
      BY <2>2 DEF RedisFails
    <3>2. outages' \in 0..MaxOutages
      BY <2>1, <3>1
    <3> QED BY <2>2, <3>1, <3>2 DEF RedisFails, apiVars, jobVars, collectionVars
  <2>3. CASE RedisReturns
    BY <2>1, <2>3 DEF RedisReturns, apiVars, jobVars, collectionVars
  <2>4. CASE TimePasses \/ UNCHANGED vars
    BY <2>1, <2>4 DEF TimePasses, vars, pipelineVars, collectionVars
  <2> QED BY <2>2, <2>3, <2>4
<1>2. HealthInv' /\ crashes' = crashes /\ pc' = pc
  BY <1>1, HealthKept DEF CollectionInv, Next, Tick, healthVars
<1>3. PipelineTypeOK'
  BY <1>1, <1>2 DEF CollectionInv, HealthInv, TypeInv, PipelineTypeOK
<1>4. \A k \in Jobs : Same(k)
  BY <1>1, <1>2 DEF Same
<1>5. \A k \in Jobs : Life(k)'
  BY <1>2, <1>4, SameKeepsLife DEF CollectionInv
<1>6. Lost' \subseteq Lost
  BY <1>4, SameKeepsLost DEF Lost, Stranded
<1>7. LostIsBounded'
  BY <1>1, <1>2, <1>6, NoneLost, PipelineConstants DEF CollectionInv, CollectionTypeOK, PipelineTypeOK, TypeOK
<1> QED BY <1>1, <1>2, <1>3, <1>5, <1>7 DEF CollectionInv, CollectionTypeOK

-----------------------------------------------------------------------------
(* The theorems *)

LEMMA InitCollectionInv == SystemInit => CollectionInv
<1> SUFFICES ASSUME SystemInit PROVE CollectionInv
  OBVIOUS
<1>1. Init /\ TablesInit /\ CollectionInit
  BY DEF SystemInit, PipelineInit
<1>2. HealthInv
  BY <1>1, InitTypeInv, InitEarlyInv DEF HealthInv
<1>3. PipelineTypeOK
  <2>1. TypeOK
    BY <1>2 DEF HealthInv, TypeInv
  <2>2. 0 \in 0..MAX_TRIES /\ 0 \in 0..MaxOutages
    BY PipelineConstants
  <2> QED BY <1>1, <2>1, <2>2 DEF TablesInit, PipelineTypeOK, Steps
<1>4. CollectionTypeOK
  BY <1>1, PipelineConstants DEF CollectionInit, CollectionTypeOK
<1>5. \A s \in Jobs : Life(s)
  BY <1>1 DEF Init, TablesInit, CollectionInit, Life, Unqueued, IsState, Busy, BusySteps, Ended
<1>6. Lost = {} /\ cut = 0 /\ crashes = 0
  BY <1>1 DEF Lost, Stranded, Init, TablesInit, CollectionInit
<1>7. LostIsBounded
  BY <1>6, FS_EmptySet DEF LostIsBounded
<1> QED BY <1>1, <1>2, <1>3, <1>4, <1>5, <1>7 DEF CollectionInv, CollectionInit

LEMMA NextCollectionInv == CollectionInv /\ [CollectionNext]_allVars => CollectionInv'
<1> SUFFICES ASSUME CollectionInv, [CollectionNext]_allVars PROVE CollectionInv'
  OBVIOUS
<1>1. ASSUME NEW s \in Jobs, UserSearch(s) PROVE CollectionInv'
  <2>1. routes' \subseteq Routes
    BY <1>1 DEF UserSearch, CollectionInv, CollectionTypeOK
  <2> QED BY <1>1, <2>1, CreateKeepsInv DEF UserSearch
<1>2. ASSUME NEW s \in Jobs, SearchStep(s) PROVE CollectionInv'
  BY <1>2, WorkerKeepsInv DEF SearchStep
<1>3. ASSUME NEW s \in Jobs, (ApiStep(s) \/ JobCancelled(s)) /\ UNCHANGED collectionVars PROVE CollectionInv'
  BY <1>3, EnqueueKeepsInv, CancelKeepsInv
<1>4. CASE StartCollection \/ CollectionStep
  BY <1>4, StartCollectionKeepsInv, CommitNextKeepsInv, EnqueueNextKeepsInv, FinishCollectionKeepsInv,
     CutKeepsInv DEF CollectionStep, EnqueueNextFails
<1>5. CASE CollectionCancelled
  BY <1>5, CutKeepsInv DEF CollectionCancelled
<1>6. CASE WorkerDiesToo
  BY <1>6, WorkerDiesKeepsInv
<1>7. CASE (RedisFails \/ RedisReturns \/ ApiDies \/ TimePasses) /\ UNCHANGED collectionVars
  BY <1>7, SurroundingsKeepInv, ApiDiesKeepsInv
<1>8. CASE UNCHANGED allVars
  BY <1>8, SurroundingsKeepInv DEF allVars
<1> QED BY <1>1, <1>2, <1>3, <1>4, <1>5, <1>6, <1>7, <1>8 DEF CollectionNext

LEMMA CollectionInvHolds == CollectionSpec => []CollectionInv
BY InitCollectionInv, NextCollectionInv, PTL DEF CollectionSpec

\* In whatever order requests, the worker, the collection and the faults take their
\* steps, the tables, the queue and the handlers stay typed.
THEOREM PipelineTypeCorrectness == CollectionSpec => []PipelineTypeOK
<1>1. CollectionInv => PipelineTypeOK
  BY DEF CollectionInv
<1> QED BY <1>1, CollectionInvHolds, PTL

\* The circuit never opens before the source has failed FAILURE_THRESHOLD times with
\* the whole handler around the breaker either: redelivered jobs, jobs without a
\* timezone and cancelled jobs count no failure of their own.
THEOREM NeverEarlyInThePipeline == CollectionSpec => []NeverOpensEarly
<1>1. CollectionInv => NeverOpensEarly
  BY ConstantTypes DEF CollectionInv, HealthInv, TypeInv, TypeOK, EarlyInv, Below, NeverOpensEarly
<1> QED BY <1>1, CollectionInvHolds, PTL

\* Each run of the collection that is cut short and each crash leaves at most one
\* search behind that no job will run, whatever the number of routes.
THEOREM StrandedIsBounded == CollectionSpec => []OneStrandedPerRun
<1>1. ASSUME CollectionInv PROVE OneStrandedPerRun
  <2> DEFINE running == {c \in {collection} : c = "looping"}
  <2>1. /\ IsFiniteSet(Lost) /\ Cardinality(Lost) \in Nat /\ Cardinality(Lost) <= cut + crashes
        /\ cut \in Nat /\ crashes \in Nat
    BY <1>1, FS_CardinalityType, PipelineConstants
    DEF CollectionInv, LostIsBounded, CollectionTypeOK, PipelineTypeOK, TypeOK
  <2>2. CASE committed = {}
    <3>1. Stranded \subseteq Lost
      BY <2>2 DEF Lost
    <3>2. IsFiniteSet(Stranded) /\ Cardinality(Stranded) <= Cardinality(Lost)
      BY <2>1, <3>1, FS_Subset
    <3>3. running = {} \/ running = {collection}
      OBVIOUS
    <3>4. Cardinality(running) \in Nat /\ Cardinality(Stranded) \in Nat
      BY <3>2, <3>3, FS_EmptySet, FS_Singleton, FS_CardinalityType
    <3> HIDE DEF running
    <3>5. Cardinality(Stranded) <= cut + crashes + Cardinality(running)
      BY <2>1, <3>2, <3>4
    <3> QED BY <3>5 DEF OneStrandedPerRun, running
  <2>3. CASE committed # {}
    <3>1. PICK s : committed = {s}
      BY <1>1, <2>3 DEF CollectionInv
    <3>2. Stranded \subseteq Lost \cup {s}
      BY <3>1 DEF Lost
    <3>3. /\ IsFiniteSet(Lost \cup {s}) /\ Cardinality(Lost \cup {s}) \in Nat
          /\ Cardinality(Lost \cup {s}) <= Cardinality(Lost) + 1
      BY <2>1, FS_AddElement, FS_CardinalityType
    <3>4. IsFiniteSet(Stranded) /\ Cardinality(Stranded) <= Cardinality(Lost \cup {s})
      BY <3>2, <3>3, FS_Subset
    <3>5. Cardinality(Stranded) \in Nat
      BY <3>4, FS_CardinalityType
    <3>6. running = {collection}
      BY <1>1, <2>3 DEF CollectionInv
    <3>7. Cardinality(running) = 1
      BY <3>6, FS_Singleton
    <3> HIDE DEF running
    <3>8. Cardinality(Stranded) <= cut + crashes + Cardinality(running)
      BY <2>1, <3>3, <3>4, <3>5, <3>7
    <3> QED BY <3>8 DEF OneStrandedPerRun, running
  <2> QED BY <2>2, <2>3
<1> QED BY <1>1, CollectionInvHolds, PTL

\* A search that is ready or failed changes only when its job is redelivered: it starts
\* again, once for each process that died, and the row is RUNNING with what it recorded.
THEOREM FinishedIsFinal == CollectionSpec => FinishedStaysFinished
<1> DEFINE Restarts(s) ==
        /\ tries[s] < tries'[s] /\ tries'[s] <= crashes + 1
        /\ search'[s] = [search[s] EXCEPT !.state = "running"]
<1> DEFINE Final == \A s \in Jobs : IsState(s, {"ready", "failed"}) /\ search'[s] # search[s] => Restarts(s)
<1>1. ASSUME CollectionInv, [CollectionNext]_allVars PROVE [Final]_vars
  <2> SUFFICES ASSUME CollectionNext, NEW s \in Jobs, IsState(s, {"ready", "failed"}), search'[s] # search[s]
               PROVE  Restarts(s)
    BY <1>1 DEF allVars
  <2>1. /\ Life(s) /\ request[s] # "none" /\ ~Busy(s)
        /\ search \in [Jobs -> Search \cup {NULL}] /\ crashes \in Nat /\ tries \in [Jobs -> Nat]
    BY <1>1, Counts DEF CollectionInv, PipelineTypeOK, Life, IsState
  <2>2. ASSUME NEW k \in Jobs, UserSearch(k) PROVE FALSE
    BY <2>1, <2>2 DEF UserSearch, CreateSearch
  <2>3. ASSUME NEW k \in Jobs, StartJob(k) PROVE Restarts(s)
    <3>1. s = k
      BY <2>1, <2>3 DEF StartJob
    <3>2. tries[s] <= crashes /\ tries' = [tries EXCEPT ![s] = tries[s] + 1]
      BY <2>1, <2>3, <3>1 DEF StartJob, Life
    <3>3. search'[s] = [search[s] EXCEPT !.state = "running"]
      BY <2>1, <2>3, <3>1 DEF StartJob
    <3> QED BY <2>1, <3>2, <3>3
  <2>4. ASSUME NEW k \in Jobs, CommitReady(k) \/ CommitFailed(k) PROVE FALSE
    <3>1. s # k
      BY <2>1, <2>4 DEF CommitReady, CommitFailed, EndSearch, Busy, BusySteps, Steps
    <3> QED BY <2>1, <2>4, <3>1 DEF CommitReady, CommitFailed
  <2> HIDE DEF Restarts
  <2>5. ASSUME NEW k \in Jobs, SearchStep(k) PROVE Restarts(s)
    BY <2>3, <2>4, <2>5 DEF SearchStep, WorkerStep, DropJob, FinishJob, NoTimezone, Admitted,
       CircuitOpen, AdmissionAsserts, AdmissionCommits, FetchFails, FetchFailsIrrelevantly, FetchReturns,
       StoreRaw, NormalizeFails, NormalizeReturns, CallRaisesOther, Record, RecordConflicts, DatabaseFails,
       Raise, Goto, pipelineVars
  <2>6. ASSUME NEW k \in Jobs, ApiStep(k) \/ JobCancelled(k) PROVE FALSE
    BY <2>6 DEF ApiStep, EnqueueJob, EnqueueFails, JobCancelled
  <2>7. ~CommitNext
    BY <2>1 DEF CommitNext, Free
  <2>8. ~(StartCollection \/ CollectionStep \/ CollectionCancelled \/ WorkerDiesToo)
    BY <2>7 DEF StartCollection, CollectionStep, EnqueueNext, EnqueueNextFails, FinishCollection,
       CollectionCancelled, WorkerDiesToo, WorkerDies, vars, pipelineVars
  <2>9. ~(RedisFails \/ RedisReturns \/ ApiDies \/ TimePasses)
    BY DEF RedisFails, RedisReturns, ApiDies, TimePasses, pipelineVars
  <2> QED BY <2>2, <2>5, <2>6, <2>8, <2>9 DEF CollectionNext
<1>2. CollectionSpec => [][Final]_vars
  <2> HIDE DEF Final
  <2> QED BY <1>1, CollectionInvHolds, PTL DEF CollectionSpec
<1> QED BY <1>2 DEF FinishedStaysFinished

-----------------------------------------------------------------------------
(* A row that is OPEN without a date: every job that starts on it fails     *)
(* before it has asked the breaker, or in the breaker's assertion.          *)

UndatedRow == health # NULL /\ health.state = "open" /\ health.opened_at = NULL

UndatedInv ==
    /\ UndatedRow
    /\ \A s \in Jobs :
        /\ pc[s] \in Ended
        /\ step[s] \in {"off", "started", "failing", "returned"}
        /\ step[s] = "failing" => kind[s] \notin CIRCUIT_RELEVANT_KINDS
        /\ ~IsState(s, {"ready"})

LEMMA Undated == ~OpenCarriesOpenedAt <=> UndatedRow
BY DEF OpenCarriesOpenedAt, UndatedRow, may_attempt_asserts, snapshot_from_row, initial_snapshot

LEMMA RestartCollectionInv == RestartInit => CollectionInv
<1> SUFFICES ASSUME UndatedInit, CollectionInit PROVE CollectionInv
  BY InitCollectionInv DEF RestartInit, SystemInit
<1>1. /\ health = [state |-> "open", consecutive_failures |-> 0, opened_at |-> NULL]
      /\ pc = [j \in Jobs |-> "idle"] /\ genuine = FAILURE_THRESHOLD /\ crashes = 0
      /\ loaded = [j \in Jobs |-> NULL] /\ TablesInit
  BY DEF UndatedInit
<1>2. health \in CircuitSnapshot
  BY <1>1 DEF CircuitSnapshot, CircuitState
<1>3. TypeInv
  BY <1>2, ConstantTypes DEF UndatedInit, TypeInv, TypeOK, Open, Locations, Outcomes
<1>4. HealthInv
  BY <1>1, <1>3, ConstantTypes DEF HealthInv, EarlyInv
<1>5. PipelineTypeOK
  <2>1. 0 \in 0..MAX_TRIES /\ 0 \in 0..MaxOutages
    BY PipelineConstants
  <2> QED BY <1>1, <1>3, <2>1 DEF TablesInit, PipelineTypeOK, Steps, TypeInv
<1>6. CollectionTypeOK
  BY PipelineConstants DEF CollectionInit, CollectionTypeOK
<1>7. \A s \in Jobs : Life(s)
  BY <1>1 DEF TablesInit, CollectionInit, Life, Unqueued, IsState, Busy, BusySteps, Ended
<1>8. Lost = {} /\ cut = 0
  BY <1>1 DEF Lost, Stranded, TablesInit, CollectionInit
<1>9. LostIsBounded
  BY <1>1, <1>8, FS_EmptySet DEF LostIsBounded
<1> QED BY <1>4, <1>5, <1>6, <1>7, <1>9 DEF CollectionInv, CollectionInit

LEMMA NextUndatedInv ==
    ASSUME CollectionInv, UndatedInv, [CollectionNext]_allVars
    PROVE  UndatedInv'
<1>1. /\ pc \in [Jobs -> Locations] /\ step \in [Jobs -> Steps]
      /\ search \in [Jobs -> Search \cup {NULL}] /\ kind \in [Jobs -> Kinds \cup {NULL}]
  BY DEF CollectionInv, PipelineTypeOK, TypeOK
<1>2. ~may_attempt_asserts(snapshot_from_row(health))
  BY Undated DEF UndatedInv, OpenCarriesOpenedAt
<1>3. ASSUME NEW s \in Jobs
      PROVE  ~\/ Admitted(s) \/ CircuitOpen(s) \/ AdmissionCommits(s)
              \/ FetchFails(s) \/ FetchFailsIrrelevantly(s) \/ FetchReturns(s) \/ StoreRaw(s)
              \/ NormalizeFails(s) \/ NormalizeReturns(s) \/ CallRaisesOther(s)
              \/ Record(s) \/ RecordConflicts(s) \/ CommitReady(s) \/ JobCancelled(s)
  BY <1>2 DEF UndatedInv, Ended, Admitted, MayCallAllows, CircuitOpen, MayCallRejects, AdmissionCommits,
     FetchFails, FetchFailsIrrelevantly, FetchReturns, StoreRaw, NormalizeFails, NormalizeReturns, Raise,
     CallRaisesOther, Goto, Record, RecordGet, PersistGet, RecordConflicts, CommitConflicts, CommitReady,
     EndSearch, JobCancelled, JobTimesOut, TimedOut
<1>4. ASSUME NEW s \in Jobs, NoTimezone(s) PROVE UndatedInv'
  BY <1>1, <1>4 DEF NoTimezone, Raise, Goto, UndatedInv, UndatedRow, IsState, CIRCUIT_RELEVANT_KINDS, healthVars
<1>5. ASSUME NEW s \in Jobs, AdmissionAsserts(s) PROVE UndatedInv'
  BY <1>1, <1>5 DEF AdmissionAsserts, MayCallAsserts, MayCall, EndJob, Goto, UndatedInv, UndatedRow, IsState, Ended
<1>6. ASSUME NEW s \in Jobs, CommitFailed(s) PROVE UndatedInv'
  <2>1. UNCHANGED healthVars
    BY <1>6 DEF CommitFailed, RecordsFailure, EndSearch, CallFailsIrrelevantly, UndatedInv, Ended
  <2>2. /\ step' = [step EXCEPT ![s] = "returned"] /\ kind' = [kind EXCEPT ![s] = NULL]
        /\ search' = [search EXCEPT ![s] = [state |-> "failed", failure_reason |-> kind[s], completed |-> TRUE]]
    BY <1>6 DEF CommitFailed, EndSearch
  <2> QED BY <1>1, <2>1, <2>2 DEF UndatedInv, UndatedRow, IsState, healthVars
<1>7. ASSUME NEW s \in Jobs, StartJob(s) PROVE UndatedInv'
  <2>1. \/ step' = [step EXCEPT ![s] = "returned"] /\ UNCHANGED search
        \/ /\ step' = [step EXCEPT ![s] = "started"] /\ search[s] # NULL
           /\ search' = [search EXCEPT ![s].state = "running"]
    BY <1>7 DEF StartJob
  <2>2. \A k \in Jobs : ~IsState(k, {"ready"})'
    <3>1. search[s] # NULL => search[s] \in Search
      BY <1>1
    <3>2. search[s] # NULL => [search[s] EXCEPT !.state = "running"].state = "running"
      BY <3>1 DEF Search
    <3> QED BY <1>1, <2>1, <3>2 DEF UndatedInv, IsState
  <2> QED BY <1>1, <1>7, <2>1, <2>2 DEF StartJob, UndatedInv, UndatedRow, healthVars
<1>8. ASSUME NEW s \in Jobs, DropJob(s) \/ FinishJob(s) PROVE UndatedInv'
  BY <1>1, <1>8 DEF DropJob, FinishJob, jobVars, UndatedInv, UndatedRow, IsState, healthVars
<1>8a. ASSUME NEW s \in Jobs, DatabaseFails(s) PROVE UndatedInv'
  <2>1. UNCHANGED healthVars
    BY <1>8a DEF DatabaseFails, TransactionFails, CallEscapes, UndatedInv, Ended
  <2>2. step' = [step EXCEPT ![s] = "returned"] /\ kind' = [kind EXCEPT ![s] = NULL] /\ UNCHANGED search
    BY <1>8a DEF DatabaseFails, Goto
  <2> QED BY <1>1, <2>1, <2>2 DEF UndatedInv, UndatedRow, IsState, healthVars
<1>9. ASSUME NEW s \in Jobs, SearchStep(s) PROVE UndatedInv'
  BY <1>3, <1>4, <1>5, <1>6, <1>7, <1>8, <1>9, <1>8a DEF SearchStep, WorkerStep
<1>10. ASSUME NEW s \in Jobs, UserSearch(s) PROVE UndatedInv'
  BY <1>1, <1>10 DEF UserSearch, CreateSearch, NewSearch, UndatedInv, UndatedRow, IsState, healthVars, jobVars
<1>11. ASSUME NEW s \in Jobs, ApiStep(s) PROVE UndatedInv'
  BY <1>11 DEF ApiStep, EnqueueJob, EnqueueFails, UndatedInv, UndatedRow, IsState, healthVars, jobVars
<1>12. CASE CommitNext
  BY <1>1, <1>12 DEF CommitNext, NewSearch, UndatedInv, UndatedRow, IsState, healthVars, jobVars
<1>13. CASE EnqueueNext
  BY <1>13 DEF EnqueueNext, UndatedInv, UndatedRow, IsState, healthVars, jobVars
<1>14. CASE StartCollection \/ EnqueueNextFails \/ FinishCollection \/ CollectionCancelled \/ UNCHANGED allVars
  BY <1>14 DEF StartCollection, EnqueueNextFails, FinishCollection, CollectionCancelled, allVars, vars,
     healthVars, pipelineVars, UndatedInv, UndatedRow, IsState
<1>15. CASE WorkerDiesToo
  BY <1>15 DEF WorkerDiesToo, WorkerDies, WorkerCrash, Ended, UndatedInv, UndatedRow, IsState
<1>16. CASE RedisFails \/ RedisReturns \/ ApiDies \/ TimePasses
  BY <1>16 DEF RedisFails, RedisReturns, ApiDies, TimePasses, Tick, healthVars, jobVars, pipelineVars,
     UndatedInv, UndatedRow, IsState
<1> QED BY <1>3, <1>9, <1>10, <1>11, <1>12, <1>13, <1>14, <1>15, <1>16
        DEF CollectionNext, CollectionStep

\* Once the row is OPEN without a date, no search, crash, redelivery or passing of time
\* makes the worker ask the source again.
THEOREM UndatedForever == FairCollectionSpec => UndatedIsPermanent
<1>1. RestartInit /\ ~OpenCarriesOpenedAt => UndatedInv
  <2> SUFFICES ASSUME RestartInit, ~OpenCarriesOpenedAt PROVE UndatedInv
    OBVIOUS
  <2>1. UndatedRow
    BY Undated
  <2>2. UndatedInit /\ TablesInit
    BY <2>1 DEF RestartInit, PipelineInit, Init, UndatedInit, UndatedRow
  <2> QED BY <2>1, <2>2 DEF UndatedInit, TablesInit, UndatedInv, Ended, IsState
<1>2. CollectionInv /\ UndatedInv /\ [CollectionNext]_allVars => UndatedInv'
  BY NextUndatedInv
<1> DEFINE Never == \A s \in Jobs : step[s] # "fetching" /\ ~IsState(s, {"ready"})
<1>3. UndatedInv => ~OpenCarriesOpenedAt /\ Never
  BY Undated DEF UndatedInv
<1>4. FairCollectionSpec => (~OpenCarriesOpenedAt => [](~OpenCarriesOpenedAt /\ Never))
  <2> HIDE DEF Never
  <2> QED BY <1>1, <1>2, <1>3, RestartCollectionInv, NextCollectionInv, PTL DEF FairCollectionSpec
<1> QED BY <1>4, PTL DEF UndatedIsPermanent
=============================================================================
