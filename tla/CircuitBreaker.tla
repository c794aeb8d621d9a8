--------------------------- MODULE CircuitBreaker ---------------------------
(***************************************************************************)
(* The decision logic of the per-source circuit breaker, as pure           *)
(* operators on a snapshot: src/domain/reliability/circuit_breaker.py.     *)
(* Times are natural numbers (ticks of the wall clock).                    *)
(***************************************************************************)
EXTENDS Integers

CONSTANTS
    FAILURE_THRESHOLD,  \* consecutive failures that trip the breaker (3)
    COOLDOWN,           \* ticks an OPEN breaker rejects calls (15 minutes)
    NULL                \* an absent value: None in Python, NULL in the table

ASSUME BreakerAssumption ==
    /\ FAILURE_THRESHOLD \in Nat \ {0}
    /\ COOLDOWN \in Nat \ {0}
    /\ NULL \notin Nat

CircuitState == {"closed", "open", "half_open"}

CircuitSnapshot ==
    [state : CircuitState, consecutive_failures : Nat, opened_at : Nat \cup {NULL}]

ASSUME RowAssumption == NULL \notin CircuitSnapshot

initial_snapshot ==
    [state |-> "closed", consecutive_failures |-> 0, opened_at |-> NULL]

\* Mutant: the threshold is off by one.
next_state_after_failure_early(snapshot, now) ==
    LET failures == snapshot.consecutive_failures + 1
    IN  [state |-> IF failures + 1 >= FAILURE_THRESHOLD THEN "open" ELSE "closed",
         consecutive_failures |-> failures,
         opened_at |-> IF failures + 1 >= FAILURE_THRESHOLD THEN now ELSE NULL]

\* Mutant: every failure of an open breaker restarts its cooldown.
next_state_after_failure_restarting(snapshot, now) ==
    LET failures == snapshot.consecutive_failures + 1
    IN  [state |-> IF failures >= FAILURE_THRESHOLD THEN "open" ELSE "closed",
         consecutive_failures |-> failures,
         opened_at |-> IF failures >= FAILURE_THRESHOLD THEN now ELSE NULL]

\* Mutant: a failed trial re-opens the breaker without a new opening time.
next_state_after_failure_stale(snapshot, now) ==
    LET failures == snapshot.consecutive_failures + 1
    IN  [state |-> IF failures >= FAILURE_THRESHOLD THEN "open" ELSE "closed",
         consecutive_failures |-> failures,
         opened_at |-> IF failures < FAILURE_THRESHOLD THEN NULL
                       ELSE IF snapshot.opened_at = NULL THEN now ELSE snapshot.opened_at]

(***************************************************************************)
(* A failure re-opens a half-open breaker with a fresh cooldown, trips a   *)
(* closed one at the threshold, and leaves the opening time of an open one *)
(* alone ("snapshot.opened_at or now").                                    *)
(***************************************************************************)
next_state_after_failure(snapshot, now) ==
    LET failures == snapshot.consecutive_failures + 1
    IN  CASE snapshot.state = "half_open" ->
                [state |-> "open", consecutive_failures |-> failures, opened_at |-> now]
          [] snapshot.state # "half_open" /\ failures >= FAILURE_THRESHOLD ->
                [state |-> "open", consecutive_failures |-> failures,
                 opened_at |-> IF snapshot.opened_at = NULL THEN now ELSE snapshot.opened_at]
          [] OTHER ->
                [state |-> "closed", consecutive_failures |-> failures, opened_at |-> NULL]

\* Mutant: a success pays off one failure instead of all.
next_state_after_success_gradual(snapshot) ==
    [initial_snapshot EXCEPT !.consecutive_failures = snapshot.consecutive_failures - 1]

next_state_after_success(snapshot) == initial_snapshot

(***************************************************************************)
(* may_attempt asserts that an OPEN snapshot carries opened_at.  The       *)
(* assertion is a precondition here: a caller for which it is false gets   *)
(* an AssertionError instead of a decision.                                *)
(***************************************************************************)
may_attempt_asserts(snapshot) == snapshot.state = "open" => snapshot.opened_at # NULL

cooldown_elapsed(snapshot, now) == now - snapshot.opened_at >= COOLDOWN

may_attempt(snapshot, now) ==
    CASE snapshot.state # "open" -> [allowed |-> TRUE, next |-> snapshot]
      [] snapshot.state = "open" /\ cooldown_elapsed(snapshot, now) ->
            [allowed |-> TRUE, next |-> [snapshot EXCEPT !.state = "half_open"]]
      [] OTHER -> [allowed |-> FALSE, next |-> snapshot]

=============================================================================
