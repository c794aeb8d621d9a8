--------------------------- MODULE Authentication ---------------------------
(***************************************************************************)
(* Logins under the rate limiter, and the sessions they open: requests of  *)
(* one API process that interleave at every await                          *)
(* (src/apps/api/auth/rate_limit.py, sessions.py, dependencies.py,         *)
(* src/apps/api/routers/auth.py).  Redis holds the limiter's counters,     *)
(* PostgreSQL the sessions.  A request that writes stands for every route  *)
(* behind get_current_user that commits its session.                       *)
(***************************************************************************)
EXTENDS Integers, FiniteSets

CONSTANTS
    Requests,       \* slots for concurrent requests
    Usernames,
    Addresses,      \* source addresses
    ACCOUNT_LIMIT,  \* login_rate_limit_per_account (5)
    IP_LIMIT,       \* login_rate_limit_per_ip (20)
    SessionIds,     \* bound: sessions ever created
    NULL,           \* no request
    MaxCount,       \* bound: increments of one counter within a window
    MaxWindows,     \* bound: windows of one counter
    MaxFaults       \* bound: crashes of the API and outages of Redis

Keys == Usernames \cup Addresses

ASSUME AuthenticationAssumption ==
    /\ ACCOUNT_LIMIT \in Nat /\ IP_LIMIT \in Nat
    /\ MaxCount \in Nat /\ MaxWindows \in Nat /\ MaxFaults \in Nat
    /\ Usernames \cap Addresses = {}
    /\ IsFiniteSet(Requests)
    /\ NULL \notin Requests \cup Int

VARIABLES
    counter,   \* Redis: the counter of each key, 0 when the key is absent
    expires,   \* Redis: the key has a time to live
    redis,     \* whether Redis answers
    sessions,  \* PostgreSQL: the rows of user_sessions
    stale,     \* sessions past their expires_at
    lock,      \* the transaction that updated a session row and is still open
    issued,    \* history: every session id handed out
    pc,        \* where each request is
    attempt,   \* the login each request makes
    on,        \* the key whose counter it is at
    count,     \* what INCR returned
    cookie,    \* the session id each request presents
    window,    \* history: how often the counter of each key has expired
    admitted,  \* history: password checks each window of a key let through
    faults     \* history: crashes and outages so far

redisVars == <<counter, expires, redis, window>>
sessionVars == <<sessions, stale, lock, issued>>
vars == <<redisVars, sessionVars, pc, attempt, on, count, cookie, admitted, faults>>

Login == [username : Usernames, source_ip : Addresses, windows : [Keys -> 0..MaxWindows \cup {NULL}]]

limit(k) == IF k \in Usernames THEN ACCOUNT_LIMIT ELSE IP_LIMIT

Init ==
    /\ counter = [k \in Keys |-> 0] /\ expires = [k \in Keys |-> FALSE]
    /\ redis = "up"
    /\ sessions = {} /\ stale = {} /\ issued = {}
    /\ lock = [s \in SessionIds |-> NULL]
    /\ pc = [r \in Requests |-> "idle"]
    /\ attempt = [r \in Requests |-> NULL]
    /\ on = [r \in Requests |-> NULL]
    /\ count = [r \in Requests |-> 0]
    /\ cookie = [r \in Requests |-> NULL]
    /\ window = [k \in Keys |-> 0]
    /\ admitted = [k \in Keys |-> [w \in 0..MaxWindows |-> 0]]
    /\ faults = 0

\* The response is sent: the request's transaction, if any, ends with it.
Respond(r) ==
    /\ pc' = [pc EXCEPT ![r] = "idle"]
    /\ attempt' = [attempt EXCEPT ![r] = NULL]
    /\ on' = [on EXCEPT ![r] = NULL]
    /\ count' = [count EXCEPT ![r] = 0]
    /\ cookie' = [cookie EXCEPT ![r] = NULL]

Goto(r, l) == pc' = [pc EXCEPT ![r] = l]

-----------------------------------------------------------------------------
(* rate_limit.py *)

\* Mutant: allows one attempt more than the limit.
over_limit_lenient(n, k) == n > limit(k) + 1

over_limit(n, k) == n > limit(k)

\* Mutant: expects INCR to return the value before.
first_of_window_from_zero(n) == n = 0

first_of_window(n) == n = 1

StartLogin(r, u, a) ==
    /\ pc[r] = "idle"
    /\ attempt' = [attempt EXCEPT ![r] =
           [username |-> u, source_ip |-> a, windows |-> [k \in Keys |-> NULL]]]
    /\ on' = [on EXCEPT ![r] = u]
    /\ Goto(r, "incr")
    /\ UNCHANGED <<redisVars, sessionVars, count, cookie, admitted, faults>>

\* On to the counter of the address, then to the password.
NextCheck(r) ==
    IF on[r] \in Usernames
    THEN on' = [on EXCEPT ![r] = attempt[r].source_ip] /\ Goto(r, "incr")
    ELSE UNCHANGED on /\ Goto(r, "verify")

Incr(r) ==
    LET k == on[r] IN
    /\ pc[r] = "incr" /\ redis = "up"
    /\ counter[k] < MaxCount /\ window[k] < MaxWindows
    /\ counter' = [counter EXCEPT ![k] = @ + 1]
    /\ count' = [count EXCEPT ![r] = counter[k] + 1]
    /\ attempt' = [attempt EXCEPT ![r].windows[k] = window[k]]
    /\ Goto(r, IF first_of_window(counter[k] + 1) THEN "expire" ELSE "decide")
    /\ UNCHANGED <<expires, redis, window, sessionVars, on, cookie, admitted, faults>>

\* The connection is lost after Redis applied the command.
IncrReplyLost(r) ==
    LET k == on[r] IN
    /\ pc[r] = "incr" /\ redis = "up"
    /\ counter[k] < MaxCount /\ window[k] < MaxWindows /\ faults < MaxFaults
    /\ counter' = [counter EXCEPT ![k] = @ + 1]
    /\ faults' = faults + 1
    /\ NextCheck(r)
    /\ UNCHANGED <<expires, redis, window, sessionVars, attempt, count, cookie, admitted>>

\* EXPIRE does nothing to a key that is gone.
Expire(r) ==
    /\ pc[r] = "expire" /\ redis = "up"
    /\ expires' = [expires EXCEPT ![on[r]] = counter[on[r]] > 0]
    /\ Goto(r, "decide")
    /\ UNCHANGED <<counter, redis, window, sessionVars, attempt, on, count, cookie, admitted, faults>>

Decide(r) ==
    /\ pc[r] = "decide"
    /\ ~over_limit(count[r], on[r])
    /\ NextCheck(r)
    /\ UNCHANGED <<redisVars, sessionVars, attempt, count, cookie, admitted, faults>>

\* TTL is asked for the Retry-After of the answer.
Refuse(r) ==
    /\ pc[r] = "decide" /\ redis = "up"
    /\ over_limit(count[r], on[r])
    /\ Respond(r)
    /\ UNCHANGED <<redisVars, sessionVars, admitted, faults>>

\* Any command that fails lets the attempt pass this counter.
FailOpen(r) ==
    /\ redis = "down"
    /\ \/ pc[r] \in {"incr", "expire"}
       \/ pc[r] = "decide" /\ over_limit(count[r], on[r])
    /\ attempt' = [attempt EXCEPT ![r].windows[on[r]] = NULL]
    /\ NextCheck(r)
    /\ UNCHANGED <<redisVars, sessionVars, count, cookie, admitted, faults>>

-----------------------------------------------------------------------------
(* routers/auth.py *)

Counted(r) ==
    admitted' = [k \in Keys |-> [w \in 0..MaxWindows |->
        admitted[k][w] + IF attempt[r].windows[k] = w THEN 1 ELSE 0]]

WrongPassword(r) ==
    /\ pc[r] = "verify"
    /\ Counted(r)
    /\ Respond(r)
    /\ UNCHANGED <<redisVars, sessionVars, faults>>

\* Mutant: a login that succeeds gives its attempt back.
OpenSession_refunds(r) ==
    /\ pc[r] = "verify"
    /\ Counted(r)
    /\ \E s \in SessionIds \ issued :
        /\ sessions' = sessions \cup {s}
        /\ issued' = issued \cup {s}
    /\ counter' = [counter EXCEPT ![attempt[r].username] = @ - 1]
    /\ Respond(r)
    /\ UNCHANGED <<expires, redis, window, stale, lock, faults>>

OpenSession(r) ==
    /\ pc[r] = "verify"
    /\ Counted(r)
    /\ \E s \in SessionIds \ issued :
        /\ sessions' = sessions \cup {s}
        /\ issued' = issued \cup {s}
    /\ Respond(r)
    /\ UNCHANGED <<redisVars, stale, lock, faults>>

\* The DELETE waits for a transaction that has updated the row.
Logout(r, s) ==
    /\ pc[r] = "idle"
    /\ lock[s] = NULL
    /\ sessions' = sessions \ {s}
    /\ UNCHANGED <<redisVars, stale, lock, issued, pc, attempt, on, count, cookie, admitted, faults>>

-----------------------------------------------------------------------------
(* sessions.py and dependencies.py *)

valid(s) == s \in sessions /\ s \notin stale

\* Anything else is answered 401 and changes nothing.
GetValidSession(r, s) ==
    /\ pc[r] = "idle"
    /\ valid(s)
    /\ cookie' = [cookie EXCEPT ![r] = s]
    /\ Goto(r, "touched")
    /\ UNCHANGED <<redisVars, sessionVars, attempt, on, count, admitted, faults>>

\* Mutant: the session is not touched, so that nothing is written to it.
Flush_untouched(r) ==
    /\ pc[r] = "touched"
    /\ Goto(r, "handling")
    /\ UNCHANGED <<redisVars, sessionVars, attempt, on, count, cookie, admitted, faults>>

\* The touch of last_seen_at is written with the next query or the commit: it
\* waits for the row, and locks it until the request's transaction ends.
Flush(r) ==
    /\ pc[r] = "touched"
    /\ cookie[r] \in sessions /\ lock[cookie[r]] = NULL
    /\ lock' = [lock EXCEPT ![cookie[r]] = r]
    /\ Goto(r, "handling")
    /\ UNCHANGED <<redisVars, sessions, stale, issued, attempt, on, count, cookie, admitted, faults>>

\* The row is gone: the UPDATE matches nothing and the ORM raises.
FlushFindsNothing(r) ==
    /\ pc[r] = "touched"
    /\ cookie[r] \notin sessions
    /\ Respond(r)
    /\ UNCHANGED <<redisVars, sessionVars, admitted, faults>>

\* The route commits its work, or only reads, or fails; the row is free again.
EndRequest(r) ==
    /\ pc[r] = "handling"
    /\ lock' = [s \in SessionIds |-> IF lock[s] = r THEN NULL ELSE lock[s]]
    /\ Respond(r)
    /\ UNCHANGED <<redisVars, sessions, stale, issued, admitted, faults>>

-----------------------------------------------------------------------------
(* The environment *)

WindowElapses(k) ==
    /\ expires[k]
    /\ counter' = [counter EXCEPT ![k] = 0]
    /\ expires' = [expires EXCEPT ![k] = FALSE]
    /\ window' = [window EXCEPT ![k] = @ + 1]
    /\ UNCHANGED <<redis, sessionVars, pc, attempt, on, count, cookie, admitted, faults>>

SessionExpires(s) ==
    /\ s \in sessions \ stale
    /\ stale' = stale \cup {s}
    /\ UNCHANGED <<redisVars, sessions, lock, issued, pc, attempt, on, count, cookie, admitted, faults>>

RedisFails ==
    /\ redis = "up" /\ faults < MaxFaults
    /\ redis' = "down" /\ faults' = faults + 1
    /\ UNCHANGED <<counter, expires, window, sessionVars, pc, attempt, on, count, cookie, admitted>>

RedisReturns ==
    /\ redis = "down"
    /\ redis' = "up"
    /\ UNCHANGED <<counter, expires, window, sessionVars, pc, attempt, on, count, cookie, admitted, faults>>

\* The API restarts: requests are lost, their transactions rolled back.
ApiDies ==
    /\ faults < MaxFaults
    /\ faults' = faults + 1
    /\ lock' = [s \in SessionIds |-> NULL]
    /\ pc' = [r \in Requests |-> "idle"]
    /\ attempt' = [r \in Requests |-> NULL] /\ on' = [r \in Requests |-> NULL]
    /\ count' = [r \in Requests |-> 0] /\ cookie' = [r \in Requests |-> NULL]
    /\ UNCHANGED <<redisVars, sessions, stale, issued, admitted>>

LoginStep(r) ==
    \/ Incr(r) \/ Expire(r) \/ Decide(r) \/ Refuse(r) \/ FailOpen(r)
    \/ WrongPassword(r) \/ OpenSession(r)

SessionStep(r) == Flush(r) \/ FlushFindsNothing(r) \/ EndRequest(r)

Next ==
    \/ \E r \in Requests :
        \/ \E u \in Usernames, a \in Addresses : StartLogin(r, u, a)
        \/ LoginStep(r) \/ IncrReplyLost(r)
        \/ \E s \in issued : GetValidSession(r, s) \/ Logout(r, s)
        \/ SessionStep(r)
    \/ \E k \in Keys : WindowElapses(k)
    \/ \E s \in SessionIds : SessionExpires(s)
    \/ RedisFails \/ RedisReturns \/ ApiDies

\* What is ready runs, the database answers, time passes and Redis comes back.
Fairness ==
    /\ \A r \in Requests : WF_vars(LoginStep(r)) /\ WF_vars(SessionStep(r))
    /\ \A k \in Keys : WF_vars(WindowElapses(k))
    /\ WF_vars(RedisReturns)

Spec == Init /\ [][Next]_vars /\ Fairness

-----------------------------------------------------------------------------
(* Properties *)

\* Every variable holds a value of its kind.
TypeOK ==
    /\ counter \in [Keys -> 0..MaxCount] /\ expires \in [Keys -> BOOLEAN]
    /\ redis \in {"up", "down"}
    /\ sessions \subseteq issued /\ stale \subseteq issued /\ issued \subseteq SessionIds
    /\ lock \in [SessionIds -> Requests \cup {NULL}]
    /\ pc \in [Requests -> {"idle", "incr", "expire", "decide", "verify", "touched", "handling"}]
    /\ attempt \in [Requests -> Login \cup {NULL}]
    /\ on \in [Requests -> Keys \cup {NULL}]
    /\ count \in [Requests -> 0..MaxCount]
    /\ cookie \in [Requests -> SessionIds \cup {NULL}]
    /\ window \in [Keys -> 0..MaxWindows]
    /\ admitted \in [Keys -> [0..MaxWindows -> Nat]]
    /\ faults \in 0..MaxFaults

\* However logins interleave, and whichever of them straddle the end of a window,
\* the attempts counted in one window of a key get at most its limit of password
\* checks.
ChecksAreLimited ==
    \A k \in Keys, w \in 0..MaxWindows : admitted[k][w] <= limit(k)

\* While Redis answers and the API stays up, a counter has a time to live, or the
\* request that created it is about to set it.
CountersExpire ==
    faults = 0 =>
        \A k \in Keys : counter[k] > 0 =>
            expires[k] \/ \E r \in Requests : pc[r] = "expire" /\ on[r] = k

\* A key that is refused is let in again in the end, unless Redis or the API
\* failed in between.
LockoutEnds ==
    \A k \in Keys : (counter[k] > limit(k)) ~> (counter[k] = 0 \/ faults > 0)

\* A logout is final: no work of a request is committed with a session that has
\* been logged out meanwhile, since the request holds the row it touched.
WorkIsAuthorised ==
    \A r \in Requests : pc[r] = "handling" => cookie[r] \in sessions
=============================================================================
