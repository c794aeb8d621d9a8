------------------------ MODULE AuthenticationProofs ------------------------
(***************************************************************************)
(* Theorems about Authentication, for every number of concurrent requests, *)
(* every limit and every bound: type correctness; a counter of the limiter *)
(* always gets its deadline unless Redis or the API fails; a logout is     *)
(* final; and no window gets more password checks than its limit.          *)
(***************************************************************************)
EXTENDS Authentication, FiniteSetTheorems, TLAPS

\* Where a request stands in a login, and with a session.
Counting == {"incr", "expire", "decide"}
LoggingIn == Counting \cup {"verify"}

\* A request in a login has an attempt and, at a counter, its key; one past the
\* session check has presented a session.
RequestsHoldState ==
    \A r \in Requests :
        /\ pc[r] \in LoggingIn => attempt[r] \in Login
        /\ pc[r] \in Counting => on[r] \in Keys
        /\ pc[r] \in {"touched", "handling"} => cookie[r] \in SessionIds

\* Only a key that exists has a time to live, and one only exists in a window
\* that may still elapse.
WindowsBounded ==
    \A k \in Keys :
        /\ expires[k] => counter[k] > 0
        /\ counter[k] > 0 => window[k] < MaxWindows

\* The inductive invariant for the types.
Typed == TypeOK /\ RequestsHoldState /\ WindowsBounded

USE AuthenticationAssumption DEF Keys, Counting, LoggingIn

-----------------------------------------------------------------------------
(* What the shared parts of the actions do. *)

\* A response leaves the request idle, and its fields typed.
LEMMA RespondTyped ==
    ASSUME Typed, NEW r \in Requests, Respond(r)
    PROVE  /\ pc' = [pc EXCEPT ![r] = "idle"]
           /\ attempt' \in [Requests -> Login \cup {NULL}]
           /\ on' \in [Requests -> Keys \cup {NULL}]
           /\ count' \in [Requests -> 0..MaxCount]
           /\ cookie' \in [Requests -> SessionIds \cup {NULL}]
           /\ \A q \in Requests \ {r} :
                attempt'[q] = attempt[q] /\ on'[q] = on[q] /\ cookie'[q] = cookie[q]
                /\ count'[q] = count[q]
BY DEF Respond, Typed, TypeOK

\* Past a counter, a login is at the counter of its address or at its password.
LEMMA NextCheckTyped ==
    ASSUME Typed, NEW r \in Requests, pc[r] \in Counting, NextCheck(r)
    PROVE  /\ \/ pc' = [pc EXCEPT ![r] = "incr"] /\ on[r] \in Usernames
                 /\ on' = [on EXCEPT ![r] = attempt[r].source_ip]
              \/ pc' = [pc EXCEPT ![r] = "verify"] /\ on[r] \in Addresses /\ on' = on
           /\ on' \in [Requests -> Keys \cup {NULL}]
           /\ attempt[r].source_ip \in Addresses
           /\ pc'[r] = "incr" => on'[r] \in Addresses
           /\ on'[r] \in Keys
<1>1. attempt[r] \in Login /\ on[r] \in Keys
  BY DEF Typed, RequestsHoldState
<1>2. attempt[r].source_ip \in Addresses
  BY <1>1 DEF Login
<1>. QED
  BY <1>1, <1>2 DEF NextCheck, Goto, Typed, TypeOK

\* An attempt that records, or forgets, the window of a counter is an attempt.
LEMMA AttemptTyped ==
    ASSUME NEW a \in Login, NEW k \in Keys, NEW w \in 0..MaxWindows \cup {NULL}
    PROVE  [a EXCEPT !.windows[k] = w] \in Login
BY DEF Login

-----------------------------------------------------------------------------
(* Type correctness *)

LEMMA TypedInit == Init => Typed
BY DEF Init, Typed, TypeOK, RequestsHoldState, WindowsBounded, redisVars

SessionsTyped ==
    /\ sessions \subseteq issued /\ stale \subseteq issued /\ issued \subseteq SessionIds
    /\ lock \in [SessionIds -> Requests \cup {NULL}]

\* What is left to show of a step that ends in a response.
LEMMA RespondKeepsTyped ==
    ASSUME Typed, NEW r \in Requests, Respond(r), UNCHANGED <<redisVars, faults>>,
           SessionsTyped', admitted' \in [Keys -> [0..MaxWindows -> Nat]]
    PROVE  Typed'
<1>. HIDE AuthenticationAssumption DEF Keys
<1>1. TypeOK'
  <2>1. pc' \in [Requests -> {"idle", "incr", "expire", "decide", "verify", "touched", "handling"}]
    BY RespondTyped DEF Typed, TypeOK
  <2>2. /\ counter' \in [Keys -> 0..MaxCount] /\ expires' \in [Keys -> BOOLEAN]
        /\ redis' \in {"up", "down"} /\ window' \in [Keys -> 0..MaxWindows]
        /\ faults' \in 0..MaxFaults
    BY DEF Typed, TypeOK, redisVars
  <2>. QED
    BY <2>1, <2>2, RespondTyped DEF TypeOK, SessionsTyped
<1>2. RequestsHoldState'
  BY RespondTyped DEF Typed, TypeOK, RequestsHoldState
<1>3. WindowsBounded'
  BY DEF Typed, WindowsBounded, redisVars
<1>. QED
  BY <1>1, <1>2, <1>3 DEF Typed

LEMMA TypedStep == Typed /\ [Next]_vars => Typed'
<1>. HIDE DEF Keys
<1>. SUFFICES ASSUME Typed, Next PROVE Typed'
  BY DEF vars, redisVars, sessionVars, Typed, TypeOK, RequestsHoldState, WindowsBounded
<1>1. ASSUME NEW r \in Requests, NEW u \in Usernames, NEW a \in Addresses, StartLogin(r, u, a)
      PROVE  Typed'
  <2>1. [username |-> u, source_ip |-> a, windows |-> [k \in Keys |-> NULL]] \in Login
    BY DEF Login
  <2>. QED
    BY <1>1, <2>1 DEF StartLogin, Goto, Typed, TypeOK, RequestsHoldState, WindowsBounded,
                      redisVars, sessionVars, Keys
<1>2. ASSUME NEW r \in Requests, Incr(r) PROVE Typed'
  <2>. DEFINE k == on[r]
  <2>1. k \in Keys /\ attempt[r] \in Login
    BY <1>2 DEF Incr, Typed, RequestsHoldState
  <2>2. [attempt[r] EXCEPT !.windows[k] = window[k]] \in Login
    BY <2>1, AttemptTyped DEF Typed, TypeOK
  <2>3. attempt' \in [Requests -> Login \cup {NULL}] /\ attempt'[r] \in Login
        /\ \A q \in Requests \ {r} : attempt'[q] = attempt[q]
    BY <1>2, <2>2 DEF Incr, Typed, TypeOK
  <2>4. TypeOK'
    <3>1. counter' \in [Keys -> 0..MaxCount] /\ count' \in [Requests -> 0..MaxCount]
      BY <1>2, <2>1 DEF Incr, Typed, TypeOK
    <3>2. pc' \in [Requests -> {"idle", "incr", "expire", "decide", "verify", "touched", "handling"}]
      BY <1>2 DEF Incr, Goto, Typed, TypeOK
    <3>. QED
      BY <1>2, <2>3, <3>1, <3>2 DEF Incr, Typed, TypeOK, sessionVars
  <2>5. RequestsHoldState'
    BY <1>2, <2>1, <2>3 DEF Incr, Goto, Typed, TypeOK, RequestsHoldState
  <2>6. WindowsBounded'
    BY <1>2, <2>1 DEF Incr, Typed, TypeOK, WindowsBounded
  <2>. QED
    BY <2>4, <2>5, <2>6 DEF Typed
<1>3. ASSUME NEW r \in Requests, IncrReplyLost(r) PROVE Typed'
  <2>1. pc[r] \in Counting /\ on[r] \in Keys /\ attempt[r] \in Login /\ NextCheck(r)
    BY <1>3 DEF IncrReplyLost, Typed, RequestsHoldState
  <2>2. TypeOK'
    <3>1. counter' \in [Keys -> 0..MaxCount] /\ faults' \in 0..MaxFaults
      BY <1>3, <2>1 DEF IncrReplyLost, Typed, TypeOK
    <3>. QED
      BY <1>3, <2>1, <3>1, NextCheckTyped DEF IncrReplyLost, Typed, TypeOK, sessionVars
  <2>3. RequestsHoldState'
    BY <1>3, <2>1, NextCheckTyped DEF IncrReplyLost, Typed, TypeOK, RequestsHoldState
  <2>4. WindowsBounded'
    BY <1>3, <2>1 DEF IncrReplyLost, Typed, TypeOK, WindowsBounded
  <2>. QED
    BY <2>2, <2>3, <2>4 DEF Typed
<1>4. ASSUME NEW r \in Requests, Expire(r) PROVE Typed'
  BY <1>4 DEF Expire, Goto, Typed, TypeOK, RequestsHoldState, WindowsBounded, sessionVars
<1>5. ASSUME NEW r \in Requests, Decide(r) PROVE Typed'
  <2>1. pc[r] \in Counting /\ NextCheck(r) /\ attempt[r] \in Login
    BY <1>5 DEF Decide, Typed, RequestsHoldState
  <2>2. TypeOK'
    <3>1. pc' \in [Requests -> {"idle", "incr", "expire", "decide", "verify", "touched", "handling"}]
          /\ on' \in [Requests -> Keys \cup {NULL}]
      BY <2>1, NextCheckTyped DEF Typed, TypeOK
    <3>. QED
      BY <1>5, <3>1 DEF Decide, Typed, TypeOK, redisVars, sessionVars
  <2>3. RequestsHoldState'
    BY <1>5, <2>1, NextCheckTyped DEF Decide, Typed, TypeOK, RequestsHoldState, sessionVars
  <2>4. WindowsBounded'
    BY <1>5 DEF Decide, Typed, WindowsBounded, redisVars
  <2>. QED
    BY <2>2, <2>3, <2>4 DEF Typed
<1>6. ASSUME NEW r \in Requests, Refuse(r) PROVE Typed'
  <2>1. SessionsTyped' /\ admitted' \in [Keys -> [0..MaxWindows -> Nat]]
    BY <1>6 DEF Refuse, Typed, TypeOK, SessionsTyped, sessionVars
  <2>. QED
    BY <1>6, <2>1, RespondKeepsTyped DEF Refuse
<1>7. ASSUME NEW r \in Requests, FailOpen(r) PROVE Typed'
  <2>. DEFINE k == on[r]
  <2>1. pc[r] \in Counting /\ NextCheck(r) /\ k \in Keys /\ attempt[r] \in Login
    BY <1>7 DEF FailOpen, Typed, RequestsHoldState
  <2>2. [attempt[r] EXCEPT !.windows[k] = NULL] \in Login
    BY <2>1, AttemptTyped
  <2>3. attempt' \in [Requests -> Login \cup {NULL}] /\ attempt'[r] \in Login
        /\ \A q \in Requests \ {r} : attempt'[q] = attempt[q]
    BY <1>7, <2>2 DEF FailOpen, Typed, TypeOK
  <2>4. TypeOK'
    <3>1. pc' \in [Requests -> {"idle", "incr", "expire", "decide", "verify", "touched", "handling"}]
          /\ on' \in [Requests -> Keys \cup {NULL}]
      BY <2>1, NextCheckTyped DEF Typed, TypeOK
    <3>. QED
      BY <1>7, <2>3, <3>1 DEF FailOpen, Typed, TypeOK, redisVars, sessionVars
  <2>5. RequestsHoldState'
    <3>1. /\ on'[r] \in Keys /\ pc'[r] \in {"incr", "verify"}
          /\ \A q \in Requests \ {r} : on'[q] = on[q] /\ pc'[q] = pc[q]
      BY <2>1, NextCheckTyped DEF Typed, TypeOK
    <3>. QED
      BY <1>7, <2>3, <3>1 DEF FailOpen, Typed, RequestsHoldState, sessionVars
  <2>6. WindowsBounded'
    BY <1>7 DEF FailOpen, Typed, WindowsBounded, redisVars
  <2>. QED
    BY <2>4, <2>5, <2>6 DEF Typed
<1>8. ASSUME NEW r \in Requests, WrongPassword(r) \/ OpenSession(r) PROVE Typed'
  <2>1. admitted' \in [Keys -> [0..MaxWindows -> Nat]]
    <3>1. Counted(r) /\ admitted \in [Keys -> [0..MaxWindows -> Nat]]
      BY <1>8 DEF WrongPassword, OpenSession, Typed, TypeOK
    <3>2. \A k \in Keys, w \in 0..MaxWindows :
            admitted[k][w] + (IF attempt[r].windows[k] = w THEN 1 ELSE 0) \in Nat
      BY <3>1
    <3>. QED
      BY <3>1, <3>2 DEF Counted
  <2>2. Respond(r) /\ UNCHANGED <<redisVars, faults>>
    BY <1>8 DEF WrongPassword, OpenSession
  <2>3. SessionsTyped'
    BY <1>8 DEF WrongPassword, OpenSession, Typed, TypeOK, SessionsTyped, sessionVars
  <2>. QED
    BY <2>1, <2>2, <2>3, RespondKeepsTyped
<1>9. ASSUME NEW r \in Requests, NEW s \in issued, GetValidSession(r, s) \/ Logout(r, s)
      PROVE  Typed'
  <2>1. CASE GetValidSession(r, s)
    <3>1. TypeOK'
      BY <2>1 DEF GetValidSession, Goto, Typed, TypeOK, redisVars, sessionVars
    <3>2. RequestsHoldState'
      BY <2>1 DEF GetValidSession, Goto, Typed, TypeOK, RequestsHoldState
    <3>3. WindowsBounded'
      BY <2>1 DEF GetValidSession, Typed, WindowsBounded, redisVars
    <3>. QED
      BY <3>1, <3>2, <3>3 DEF Typed
  <2>2. CASE Logout(r, s)
    <3>1. TypeOK'
      BY <2>2 DEF Logout, Typed, TypeOK, redisVars
    <3>2. RequestsHoldState' /\ WindowsBounded'
      BY <2>2 DEF Logout, Typed, RequestsHoldState, WindowsBounded, redisVars
    <3>. QED
      BY <3>1, <3>2 DEF Typed
  <2>. QED
    BY <1>9, <2>1, <2>2
<1>10. ASSUME NEW r \in Requests, SessionStep(r) PROVE Typed'
  <2>1. CASE Flush(r)
    <3>1. lock' \in [SessionIds -> Requests \cup {NULL}]
      BY <2>1 DEF Flush, Typed, TypeOK
    <3>2. pc' \in [Requests -> {"idle", "incr", "expire", "decide", "verify", "touched", "handling"}]
      BY <2>1 DEF Flush, Goto, Typed, TypeOK
    <3>3. TypeOK'
      BY <2>1, <3>1, <3>2 DEF Flush, Typed, TypeOK, redisVars
    <3>4. RequestsHoldState'
      BY <2>1 DEF Flush, Goto, Typed, TypeOK, RequestsHoldState
    <3>5. WindowsBounded'
      BY <2>1 DEF Flush, Typed, WindowsBounded, redisVars
    <3>. QED
      BY <3>3, <3>4, <3>5 DEF Typed
  <2>2. CASE FlushFindsNothing(r)
    <3>1. SessionsTyped' /\ admitted' \in [Keys -> [0..MaxWindows -> Nat]]
      BY <2>2 DEF FlushFindsNothing, Typed, TypeOK, SessionsTyped, sessionVars
    <3>. QED
      BY <2>2, <3>1, RespondKeepsTyped DEF FlushFindsNothing
  <2>3. CASE EndRequest(r)
    <3>1. SessionsTyped' /\ admitted' \in [Keys -> [0..MaxWindows -> Nat]]
      BY <2>3 DEF EndRequest, Typed, TypeOK, SessionsTyped
    <3>. QED
      BY <2>3, <3>1, RespondKeepsTyped DEF EndRequest
  <2>. QED
    BY <1>10, <2>1, <2>2, <2>3 DEF SessionStep
<1>11. ASSUME NEW k \in Keys, WindowElapses(k) PROVE Typed'
  BY <1>11 DEF WindowElapses, Typed, TypeOK, RequestsHoldState, WindowsBounded, sessionVars
<1>12. ASSUME NEW s \in SessionIds, SessionExpires(s) PROVE Typed'
  BY <1>12 DEF SessionExpires, Typed, TypeOK, RequestsHoldState, WindowsBounded, redisVars
<1>13. CASE RedisFails \/ RedisReturns
  BY <1>13 DEF RedisFails, RedisReturns, Typed, TypeOK, RequestsHoldState, WindowsBounded, sessionVars
<1>14. CASE ApiDies
  BY <1>14 DEF ApiDies, Typed, TypeOK, RequestsHoldState, WindowsBounded, redisVars
<1>. QED
  BY <1>1, <1>2, <1>3, <1>4, <1>5, <1>6, <1>7, <1>8, <1>9, <1>10, <1>11, <1>12, <1>13, <1>14
     DEF Next, LoginStep

\* Requests, counters and sessions stay typed, whatever interleaves or fails.
THEOREM TypeCorrectness == Spec => []TypeOK
<1>1. Spec => []Typed
  BY TypedInit, TypedStep, PTL DEF Spec
<1>2. Typed => TypeOK
  BY DEF Typed
<1>. QED
  BY <1>1, <1>2, PTL

-----------------------------------------------------------------------------
(* Counters expire *)

\* An outage is a fault that has happened.
OutagesAreFaults == redis = "down" => faults > 0

Deadlines == Typed /\ OutagesAreFaults /\ CountersExpire

\* A request that leaves a step other than the EXPIRE takes no deadline away.
LEMMA DeadlinesKept ==
    ASSUME Deadlines, NEW r \in Requests, pc[r] # "expire", UNCHANGED redisVars, faults' = faults,
           \A q \in Requests \ {r} : pc'[q] = pc[q] /\ on'[q] = on[q]
    PROVE  OutagesAreFaults' /\ CountersExpire'
BY DEF Deadlines, OutagesAreFaults, CountersExpire, redisVars

LEMMA DeadlinesStep == Deadlines /\ [Next]_vars => Deadlines'
<1>. SUFFICES ASSUME Deadlines, [Next]_vars PROVE OutagesAreFaults' /\ CountersExpire'
  BY TypedStep DEF Deadlines
<1>. USE DEF Deadlines
<1>0. /\ pc \in [Requests -> {"idle", "incr", "expire", "decide", "verify", "touched", "handling"}]
      /\ on \in [Requests -> Keys \cup {NULL}] /\ faults \in Nat
      /\ counter \in [Keys -> 0..MaxCount] /\ expires \in [Keys -> BOOLEAN]
  BY DEF Typed, TypeOK
<1>1. ASSUME NEW r \in Requests, NEW u \in Usernames, NEW a \in Addresses, StartLogin(r, u, a)
      PROVE  OutagesAreFaults' /\ CountersExpire'
  BY <1>0, <1>1, DeadlinesKept DEF StartLogin, Goto
<1>2. ASSUME NEW r \in Requests, Incr(r) PROVE OutagesAreFaults' /\ CountersExpire'
  <2>1. on[r] \in Keys
    BY <1>2 DEF Incr, Typed, RequestsHoldState
  <2>2. CASE counter[on[r]] = 0
    <3>1. pc'[r] = "expire" /\ on'[r] = on[r]
      BY <1>2, <2>2, <1>0 DEF Incr, Goto, first_of_window
    <3>. QED
      BY <1>2, <2>1, <3>1, <1>0 DEF Incr, Goto, OutagesAreFaults, CountersExpire
  <2>3. CASE counter[on[r]] > 0
    BY <1>2, <2>1, <2>3, <1>0 DEF Incr, Goto, OutagesAreFaults, CountersExpire
  <2>. QED
    BY <2>1, <2>2, <2>3, <1>0
<1>3. ASSUME NEW r \in Requests, IncrReplyLost(r) PROVE OutagesAreFaults' /\ CountersExpire'
  BY <1>3, <1>0 DEF IncrReplyLost, OutagesAreFaults, CountersExpire
<1>4. ASSUME NEW r \in Requests, Expire(r) PROVE OutagesAreFaults' /\ CountersExpire'
  <2>1. on[r] \in Keys
    BY <1>4 DEF Expire, Typed, RequestsHoldState
  <2>. QED
    BY <1>4, <2>1, <1>0 DEF Expire, Goto, OutagesAreFaults, CountersExpire
<1>5. ASSUME NEW r \in Requests, Decide(r) PROVE OutagesAreFaults' /\ CountersExpire'
  BY <1>5, <1>0, DeadlinesKept DEF Decide, NextCheck, Goto
<1>6. ASSUME NEW r \in Requests, Refuse(r) PROVE OutagesAreFaults' /\ CountersExpire'
  BY <1>6, <1>0, DeadlinesKept DEF Refuse, Respond
<1>7. ASSUME NEW r \in Requests, FailOpen(r) PROVE OutagesAreFaults' /\ CountersExpire'
  BY <1>7, <1>0 DEF FailOpen, OutagesAreFaults, CountersExpire, redisVars
<1>8. ASSUME NEW r \in Requests, WrongPassword(r) \/ OpenSession(r)
      PROVE  OutagesAreFaults' /\ CountersExpire'
  BY <1>8, <1>0, DeadlinesKept DEF WrongPassword, OpenSession, Respond
<1>9. ASSUME NEW r \in Requests, NEW s \in issued, GetValidSession(r, s) \/ Logout(r, s)
      PROVE  OutagesAreFaults' /\ CountersExpire'
  BY <1>9, <1>0, DeadlinesKept DEF GetValidSession, Logout, Goto
<1>10. ASSUME NEW r \in Requests, SessionStep(r) PROVE OutagesAreFaults' /\ CountersExpire'
  BY <1>10, <1>0, DeadlinesKept DEF SessionStep, Flush, FlushFindsNothing, EndRequest, Respond, Goto
<1>11. ASSUME NEW k \in Keys, WindowElapses(k) PROVE OutagesAreFaults' /\ CountersExpire'
  BY <1>11, <1>0 DEF WindowElapses, OutagesAreFaults, CountersExpire
<1>12. ASSUME NEW s \in SessionIds, SessionExpires(s) PROVE OutagesAreFaults' /\ CountersExpire'
  BY <1>12 DEF SessionExpires, OutagesAreFaults, CountersExpire, redisVars
<1>13. CASE RedisFails \/ RedisReturns \/ ApiDies
  BY <1>13, <1>0 DEF RedisFails, RedisReturns, ApiDies, OutagesAreFaults, CountersExpire, redisVars
<1>14. CASE UNCHANGED vars
  BY <1>14 DEF vars, redisVars, OutagesAreFaults, CountersExpire
<1>. QED
  BY <1>1, <1>2, <1>3, <1>4, <1>5, <1>6, <1>7, <1>8, <1>9, <1>10, <1>11, <1>12, <1>13, <1>14
     DEF Next, LoginStep

\* The two commands of the limiter are not atomic, and yet no interleaving of
\* logins leaves a counter without a deadline: it takes an outage of Redis or of
\* the API between them.
THEOREM CountersAlwaysExpire == Spec => []CountersExpire
<1>1. Init => Deadlines
  BY TypedInit DEF Init, Deadlines, OutagesAreFaults, CountersExpire
<1>2. Deadlines => CountersExpire
  BY DEF Deadlines
<1>. QED
  BY <1>1, <1>2, DeadlinesStep, PTL DEF Spec

-----------------------------------------------------------------------------
(* A logout is final *)

\* A request at work holds the row of its session.
Authorised ==
    Typed /\ \A r \in Requests :
        pc[r] = "handling" => cookie[r] \in sessions /\ lock[cookie[r]] = r

\* A request that is not at work takes no other's row away.
LEMMA AuthorisedKept ==
    ASSUME Authorised, Typed', NEW r \in Requests, pc'[r] # "handling",
           UNCHANGED lock, sessions \subseteq sessions',
           \A q \in Requests \ {r} : pc'[q] = pc[q] /\ cookie'[q] = cookie[q]
    PROVE  Authorised'
BY DEF Authorised

LEMMA AuthorisedStep == Authorised /\ [Next]_vars => Authorised'
<1>. SUFFICES ASSUME Authorised, [Next]_vars PROVE Authorised'
  OBVIOUS
<1>0. Typed /\ Typed'
  BY TypedStep DEF Authorised
<1>00. /\ pc \in [Requests -> {"idle", "incr", "expire", "decide", "verify", "touched", "handling"}]
       /\ cookie \in [Requests -> SessionIds \cup {NULL}]
       /\ lock \in [SessionIds -> Requests \cup {NULL}]
       /\ sessions \subseteq SessionIds
  BY <1>0 DEF Typed, TypeOK
<1>1. ASSUME NEW r \in Requests, NEW u \in Usernames, NEW a \in Addresses, StartLogin(r, u, a)
      PROVE  Authorised'
  BY <1>0, <1>00, <1>1, AuthorisedKept DEF StartLogin, Goto, sessionVars
<1>2. ASSUME NEW r \in Requests, Incr(r) \/ Expire(r) \/ Decide(r) \/ FailOpen(r) \/ IncrReplyLost(r)
      PROVE  Authorised'
  BY <1>0, <1>00, <1>2, AuthorisedKept
     DEF Incr, Expire, Decide, FailOpen, IncrReplyLost, NextCheck, Goto, sessionVars
<1>3. ASSUME NEW r \in Requests, Refuse(r) \/ WrongPassword(r) \/ OpenSession(r)
      PROVE  Authorised'
  BY <1>0, <1>00, <1>3, AuthorisedKept DEF Refuse, WrongPassword, OpenSession, Respond, sessionVars
<1>4. ASSUME NEW r \in Requests, NEW s \in issued, GetValidSession(r, s) PROVE Authorised'
  BY <1>0, <1>00, <1>4, AuthorisedKept DEF GetValidSession, Goto, sessionVars
<1>5. ASSUME NEW r \in Requests, NEW s \in issued, Logout(r, s) PROVE Authorised'
  BY <1>0, <1>5 DEF Logout, Authorised
<1>6. ASSUME NEW r \in Requests, Flush(r) PROVE Authorised'
  <2>1. cookie[r] \in SessionIds
    BY <1>6, <1>00 DEF Flush
  <2>. QED
    BY <1>0, <1>00, <1>6, <2>1 DEF Flush, Goto, Authorised
<1>7. ASSUME NEW r \in Requests, FlushFindsNothing(r) PROVE Authorised'
  BY <1>0, <1>00, <1>7, AuthorisedKept DEF FlushFindsNothing, Respond, sessionVars
<1>8. ASSUME NEW r \in Requests, EndRequest(r) PROVE Authorised'
  BY <1>0, <1>00, <1>8 DEF EndRequest, Respond, Authorised
<1>9. CASE \/ \E k \in Keys : WindowElapses(k)
           \/ \E s \in SessionIds : SessionExpires(s)
           \/ RedisFails \/ RedisReturns
  BY <1>0, <1>9 DEF WindowElapses, SessionExpires, RedisFails, RedisReturns, sessionVars, Authorised
<1>10. CASE ApiDies
  BY <1>0, <1>10 DEF ApiDies, Authorised
<1>11. CASE UNCHANGED vars
  BY <1>0, <1>11 DEF vars, sessionVars, Authorised
<1>. QED
  BY <1>1, <1>2, <1>3, <1>4, <1>5, <1>6, <1>7, <1>8, <1>9, <1>10, <1>11
     DEF Next, LoginStep, SessionStep

\* However requests overlap, none works with a session that has been logged out.
THEOREM LogoutIsFinal == Spec => []WorkIsAuthorised
<1>1. Init => Authorised
  BY TypedInit DEF Init, Authorised
<1>2. Authorised => WorkIsAuthorised
  BY DEF Authorised, WorkIsAuthorised
<1>. QED
  BY <1>1, <1>2, AuthorisedStep, PTL DEF Spec

-----------------------------------------------------------------------------
(* Password checks are limited *)

\* A login counted in window w of a key that no counter has refused so far.
Passes(r, k, w) ==
    /\ pc[r] \in LoggingIn
    /\ attempt[r].windows[k] = w
    /\ ~(pc[r] \in {"expire", "decide"} /\ on[r] = k /\ over_limit(count[r], k))

Passing(k, w) == {r \in Requests : Passes(r, k, w)}

\* The checks a window has let through and those on their way are within the
\* limit, and within what the counter counted; later windows have none.
Within(k, w) ==
    /\ admitted[k][w] + Cardinality(Passing(k, w)) <= limit(k)
    /\ w = window[k] => admitted[k][w] + Cardinality(Passing(k, w)) <= counter[k]
    /\ w > window[k] => admitted[k][w] = 0 /\ Passing(k, w) = {}

Limited == Typed /\ \A k \in Keys, w \in 0..MaxWindows : Within(k, w)

\* The numbers of the invariant are numbers.
LEMMA Counts ==
    ASSUME Typed, NEW k \in Keys, NEW w \in 0..MaxWindows
    PROVE  /\ IsFiniteSet(Passing(k, w))
           /\ Cardinality(Passing(k, w)) \in Nat
           /\ admitted[k][w] \in Nat /\ counter[k] \in Nat /\ limit(k) \in Nat
           /\ window[k] \in 0..MaxWindows
<1>1. IsFiniteSet(Passing(k, w))
  BY FS_Subset DEF Passing
<1>. QED
  BY <1>1, FS_CardinalityType DEF Typed, TypeOK, limit

\* A step that counts nothing, and lets no login pass that did not before.
LEMMA NonePasses ==
    ASSUME Limited, Typed', UNCHANGED <<window, admitted>>,
           \A k \in Keys : counter'[k] >= counter[k],
           \A q \in Requests, k \in Keys, w \in 0..MaxWindows : Passes(q, k, w)' => Passes(q, k, w)
    PROVE  Limited'
<1>. SUFFICES ASSUME NEW k \in Keys, NEW w \in 0..MaxWindows PROVE Within(k, w)'
  BY DEF Limited
<1>1. Passing(k, w)' \subseteq Passing(k, w)
  BY DEF Passing
<1>2. IsFiniteSet(Passing(k, w)) /\ Typed
  BY Counts DEF Limited
<1>3. Cardinality(Passing(k, w)') <= Cardinality(Passing(k, w))
  BY <1>1, <1>2, FS_Subset
<1>4. /\ Cardinality(Passing(k, w)) \in Nat /\ Cardinality(Passing(k, w)') \in Nat
      /\ admitted[k][w] \in Nat /\ counter[k] \in Nat /\ counter'[k] \in Nat /\ limit(k) \in Nat
  <2>1. Cardinality(Passing(k, w)') \in Nat
    BY <1>1, <1>2, FS_Subset, FS_CardinalityType
  <2>2. counter'[k] \in Nat
    BY DEF Typed, TypeOK
  <2>. QED
    BY <1>2, <2>1, <2>2, Counts
<1>5. Within(k, w)
  BY DEF Limited
<1>. HIDE DEF Limited
<1>. QED
  BY <1>1, <1>3, <1>4, <1>5 DEF Within, limit

\* INCR lets its login pass only if the counter, that one included, is within the limit.
LEMMA IncrWithin ==
    ASSUME Limited, Typed', NEW r \in Requests, Incr(r)
    PROVE  Limited'
<1>. SUFFICES ASSUME NEW k \in Keys, NEW w \in 0..MaxWindows PROVE Within(k, w)'
  BY DEF Limited
<1>0. Typed /\ Within(k, w)
  BY DEF Limited
<1>1. /\ pc[r] = "incr" /\ on[r] \in Keys /\ attempt[r] \in Login
      /\ pc'[r] \in {"expire", "decide"} /\ on' = on
      /\ counter' = [counter EXCEPT ![on[r]] = @ + 1]
      /\ counter \in [Keys -> 0..MaxCount]
      /\ count'[r] = counter'[on[r]]
      /\ \A q \in Requests \ {r} :
            pc'[q] = pc[q] /\ attempt'[q] = attempt[q] /\ count'[q] = count[q]
      /\ window' = window /\ admitted' = admitted
  BY <1>0 DEF Incr, Goto, Typed, TypeOK, RequestsHoldState
<1>2. attempt'[r].windows = [attempt[r].windows EXCEPT ![on[r]] = window[on[r]]]
  <2>1. attempt' = [attempt EXCEPT ![r].windows[on[r]] = window[on[r]]]
    BY DEF Incr
  <2>2. attempt'[r] = [attempt[r] EXCEPT !.windows[on[r]] = window[on[r]]]
    BY <1>0, <2>1 DEF Typed, TypeOK
  <2>. QED
    BY <1>1, <2>2 DEF Login
<1>3. attempt[r].windows \in [Keys -> 0..MaxWindows \cup {NULL}]
  BY <1>1 DEF Login
<1>4. \A q \in Requests \ {r} : Passes(q, k, w)' <=> Passes(q, k, w)
  BY <1>1 DEF Passes, over_limit, limit
<1>5. /\ IsFiniteSet(Passing(k, w)) /\ Cardinality(Passing(k, w)) \in Nat
      /\ admitted[k][w] \in Nat /\ counter[k] \in Nat /\ limit(k) \in Nat
      /\ Cardinality(Passing(k, w)') \in Nat /\ window[k] \in 0..MaxWindows
  <2>1. IsFiniteSet(Passing(k, w)')
    BY FS_Subset DEF Passing
  <2>2. Cardinality(Passing(k, w)') \in Nat
    BY <2>1, FS_CardinalityType
  <2>. QED
    BY <1>0, <2>2, Counts
<1>6. CASE Passes(r, k, w) \/ ~Passes(r, k, w)'
  <2>1. Passing(k, w)' \subseteq Passing(k, w)
    BY <1>4, <1>6 DEF Passing
  <2>2. Cardinality(Passing(k, w)') <= Cardinality(Passing(k, w))
    BY <2>1, <1>5, FS_Subset
  <2>3. counter'[k] \in Nat /\ counter'[k] >= counter[k]
    BY <1>1
  <2>4. limit(k)' = limit(k)
    BY DEF limit
  <2>. QED
    BY <2>1, <2>2, <2>3, <2>4, <1>0, <1>1, <1>5 DEF Within
<1>7. CASE ~Passes(r, k, w) /\ Passes(r, k, w)'
  <2>1. k = on[r] /\ w = window[k]
    BY <1>1, <1>2, <1>3, <1>7 DEF Passes
  <2>2. counter'[k] = counter[k] + 1 /\ counter[k] + 1 <= limit(k)
    BY <1>1, <1>5, <1>7, <2>1 DEF Passes, over_limit, limit
  <2>3. Passing(k, w)' = Passing(k, w) \cup {r} /\ r \notin Passing(k, w)
    BY <1>4, <1>7 DEF Passing
  <2>4. Cardinality(Passing(k, w)') = Cardinality(Passing(k, w)) + 1
    BY <2>3, <1>5, FS_AddElement
  <2>5. limit(k)' = limit(k)
    BY DEF limit
  <2>. QED
    BY <2>1, <2>2, <2>4, <2>5, <1>0, <1>1, <1>5 DEF Within
<1>. QED
  BY <1>6, <1>7

\* A password check takes its login from those on their way to those let through.
LEMMA CountedWithin ==
    ASSUME Limited, Typed', NEW r \in Requests, pc[r] = "verify", pc'[r] = "idle",
           Counted(r), UNCHANGED redisVars,
           \A q \in Requests \ {r} :
              pc'[q] = pc[q] /\ attempt'[q] = attempt[q] /\ on'[q] = on[q] /\ count'[q] = count[q]
    PROVE  Limited'
<1>. SUFFICES ASSUME NEW k \in Keys, NEW w \in 0..MaxWindows PROVE Within(k, w)'
  BY DEF Limited
<1>0. Typed /\ Within(k, w)
  BY DEF Limited
<1>1. /\ IsFiniteSet(Passing(k, w)) /\ Cardinality(Passing(k, w)) \in Nat
      /\ admitted[k][w] \in Nat /\ counter[k] \in Nat /\ limit(k) \in Nat
      /\ window[k] \in 0..MaxWindows
  BY <1>0, Counts
<1>2. \A q \in Requests \ {r} : Passes(q, k, w)' <=> Passes(q, k, w)
  BY DEF Passes, over_limit, limit
<1>3. Passing(k, w)' = Passing(k, w) \ {r}
  BY <1>2 DEF Passing, Passes
<1>4. r \in Passing(k, w) <=> attempt[r].windows[k] = w
  BY DEF Passing, Passes
<1>5. admitted'[k][w] = admitted[k][w] + (IF attempt[r].windows[k] = w THEN 1 ELSE 0)
  BY DEF Counted
<1>6. Cardinality(Passing(k, w)') =
        IF r \in Passing(k, w) THEN Cardinality(Passing(k, w)) - 1 ELSE Cardinality(Passing(k, w))
  BY <1>1, <1>3, FS_RemoveElement
<1>7. limit(k)' = limit(k) /\ window' = window /\ counter' = counter
  BY DEF limit, redisVars
<1>8. admitted'[k][w] + Cardinality(Passing(k, w)') = admitted[k][w] + Cardinality(Passing(k, w))
  BY <1>1, <1>4, <1>5, <1>6
<1>9. w > window[k] => admitted'[k][w] = 0 /\ Passing(k, w)' = {}
  BY <1>0, <1>3, <1>4, <1>5 DEF Within
<1>. QED
  BY <1>0, <1>7, <1>8, <1>9 DEF Within

\* When a window elapses its successor starts with nothing let through.
LEMMA WindowWithin ==
    ASSUME Limited, Typed', NEW k \in Keys, WindowElapses(k)
    PROVE  Limited'
<1>. SUFFICES ASSUME NEW j \in Keys, NEW w \in 0..MaxWindows PROVE Within(j, w)'
  BY DEF Limited
<1>0. Typed /\ Within(j, w)
  BY DEF Limited
<1>1. /\ admitted[j][w] \in Nat /\ Cardinality(Passing(j, w)) \in Nat
      /\ window[j] \in 0..MaxWindows
  BY <1>0, Counts
<1>2. Passing(j, w)' = Passing(j, w) /\ admitted' = admitted /\ limit(j)' = limit(j)
  BY DEF WindowElapses, Passing, Passes, over_limit, limit
<1>3. CASE j # k
  <2>1. window'[j] = window[j] /\ counter'[j] = counter[j]
    BY <1>3, <1>0 DEF WindowElapses, Typed, TypeOK
  <2>. QED
    BY <2>1, <1>0, <1>2 DEF Within
<1>4. CASE j = k
  <2>1. window'[j] = window[j] + 1 /\ counter'[j] = 0
    BY <1>4, <1>0 DEF WindowElapses, Typed, TypeOK
  <2>2. w > window[j] => Cardinality(Passing(j, w)) = 0
    BY <1>0, FS_EmptySet DEF Within
  <2>. QED
    BY <2>1, <2>2, <1>0, <1>1, <1>2 DEF Within
<1>. QED
  BY <1>3, <1>4

LEMMA LimitedStep == Limited /\ [Next]_vars => Limited'
<1>. SUFFICES ASSUME Limited, [Next]_vars PROVE Limited'
  OBVIOUS
<1>0. Typed /\ Typed'
  BY TypedStep DEF Limited
<1>00. /\ pc \in [Requests -> {"idle", "incr", "expire", "decide", "verify", "touched", "handling"}]
       /\ on \in [Requests -> Keys \cup {NULL}] /\ attempt \in [Requests -> Login \cup {NULL}]
       /\ counter \in [Keys -> 0..MaxCount] /\ count \in [Requests -> 0..MaxCount]
  BY <1>0 DEF Typed, TypeOK
<1>1. ASSUME NEW r \in Requests, NEW u \in Usernames, NEW a \in Addresses, StartLogin(r, u, a)
      PROVE  Limited'
  <2>1. \A k \in Keys : attempt'[r].windows[k] = NULL
    BY <1>1, <1>00 DEF StartLogin
  <2>2. \A q \in Requests, k \in Keys, w \in 0..MaxWindows : Passes(q, k, w)' => Passes(q, k, w)
    BY <1>1, <1>00, <2>1 DEF StartLogin, Goto, Passes, over_limit, limit
  <2>. QED
    BY <1>0, <1>00, <1>1, <2>2, NonePasses DEF StartLogin, redisVars
<1>2. ASSUME NEW r \in Requests, Incr(r) PROVE Limited'
  BY <1>0, <1>2, IncrWithin
<1>3. ASSUME NEW r \in Requests, IncrReplyLost(r) PROVE Limited'
  <2>1. on[r] \in Keys /\ pc[r] = "incr" /\ pc'[r] \in {"incr", "verify"}
    BY <1>0, <1>00, <1>3 DEF IncrReplyLost, NextCheck, Goto, Typed, RequestsHoldState
  <2>2. \A q \in Requests, k \in Keys, w \in 0..MaxWindows : Passes(q, k, w)' => Passes(q, k, w)
    BY <1>3, <1>00, <2>1 DEF IncrReplyLost, NextCheck, Goto, Passes, over_limit, limit
  <2>3. \A k \in Keys : counter'[k] >= counter[k]
    BY <1>00, <1>3, <2>1 DEF IncrReplyLost
  <2>. QED
    BY <1>0, <1>3, <2>2, <2>3, NonePasses DEF IncrReplyLost
<1>4. ASSUME NEW r \in Requests, Expire(r) PROVE Limited'
  <2>1. \A q \in Requests, k \in Keys, w \in 0..MaxWindows : Passes(q, k, w)' => Passes(q, k, w)
    BY <1>4, <1>00 DEF Expire, Goto, Passes, over_limit, limit
  <2>. QED
    BY <1>0, <1>00, <1>4, <2>1, NonePasses DEF Expire
<1>5. ASSUME NEW r \in Requests, Decide(r) PROVE Limited'
  <2>1. \A q \in Requests, k \in Keys, w \in 0..MaxWindows : Passes(q, k, w)' => Passes(q, k, w)
    BY <1>5, <1>00 DEF Decide, NextCheck, Goto, Passes, over_limit, limit
  <2>. QED
    BY <1>0, <1>00, <1>5, <2>1, NonePasses DEF Decide, redisVars
<1>6. ASSUME NEW r \in Requests, Refuse(r) PROVE Limited'
  <2>1. \A q \in Requests, k \in Keys, w \in 0..MaxWindows : Passes(q, k, w)' => Passes(q, k, w)
    BY <1>6, <1>00 DEF Refuse, Respond, Passes, over_limit, limit
  <2>. QED
    BY <1>0, <1>00, <1>6, <2>1, NonePasses DEF Refuse, redisVars
<1>7. ASSUME NEW r \in Requests, FailOpen(r) PROVE Limited'
  <2>1. /\ on[r] \in Keys /\ attempt[r] \in Login /\ pc[r] \in Counting
        /\ pc'[r] \in {"incr", "verify"}
    BY <1>0, <1>00, <1>7 DEF FailOpen, NextCheck, Goto, Typed, RequestsHoldState
  <2>2. attempt'[r].windows = [attempt[r].windows EXCEPT ![on[r]] = NULL]
    <3>1. attempt'[r] = [attempt[r] EXCEPT !.windows[on[r]] = NULL]
      BY <1>7, <1>00 DEF FailOpen
    <3>. QED
      BY <2>1, <3>1 DEF Login
  <2>3. attempt[r].windows \in [Keys -> 0..MaxWindows \cup {NULL}]
    BY <2>1 DEF Login
  <2>4. \A q \in Requests, k \in Keys, w \in 0..MaxWindows : Passes(q, k, w)' => Passes(q, k, w)
    <3>1. \A q \in Requests \ {r}, k \in Keys, w \in 0..MaxWindows :
            Passes(q, k, w)' => Passes(q, k, w)
      BY <1>7, <1>00 DEF FailOpen, NextCheck, Goto, Passes, over_limit, limit
    <3>2. \A k \in Keys, w \in 0..MaxWindows : Passes(r, k, w)' => Passes(r, k, w)
      BY <2>1, <2>2, <2>3 DEF Passes, over_limit, limit
    <3>. QED
      BY <3>1, <3>2
  <2>. QED
    BY <1>0, <1>00, <1>7, <2>4, NonePasses DEF FailOpen, redisVars
<1>8. ASSUME NEW r \in Requests, WrongPassword(r) \/ OpenSession(r) PROVE Limited'
  BY <1>0, <1>00, <1>8, CountedWithin DEF WrongPassword, OpenSession, Respond
<1>9. ASSUME NEW r \in Requests, NEW s \in issued, GetValidSession(r, s) \/ Logout(r, s)
      PROVE  Limited'
  <2>1. \A q \in Requests, k \in Keys, w \in 0..MaxWindows : Passes(q, k, w)' => Passes(q, k, w)
    BY <1>9, <1>00 DEF GetValidSession, Logout, Goto, Passes, over_limit, limit
  <2>. QED
    BY <1>0, <1>00, <1>9, <2>1, NonePasses DEF GetValidSession, Logout, redisVars
<1>10. ASSUME NEW r \in Requests, SessionStep(r) PROVE Limited'
  <2>1. \A q \in Requests, k \in Keys, w \in 0..MaxWindows : Passes(q, k, w)' => Passes(q, k, w)
    BY <1>10, <1>00 DEF SessionStep, Flush, FlushFindsNothing, EndRequest, Respond, Goto,
                        Passes, over_limit, limit
  <2>. QED
    BY <1>0, <1>00, <1>10, <2>1, NonePasses
       DEF SessionStep, Flush, FlushFindsNothing, EndRequest, redisVars
<1>11. ASSUME NEW k \in Keys, WindowElapses(k) PROVE Limited'
  BY <1>0, <1>11, WindowWithin
<1>12. CASE \/ \E s \in SessionIds : SessionExpires(s)
            \/ RedisFails \/ RedisReturns \/ ApiDies \/ UNCHANGED vars
  <2>1. \A q \in Requests, k \in Keys, w \in 0..MaxWindows : Passes(q, k, w)' => Passes(q, k, w)
    BY <1>12, <1>00 DEF SessionExpires, RedisFails, RedisReturns, ApiDies, vars,
                        Passes, over_limit, limit
  <2>2. UNCHANGED <<window, admitted, counter>>
    BY <1>12 DEF SessionExpires, RedisFails, RedisReturns, ApiDies, vars, redisVars
  <2>. QED
    BY <1>0, <1>00, <2>1, <2>2, NonePasses
<1>. QED
  BY <1>1, <1>2, <1>3, <1>4, <1>5, <1>6, <1>7, <1>8, <1>9, <1>10, <1>11, <1>12
     DEF Next, LoginStep

\* For any number of concurrent logins, each window of an account and of an
\* address gets at most its limit of password checks.
THEOREM LimitHolds == Spec => []ChecksAreLimited
<1>1. Init => Limited
  <2>. SUFFICES ASSUME Init PROVE Limited
    OBVIOUS
  <2>1. \A k \in Keys, w \in 0..MaxWindows : Passing(k, w) = {}
    BY DEF Init, Passing, Passes
  <2>2. Cardinality({}) = 0
    BY FS_EmptySet
  <2>3. \A k \in Keys, w \in 0..MaxWindows :
          admitted[k][w] = 0 /\ counter[k] = 0 /\ window[k] = 0 /\ limit(k) \in Nat
    BY DEF Init, limit
  <2>4. ASSUME NEW k \in Keys, NEW w \in 0..MaxWindows PROVE Within(k, w)
    <3>1. Passing(k, w) = {} /\ Cardinality(Passing(k, w)) = 0
      BY <2>1, <2>2
    <3>2. admitted[k][w] = 0 /\ counter[k] = 0 /\ window[k] = 0 /\ limit(k) \in Nat
      BY <2>3
    <3>. QED
      BY <3>1, <3>2 DEF Within
  <2>. QED
    BY <2>4, TypedInit DEF Limited
<1>2. Limited => ChecksAreLimited
  <2>. SUFFICES ASSUME Limited, NEW k \in Keys, NEW w \in 0..MaxWindows
                PROVE  admitted[k][w] <= limit(k)
    BY DEF ChecksAreLimited
  <2>. QED
    BY Counts DEF Limited, Within
<1>. QED
  BY <1>1, <1>2, LimitedStep, PTL DEF Spec
=============================================================================
