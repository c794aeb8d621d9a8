----------------------------- MODULE Travellers -----------------------------
(***************************************************************************)
(* The traveller profiles and their companions                             *)
(* (src/apps/api/routers/travellers.py) as the sessions of several users   *)
(* create, change and delete them at once.  A request is a transaction     *)
(* that ends at its commit; the handler then refreshes the row in another. *)
(*                                                                         *)
(* get_valid_session stamps the session's row, and the row stays locked to *)
(* the commit: the transactions of one session follow one another, so req  *)
(* has one request for each session, and another session of the user does  *)
(* what this one may do between a commit and its refresh.                  *)
(*                                                                         *)
(* Profiles are deleted with their companion rows: the two foreign keys    *)
(* cascade one after the other and lock the rows one by one, so deletions  *)
(* may wait for each other in a circle, of which PostgreSQL aborts one.    *)
(* The database may fail any request.  A new id is never an old one.       *)
(***************************************************************************)
EXTENDS Integers, FiniteSets

CONSTANTS
    Sessions,
    Users,
    Owner(_),  \* the user of a session
    Ids,       \* traveller ids
    Columns,   \* columns of a profile that a body sets
    Values,
    OVERLONG,  \* a body that passes the validators and not the width of a column
    MayLoseDatabase,  \* whether transactions may fail
    NULL       \* no row, no request, no companion

VARIABLES
    profiles,  \* the rows of traveller_profiles
    pairs,     \* the rows of traveller_relationships
    req,       \* the request each session has in progress
    answer,    \* what its last request was and how it was answered
    locks,     \* the companion rows each session's deletion has locked
    deleted,   \* history: profiles deleted since that request looked its own up
    updated,   \* history: columns another session changed since then
    fault,     \* history: the database failed that request
    rivals     \* history: companions that were deleted beside that deletion

history == <<deleted, updated, rivals>>
vars == <<profiles, pairs, req, answer, locks, fault, history>>

Bodies == [Columns -> Values]
Profile == [owner : Users, body : Bodies]
Statuses == {200, 201, 204, 404, 409, 422, 500}

Requests ==
    [op : {"create", "update"}, id : Ids, companion : {NULL}, body : Bodies \cup {OVERLONG}] \cup
    [op : {"delete"}, id : Ids, companion : {NULL}, body : {NULL}] \cup
    [op : {"add"}, id : Ids, companion : Ids, body : {NULL}]

Request ==
    [ask : Requests, at : {"arrived", "owned", "ready", "cascading", "committed"},
     loaded : Bodies \cup {NULL}]
Answer == [ask : Requests, status : Statuses]

ASSUME TravellersAssumption ==
    /\ \A s \in Sessions : Owner(s) \in Users
    /\ OVERLONG \notin Bodies /\ MayLoseDatabase \in BOOLEAN
    /\ NULL \notin Profile \cup Request \cup Answer

TypeOK ==
    /\ profiles \in [Ids -> Profile \cup {NULL}]
    /\ pairs \subseteq {pair \in Ids \X Ids :
                        pair[1] # pair[2] /\ NULL \notin {profiles[pair[1]], profiles[pair[2]]}}
    /\ req \in [Sessions -> Request \cup {NULL}]
    /\ answer \in [Sessions -> Answer \cup {NULL}]
    /\ locks \in [Sessions -> SUBSET (Ids \X Ids)]
    /\ deleted \in [Sessions -> SUBSET Ids]
    /\ updated \in [Sessions -> SUBSET (Ids \X Columns)]
    /\ fault \in [Sessions -> BOOLEAN]
    /\ rivals \in [Sessions -> SUBSET Ids]

Init ==
    /\ profiles \in [Ids -> Profile \cup {NULL}]
    /\ pairs = {}
    /\ req = [s \in Sessions |-> NULL]
    /\ answer = [s \in Sessions |-> NULL]
    /\ locks = [s \in Sessions |-> {}]
    /\ deleted = [s \in Sessions |-> {}]
    /\ updated = [s \in Sessions |-> {}]
    /\ fault = [s \in Sessions |-> FALSE]
    /\ rivals = [s \in Sessions |-> {}]

Is(s, op, at) == req[s] # NULL /\ req[s].ask.op = op /\ req[s].at = at

To(s, at) == req' = [req EXCEPT ![s].at = at] /\ UNCHANGED <<answer, locks, fault>>

\* The request ends, and with it its transaction and its locks.
Ends(s, status) ==
    /\ answer' = [answer EXCEPT ![s] = [ask |-> req[s].ask, status |-> status]]
    /\ req' = [req EXCEPT ![s] = NULL]
    /\ locks' = [locks EXCEPT ![s] = {}]

Reply(s, status) == Ends(s, status) /\ UNCHANGED fault

\* The database fails the request: the connection is lost, the transaction aborted.
Fails(s, status) ==
    /\ MayLoseDatabase
    /\ Ends(s, status)
    /\ fault' = [fault EXCEPT ![s] = TRUE]

\* The transaction commits; the connection may be lost before the answer to that.
Commits(s, status) == To(s, "committed") \/ Fails(s, status)

\* What the history of a session is kept for: its request, or an answer that says what
\* is stored.
Noted(s) ==
    IF req[s] # NULL THEN {req[s].ask}
    ELSE IF answer[s] # NULL /\ answer[s].status \in {200, 201, 409} THEN {answer[s].ask} ELSE {}

ChangeConcerns(s, id) == \E r \in Noted(s) : r.op \in {"create", "update"} /\ r.id = id
DeletionConcerns(s, id) == \E r \in Noted(s) : r.op # "delete" /\ id \in {r.id, r.companion}

\* The deletions that have taken their profile and lock its companion rows.
Cascading(s) == Is(s, "delete", "cascading")

\* No deletion holds the profile.
Unlocked(id) == \A s \in Sessions : Cascading(s) => req[s].ask.id # id

-----------------------------------------------------------------------------
\* A new id is no other request's.
Fresh(id) ==
    /\ profiles[id] = NULL
    /\ \A s \in Sessions : req[s] # NULL => id \notin {req[s].ask.id, req[s].ask.companion}

Begin(s) ==
    /\ req[s] = NULL
    /\ \E r \in Requests :
        /\ r.op = "create" => Fresh(r.id)
        /\ req' = [req EXCEPT ![s] =
                [ask |-> r, at |-> IF r.op = "create" THEN "ready" ELSE "arrived", loaded |-> NULL]]
    /\ answer' = [answer EXCEPT ![s] = NULL]
    /\ deleted' = [deleted EXCEPT ![s] = {}]
    /\ updated' = [updated EXCEPT ![s] = {}]
    /\ fault' = [fault EXCEPT ![s] = FALSE]
    /\ rivals' = [rivals EXCEPT ![s] = {}]
    /\ UNCHANGED <<profiles, pairs, locks>>

Owned(s, id) == profiles[id] # NULL /\ profiles[id].owner = Owner(s)

get_owned_traveller(s) ==
    /\ req[s] # NULL /\ req[s].at = "arrived"
    /\ \/ ~Owned(s, req[s].ask.id) /\ Reply(s, 404) /\ UNCHANGED <<deleted, updated>>
       \/ /\ Owned(s, req[s].ask.id)
          /\ req' = [req EXCEPT ![s] =
                  [ask |-> req[s].ask, at |-> IF req[s].ask.op = "add" THEN "owned" ELSE "ready",
                   loaded |-> IF req[s].ask.op = "update" THEN profiles[req[s].ask.id].body ELSE NULL]]
          /\ deleted' = [deleted EXCEPT ![s] = {}]
          /\ updated' = [updated EXCEPT ![s] = {}]
          /\ UNCHANGED <<answer, locks, fault>>
    /\ UNCHANGED <<profiles, pairs, rivals>>

\* The companion may be anybody's traveller but the traveller itself.
FindCompanion(s) ==
    /\ Is(s, "add", "owned")
    /\ IF req[s].ask.companion = req[s].ask.id \/ profiles[req[s].ask.companion] = NULL
       THEN Reply(s, 422) ELSE To(s, "ready")
    /\ UNCHANGED <<profiles, pairs, history>>

-----------------------------------------------------------------------------
\* An error of the database that the handler does not catch.
Escapes(s) == Reply(s, 500) /\ UNCHANGED profiles

CreateCommits(s) ==
    /\ Is(s, "create", "ready")
    /\ \/ req[s].ask.body = OVERLONG /\ Escapes(s)
       \/ /\ req[s].ask.body # OVERLONG
          /\ profiles' = [profiles EXCEPT ![req[s].ask.id] =
                             [owner |-> Owner(s), body |-> req[s].ask.body]]
          /\ Commits(s, 500)
    /\ UNCHANGED <<pairs, history>>

\* Mutant: the UPDATE writes every column of the body.
Written_whole(r, current) == r.ask.body

\* The UPDATE leaves out the columns the body does not change in the loaded row.
Written(r, current) ==
    [c \in Columns |-> IF r.ask.body[c] = r.loaded[c] THEN current[c] ELSE r.ask.body[c]]

WrittenColumns(r) == {c \in Columns : r.ask.body[c] # r.loaded[c]}

\* An UPDATE waits for a deletion of its row; that it finds none is an error.
UpdateCommits(s) ==
    /\ Is(s, "update", "ready")
    /\ Unlocked(req[s].ask.id)
    /\ LET id == req[s].ask.id
       IN  IF profiles[id] = NULL \/ req[s].ask.body = OVERLONG
           THEN Escapes(s) /\ UNCHANGED updated
           ELSE /\ profiles' = [profiles EXCEPT ![id].body = Written(req[s], @)]
                /\ updated' = [k \in Sessions |->
                        IF k # s /\ ChangeConcerns(k, id)
                        THEN updated[k] \cup ({id} \X WrittenColumns(req[s])) ELSE updated[k]]
                /\ Commits(s, 500)
    /\ UNCHANGED <<pairs, deleted, rivals>>

\* Mutant: the companion rows have no cascade.
Cascade_none(id) == pairs

Cascade(id) == {pair \in pairs : id \notin {pair[1], pair[2]}}

Companions(t, c) == {<<t, c>>, <<c, t>>} \cap pairs # {}

\* The DELETE takes its row, waiting for another one of it.  To find no row is no error.
DeleteTakes(s) ==
    /\ Is(s, "delete", "ready")
    /\ Unlocked(req[s].ask.id)
    /\ LET id == req[s].ask.id
           beside == {k \in Sessions : Cascading(k) /\ Companions(id, req[k].ask.id)}
       IN  \/ profiles[id] = NULL /\ Reply(s, 204) /\ UNCHANGED rivals
           \/ /\ profiles[id] # NULL
              /\ To(s, "cascading")
              /\ rivals' = [k \in Sessions |->
                      IF k = s THEN {req[b].ask.id : b \in beside}
                      ELSE rivals[k] \cup (IF k \in beside THEN {id} ELSE {})]
    /\ UNCHANGED <<profiles, pairs, deleted, updated>>

\* The rows the deletion has yet to lock: by traveller first, then by companion.
Wanted(s) ==
    LET id == req[s].ask.id
        ofTraveller == {pair \in pairs \ locks[s] : pair[1] = id}
    IN  IF ofTraveller # {} THEN ofTraveller ELSE {pair \in pairs \ locks[s] : pair[2] = id}

CascadeLocks(s) ==
    /\ Cascading(s)
    /\ \E pair \in Wanted(s) :
        /\ \A k \in Sessions : pair \notin locks[k]
        /\ locks' = [locks EXCEPT ![s] = @ \cup {pair}]
    /\ UNCHANGED <<profiles, pairs, req, answer, fault, history>>

DeleteCommits(s) ==
    /\ Cascading(s)
    /\ Wanted(s) = {}
    /\ LET id == req[s].ask.id
       IN  /\ profiles' = [profiles EXCEPT ![id] = NULL]
           /\ pairs' = Cascade(id)
           /\ deleted' = [k \in Sessions |->
                   IF DeletionConcerns(k, id) THEN deleted[k] \cup {id} ELSE deleted[k]]
    /\ Reply(s, 204) \/ Fails(s, 500)
    /\ UNCHANGED <<updated, rivals>>

WaitsFor(s, k) == Cascading(s) /\ Wanted(s) \cap locks[k] # {}

\* PostgreSQL aborts one of the deletions that wait for each other in a circle.
DeadlockAborts(s) ==
    /\ \E S \in SUBSET Sessions : \E next \in [S -> S] :
        /\ s \in S /\ S = {next[k] : k \in S}
        /\ \A k \in S : WaitsFor(k, next[k])
    /\ Escapes(s)
    /\ UNCHANGED <<pairs, history>>

\* Mutant: a pair counts in either direction.
Violates_symmetric(t, c) ==
    <<t, c>> \in pairs \/ <<c, t>> \in pairs \/ NULL \in {profiles[t], profiles[c]}

\* The unique key or a foreign key.
Violates(t, c) == <<t, c>> \in pairs \/ NULL \in {profiles[t], profiles[c]}

\* Mutant: the commit is not guarded, and a duplicate escapes like any other error.
AddCommits_unguarded(s) ==
    /\ Is(s, "add", "ready")
    /\ Unlocked(req[s].ask.id) /\ Unlocked(req[s].ask.companion)
    /\ LET t == req[s].ask.id
           c == req[s].ask.companion
       IN  \/ Violates(t, c) /\ Reply(s, 500) /\ UNCHANGED pairs
           \/ ~Violates(t, c) /\ pairs' = pairs \cup {<<t, c>>} /\ Commits(s, 500)
    /\ UNCHANGED <<profiles, history>>

\* The foreign keys wait for deletions.  Whatever the commit raises is answered as a
\* conflict, a lost connection too.
AddCommits(s) ==
    /\ Is(s, "add", "ready")
    /\ Unlocked(req[s].ask.id) /\ Unlocked(req[s].ask.companion)
    /\ LET t == req[s].ask.id
           c == req[s].ask.companion
       IN  \/ Violates(t, c) /\ Reply(s, 409) /\ UNCHANGED pairs
           \/ ~Violates(t, c) /\ pairs' = pairs \cup {<<t, c>>} /\ Commits(s, 409)
    /\ UNCHANGED <<profiles, history>>

\* All three handlers read the row again for the answer; it may be gone.
Refresh(s) ==
    /\ req[s] # NULL /\ req[s].at = "committed"
    /\ LET r == req[s].ask
           gone == IF r.op = "add" THEN <<r.id, r.companion>> \notin pairs ELSE profiles[r.id] = NULL
       IN  Reply(s, IF gone THEN 500 ELSE IF r.op = "update" THEN 200 ELSE 201)
    /\ UNCHANGED <<profiles, pairs, history>>

\* A lookup, a commit that is not applied, a cascade or a refresh fails: only the
\* commit of a companion is guarded.
DatabaseFails(s) ==
    /\ req[s] # NULL
    /\ Fails(s, IF Is(s, "add", "ready") THEN 409 ELSE 500)
    /\ UNCHANGED <<profiles, pairs, history>>

\* The API process dies: what is committed stays, nothing is answered.
ApiDies ==
    /\ \E s \in Sessions : req[s] # NULL
    /\ req' = [s \in Sessions |-> NULL]
    /\ locks' = [s \in Sessions |-> {}]
    /\ UNCHANGED <<profiles, pairs, answer, fault, history>>

Next ==
    \/ \E s \in Sessions :
        \/ Begin(s) \/ get_owned_traveller(s) \/ FindCompanion(s)
        \/ CreateCommits(s) \/ UpdateCommits(s) \/ AddCommits(s)
        \/ DeleteTakes(s) \/ CascadeLocks(s) \/ DeleteCommits(s) \/ DeadlockAborts(s)
        \/ Refresh(s) \/ DatabaseFails(s)
    \/ ApiDies

Spec == Init /\ [][Next]_vars

-----------------------------------------------------------------------------
(* Properties *)

Answered(s, statuses) == answer[s] # NULL /\ answer[s].status \in statuses
Asked(s) == {answer[s].ask.id, answer[s].ask.companion}

\* A request ends in an internal error only if the database failed it, if it sent what
\* no column can hold, or if a profile it is about was deleted after it had looked its
\* own up; but a deletion only if it met the deletion of a companion, never because of
\* another deletion of the same profile.
ErrorHasACause(s) ==
    Answered(s, {500}) =>
        \/ fault[s]
        \/ answer[s].ask.body = OVERLONG
        \/ IF answer[s].ask.op = "delete" THEN rivals[s] # {} ELSE Asked(s) \cap deleted[s] # {}

ErrorsHaveACause == \A s \in Sessions : ErrorHasACause(s)

\* "This companion relationship already exists" is true, unless one of the two profiles
\* was deleted after the request had found its own, or the database failed the commit.
ConflictIsPaired(s) ==
    Answered(s, {409}) =>
        \/ <<answer[s].ask.id, answer[s].ask.companion>> \in pairs
        \/ Asked(s) \cap deleted[s] # {}
        \/ fault[s]

ConflictMeansPaired == \A s \in Sessions : ConflictIsPaired(s)

\* What a success acknowledges is stored as it was sent, until somebody deletes it:
\* each column of a profile, until another session changes that column, and changes
\* to other columns of the same profile, even while the request runs, undo nothing.
SuccessIsStored ==
    \A s \in Sessions : Answered(s, {200, 201}) =>
        LET r == answer[s].ask
        IN  \/ Asked(s) \cap deleted[s] # {}
            \/ r.op = "add" /\ <<r.id, r.companion>> \in pairs
            \/ /\ r.op # "add" /\ profiles[r.id] # NULL /\ profiles[r.id].owner = Owner(s)
               /\ \A c \in Columns : profiles[r.id].body[c] = r.body[c] \/ <<r.id, c>> \in updated[s]
=============================================================================
