-------------------------- MODULE TravellersProofs --------------------------
(***************************************************************************)
(* Proofs that the answers of the traveller endpoints tell the truth,      *)
(* for any number of sessions, users and profiles, whatever transactions   *)
(* the database fails or aborts.                                           *)
(*                                                                         *)
(* The invariant says what a request in progress may still rely on: the    *)
(* profile it looked up is there as it was loaded, but for the deletions   *)
(* and the columns changed by other sessions that its history has noted;   *)
(* and what a deletion that locks companion rows knows of the others.      *)
(***************************************************************************)
EXTENDS Travellers, TLAPS

Present(s, id) == profiles[id] # NULL \/ id \in deleted[s]

\* The profile is there with this body, as far as session s left it alone.
Stored(s, id, body) ==
    /\ profiles[id] # NULL /\ profiles[id].owner = Owner(s)
    /\ \A c \in Columns : profiles[id].body[c] = body[c] \/ <<id, c>> \in updated[s]

Kept(s, id, body) == id \in deleted[s] \/ Stored(s, id, body)
Paired(s, r) == <<r.id, r.companion>> \in pairs \/ {r.id, r.companion} \cap deleted[s] # {}

Creating(s) == Is(s, "create", "ready")
LookedUp(s) == req[s].at # "arrived" /\ ~Creating(s)

\* What session s knows of the profiles its request is about.
Knows(s) ==
    LET r == req[s].ask
    IN  /\ r.op = "create" => req[s].at \in {"ready", "committed"}
        /\ r.op = "delete" => req[s].at # "committed"
        /\ Creating(s) => profiles[r.id] = NULL
        /\ LookedUp(s) /\ r.op # "delete" => Present(s, r.id)
        /\ Is(s, "update", "ready") => Kept(s, r.id, req[s].loaded)
        /\ req[s].at = "committed" /\ r.op # "add" => Kept(s, r.id, r.body)
        /\ r.op = "add" /\ req[s].at \in {"ready", "committed"} =>
               r.id # r.companion /\ Present(s, r.companion)
        /\ Is(s, "add", "committed") => Paired(s, r)

RequestKnows(s) == req[s] # NULL => answer[s] = NULL /\ Knows(s)

SuccessHolds(s) ==
    Answered(s, {200, 201}) =>
        LET r == answer[s].ask
        IN  r.op # "delete" /\ IF r.op = "add" THEN Paired(s, r) ELSE Kept(s, r.id, r.body)

\* Only a companion is answered as a conflict.
ConflictHolds(s) == ConflictIsPaired(s) /\ (Answered(s, {409}) => answer[s].ask.op = "add")

AnswerIsTrue(s) == ErrorHasACause(s) /\ ConflictHolds(s) /\ SuccessHolds(s)

\* No two requests create the same profile.
CreatesDiffer ==
    \A s, k \in Sessions : s # k /\ Creating(s) /\ Creating(k) => req[s].ask.id # req[k].ask.id

\* Only companion rows of the profile a deletion has taken are locked.
LocksKnown ==
    \A s \in Sessions : \A pair \in locks[s] :
        Cascading(s) /\ req[s].ask.id \in {pair[1], pair[2]}

\* No two deletions have taken the same profile; companions know of each other.
RivalsKnown ==
    \A s, k \in Sessions : s # k /\ Cascading(s) /\ Cascading(k) =>
        /\ req[s].ask.id # req[k].ask.id
        /\ Companions(req[s].ask.id, req[k].ask.id) => rivals[s] # {}

Inv ==
    /\ TypeOK
    /\ CreatesDiffer
    /\ LocksKnown
    /\ RivalsKnown
    /\ \A s \in Sessions : RequestKnows(s) /\ AnswerIsTrue(s)

-----------------------------------------------------------------------------
(* Types *)

\* The ids a request is about, and what its body may be.
LEMMA AskTypes ==
    ASSUME NEW r \in Requests
    PROVE  /\ r.id \in Ids
           /\ r.op \in {"create", "update", "delete", "add"}
           /\ r.op = "add" => r.companion \in Ids
           /\ r.op \in {"create", "update"} => r.body \in Bodies \cup {OVERLONG}
  BY DEF Requests

\* A record is never taken for the absence of one.
LEMMA RecordsAreNotNull ==
    /\ \A p \in Profile : p # NULL
    /\ \A r \in Request : r # NULL
    /\ \A a \in Answer : a # NULL
  BY TravellersAssumption

Places == {"arrived", "owned", "ready", "cascading", "committed"}

LEMMA RequestTypes ==
    ASSUME TypeOK, NEW s \in Sessions, req[s] # NULL
    PROVE  /\ req[s] \in Request
           /\ req[s].ask \in Requests
           /\ req[s].ask.id \in Ids
           /\ req[s].at \in Places
           /\ req[s].loaded \in Bodies \cup {NULL}
           /\ req[s].ask.op = "add" => req[s].ask.companion \in Ids
  BY AskTypes DEF TypeOK, Request, Places

LEMMA WrittenType ==
    ASSUME TypeOK, NEW s \in Sessions, Is(s, "update", "ready"), req[s].ask.body # OVERLONG,
           NEW current \in Bodies
    PROVE  Written(req[s], current) \in Bodies
<1>1. req[s] \in Request /\ req[s].ask.body \in Bodies
  BY AskTypes DEF TypeOK, Is, Request
<1>. QED
  BY <1>1 DEF Written, Bodies

\* The part of the type invariant that is about the tables and the history, and the
\* part that is about the requests.
DataTyped ==
    /\ profiles \in [Ids -> Profile \cup {NULL}]
    /\ pairs \subseteq {pair \in Ids \X Ids :
                        pair[1] # pair[2] /\ NULL \notin {profiles[pair[1]], profiles[pair[2]]}}
    /\ deleted \in [Sessions -> SUBSET Ids]
    /\ updated \in [Sessions -> SUBSET (Ids \X Columns)]
    /\ rivals \in [Sessions -> SUBSET Ids]

RequestsTyped ==
    /\ req \in [Sessions -> Request \cup {NULL}]
    /\ answer \in [Sessions -> Answer \cup {NULL}]
    /\ locks \in [Sessions -> SUBSET (Ids \X Ids)]
    /\ fault \in [Sessions -> BOOLEAN]

LEMMA TypeParts == TypeOK <=> DataTyped /\ RequestsTyped
  BY DEF TypeOK, DataTyped, RequestsTyped

\* The request of session j ends.
LEMMA EndTypes ==
    ASSUME TypeOK, NEW j \in Sessions, req[j] # NULL, NEW status \in Statuses,
           Reply(j, status) \/ Fails(j, status)
    PROVE  /\ RequestsTyped'
           /\ req'[j] = NULL /\ locks'[j] = {}
           /\ answer'[j] = [ask |-> req[j].ask, status |-> status] /\ answer'[j] # NULL
           /\ \A k \in Sessions \ {j} : /\ req'[k] = req[k] /\ answer'[k] = answer[k]
                                        /\ locks'[k] = locks[k] /\ fault'[k] = fault[k]
<1>1. [ask |-> req[j].ask, status |-> status] \in Answer
  BY RequestTypes DEF Answer
<1>2. Ends(j, status) /\ (UNCHANGED fault \/ fault' = [fault EXCEPT ![j] = TRUE])
  BY DEF Reply, Fails
<1>. QED
  BY <1>1, <1>2, RecordsAreNotNull DEF Ends, TypeOK, RequestsTyped

\* The request of session j gets on.
LEMMA ToTypes ==
    ASSUME TypeOK, NEW j \in Sessions, req[j] # NULL, NEW at \in Places, To(j, at)
    PROVE  /\ RequestsTyped'
           /\ req'[j] = [ask |-> req[j].ask, at |-> at, loaded |-> req[j].loaded]
           /\ req'[j] # NULL
           /\ UNCHANGED <<answer, locks, fault>>
           /\ \A k \in Sessions \ {j} : req'[k] = req[k]
<1>1. req[j] \in Request
  BY RequestTypes
<1>2. req[j] = [ask |-> req[j].ask, at |-> req[j].at, loaded |-> req[j].loaded]
  BY <1>1 DEF Request
<1>3. [req[j] EXCEPT !.at = at] = [ask |-> req[j].ask, at |-> at, loaded |-> req[j].loaded]
  BY <1>2
<1>4. [ask |-> req[j].ask, at |-> at, loaded |-> req[j].loaded] \in Request
  BY <1>1 DEF Request, Places
<1>5. req' = [req EXCEPT ![j] = [ask |-> req[j].ask, at |-> at, loaded |-> req[j].loaded]]
  BY <1>3 DEF To
<1>. QED
  BY <1>4, <1>5, RecordsAreNotNull DEF To, TypeOK, RequestsTyped

-----------------------------------------------------------------------------
(* What one session does to what another one knows *)

\* Whatever other sessions do between two steps of session s: a profile is left
\* alone, or appears under an id s does not create, or is deleted, or some columns
\* change, and what concerns s is noted; a pair disappears only with a profile.
Disturbs(s) ==
    /\ deleted[s] \subseteq deleted'[s] /\ updated[s] \subseteq updated'[s] /\ rivals[s] \subseteq rivals'[s]
    /\ \A id \in Ids :
        \/ profiles'[id] = profiles[id]
        \/ profiles'[id] = NULL /\ (DeletionConcerns(s, id) => id \in deleted'[s])
        \/ profiles[id] = NULL /\ (Creating(s) => id # req[s].ask.id)
        \/ /\ profiles[id] # NULL /\ profiles'[id] # NULL /\ profiles'[id].owner = profiles[id].owner
           /\ \A c \in Columns : \/ profiles'[id].body[c] = profiles[id].body[c]
                                 \/ ChangeConcerns(s, id) => <<id, c>> \in updated'[s]
    /\ \A pair \in pairs \ pairs' :
        \E id \in {pair[1], pair[2]} : DeletionConcerns(s, id) => id \in deleted'[s]

\* A new pair is of profiles that no deletion has taken.
PairsGrowUnlocked == \A pair \in pairs' \ pairs : Unlocked(pair[1])

LEMMA KeptStaysKept ==
    ASSUME NEW s \in Sessions, Disturbs(s), NEW id \in Ids, NEW body, Kept(s, id, body),
           ChangeConcerns(s, id), DeletionConcerns(s, id)
    PROVE  Kept(s, id, body)'
<1>1. CASE id \in deleted[s]
  BY <1>1 DEF Disturbs, Kept
<1>2. CASE Stored(s, id, body)
  <2>1. CASE profiles'[id] = profiles[id]
    BY <1>2, <2>1 DEF Disturbs, Stored, Kept
  <2>2. CASE profiles'[id] = NULL /\ id \in deleted'[s]
    BY <2>2 DEF Kept
  <2>3. CASE /\ profiles[id] # NULL /\ profiles'[id] # NULL /\ profiles'[id].owner = profiles[id].owner
             /\ \A c \in Columns : profiles'[id].body[c] = profiles[id].body[c] \/ <<id, c>> \in updated'[s]
    <3>1. updated[s] \subseteq updated'[s]
      BY DEF Disturbs
    <3>. QED
      BY <1>2, <2>3, <3>1 DEF Stored, Kept
  <2>. QED
    BY <1>2, <2>1, <2>2, <2>3 DEF Disturbs, Stored
<1>. QED
  BY <1>1, <1>2 DEF Kept

LEMMA PresentStaysPresent ==
    ASSUME NEW s \in Sessions, Disturbs(s), NEW id \in Ids, Present(s, id), DeletionConcerns(s, id)
    PROVE  Present(s, id)'
  BY DEF Disturbs, Present

LEMMA PairedStaysPaired ==
    ASSUME NEW s \in Sessions, Disturbs(s), NEW r, Paired(s, r),
           DeletionConcerns(s, r.id), DeletionConcerns(s, r.companion)
    PROVE  <<r.id, r.companion>> \in pairs' \/ {r.id, r.companion} \cap deleted'[s] # {}
<1>1. CASE <<r.id, r.companion>> \in pairs \ pairs'
  BY <1>1 DEF Disturbs
<1>. QED
  BY <1>1 DEF Disturbs, Paired

LEMMA RequestKeepsKnowing ==
    ASSUME Inv, NEW s \in Sessions, req'[s] = req[s], answer'[s] = answer[s], Disturbs(s)
    PROVE  RequestKnows(s)'
<1>. SUFFICES ASSUME req[s] # NULL
              PROVE  answer'[s] = NULL /\ Knows(s)'
  BY DEF RequestKnows
<1>. DEFINE r == req[s].ask
<1>1. answer[s] = NULL /\ Knows(s) /\ r.id \in Ids /\ (r.op = "add" => r.companion \in Ids)
  BY RequestTypes DEF Inv, RequestKnows
<1>2. /\ Creating(s)' <=> Creating(s)
      /\ LookedUp(s)' <=> LookedUp(s)
      /\ \A op, at : Is(s, op, at)' <=> Is(s, op, at)
  BY DEF Creating, LookedUp, Is
<1>3. /\ r.op \in {"create", "update"} => ChangeConcerns(s, r.id)
      /\ r.op # "delete" => DeletionConcerns(s, r.id) /\ DeletionConcerns(s, r.companion)
  BY DEF Noted, ChangeConcerns, DeletionConcerns
<1>4. Creating(s) => profiles'[r.id] = NULL
  BY <1>1, <1>3 DEF Disturbs, Knows, Creating, Is
<1>5. (LookedUp(s) /\ r.op # "delete" => Present(s, r.id))'
  BY <1>1, <1>2, <1>3, PresentStaysPresent DEF Knows
<1>6. (Is(s, "update", "ready") => Kept(s, r.id, req[s].loaded))'
  <2>1. CASE Is(s, "update", "ready")
    <3>1. Kept(s, r.id, req[s].loaded) /\ ChangeConcerns(s, r.id) /\ DeletionConcerns(s, r.id)
      BY <1>1, <1>3, <2>1 DEF Knows, Is
    <3>2. ASSUME NEW body, body = req[s].loaded PROVE Kept(s, r.id, body)'
      BY <1>1, <3>1, <3>2, KeptStaysKept
    <3>. QED
      BY <3>2 DEF Kept, Stored
  <2>. QED
    BY <1>2, <2>1
<1>7. (req[s].at = "committed" /\ r.op # "add" => Kept(s, r.id, r.body))'
  <2>1. CASE req[s].at = "committed" /\ r.op # "add"
    <3>1. r.op \in {"create", "update"}
      BY <1>1, <2>1, RequestTypes, AskTypes DEF Knows, Inv
    <3>2. Kept(s, r.id, r.body) /\ ChangeConcerns(s, r.id) /\ DeletionConcerns(s, r.id)
      BY <1>1, <1>3, <2>1, <3>1 DEF Knows
    <3>3. ASSUME NEW body, body = r.body PROVE Kept(s, r.id, body)'
      BY <1>1, <3>2, <3>3, KeptStaysKept
    <3>. QED
      BY <3>3 DEF Kept, Stored
  <2>. QED
    BY <2>1
<1>8. (r.op = "add" /\ req[s].at \in {"ready", "committed"} =>
            r.id # r.companion /\ Present(s, r.companion))'
  BY <1>1, <1>3, PresentStaysPresent DEF Knows
<1>9. (Is(s, "add", "committed") => Paired(s, r))'
  BY <1>1, <1>2, <1>3, PairedStaysPaired DEF Knows, Is, Paired
<1>. QED
  BY <1>1, <1>2, <1>4, <1>5, <1>6, <1>7, <1>8, <1>9 DEF Knows

LEMMA AnswerStaysTrue ==
    ASSUME Inv, NEW s \in Sessions, answer'[s] = answer[s], fault'[s] = fault[s], Disturbs(s)
    PROVE  AnswerIsTrue(s)'
<1>. DEFINE r == answer[s].ask
<1>1. answer[s] # NULL => r \in Requests /\ req[s] = NULL
  BY DEF Inv, TypeOK, Answer, RequestKnows
<1>2. AnswerIsTrue(s)
  BY DEF Inv
<1>3. \A statuses : Answered(s, statuses)' <=> Answered(s, statuses)
  BY DEF Answered
<1>4. Answered(s, {200, 201, 409}) =>
        /\ r.op \in {"create", "update"} => ChangeConcerns(s, r.id)
        /\ r.op # "delete" => DeletionConcerns(s, r.id) /\ DeletionConcerns(s, r.companion)
  BY <1>1 DEF Answered, Noted, ChangeConcerns, DeletionConcerns
<1>5. ErrorHasACause(s)'
  BY <1>2, <1>3 DEF AnswerIsTrue, ErrorHasACause, Asked, Disturbs
<1>6. ConflictHolds(s)'
  <2>. SUFFICES ASSUME Answered(s, {409})
                PROVE  /\ \/ <<r.id, r.companion>> \in pairs'
                          \/ {r.id, r.companion} \cap deleted'[s] # {}
                          \/ fault'[s]
                       /\ r.op = "add"
    BY <1>3 DEF ConflictHolds, ConflictIsPaired, Asked
  <2>1. Answered(s, {200, 201, 409})
    BY DEF Answered
  <2>2. r.op = "add" /\ (Paired(s, r) \/ fault[s])
    BY <1>2 DEF AnswerIsTrue, ConflictHolds, ConflictIsPaired, Asked, Paired
  <2>. QED
    BY <1>4, <2>1, <2>2, PairedStaysPaired
<1>7. SuccessHolds(s)'
  <2>. SUFFICES ASSUME Answered(s, {200, 201})
                PROVE  /\ r.op # "delete"
                       /\ IF r.op = "add" THEN Paired(s, r)' ELSE Kept(s, r.id, r.body)'
    BY <1>3 DEF SuccessHolds
  <2>1. r.id \in Ids /\ r.op \in {"create", "update", "delete", "add"} /\ Answered(s, {200, 201, 409})
    BY <1>1, AskTypes DEF Answered
  <2>2. r.op # "delete" /\ IF r.op = "add" THEN Paired(s, r) ELSE Kept(s, r.id, r.body)
    BY <1>2 DEF AnswerIsTrue, SuccessHolds
  <2>3. CASE r.op = "add"
    BY <1>4, <2>1, <2>2, <2>3, PairedStaysPaired DEF Paired
  <2>4. CASE r.op # "add"
    <3>1. ASSUME NEW body, body = r.body PROVE Kept(s, r.id, body)'
      BY <1>4, <2>1, <2>2, <2>4, <3>1, KeptStaysKept
    <3>. QED
      BY <2>2, <2>4, <3>1 DEF Kept, Stored
  <2>. QED
    BY <2>3, <2>4
<1>. QED
  BY <1>5, <1>6, <1>7 DEF AnswerIsTrue

LEMMA NothingDisturbs ==
    ASSUME NEW s \in Sessions, UNCHANGED <<profiles, pairs>>,
           deleted'[s] = deleted[s], updated'[s] = updated[s], rivals[s] \subseteq rivals'[s]
    PROVE  Disturbs(s)
  BY DEF Disturbs

\* A session that holds no profile does nothing to the deletions of others.
LEMMA DeletionsGoOn ==
    ASSUME Inv, PairsGrowUnlocked, NEW j \in Sessions, ~Cascading(j)', locks'[j] = {},
           \A k \in Sessions \ {j} : req'[k] = req[k] /\ locks'[k] = locks[k] /\ rivals[k] \subseteq rivals'[k]
    PROVE  LocksKnown' /\ RivalsKnown'
<1>1. \A k \in Sessions \ {j} : Cascading(k)' <=> Cascading(k)
  BY DEF Cascading, Is
<1>2. LocksKnown'
  BY <1>1 DEF Inv, LocksKnown
<1>3. ASSUME NEW s \in Sessions, NEW k \in Sessions, s # k, Cascading(s)', Cascading(k)'
      PROVE  /\ req'[s].ask.id # req'[k].ask.id
             /\ Companions(req[s].ask.id, req[k].ask.id)' => rivals'[s] # {}
  <2>1. /\ s # j /\ k # j /\ Cascading(s) /\ Cascading(k)
        /\ req'[s] = req[s] /\ req'[k] = req[k] /\ rivals[s] \subseteq rivals'[s]
    BY <1>1, <1>3
  <2>2. Companions(req[s].ask.id, req[k].ask.id)' => Companions(req[s].ask.id, req[k].ask.id)
    BY <2>1 DEF Companions, PairsGrowUnlocked, Unlocked
  <2>. QED
    BY <1>3, <2>1, <2>2 DEF Inv, RivalsKnown
<1>. QED
  BY <1>2, <1>3 DEF RivalsKnown

\* A step of session j keeps the invariant if j itself knows what it should
\* afterwards, and the others are at most disturbed.
LEMMA StepKeepsInv ==
    ASSUME Inv, DataTyped', RequestsTyped', LocksKnown', RivalsKnown',
           NEW j \in Sessions, RequestKnows(j)', AnswerIsTrue(j)',
           \A k \in Sessions \ {j} : /\ req'[k] = req[k] /\ answer'[k] = answer[k]
                                     /\ fault'[k] = fault[k] /\ Disturbs(k),
           Creating(j)' => \A k \in Sessions \ {j} : Creating(k) => req[k].ask.id # req'[j].ask.id
    PROVE  Inv'
<1>1. TypeOK'
  BY DEF TypeOK, DataTyped, RequestsTyped
<1>2. CreatesDiffer'
  BY DEF Inv, CreatesDiffer, Creating, Is
<1>3. \A k \in Sessions \ {j} : RequestKnows(k)' /\ AnswerIsTrue(k)'
  BY RequestKeepsKnowing, AnswerStaysTrue
<1>. QED
  BY <1>1, <1>2, <1>3 DEF Inv

\* The request in progress gets on, and j creates nothing new.
LEMMA ProgressKeepsInv ==
    ASSUME Inv, DataTyped', RequestsTyped', LocksKnown', RivalsKnown',
           NEW j \in Sessions, req[j] # NULL, req'[j] # NULL,
           req'[j].ask = req[j].ask, Creating(j)' => FALSE,
           UNCHANGED <<answer, fault>>, Knows(j)',
           \A k \in Sessions \ {j} : req'[k] = req[k] /\ Disturbs(k)
    PROVE  Inv'
<1>1. answer'[j] = NULL
  BY DEF Inv, RequestKnows
<1>2. RequestKnows(j)' /\ AnswerIsTrue(j)'
  BY <1>1 DEF RequestKnows, AnswerIsTrue, ErrorHasACause, ConflictHolds, ConflictIsPaired,
              SuccessHolds, Answered
<1>. QED
  BY <1>2, StepKeepsInv

\* The request ends with an answer that is true.
LEMMA EndKeepsInv ==
    ASSUME Inv, DataTyped', PairsGrowUnlocked, NEW j \in Sessions, req[j] # NULL, NEW status \in Statuses,
           Reply(j, status) \/ Fails(j, status), AnswerIsTrue(j)', \A k \in Sessions \ {j} : Disturbs(k)
    PROVE  Inv'
<1>1. /\ RequestsTyped' /\ req'[j] = NULL /\ locks'[j] = {}
      /\ \A k \in Sessions \ {j} : /\ req'[k] = req[k] /\ answer'[k] = answer[k]
                                   /\ locks'[k] = locks[k] /\ fault'[k] = fault[k]
  BY EndTypes DEF Inv
<1>2. RequestKnows(j)' /\ ~Creating(j)' /\ ~Cascading(j)'
  BY <1>1 DEF RequestKnows, Creating, Cascading, Is
<1>3. \A k \in Sessions \ {j} : rivals[k] \subseteq rivals'[k]
  BY DEF Disturbs
<1>4. LocksKnown' /\ RivalsKnown'
  BY <1>1, <1>2, <1>3, DeletionsGoOn
<1>. QED
  BY <1>1, <1>2, <1>4, StepKeepsInv

\* An answer that claims nothing is true.
LEMMA NoClaim ==
    ASSUME Inv, NEW j \in Sessions, req[j] # NULL, NEW status \in {204, 404, 422}, Reply(j, status)
    PROVE  AnswerIsTrue(j)' /\ status \in Statuses
<1>1. status \in Statuses
  BY DEF Statuses
<1>2. answer'[j] = [ask |-> req[j].ask, status |-> status]
  BY <1>1, EndTypes DEF Inv
<1>. QED
  BY <1>1, <1>2
  DEF AnswerIsTrue, ErrorHasACause, ConflictHolds, ConflictIsPaired, SuccessHolds, Answered

\* An internal error that has its cause is true.
LEMMA TrueError ==
    ASSUME Inv, NEW j \in Sessions, req[j] # NULL, Reply(j, 500),
           LET r == req[j].ask
           IN  \/ r.body = OVERLONG
               \/ IF r.op = "delete" THEN rivals'[j] # {} ELSE {r.id, r.companion} \cap deleted'[j] # {}
    PROVE  AnswerIsTrue(j)' /\ 500 \in Statuses
<1>1. 500 \in Statuses
  BY DEF Statuses
<1>2. answer'[j] = [ask |-> req[j].ask, status |-> 500]
  BY <1>1, EndTypes DEF Inv
<1>. QED
  BY <1>1, <1>2
  DEF AnswerIsTrue, ErrorHasACause, ConflictHolds, ConflictIsPaired, SuccessHolds, Answered, Asked

\* The database fails the request of session j.
LEMMA FailKeepsInv ==
    ASSUME Inv, DataTyped', PairsGrowUnlocked, NEW j \in Sessions, req[j] # NULL,
           NEW status \in {409, 500}, Fails(j, status), status = 409 => req[j].ask.op = "add",
           \A k \in Sessions \ {j} : Disturbs(k)
    PROVE  Inv'
<1>1. status \in Statuses
  BY DEF Statuses
<1>2. answer'[j] = [ask |-> req[j].ask, status |-> status]
  BY <1>1, EndTypes DEF Inv
<1>3. fault'[j] = TRUE
  BY DEF Fails, Inv, TypeOK
<1>4. AnswerIsTrue(j)'
  BY <1>2, <1>3
  DEF AnswerIsTrue, ErrorHasACause, ConflictHolds, ConflictIsPaired, SuccessHolds, Answered
<1>. QED
  BY <1>1, <1>4, EndKeepsInv

\* A session whose request is not a deletion holds no companion row.
LEMMA NoLocks ==
    ASSUME Inv, NEW j \in Sessions, ~Cascading(j)
    PROVE  locks[j] = {}
  BY DEF Inv, LocksKnown

\* The transaction of session j commits, and its answer may be lost.
LEMMA CommitKeepsInv ==
    ASSUME Inv, DataTyped', PairsGrowUnlocked, NEW j \in Sessions, req[j] # NULL, ~Cascading(j),
           NEW status \in {409, 500}, Commits(j, status), status = 409 => req[j].ask.op = "add",
           To(j, "committed") => Knows(j)',
           \A k \in Sessions \ {j} : Disturbs(k)
    PROVE  Inv'
<1>1. CASE Fails(j, status)
  BY <1>1, FailKeepsInv
<1>2. CASE To(j, "committed")
  <2>1. /\ RequestsTyped'
        /\ req'[j] = [ask |-> req[j].ask, at |-> "committed", loaded |-> req[j].loaded]
        /\ req'[j] # NULL
        /\ UNCHANGED <<answer, locks, fault>>
        /\ \A k \in Sessions \ {j} : req'[k] = req[k]
    BY <1>2, ToTypes DEF Inv, Places
  <2>2. ~Creating(j)' /\ ~Cascading(j)' /\ locks'[j] = {}
    BY <2>1, NoLocks DEF Creating, Cascading, Is
  <2>3. \A k \in Sessions \ {j} : locks'[k] = locks[k] /\ rivals[k] \subseteq rivals'[k]
    BY <2>1 DEF Disturbs
  <2>4. LocksKnown' /\ RivalsKnown'
    BY <2>1, <2>2, <2>3, DeletionsGoOn
  <2>5. req'[j].ask = req[j].ask
    BY <2>1
  <2>. QED
    BY <1>2, <2>1, <2>2, <2>4, <2>5, ProgressKeepsInv
<1>. QED
  BY <1>1, <1>2 DEF Commits

-----------------------------------------------------------------------------
(* The steps of a request *)

LEMMA BeginKeepsInv ==
    ASSUME Inv, NEW j \in Sessions, Begin(j)
    PROVE  Inv'
<1>. PICK r \in Requests :
        /\ r.op = "create" => Fresh(r.id)
        /\ req' = [req EXCEPT ![j] =
                [ask |-> r, at |-> IF r.op = "create" THEN "ready" ELSE "arrived", loaded |-> NULL]]
  BY DEF Begin
<1>. DEFINE new == [ask |-> r, at |-> IF r.op = "create" THEN "ready" ELSE "arrived", loaded |-> NULL]
<1>1. new \in Request /\ new # NULL
  BY RecordsAreNotNull DEF Request
<1>2. /\ req'[j] = new /\ answer'[j] = NULL
      /\ \A k \in Sessions \ {j} : /\ req'[k] = req[k] /\ answer'[k] = answer[k]
                                   /\ deleted'[k] = deleted[k] /\ updated'[k] = updated[k]
                                   /\ fault'[k] = fault[k] /\ rivals'[k] = rivals[k]
      /\ UNCHANGED <<profiles, pairs, locks>>
  BY DEF Begin, Inv, TypeOK
<1>3. RequestsTyped' /\ DataTyped'
  BY <1>1 DEF Begin, Inv, TypeOK, RequestsTyped, DataTyped
<1>4. Knows(j)'
  BY <1>1, <1>2 DEF Knows, Creating, LookedUp, Is, Fresh
<1>5. RequestKnows(j)' /\ AnswerIsTrue(j)'
  BY <1>2, <1>4 DEF RequestKnows, AnswerIsTrue, ErrorHasACause, ConflictHolds, ConflictIsPaired,
                    SuccessHolds, Answered
<1>6. Creating(j)' => \A k \in Sessions \ {j} : Creating(k) => req[k].ask.id # req'[j].ask.id
  BY <1>2 DEF Creating, Is, Fresh
<1>7. ~Cascading(j)' /\ ~Cascading(j)
  BY <1>2 DEF Cascading, Is, Begin
<1>8. PairsGrowUnlocked
  BY <1>2 DEF PairsGrowUnlocked
<1>9. LocksKnown' /\ RivalsKnown'
  BY <1>2, <1>7, <1>8, NoLocks, DeletionsGoOn
<1>10. \A k \in Sessions \ {j} : Disturbs(k)
  BY <1>2, NothingDisturbs
<1>. QED
  BY <1>2, <1>3, <1>5, <1>6, <1>9, <1>10, StepKeepsInv

\* What a step that leaves the tables and the history alone need not prove.
LEMMA QuietStep ==
    ASSUME Inv, UNCHANGED <<profiles, pairs, history>>
    PROVE  DataTyped' /\ PairsGrowUnlocked /\ \A k \in Sessions : Disturbs(k)
<1>1. DataTyped' /\ PairsGrowUnlocked
  BY DEF Inv, TypeOK, DataTyped, PairsGrowUnlocked, history
<1>2. \A k \in Sessions : Disturbs(k)
  BY NothingDisturbs DEF history
<1>. QED
  BY <1>1, <1>2

LEMMA LookupKeepsInv ==
    ASSUME Inv, NEW j \in Sessions, get_owned_traveller(j)
    PROVE  Inv'
<1>. DEFINE r == req[j].ask
            at == IF r.op = "add" THEN "owned" ELSE "ready"
            loaded == IF r.op = "update" THEN profiles[r.id].body ELSE NULL
<1>1. req[j] # NULL /\ req[j].at = "arrived" /\ req[j] \in Request /\ r \in Requests /\ r.id \in Ids
  BY RequestTypes DEF get_owned_traveller, Inv
<1>2. CASE Reply(j, 404) /\ UNCHANGED <<deleted, updated>>
  <2>1. DataTyped' /\ PairsGrowUnlocked /\ \A k \in Sessions : Disturbs(k)
    BY <1>2, QuietStep DEF get_owned_traveller, history
  <2>2. AnswerIsTrue(j)' /\ 404 \in Statuses
    BY <1>1, <1>2, NoClaim
  <2>. QED
    BY <1>1, <1>2, <2>1, <2>2, EndKeepsInv
<1>3. CASE /\ Owned(j, r.id)
           /\ req' = [req EXCEPT ![j] = [ask |-> r, at |-> at, loaded |-> loaded]]
           /\ deleted' = [deleted EXCEPT ![j] = {}]
           /\ updated' = [updated EXCEPT ![j] = {}]
           /\ UNCHANGED <<answer, locks, fault>>
  <2>. DEFINE new == [ask |-> r, at |-> at, loaded |-> loaded]
  <2>1. /\ profiles[r.id] # NULL /\ profiles[r.id] \in Profile
        /\ profiles[r.id].owner = Owner(j) /\ profiles[r.id].body \in Bodies
    BY <1>1, <1>3 DEF Owned, Inv, TypeOK, Profile
  <2>2. new \in Request /\ new # NULL
    BY <1>1, <2>1, RecordsAreNotNull DEF Request
  <2>3. RequestsTyped' /\ DataTyped' /\ PairsGrowUnlocked /\ UNCHANGED <<profiles, pairs, rivals>>
    BY <1>3, <2>2 DEF get_owned_traveller, Inv, TypeOK, RequestsTyped, DataTyped, PairsGrowUnlocked
  <2>4. /\ req'[j] = new
        /\ \A k \in Sessions \ {j} : /\ req'[k] = req[k] /\ deleted'[k] = deleted[k]
                                     /\ updated'[k] = updated[k]
    BY <1>3 DEF Inv, TypeOK
  <2>5. \A k \in Sessions \ {j} : Disturbs(k)
    BY <2>3, <2>4, NothingDisturbs
  <2>6. r.op # "create"
    BY <1>1 DEF Inv, RequestKnows, Knows
  <2>7. ~Creating(j)' /\ ~Cascading(j)' /\ ~Cascading(j)
    BY <1>1, <2>4, <2>6 DEF Creating, Cascading, Is
  <2>8. LocksKnown' /\ RivalsKnown'
    <3>1. locks'[j] = {} /\ \A k \in Sessions \ {j} : locks'[k] = locks[k] /\ rivals[k] \subseteq rivals'[k]
      BY <1>3, <2>3, <2>7, NoLocks
    <3>. QED
      BY <2>3, <2>4, <2>7, <3>1, DeletionsGoOn
  <2>9. Knows(j)'
    <3>1. /\ profiles'[r.id] # NULL /\ profiles'[r.id].owner = Owner(j)
          /\ r.op = "update" => profiles'[r.id].body = loaded
      BY <2>1, <2>3
    <3>2. req'[j].ask = r /\ req'[j].at = at /\ req'[j].loaded = loaded /\ req'[j] # NULL
      BY <2>2, <2>4
    <3>. QED
      BY <1>1, <2>6, <3>1, <3>2 DEF Knows, Creating, LookedUp, Is, Present, Kept, Stored
  <2>. HIDE DEF new
  <2>10. req'[j].ask = r /\ req'[j] # NULL
    BY <2>2, <2>4 DEF new
  <2>. QED
    BY <1>1, <1>3, <2>3, <2>4, <2>5, <2>7, <2>8, <2>9, <2>10, ProgressKeepsInv
<1>. QED
  BY <1>2, <1>3 DEF get_owned_traveller

LEMMA FindCompanionKeepsInv ==
    ASSUME Inv, NEW j \in Sessions, FindCompanion(j)
    PROVE  Inv'
<1>. DEFINE r == req[j].ask
<1>1. req[j] # NULL /\ r.op = "add" /\ req[j].at = "owned"
  BY DEF FindCompanion, Is
<1>2. UNCHANGED <<profiles, pairs, history>> /\ rivals' = rivals
  BY DEF FindCompanion, history
<1>3. DataTyped' /\ PairsGrowUnlocked /\ \A k \in Sessions : Disturbs(k)
  BY <1>2, QuietStep
<1>4. CASE Reply(j, 422)
  <2>1. AnswerIsTrue(j)' /\ 422 \in Statuses
    BY <1>1, <1>4, NoClaim
  <2>. QED
    BY <1>1, <1>3, <1>4, <2>1, EndKeepsInv
<1>5. CASE To(j, "ready") /\ r.companion # r.id /\ profiles[r.companion] # NULL
  <2>1. /\ RequestsTyped'
        /\ req'[j] = [ask |-> r, at |-> "ready", loaded |-> req[j].loaded]
        /\ req'[j] # NULL
        /\ UNCHANGED <<answer, locks, fault>>
        /\ \A k \in Sessions \ {j} : req'[k] = req[k]
    BY <1>1, <1>5, ToTypes DEF Inv, Places
  <2>2. ~Creating(j)' /\ ~Cascading(j)' /\ ~Cascading(j)
    BY <1>1, <2>1 DEF Creating, Cascading, Is
  <2>3. LocksKnown' /\ RivalsKnown'
    <3>1. locks'[j] = {} /\ \A k \in Sessions \ {j} : locks'[k] = locks[k] /\ rivals[k] \subseteq rivals'[k]
      BY <1>2, <2>1, <2>2, NoLocks
    <3>. QED
      BY <1>3, <2>1, <2>2, <3>1, DeletionsGoOn
  <2>4. Present(j, r.id)
    BY <1>1 DEF Inv, RequestKnows, Knows, LookedUp, Creating, Is
  <2>5. Knows(j)'
    BY <1>1, <1>2, <1>5, <2>1, <2>4 DEF Knows, Creating, LookedUp, Is, Present, history
  <2>6. req'[j].ask = r
    BY <2>1
  <2>. QED
    BY <1>1, <1>3, <2>1, <2>2, <2>3, <2>5, <2>6, ProgressKeepsInv
<1>. QED
  BY <1>4, <1>5 DEF FindCompanion

-----------------------------------------------------------------------------
(* The commits *)

LEMMA CreateKeepsInv ==
    ASSUME Inv, NEW j \in Sessions, CreateCommits(j)
    PROVE  Inv'
<1>. DEFINE r == req[j].ask
            row == [owner |-> Owner(j), body |-> r.body]
<1>1. /\ req[j] # NULL /\ r.op = "create" /\ req[j].at = "ready" /\ ~Cascading(j)
      /\ r \in Requests /\ r.id \in Ids /\ r.body \in Bodies \cup {OVERLONG}
  BY RequestTypes, AskTypes DEF CreateCommits, Cascading, Is, Inv
<1>2. profiles[r.id] = NULL
  BY <1>1 DEF Inv, RequestKnows, Knows, Creating, Is
<1>3. UNCHANGED <<pairs, history>> /\ UNCHANGED <<deleted, updated, rivals>>
  BY DEF CreateCommits, history
<1>4. CASE r.body = OVERLONG /\ Escapes(j)
  <2>1. Reply(j, 500) /\ UNCHANGED <<profiles, pairs, history>>
    BY <1>3, <1>4 DEF Escapes
  <2>2. DataTyped' /\ PairsGrowUnlocked /\ \A k \in Sessions : Disturbs(k)
    BY <2>1, QuietStep
  <2>3. AnswerIsTrue(j)' /\ 500 \in Statuses
    BY <1>1, <1>4, <2>1, TrueError
  <2>. QED
    BY <1>1, <2>1, <2>2, <2>3, EndKeepsInv
<1>5. CASE /\ r.body # OVERLONG
           /\ profiles' = [profiles EXCEPT ![r.id] = row]
           /\ Commits(j, 500)
  <2>1. row \in Profile /\ row # NULL
    BY <1>1, <1>5, TravellersAssumption, RecordsAreNotNull DEF Profile
  <2>2. /\ profiles'[r.id] = row /\ \A id \in Ids \ {r.id} : profiles'[id] = profiles[id]
        /\ profiles' \in [Ids -> Profile \cup {NULL}]
    BY <1>1, <1>5, <2>1 DEF Inv, TypeOK
  <2>3. DataTyped' /\ PairsGrowUnlocked
    BY <1>2, <1>3, <2>1, <2>2 DEF Inv, TypeOK, DataTyped, PairsGrowUnlocked
  <2>4. To(j, "committed") => Knows(j)'
    <3>. SUFFICES ASSUME To(j, "committed") PROVE Knows(j)'
      OBVIOUS
    <3>1. req'[j] = [ask |-> r, at |-> "committed", loaded |-> req[j].loaded] /\ req'[j] # NULL
      BY <1>1, ToTypes DEF Inv, Places
    <3>2. /\ profiles'[r.id] # NULL /\ profiles'[r.id].owner = Owner(j)
          /\ profiles'[r.id].body = r.body
      BY <2>1, <2>2
    <3>. QED
      BY <1>1, <3>1, <3>2 DEF Knows, Creating, LookedUp, Is, Present, Kept, Stored
  <2>5. ASSUME NEW k \in Sessions \ {j}
        PROVE  Disturbs(k)
    <3>1. Creating(k) => req[k].ask.id # r.id
      BY <1>1 DEF Inv, CreatesDiffer, Creating, Is
    <3>. QED
      BY <1>2, <1>3, <2>2, <3>1 DEF Disturbs
  <2>. QED
    BY <1>1, <1>5, <2>3, <2>4, <2>5, CommitKeepsInv
<1>. QED
  BY <1>4, <1>5 DEF CreateCommits

LEMMA UpdateKeepsInv ==
    ASSUME Inv, NEW j \in Sessions, UpdateCommits(j)
    PROVE  Inv'
<1>. DEFINE r == req[j].ask
            body == Written(req[j], profiles[r.id].body)
<1>1. /\ req[j] # NULL /\ r.op = "update" /\ req[j].at = "ready" /\ ~Cascading(j)
      /\ r \in Requests /\ r.id \in Ids /\ r.body \in Bodies \cup {OVERLONG}
  BY RequestTypes, AskTypes DEF UpdateCommits, Cascading, Is, Inv
<1>2. Present(j, r.id) /\ Kept(j, r.id, req[j].loaded)
  BY <1>1 DEF Inv, RequestKnows, Knows, LookedUp, Creating, Is
<1>3. UNCHANGED <<pairs, deleted, rivals>>
  BY DEF UpdateCommits
<1>4. CASE (profiles[r.id] = NULL \/ r.body = OVERLONG) /\ Escapes(j) /\ UNCHANGED updated
  <2>1. Reply(j, 500) /\ UNCHANGED <<profiles, pairs, history>>
    BY <1>3, <1>4 DEF Escapes, history
  <2>2. DataTyped' /\ PairsGrowUnlocked /\ \A k \in Sessions : Disturbs(k)
    BY <2>1, QuietStep
  <2>3. r.id \in deleted'[j] \/ r.body = OVERLONG
    BY <1>2, <1>3, <1>4 DEF Present
  <2>4. AnswerIsTrue(j)' /\ 500 \in Statuses
    BY <1>1, <2>1, <2>3, TrueError
  <2>. QED
    BY <1>1, <2>1, <2>2, <2>4, EndKeepsInv
<1>5. CASE /\ profiles[r.id] # NULL /\ r.body # OVERLONG
           /\ profiles' = [profiles EXCEPT ![r.id].body = body]
           /\ updated' = [k \in Sessions |->
                   IF k # j /\ ChangeConcerns(k, r.id)
                   THEN updated[k] \cup ({r.id} \X WrittenColumns(req[j])) ELSE updated[k]]
           /\ Commits(j, 500)
  <2>. DEFINE row == [owner |-> profiles[r.id].owner, body |-> body]
  <2>1. profiles[r.id] \in Profile /\ profiles[r.id].body \in Bodies
    BY <1>1, <1>5 DEF Inv, TypeOK, Profile
  <2>2. body \in Bodies
    BY <1>1, <1>5, <2>1, WrittenType DEF Inv, Is
  <2>3. row \in Profile /\ row # NULL
    BY <2>1, <2>2, RecordsAreNotNull DEF Profile
  <2>4. profiles[r.id] = [owner |-> profiles[r.id].owner, body |-> profiles[r.id].body]
    BY <2>1 DEF Profile
  <2>5. [profiles[r.id] EXCEPT !.body = body] = row
    BY <2>4
  <2>6. /\ profiles'[r.id] = row /\ \A id \in Ids \ {r.id} : profiles'[id] = profiles[id]
        /\ profiles' \in [Ids -> Profile \cup {NULL}]
    BY <1>1, <1>5, <2>3, <2>5 DEF Inv, TypeOK
  <2>7. WrittenColumns(req[j]) \subseteq Columns
    BY DEF WrittenColumns
  <2>8. /\ updated' \in [Sessions -> SUBSET (Ids \X Columns)]
        /\ updated'[j] = updated[j]
        /\ \A k \in Sessions \ {j} :
            /\ updated[k] \subseteq updated'[k]
            /\ ChangeConcerns(k, r.id) => \A c \in WrittenColumns(req[j]) : <<r.id, c>> \in updated'[k]
    BY <1>1, <1>5, <2>7 DEF Inv, TypeOK
  <2>9. DataTyped' /\ PairsGrowUnlocked
    BY <1>3, <1>5, <2>3, <2>6, <2>8 DEF Inv, TypeOK, DataTyped, PairsGrowUnlocked
  <2>10. ASSUME NEW q, q = r PROVE Kept(j, q.id, q.body)'
    <3>1. CASE r.id \in deleted[j]
      BY <1>3, <2>10, <3>1 DEF Kept
    <3>2. CASE Stored(j, r.id, req[j].loaded)
      <4>1. \A c \in Columns : body[c] = r.body[c] \/ <<r.id, c>> \in updated[j]
        BY <3>2 DEF Stored, Written
      <4>2. profiles'[r.id] # NULL /\ profiles'[r.id].owner = Owner(j) /\ profiles'[r.id].body = body
        BY <2>3, <2>6, <3>2 DEF Stored
      <4>. QED
        BY <2>8, <2>10, <4>1, <4>2 DEF Kept, Stored
    <3>. QED
      BY <1>2, <3>1, <3>2 DEF Kept
  <2>11. To(j, "committed") => Knows(j)'
    <3>. SUFFICES ASSUME To(j, "committed") PROVE Knows(j)'
      OBVIOUS
    <3>1. req'[j] = [ask |-> r, at |-> "committed", loaded |-> req[j].loaded] /\ req'[j] # NULL
      BY <1>1, ToTypes DEF Inv, Places
    <3>2. profiles'[r.id] # NULL
      BY <2>3, <2>6
    <3>. QED
      BY <1>1, <2>10, <3>1, <3>2 DEF Knows, Creating, LookedUp, Is, Present, Kept, Stored
  <2>12. ASSUME NEW k \in Sessions \ {j}
         PROVE  Disturbs(k)
    <3>1. \A c \in Columns : \/ body[c] = profiles[r.id].body[c]
                             \/ c \in WrittenColumns(req[j])
      BY DEF Written, WrittenColumns
    <3>2. profiles'[r.id] # NULL /\ profiles'[r.id].owner = profiles[r.id].owner /\ profiles'[r.id].body = body
      BY <2>3, <2>6
    <3>. QED
      BY <1>3, <1>5, <2>6, <2>8, <3>1, <3>2 DEF Disturbs
  <2>. QED
    BY <1>1, <1>5, <2>9, <2>11, <2>12, CommitKeepsInv
<1>. QED
  BY <1>4, <1>5 DEF UpdateCommits

LEMMA AddKeepsInv ==
    ASSUME Inv, NEW j \in Sessions, AddCommits(j)
    PROVE  Inv'
<1>. DEFINE r == req[j].ask
            pair == <<r.id, r.companion>>
<1>1. /\ req[j] # NULL /\ r.op = "add" /\ req[j].at = "ready" /\ ~Cascading(j)
      /\ r \in Requests /\ r.id \in Ids /\ r.companion \in Ids /\ Unlocked(r.id)
  BY RequestTypes DEF AddCommits, Cascading, Is, Inv
<1>2. Present(j, r.id) /\ Present(j, r.companion) /\ r.id # r.companion
  BY <1>1 DEF Inv, RequestKnows, Knows, LookedUp, Creating, Is
<1>3. UNCHANGED <<profiles, history>> /\ UNCHANGED <<deleted, updated, rivals>>
  BY DEF AddCommits, history
<1>4. CASE Violates(r.id, r.companion) /\ Reply(j, 409) /\ UNCHANGED pairs
  <2>1. 409 \in Statuses
    BY DEF Statuses
  <2>2. answer'[j] = [ask |-> r, status |-> 409]
    BY <1>1, <1>4, <2>1, EndTypes DEF Inv
  <2>3. DataTyped' /\ PairsGrowUnlocked /\ \A k \in Sessions : Disturbs(k)
    BY <1>3, <1>4, QuietStep
  <2>4. pair \in pairs \/ r.id \in deleted[j] \/ r.companion \in deleted[j]
    BY <1>2, <1>4 DEF Violates, Present
  <2>5. AnswerIsTrue(j)'
    BY <1>1, <1>3, <1>4, <2>2, <2>4
    DEF AnswerIsTrue, ErrorHasACause, ConflictHolds, ConflictIsPaired, SuccessHolds, Answered, Asked
  <2>. QED
    BY <1>1, <1>4, <2>1, <2>3, <2>5, EndKeepsInv
<1>5. CASE ~Violates(r.id, r.companion) /\ pairs' = pairs \cup {pair} /\ Commits(j, 409)
  <2>1. DataTyped'
    BY <1>1, <1>2, <1>3, <1>5 DEF Violates, Inv, TypeOK, DataTyped
  <2>2. PairsGrowUnlocked
    BY <1>1, <1>5 DEF PairsGrowUnlocked
  <2>3. To(j, "committed") => Knows(j)'
    <3>. SUFFICES ASSUME To(j, "committed") PROVE Knows(j)'
      OBVIOUS
    <3>1. req'[j] = [ask |-> r, at |-> "committed", loaded |-> req[j].loaded] /\ req'[j] # NULL
      BY <1>1, ToTypes DEF Inv, Places
    <3>2. Present(j, r.id)' /\ Present(j, r.companion)' /\ Paired(j, r)'
      BY <1>2, <1>3, <1>5, <3>1 DEF Present, Paired
    <3>. QED
      BY <1>1, <1>2, <3>1, <3>2 DEF Knows, Creating, LookedUp, Is, Present, Paired
  <2>4. \A k \in Sessions : Disturbs(k)
    BY <1>3, <1>5 DEF Disturbs
  <2>. QED
    BY <1>1, <1>5, <2>1, <2>2, <2>3, <2>4, CommitKeepsInv
<1>. QED
  BY <1>4, <1>5 DEF AddCommits

-----------------------------------------------------------------------------
(* The deletions *)

LEMMA DeleteTakesKeepsInv ==
    ASSUME Inv, NEW j \in Sessions, DeleteTakes(j)
    PROVE  Inv'
<1>. DEFINE r == req[j].ask
            beside == {k \in Sessions : Cascading(k) /\ Companions(r.id, req[k].ask.id)}
<1>1. /\ req[j] # NULL /\ r.op = "delete" /\ req[j].at = "ready" /\ ~Cascading(j)
      /\ r.id \in Ids /\ Unlocked(r.id)
  BY RequestTypes DEF DeleteTakes, Cascading, Is, Inv
<1>2. UNCHANGED <<profiles, pairs, deleted, updated>>
  BY DEF DeleteTakes
<1>3. CASE Reply(j, 204) /\ UNCHANGED rivals
  <2>1. DataTyped' /\ PairsGrowUnlocked /\ \A k \in Sessions : Disturbs(k)
    BY <1>2, <1>3, QuietStep DEF history
  <2>2. AnswerIsTrue(j)' /\ 204 \in Statuses
    BY <1>1, <1>3, NoClaim
  <2>. QED
    BY <1>1, <1>3, <2>1, <2>2, EndKeepsInv
<1>4. CASE /\ To(j, "cascading")
           /\ rivals' = [k \in Sessions |->
                   IF k = j THEN {req[b].ask.id : b \in beside}
                   ELSE rivals[k] \cup (IF k \in beside THEN {r.id} ELSE {})]
  <2>1. /\ RequestsTyped'
        /\ req'[j] = [ask |-> r, at |-> "cascading", loaded |-> req[j].loaded]
        /\ req'[j] # NULL
        /\ UNCHANGED <<answer, locks, fault>>
        /\ \A k \in Sessions \ {j} : req'[k] = req[k]
    BY <1>1, <1>4, ToTypes DEF Inv, Places
  <2>2. \A b \in beside : req[b].ask.id \in Ids
    BY RequestTypes DEF Cascading, Is, Inv
  <2>3. DataTyped'
    BY <1>1, <1>2, <1>4, <2>2 DEF Inv, TypeOK, DataTyped
  <2>4. \A k \in Sessions \ {j} : Disturbs(k)
    <3>1. \A k \in Sessions \ {j} : rivals[k] \subseteq rivals'[k]
      BY <1>4
    <3>. QED
      BY <1>2, <3>1, NothingDisturbs
  <2>5. /\ \A k \in Sessions \ {j} : (Cascading(k)' <=> Cascading(k)) /\ req'[k].ask = req[k].ask
        /\ req'[j].ask = r /\ ~Creating(j)' /\ locks' = locks /\ locks[j] = {}
    BY <1>1, <2>1, NoLocks DEF Cascading, Creating, Is
  <2>6. LocksKnown'
    BY <2>5 DEF Inv, LocksKnown
  <2>7. RivalsKnown'
    <3>. SUFFICES ASSUME NEW s \in Sessions, NEW k \in Sessions, s # k, Cascading(s)', Cascading(k)'
                  PROVE  /\ req'[s].ask.id # req'[k].ask.id
                         /\ Companions(req'[s].ask.id, req'[k].ask.id) => rivals'[s] # {}
      BY <1>2 DEF RivalsKnown, Companions
    <3>1. CASE s # j /\ k # j
      <4>1. /\ req[s].ask.id # req[k].ask.id
            /\ Companions(req[s].ask.id, req[k].ask.id) => rivals[s] # {}
        BY <2>5, <3>1 DEF Inv, RivalsKnown
      <4>. QED
        BY <2>4, <2>5, <3>1, <4>1 DEF Disturbs
    <3>2. CASE s = j
      <4>1. Cascading(k) /\ req'[k].ask = req[k].ask /\ req[k].ask.id # r.id
        BY <1>1, <2>5, <3>2 DEF Unlocked
      <4>2. Companions(r.id, req[k].ask.id) => req[k].ask.id \in rivals'[s]
        BY <1>4, <3>2, <4>1
      <4>. QED
        BY <2>5, <3>2, <4>1, <4>2
    <3>3. CASE k = j
      <4>1. Cascading(s) /\ req'[s].ask = req[s].ask /\ req[s].ask.id # r.id /\ s # j
        BY <1>1, <2>5, <3>3 DEF Unlocked
      <4>2. Companions(req[s].ask.id, r.id) => Companions(r.id, req[s].ask.id)
        BY DEF Companions
      <4>3. Companions(req[s].ask.id, r.id) => r.id \in rivals'[s]
        BY <1>4, <4>1, <4>2
      <4>. QED
        BY <2>5, <3>3, <4>1, <4>3
    <3>. QED
      BY <3>1, <3>2, <3>3
  <2>8. Knows(j)'
    BY <1>1, <2>1 DEF Knows, Creating, LookedUp, Is
  <2>. QED
    BY <1>1, <2>1, <2>3, <2>4, <2>5, <2>6, <2>7, <2>8, ProgressKeepsInv
<1>. QED
  BY <1>3, <1>4 DEF DeleteTakes

LEMMA LocksKeepInv ==
    ASSUME Inv, NEW j \in Sessions, CascadeLocks(j)
    PROVE  Inv'
<1>. PICK pair \in Wanted(j) : locks' = [locks EXCEPT ![j] = @ \cup {pair}]
  BY DEF CascadeLocks
<1>1. Cascading(j) /\ UNCHANGED <<profiles, pairs, req, answer, fault, history>>
  BY DEF CascadeLocks
<1>2. pair \in pairs /\ pair \in Ids \X Ids /\ req[j].ask.id \in {pair[1], pair[2]}
  BY DEF Wanted, Inv, TypeOK
<1>3. DataTyped' /\ \A k \in Sessions : Disturbs(k)
  BY <1>1, QuietStep
<1>4. RequestsTyped'
  BY <1>1, <1>2 DEF Inv, TypeOK, RequestsTyped
<1>5. \A s \in Sessions : Cascading(s)' <=> Cascading(s)
  BY <1>1 DEF Cascading, Is
<1>6. LocksKnown'
  <2>. SUFFICES ASSUME NEW s \in Sessions, NEW p \in locks'[s]
                PROVE  Cascading(s)' /\ req'[s].ask.id \in {p[1], p[2]}
    BY DEF LocksKnown
  <2>1. CASE p \in locks[s]
    BY <1>1, <1>5, <2>1 DEF Inv, LocksKnown
  <2>2. CASE s = j /\ p = pair
    BY <1>1, <1>2, <1>5, <2>2
  <2>. QED
    BY <2>1, <2>2 DEF Inv, TypeOK
<1>7. RivalsKnown'
  BY <1>1, <1>5 DEF Inv, RivalsKnown, Companions, history
<1>8. \A k \in Sessions : RequestKnows(k)' /\ AnswerIsTrue(k)'
  BY <1>1, <1>3, RequestKeepsKnowing, AnswerStaysTrue
<1>9. CreatesDiffer'
  BY <1>1 DEF Inv, CreatesDiffer, Creating, Is
<1>. QED
  BY <1>3, <1>4, <1>6, <1>7, <1>8, <1>9 DEF Inv, TypeOK, DataTyped, RequestsTyped

LEMMA DeleteKeepsInv ==
    ASSUME Inv, NEW j \in Sessions, DeleteCommits(j)
    PROVE  Inv'
<1>. DEFINE r == req[j].ask
<1>1. req[j] # NULL /\ r.id \in Ids
  BY RequestTypes DEF DeleteCommits, Cascading, Is, Inv
<1>2. /\ profiles' = [profiles EXCEPT ![r.id] = NULL]
      /\ pairs' = Cascade(r.id)
      /\ deleted' = [k \in Sessions |->
              IF DeletionConcerns(k, r.id) THEN deleted[k] \cup {r.id} ELSE deleted[k]]
      /\ Reply(j, 204) \/ Fails(j, 500)
      /\ UNCHANGED <<updated, rivals>>
  BY DEF DeleteCommits
<1>3. /\ profiles'[r.id] = NULL /\ \A id \in Ids \ {r.id} : profiles'[id] = profiles[id]
      /\ profiles' \in [Ids -> Profile \cup {NULL}]
  BY <1>1, <1>2 DEF Inv, TypeOK
<1>4. pairs' \subseteq {pair \in Ids \X Ids :
                        pair[1] # pair[2] /\ NULL \notin {profiles'[pair[1]], profiles'[pair[2]]}}
  BY <1>2, <1>3 DEF Cascade, Inv, TypeOK
<1>5. deleted' \in [Sessions -> SUBSET Ids]
  BY <1>1, <1>2 DEF Inv, TypeOK
<1>6. DataTyped' /\ PairsGrowUnlocked
  BY <1>2, <1>3, <1>4, <1>5 DEF Inv, TypeOK, DataTyped, PairsGrowUnlocked, Cascade
<1>7. \A k \in Sessions : Disturbs(k)
  <2>. SUFFICES ASSUME NEW k \in Sessions PROVE Disturbs(k)
    OBVIOUS
  <2>1. /\ deleted[k] \subseteq deleted'[k] /\ updated'[k] = updated[k] /\ rivals'[k] = rivals[k]
        /\ DeletionConcerns(k, r.id) => r.id \in deleted'[k]
    BY <1>2
  <2>2. \A pair \in pairs \ pairs' : r.id \in {pair[1], pair[2]}
    BY <1>2 DEF Cascade
  <2>. QED
    BY <1>3, <2>1, <2>2 DEF Disturbs
<1>8. CASE Reply(j, 204)
  <2>1. AnswerIsTrue(j)' /\ 204 \in Statuses
    BY <1>1, <1>8, NoClaim
  <2>. QED
    BY <1>1, <1>6, <1>7, <1>8, <2>1, EndKeepsInv
<1>9. CASE Fails(j, 500)
  BY <1>1, <1>6, <1>7, <1>9, FailKeepsInv
<1>. QED
  BY <1>2, <1>8, <1>9

\* A deletion that waits for another one has a rival.
LEMMA WaitingHasARival ==
    ASSUME Inv, NEW j \in Sessions, NEW k \in Sessions, WaitsFor(j, k)
    PROVE  rivals[j] # {}
<1>. PICK pair \in Wanted(j) : pair \in locks[k]
  BY DEF WaitsFor
<1>1. pair \in pairs /\ pair \notin locks[j] /\ req[j].ask.id \in {pair[1], pair[2]} /\ pair \in Ids \X Ids
  BY DEF Wanted, Inv, TypeOK
<1>2. j # k /\ Cascading(j) /\ Cascading(k) /\ req[k].ask.id \in {pair[1], pair[2]}
  BY <1>1 DEF WaitsFor, Inv, LocksKnown
<1>3. req[j].ask.id # req[k].ask.id /\ (Companions(req[j].ask.id, req[k].ask.id) => rivals[j] # {})
  BY <1>2 DEF Inv, RivalsKnown
<1>4. pair = <<req[j].ask.id, req[k].ask.id>> \/ pair = <<req[k].ask.id, req[j].ask.id>>
  BY <1>1, <1>2, <1>3
<1>. QED
  BY <1>1, <1>3, <1>4 DEF Companions

LEMMA DeadlockKeepsInv ==
    ASSUME Inv, NEW j \in Sessions, DeadlockAborts(j)
    PROVE  Inv'
<1>1. PICK k \in Sessions : WaitsFor(j, k)
  BY DEF DeadlockAborts
<1>2. req[j] # NULL /\ req[j].ask.op = "delete" /\ rivals[j] # {}
  BY <1>1, WaitingHasARival DEF WaitsFor, Cascading, Is
<1>3. Reply(j, 500) /\ UNCHANGED <<profiles, pairs, history>> /\ rivals' = rivals
  BY DEF DeadlockAborts, Escapes, history
<1>4. DataTyped' /\ PairsGrowUnlocked /\ \A s \in Sessions : Disturbs(s)
  BY <1>3, QuietStep
<1>5. AnswerIsTrue(j)' /\ 500 \in Statuses
  BY <1>2, <1>3, TrueError
<1>. QED
  BY <1>2, <1>3, <1>4, <1>5, EndKeepsInv

-----------------------------------------------------------------------------
(* The answers *)

LEMMA RefreshKeepsInv ==
    ASSUME Inv, NEW j \in Sessions, Refresh(j)
    PROVE  Inv'
<1>. DEFINE r == req[j].ask
            gone == IF r.op = "add" THEN <<r.id, r.companion>> \notin pairs ELSE profiles[r.id] = NULL
            status == IF gone THEN 500 ELSE IF r.op = "update" THEN 200 ELSE 201
<1>1. req[j] # NULL /\ req[j].at = "committed" /\ r \in Requests
  BY RequestTypes DEF Refresh, Inv
<1>2. status \in Statuses
  BY DEF Statuses
<1>3. Reply(j, status) /\ UNCHANGED <<profiles, pairs, history>> /\ UNCHANGED <<deleted, updated, rivals>>
  BY DEF Refresh, history
<1>4. answer'[j] = [ask |-> r, status |-> status]
  <2>. HIDE DEF status
  <2>. QED
    BY <1>1, <1>2, <1>3, EndTypes DEF Inv
<1>5. /\ r.op # "delete"
      /\ Present(j, r.id)
      /\ r.op = "add" => Paired(j, r)
      /\ r.op # "add" => Kept(j, r.id, r.body)
  BY <1>1 DEF Inv, RequestKnows, Knows, LookedUp, Creating, Is
<1>6. ErrorHasACause(j)'
  <2>1. gone => {r.id, r.companion} \cap deleted[j] # {}
    BY <1>5 DEF Present, Paired
  <2>2. status = 500 => gone
    OBVIOUS
  <2>. QED
    BY <1>3, <1>4, <1>5, <2>1, <2>2 DEF ErrorHasACause, Answered, Asked
<1>7. ConflictHolds(j)'
  BY <1>4 DEF ConflictHolds, ConflictIsPaired, Answered
<1>8. SuccessHolds(j)'
  BY <1>3, <1>4, <1>5 DEF SuccessHolds, Answered, Paired, Kept, Stored
<1>9. DataTyped' /\ PairsGrowUnlocked /\ \A k \in Sessions : Disturbs(k)
  BY <1>3, QuietStep
<1>10. AnswerIsTrue(j)'
  BY <1>6, <1>7, <1>8 DEF AnswerIsTrue
<1>. HIDE DEF status
<1>. QED
  BY <1>1, <1>2, <1>3, <1>9, <1>10, EndKeepsInv

LEMMA DatabaseFailsKeepsInv ==
    ASSUME Inv, NEW j \in Sessions, DatabaseFails(j)
    PROVE  Inv'
<1>. DEFINE status == IF Is(j, "add", "ready") THEN 409 ELSE 500
<1>1. req[j] # NULL /\ Fails(j, status) /\ UNCHANGED <<profiles, pairs, history>>
  BY DEF DatabaseFails
<1>2. status \in {409, 500} /\ (status = 409 => req[j].ask.op = "add")
  BY DEF Is
<1>3. DataTyped' /\ PairsGrowUnlocked /\ \A k \in Sessions : Disturbs(k)
  BY <1>1, QuietStep
<1>. HIDE DEF status
<1>. QED
  BY <1>1, <1>2, <1>3, FailKeepsInv

LEMMA DeathKeepsInv ==
    ASSUME Inv, ApiDies
    PROVE  Inv'
<1>1. /\ req' = [s \in Sessions |-> NULL]
      /\ locks' = [s \in Sessions |-> {}]
      /\ UNCHANGED <<profiles, pairs, answer, fault, history>>
  BY DEF ApiDies
<1>2. DataTyped' /\ \A s \in Sessions : Disturbs(s)
  BY <1>1, QuietStep
<1>3. TypeOK'
  BY <1>1, <1>2 DEF Inv, TypeOK, DataTyped
<1>4. /\ CreatesDiffer' /\ LocksKnown' /\ RivalsKnown'
      /\ \A s \in Sessions : RequestKnows(s)'
  BY <1>1 DEF CreatesDiffer, Creating, Cascading, Is, RequestKnows, LocksKnown, RivalsKnown
<1>5. \A s \in Sessions : AnswerIsTrue(s)'
  BY <1>1, <1>2, AnswerStaysTrue
<1>. QED
  BY <1>3, <1>4, <1>5 DEF Inv

-----------------------------------------------------------------------------
(* The theorems *)

LEMMA InvHolds == Spec => []Inv
<1>1. Init => Inv
  <2>. SUFFICES ASSUME Init PROVE Inv
    OBVIOUS
  <2>1. TypeOK
    BY DEF Init, TypeOK
  <2>2. \A s \in Sessions : req[s] = NULL /\ answer[s] = NULL /\ locks[s] = {}
    BY DEF Init
  <2>. QED
    BY <2>1, <2>2
    DEF Inv, CreatesDiffer, LocksKnown, RivalsKnown, Creating, Cascading, Is, RequestKnows,
        AnswerIsTrue, ErrorHasACause, ConflictHolds, ConflictIsPaired, SuccessHolds, Answered
<1>2. Inv /\ [Next]_vars => Inv'
  <2>. SUFFICES ASSUME Inv, [Next]_vars PROVE Inv'
    OBVIOUS
  <2>1. ASSUME NEW s \in Sessions, Begin(s) PROVE Inv'
    BY <2>1, BeginKeepsInv
  <2>2. ASSUME NEW s \in Sessions, get_owned_traveller(s) PROVE Inv'
    BY <2>2, LookupKeepsInv
  <2>3. ASSUME NEW s \in Sessions, FindCompanion(s) PROVE Inv'
    BY <2>3, FindCompanionKeepsInv
  <2>4. ASSUME NEW s \in Sessions, CreateCommits(s) PROVE Inv'
    BY <2>4, CreateKeepsInv
  <2>5. ASSUME NEW s \in Sessions, UpdateCommits(s) PROVE Inv'
    BY <2>5, UpdateKeepsInv
  <2>6. ASSUME NEW s \in Sessions, AddCommits(s) PROVE Inv'
    BY <2>6, AddKeepsInv
  <2>7. ASSUME NEW s \in Sessions, DeleteTakes(s) PROVE Inv'
    BY <2>7, DeleteTakesKeepsInv
  <2>8. ASSUME NEW s \in Sessions, CascadeLocks(s) PROVE Inv'
    BY <2>8, LocksKeepInv
  <2>9. ASSUME NEW s \in Sessions, DeleteCommits(s) PROVE Inv'
    BY <2>9, DeleteKeepsInv
  <2>10. ASSUME NEW s \in Sessions, DeadlockAborts(s) PROVE Inv'
    BY <2>10, DeadlockKeepsInv
  <2>11. ASSUME NEW s \in Sessions, Refresh(s) PROVE Inv'
    BY <2>11, RefreshKeepsInv
  <2>12. ASSUME NEW s \in Sessions, DatabaseFails(s) PROVE Inv'
    BY <2>12, DatabaseFailsKeepsInv
  <2>13. CASE ApiDies
    BY <2>13, DeathKeepsInv
  <2>14. CASE UNCHANGED vars
    <3>1. /\ UNCHANGED <<profiles, pairs, req, answer, locks, fault, history>>
          /\ UNCHANGED <<profiles, pairs, history>>
          /\ UNCHANGED <<deleted, updated, rivals>>
      BY <2>14 DEF vars, history
    <3>2. TypeOK' /\ CreatesDiffer' /\ LocksKnown' /\ RivalsKnown'
      BY <3>1 DEF Inv, TypeOK, CreatesDiffer, LocksKnown, RivalsKnown, Companions, Creating, Cascading, Is
    <3>3. \A s \in Sessions : RequestKnows(s)' /\ AnswerIsTrue(s)'
      BY <3>1, QuietStep, RequestKeepsKnowing, AnswerStaysTrue
    <3>. QED
      BY <3>2, <3>3 DEF Inv
  <2>. QED
    BY <2>1, <2>2, <2>3, <2>4, <2>5, <2>6, <2>7, <2>8, <2>9, <2>10, <2>11, <2>12, <2>13, <2>14
    DEF Next
<1>. QED
  BY <1>1, <1>2, PTL DEF Spec

\* Every variable keeps its type; in particular a companion row is never left
\* behind by a deleted profile, and never pairs a profile with itself.
THEOREM TypeCorrectness == Spec => []TypeOK
<1>1. Inv => TypeOK
  BY DEF Inv
<1>. QED
  BY <1>1, InvHolds, PTL

\* Whatever any number of sessions do to each other's profiles, no request is
\* answered by an internal error unless the database failed it, a profile it is
\* about was deleted while it ran, or its body fits no column; and no DELETE,
\* unless the database failed it or it met the deletion of a companion, although
\* the deletions lock the companion rows one by one and may be aborted for it.
THEOREM ErrorsAreExplained == Spec => []ErrorsHaveACause
<1>1. Inv => ErrorsHaveACause
  BY DEF Inv, AnswerIsTrue, ErrorsHaveACause
<1>. QED
  BY <1>1, InvHolds, PTL

\* A 409 is about a pair that is there, or about a profile deleted meanwhile, or
\* is the handler's name for a failure of the database: it takes every error of
\* the commit for a duplicate, and these are all the errors there are.
THEOREM ConflictsAreTrue == Spec => []ConflictMeansPaired
<1>1. Inv => ConflictMeansPaired
  BY DEF Inv, AnswerIsTrue, ConflictHolds, ConflictMeansPaired
<1>. QED
  BY <1>1, InvHolds, PTL

\* What a 200 or a 201 acknowledges is in the tables, column by column, until the
\* profile is deleted or another session changes that column, although the update
\* writes only the columns that differ from the row as it was loaded and the
\* refresh is another transaction.
THEOREM SuccessIsKept == Spec => []SuccessIsStored
<1>1. Inv => SuccessIsStored
  <2>. SUFFICES ASSUME Inv, NEW s \in Sessions, Answered(s, {200, 201})
                PROVE  LET r == answer[s].ask
                       IN  \/ Asked(s) \cap deleted[s] # {}
                           \/ r.op = "add" /\ <<r.id, r.companion>> \in pairs
                           \/ /\ r.op # "add" /\ profiles[r.id] # NULL /\ profiles[r.id].owner = Owner(s)
                              /\ \A c \in Columns : \/ profiles[r.id].body[c] = r.body[c]
                                                    \/ <<r.id, c>> \in updated[s]
    BY DEF SuccessIsStored
  <2>1. SuccessHolds(s)
    BY DEF Inv, AnswerIsTrue
  <2>. QED
    BY <2>1 DEF SuccessHolds, Paired, Kept, Stored, Asked
<1>. QED
  BY <1>1, InvHolds, PTL
=============================================================================
