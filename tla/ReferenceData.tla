--------------------------- MODULE ReferenceData ---------------------------
(***************************************************************************)
(* The ingestion of airports, airlines and airport groups                  *)
(* (src/apps/worker/jobs/reference_data.py): fetch and normalize, then     *)
(* three transactions, one for each table, on what was fetched.  The cron  *)
(* starts a run every month, the job may also be started on demand, and a  *)
(* run whose worker died is delivered again; so runs overlap.              *)
(*                                                                         *)
(* The transactions are READ COMMITTED: each loads its table, and at       *)
(* commit the ORM writes the columns that changed since, first the UPDATEs *)
(* in the order of the primary key, then the INSERTs.  Unique keys are     *)
(* checked row by row.                                                     *)
(***************************************************************************)
EXTENDS Grouping

CONSTANTS
    Runs,        \* runs of the job that may overlap
    Feeds,       \* what the sources publish, from time to time
    Charted(_),  \* the timezone library knows a zone for the position
    CONFLICT,    \* a unique key is violated
    MaxChanges,  \* bound: changes of the feeds
    MaxFailures  \* bound: runs that crash or are cancelled

ASSUME ReferenceDataAssumption ==
    MaxChanges \in Nat /\ MaxFailures \in Nat /\ NULL \notin Runs

VARIABLES
    feed,      \* what the sources publish now
    changes,   \* changes of the feeds so far
    airports,  \* the committed rows of each table, by ICAO code
    airlines,
    groups,    \* the rows of airport_groups with their members, and who wrote them
    pc,        \* where each run is
    canon,     \* the rows and groups the run fetched and computed
    loaded,    \* the table as its open transaction loaded it
    doomed,    \* the groups its open transaction deletes
    lock,      \* the run whose deletes hold the locks of the member rows
    failures   \* runs that failed so far

tables == <<airports, airlines, groups>>
vars == <<feed, changes, tables, pc, canon, loaded, doomed, lock, failures>>

-----------------------------------------------------------------------------
(* Parsing and normalization.  A feed is a record of the three files:       *)
(* ourairports and airlines are lists of rows, timezones the codes          *)
(* OpenFlights knows a timezone for.                                        *)

\* Rows without both codes, or without coordinates, are not parsed.
parse_csv(rows) ==
    SelectSeq(rows, LAMBDA r : NULL \notin {r.icao, r.iata, r.at})

\* Airlines without a well-formed ICAO code are not parsed.
parse_airlines(rows) == SelectSeq(rows, LAMBDA r : r.icao # NULL)

Resolution(row, timezones) ==
    IF row.icao \in timezones THEN "OPENFLIGHTS"
    ELSE IF Charted(row.at) THEN "COORDINATES" ELSE "UNRESOLVED"

normalize_airports(rows, timezones) ==
    [i \in DOMAIN rows |->
        [icao |-> rows[i].icao, iata |-> rows[i].iata, type |-> rows[i].type,
         at |-> rows[i].at, timezone_resolution |-> Resolution(rows[i], timezones)]]

\* The first row of a repeated code wins.
normalize_airlines(rows) ==
    SelectSeq(rows, LAMBDA r : r = rows[Min({i \in DOMAIN rows : rows[i].icao = r.icao})])

-----------------------------------------------------------------------------
(* The upsert both tables share. *)

Codes(list) == {list[i].icao : i \in DOMAIN list}
Named(list, code) == list[CHOOSE i \in DOMAIN list : list[i].icao = code]

\* The columns of the row that matter here; the others are written likewise.
AirportRow(a) == [iata |-> a.iata, resolution |-> a.timezone_resolution, active |-> TRUE]
AirlineRow(a) == [iata |-> a.iata, active |-> TRUE]

Deactivated(row) == [row EXCEPT !.active = FALSE]

\* Mutant: an airport that is listed again is not activated again.
Updated_inactive(row, before, after) ==
    [c \in DOMAIN row |-> IF c = "active" /\ after[c] THEN row[c] ELSE after[c]]

\* An UPDATE leaves out the columns that did not change since the row was loaded.
Updated(row, before, after) ==
    [c \in DOMAIN row |-> IF after[c] = before[c] THEN row[c] ELSE after[c]]

\* Mutant: an airport that is gone is deleted.
Upsert_deletes(table, before, rows, unique) ==
    [c \in DOMAIN rows |-> rows[c]]

\* A transaction writes rows (canonical, by code) over a table it loaded as
\* before and commits over it as it is now.  Each UPDATE finds the rows before
\* it written already and the others as they were.
Upsert(table, before, rows, unique) ==
    LET after(c) == IF c \in DOMAIN rows THEN rows[c] ELSE Deactivated(before[c])
        updated == [c \in DOMAIN table |->
                        IF c \in DOMAIN before THEN Updated(table[c], before[c], after(c)) ELSE table[c]]
        new == DOMAIN rows \ DOMAIN before
        then(c, k) == IF k < c THEN updated[k] ELSE table[k]
        repeated ==
            \/ \E c \in DOMAIN table : \E k \in DOMAIN table \ {c} :
                   updated[c].iata # table[c].iata /\ updated[c].iata = then(c, k).iata
            \/ \E c \in new, k \in DOMAIN table : rows[c].iata = updated[k].iata
            \/ \E c, k \in new : c # k /\ rows[c].iata = rows[k].iata
    IN  IF new \cap DOMAIN table # {} \/ (unique /\ repeated) THEN CONFLICT
        ELSE [c \in DOMAIN table \cup new |-> IF c \in new THEN rows[c] ELSE updated[c]]

AirportRows(list) == [c \in Codes(list) |-> AirportRow(Named(list, c))]
AirlineRows(list) == [c \in Codes(list) |-> AirlineRow(Named(list, c))]

\* What a run that fetched feed f writes: all of it is computed from the feed.
Canonical(f) ==
    LET list == normalize_airports(parse_csv(f.ourairports), f.timezones)
    IN  [airports |-> AirportRows(list),
         airlines |-> AirlineRows(normalize_airlines(parse_airlines(f.airlines))),
         groups |-> derive_groups(list),
         listed |-> ToSet(list)]

\* The states of the sources, as what a run makes of each.
Published == {Canonical(f) : f \in Feeds}

\* The group rows a run inserts.
GroupRows(r, derived) ==
    {[by |-> r, anchor |-> g.anchor, members |-> g.members] : g \in derived}

-----------------------------------------------------------------------------
\* The system after its first ingestion, which had the tables to itself.
Init ==
    /\ feed \in Published
    /\ changes = 0
    /\ airports = feed.airports
    /\ airlines = feed.airlines
    /\ \E r \in Runs : groups = GroupRows(r, feed.groups)
    /\ pc = [r \in Runs |-> "idle"]
    /\ canon = [r \in Runs |-> NULL]
    /\ loaded = [r \in Runs |-> NULL]
    /\ doomed = [r \in Runs |-> {}]
    /\ lock = NULL
    /\ failures = 0

ChangeFeed ==
    /\ changes < MaxChanges
    /\ changes' = changes + 1
    /\ feed' \in Published \ {feed}
    /\ UNCHANGED <<tables, pc, canon, loaded, doomed, lock, failures>>

Goto(r, from, to) == pc[r] = from /\ pc' = [pc EXCEPT ![r] = to]

\* Mutant: the transaction stays open.
EndRun_open(r) ==
    /\ pc' = [pc EXCEPT ![r] = "idle"]
    /\ canon' = [canon EXCEPT ![r] = NULL]
    /\ loaded' = [loaded EXCEPT ![r] = NULL]
    /\ doomed' = [doomed EXCEPT ![r] = {}]
    /\ lock' = lock

EndRun(r) ==
    /\ pc' = [pc EXCEPT ![r] = "idle"]
    /\ canon' = [canon EXCEPT ![r] = NULL]
    /\ loaded' = [loaded EXCEPT ![r] = NULL]
    /\ doomed' = [doomed EXCEPT ![r] = {}]
    /\ lock' = IF lock = r THEN NULL ELSE lock

\* Three requests, one after the other: what they find when the sources change in
\* between is one more of the states in Feeds.
Fetch(r) ==
    /\ Goto(r, "idle", "fetched")
    /\ canon' = [canon EXCEPT ![r] = feed]
    /\ UNCHANGED <<feed, changes, tables, loaded, doomed, lock, failures>>

-----------------------------------------------------------------------------
(* _upsert_airports and _upsert_airlines *)

LoadAirports(r) ==
    /\ Goto(r, "fetched", "airports")
    /\ loaded' = [loaded EXCEPT ![r] = airports]
    /\ UNCHANGED <<feed, changes, tables, canon, doomed, lock, failures>>

CommitAirports(r) ==
    /\ Goto(r, "airports", "airports_done")
    /\ airports' = Upsert(airports, loaded[r], canon[r].airports, TRUE)
    /\ airports' # CONFLICT
    /\ loaded' = [loaded EXCEPT ![r] = NULL]
    /\ UNCHANGED <<feed, changes, airlines, groups, canon, doomed, lock, failures>>

LoadAirlines(r) ==
    /\ Goto(r, "airports_done", "airlines")
    /\ loaded' = [loaded EXCEPT ![r] = airlines]
    /\ UNCHANGED <<feed, changes, tables, canon, doomed, lock, failures>>

CommitAirlines(r) ==
    /\ Goto(r, "airlines", "airlines_done")
    /\ airlines' = Upsert(airlines, loaded[r], canon[r].airlines, FALSE)
    /\ airlines' # CONFLICT
    /\ loaded' = [loaded EXCEPT ![r] = NULL]
    /\ UNCHANGED <<feed, changes, airports, groups, canon, doomed, lock, failures>>

\* A violated key rolls the transaction back and ends the run: what it has
\* committed stays, the rest of it does not happen.
Conflicts(r) ==
    /\ \/ /\ pc[r] = "airports"
          /\ Upsert(airports, loaded[r], canon[r].airports, TRUE) = CONFLICT
       \/ /\ pc[r] = "airlines"
          /\ Upsert(airlines, loaded[r], canon[r].airlines, FALSE) = CONFLICT
    /\ EndRun(r)
    /\ UNCHANGED <<feed, changes, tables, failures>>

-----------------------------------------------------------------------------
(* _recompute_groups *)

\* The members are read, to be deleted.
ReadMembers(r) ==
    /\ Goto(r, "airlines_done", "members")
    /\ doomed' = [doomed EXCEPT ![r] = groups]
    /\ UNCHANGED <<feed, changes, tables, canon, loaded, lock, failures>>

\* Mutant: the groups to delete are those whose members were read before.
ReadGroups_early(r) ==
    /\ Goto(r, "members", "groups")
    /\ doomed[r] # {} => lock = NULL
    /\ lock' = IF doomed[r] # {} THEN r ELSE lock
    /\ UNCHANGED <<feed, changes, tables, canon, loaded, doomed, failures>>

\* The query for the groups flushes those deletes first, which waits for a
\* transaction that deleted the same rows; then it sees the groups as they are now.
ReadGroups(r) ==
    /\ Goto(r, "members", "groups")
    /\ doomed[r] # {} => lock = NULL
    /\ lock' = IF doomed[r] # {} THEN r ELSE lock
    /\ doomed' = [doomed EXCEPT ![r] = groups]
    /\ UNCHANGED <<feed, changes, tables, canon, loaded, failures>>

CommitGroups(r) ==
    /\ pc[r] = "groups"
    /\ groups' = (groups \ doomed[r]) \cup GroupRows(r, canon[r].groups)
    /\ EndRun(r)
    /\ UNCHANGED <<feed, changes, airports, airlines, failures>>

-----------------------------------------------------------------------------
\* A source does not answer, the worker dies, or the job is cancelled.
Fails(r) ==
    /\ pc[r] # "idle"
    /\ failures < MaxFailures
    /\ failures' = failures + 1
    /\ EndRun(r)
    /\ UNCHANGED <<feed, changes, tables>>

Step(r) ==
    \/ Fetch(r)
    \/ LoadAirports(r) \/ CommitAirports(r)
    \/ LoadAirlines(r) \/ CommitAirlines(r)
    \/ Conflicts(r)
    \/ ReadMembers(r) \/ ReadGroups(r) \/ CommitGroups(r)

Next ==
    \/ ChangeFeed
    \/ \E r \in Runs : Step(r) \/ Fails(r)

\* The cron starts a run again every month, and a run gets on.
Spec == Init /\ [][Next]_vars /\ \A r \in Runs : WF_vars(Step(r))

-----------------------------------------------------------------------------
(* Properties *)

TypeOK ==
    /\ feed \in Published /\ changes \in 0..MaxChanges /\ failures \in 0..MaxFailures
    /\ \A c \in DOMAIN airports : airports[c].active \in BOOLEAN
    /\ \A c \in DOMAIN airlines : airlines[c].active \in BOOLEAN
    /\ \A r \in Runs : doomed[r] # {} => pc[r] \in {"members", "groups"}
    /\ lock # NULL => pc[lock] = "groups"

\* The foreign key of a group's member never fails: a run has stored every
\* airport it groups, and no later or older run takes one away.
GroupedAirportsExist == \A g \in groups : g.members \subseteq DOMAIN airports

\* What the sources publish, derive_groups groups by the definition, and there is
\* at least one group.
SourcesAreGrouped == \A f \in Published : f.groups = MetroSystems(f.listed) /\ f.groups # {}

\* The groups a feed calls for, from their definition.
Systems == {<<f, MetroSystems(f.listed)>> : f \in Published}

Active(table) == Restrict(table, {c \in DOMAIN table : table[c].active})
Grouped == {[anchor |-> g.anchor, members |-> g.members] : g \in groups}

Reflects(f) ==
    /\ Active(airports) = f.airports
    /\ Active(airlines) = f.airlines
    /\ <<f, Grouped>> \in Systems

\* The groups are the metropolitan systems of one state of the sources, whatever
\* runs overlap, fail or repeat: they are replaced in one transaction that sees
\* what it replaces, so no airport is in two groups and no group is half there.
GroupsAreMetroSystems == \E system \in Systems : Grouped = system[2]

\* The sources give an airport a code that a row holds which is not to lose it
\* first: the row of an airport that is gone, or one updated later; or they give
\* one code to two airports.
CodeTaken(f) ==
    \/ \E d \in DOMAIN f.airports : \E c \in DOMAIN airports \ {d} :
        /\ airports[c].iata = f.airports[d].iata
        /\ c \in DOMAIN f.airports => d \in DOMAIN airports /\ d < c
    \/ \E c, d \in DOMAIN f.airports : c # d /\ f.airports[c].iata = f.airports[d].iata

\* Once the sources stop changing, the tables come to show what they publish,
\* whatever overlapping or failed runs left behind, and stay so; unless the
\* sources gave away a code that is still taken.
FeedIsReflected == <>[](Reflects(feed) \/ CodeTaken(feed))
=============================================================================
