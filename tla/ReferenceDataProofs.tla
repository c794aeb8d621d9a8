------------------------- MODULE ReferenceDataProofs -------------------------
(***************************************************************************)
(* Proofs about ReferenceData, for every number of overlapping runs and    *)
(* every history of the sources: the tables and the runs keep their types, *)
(* a grouped airport is stored, and the groups are those of one state of   *)
(* the sources.  That derive_groups groups a list of airports as its       *)
(* definition says is a hypothesis here; TLC compares the two.             *)
(*                                                                         *)
(* A run that is about to replace the groups holds the lock of all their   *)
(* rows and deletes all of them, because there was a row to lock.          *)
(***************************************************************************)
EXTENDS ReferenceData, TLAPS

Stages == {"idle", "fetched", "airports", "airports_done", "airlines", "airlines_done",
           "members", "groups"}

\* A run past its airports has stored them.
Stored == {"airports_done", "airlines", "airlines_done", "members", "groups"}

Typed(table) == \A c \in DOMAIN table : "active" \in DOMAIN table[c] /\ table[c].active \in BOOLEAN

RunTypes ==
    /\ pc \in [Runs -> Stages]
    /\ canon = [r \in Runs |-> canon[r]]
    /\ loaded = [r \in Runs |-> loaded[r]]
    /\ doomed = [r \in Runs |-> doomed[r]]
    /\ \A r \in Runs : pc[r] # "idle" => canon[r] \in Published
    /\ lock \in Runs \cup {NULL}

\* A table has only grown since a transaction loaded it.
TablesAreTyped ==
    /\ Typed(airports) /\ Typed(airlines)
    /\ \A r \in Runs :
        /\ pc[r] = "airports" => Typed(loaded[r]) /\ DOMAIN loaded[r] \subseteq DOMAIN airports
        /\ pc[r] = "airlines" => Typed(loaded[r])

Inv == TypeOK /\ RunTypes /\ TablesAreTyped

-----------------------------------------------------------------------------
(* What is published, and the upsert *)

LEMMA PublishedTypes ==
    ASSUME NEW f \in Published
    PROVE  Typed(f.airports) /\ Typed(f.airlines)
<1>1. PICK x \in Feeds : f = Canonical(x)
  BY DEF Published
<1>2. \E list : f.airports = AirportRows(list)
  BY <1>1 DEF Canonical
<1>3. \E list : f.airlines = AirlineRows(list)
  BY <1>1 DEF Canonical
<1>4. \A list : Typed(AirportRows(list)) /\ Typed(AirlineRows(list))
  BY DEF Typed, AirportRows, AirlineRows, AirportRow, AirlineRow
<1>. QED
  BY <1>2, <1>3, <1>4

\* A commit that no key stops adds the rows that were not stored and takes none away.
LEMMA UpsertGrows ==
    ASSUME NEW table, NEW before, NEW new, NEW unique,
           Typed(table), Typed(before), Typed(new),
           Upsert(table, before, new, unique) # CONFLICT
    PROVE  LET result == Upsert(table, before, new, unique)
           IN  /\ Typed(result)
               /\ DOMAIN table \subseteq DOMAIN result
               /\ DOMAIN before \subseteq DOMAIN table => DOMAIN new \subseteq DOMAIN result
<1>. DEFINE after(c) == IF c \in DOMAIN new THEN new[c] ELSE Deactivated(before[c])
            updated == [c \in DOMAIN table |->
                IF c \in DOMAIN before THEN Updated(table[c], before[c], after(c)) ELSE table[c]]
            added == DOMAIN new \ DOMAIN before
            result == [c \in DOMAIN table \cup added |-> IF c \in added THEN new[c] ELSE updated[c]]
<1>1. Upsert(table, before, new, unique) = result
  BY DEF Upsert
<1>2. ASSUME NEW c \in DOMAIN table
      PROVE  "active" \in DOMAIN updated[c] /\ updated[c].active \in BOOLEAN
  <2>1. CASE c \notin DOMAIN before
    BY <2>1 DEF Typed
  <2>2. CASE c \in DOMAIN before
    <3>1. after(c)["active"] \in BOOLEAN
      BY <2>2 DEF Typed, Deactivated
    <3>2. updated[c] = Updated(table[c], before[c], after(c))
      BY <2>2
    <3>. HIDE DEF after
    <3>. QED
      BY <3>1, <3>2 DEF Typed, Updated
  <2>. QED
    BY <2>1, <2>2
<1>. HIDE DEF updated
<1>3. Typed(result)
  BY <1>2 DEF Typed
<1>. QED
  BY <1>1, <1>3

-----------------------------------------------------------------------------
(* Types *)

LEMMA InvInit == Init => Inv
<1>. SUFFICES ASSUME Init PROVE Inv
  OBVIOUS
<1>1. /\ feed \in Published /\ airports = feed.airports /\ airlines = feed.airlines
      /\ Typed(airports) /\ Typed(airlines)
  BY PublishedTypes DEF Init
<1>. QED
  BY <1>1, ReferenceDataAssumption DEF Init, Inv, TypeOK, RunTypes, TablesAreTyped, Typed, Stages

\* What a run that ends leaves behind.
LEMMA EndKeepsInv ==
    ASSUME Inv, NEW r \in Runs, EndRun(r), feed' \in Published, changes' \in 0..MaxChanges,
           failures' \in 0..MaxFailures, UNCHANGED <<airports, airlines>>
    PROVE  Inv'
<1>1. RunTypes'
  BY DEF Inv, RunTypes, EndRun, Stages
<1>2. TypeOK'
  BY DEF Inv, RunTypes, TypeOK, EndRun
<1>3. TablesAreTyped'
  BY DEF Inv, RunTypes, TablesAreTyped, EndRun
<1>. QED
  BY <1>1, <1>2, <1>3 DEF Inv

\* A run that goes on to its next stage, without writing.
LEMMA GotoKeepsInv ==
    ASSUME Inv, NEW r \in Runs, NEW from \in Stages, NEW to \in Stages, Goto(r, from, to),
           canon' = [canon EXCEPT ![r] = feed] \/ (from # "idle" /\ canon' = canon),
           to \notin {"airports", "airlines", "members", "groups"},
           from \notin {"members", "groups"}, doomed' = doomed, lock' = lock,
           loaded' = [loaded EXCEPT ![r] = NULL] \/ loaded' = loaded,
           UNCHANGED <<feed, changes, failures>>,
           Typed(airports') /\ DOMAIN airports \subseteq DOMAIN airports', Typed(airlines')
    PROVE  Inv'
<1>1. pc' = [pc EXCEPT ![r] = to] /\ pc[r] = from
  BY DEF Goto
<1>2. RunTypes'
  BY <1>1 DEF Inv, TypeOK, RunTypes
<1>3. TypeOK'
  <2>1. \A c \in DOMAIN airports' : airports'[c].active \in BOOLEAN
    BY DEF Typed
  <2>2. \A c \in DOMAIN airlines' : airlines'[c].active \in BOOLEAN
    BY DEF Typed
  <2>. QED
    BY <1>1, <2>1, <2>2 DEF Inv, TypeOK, RunTypes
<1>4. TablesAreTyped'
  <2>1. ASSUME NEW k \in Runs, pc'[k] \in {"airports", "airlines"}
        PROVE  pc'[k] = pc[k] /\ loaded'[k] = loaded[k]
    BY <1>1, <2>1 DEF Inv, RunTypes
  <2>. QED
    BY <2>1 DEF Inv, TablesAreTyped
<1>. QED
  BY <1>2, <1>3, <1>4 DEF Inv

LEMMA InvStep == Inv /\ [Next]_vars => Inv'
<1>. SUFFICES ASSUME Inv, [Next]_vars PROVE Inv'
  OBVIOUS
<1>0. RunTypes /\ TypeOK /\ TablesAreTyped
  BY DEF Inv
<1>1. CASE ChangeFeed
  <2>1. feed' \in Published /\ changes' \in 0..MaxChanges
        /\ UNCHANGED <<airports, airlines, groups, pc, canon, loaded, doomed, lock, failures>>
    BY <1>0, <1>1, ReferenceDataAssumption DEF ChangeFeed, TypeOK, tables
  <2>. QED
    BY <2>1 DEF Inv, RunTypes, TypeOK, TablesAreTyped
<1>2. ASSUME NEW r \in Runs, Fails(r) PROVE Inv'
  BY <1>0, <1>2, EndKeepsInv, ReferenceDataAssumption DEF Fails, TypeOK, tables
<1>3. ASSUME NEW r \in Runs, Conflicts(r) \/ CommitGroups(r) PROVE Inv'
  BY <1>0, <1>3, EndKeepsInv DEF Conflicts, CommitGroups, TypeOK, tables
<1>4. ASSUME NEW r \in Runs, Fetch(r) PROVE Inv'
  <2>1. /\ Goto(r, "idle", "fetched") /\ canon' = [canon EXCEPT ![r] = feed]
        /\ UNCHANGED <<feed, changes, airports, airlines, groups, loaded, doomed, lock, failures>>
    BY <1>4 DEF Fetch, tables
  <2>. QED
    BY <1>0, <2>1, GotoKeepsInv DEF TablesAreTyped, Stages
<1>5. ASSUME NEW r \in Runs, LoadAirports(r) PROVE Inv'
  <2>1. /\ pc[r] = "fetched" /\ pc' = [pc EXCEPT ![r] = "airports"]
        /\ loaded' = [loaded EXCEPT ![r] = airports]
        /\ UNCHANGED <<feed, changes, airports, airlines, groups, canon, doomed, lock, failures>>
    BY <1>5 DEF LoadAirports, Goto, tables
  <2>. QED
    BY <1>0, <2>1 DEF Inv, RunTypes, TypeOK, TablesAreTyped, Stages
<1>6. ASSUME NEW r \in Runs, CommitAirports(r) PROVE Inv'
  <2>1. /\ Goto(r, "airports", "airports_done") /\ loaded' = [loaded EXCEPT ![r] = NULL]
        /\ airports' = Upsert(airports, loaded[r], canon[r].airports, TRUE) /\ airports' # CONFLICT
        /\ UNCHANGED <<feed, changes, airlines, groups, canon, doomed, lock, failures>>
    BY <1>6 DEF CommitAirports
  <2>2. pc[r] = "airports" /\ canon[r] \in Published /\ Typed(loaded[r])
    BY <1>0, <2>1 DEF Goto, RunTypes, TablesAreTyped
  <2>3. Typed(airports') /\ DOMAIN airports \subseteq DOMAIN airports'
    BY <1>0, <2>1, <2>2, PublishedTypes, UpsertGrows DEF TablesAreTyped
  <2>. QED
    BY <1>0, <2>1, <2>3, GotoKeepsInv DEF TablesAreTyped, Stages
<1>7. ASSUME NEW r \in Runs, LoadAirlines(r) PROVE Inv'
  <2>1. /\ pc[r] = "airports_done" /\ pc' = [pc EXCEPT ![r] = "airlines"]
        /\ loaded' = [loaded EXCEPT ![r] = airlines]
        /\ UNCHANGED <<feed, changes, airports, airlines, groups, canon, doomed, lock, failures>>
    BY <1>7 DEF LoadAirlines, Goto, tables
  <2>. QED
    BY <1>0, <2>1 DEF Inv, RunTypes, TypeOK, TablesAreTyped, Stages
<1>8. ASSUME NEW r \in Runs, CommitAirlines(r) PROVE Inv'
  <2>1. /\ Goto(r, "airlines", "airlines_done") /\ loaded' = [loaded EXCEPT ![r] = NULL]
        /\ airlines' = Upsert(airlines, loaded[r], canon[r].airlines, FALSE) /\ airlines' # CONFLICT
        /\ UNCHANGED <<feed, changes, airports, groups, canon, doomed, lock, failures>>
    BY <1>8 DEF CommitAirlines
  <2>2. pc[r] = "airlines" /\ canon[r] \in Published /\ Typed(loaded[r])
    BY <1>0, <2>1 DEF Goto, RunTypes, TablesAreTyped
  <2>3. Typed(airlines')
    BY <1>0, <2>1, <2>2, PublishedTypes, UpsertGrows DEF TablesAreTyped
  <2>. QED
    BY <1>0, <2>1, <2>3, GotoKeepsInv DEF TablesAreTyped, Stages
<1>9. ASSUME NEW r \in Runs, ReadMembers(r) PROVE Inv'
  <2>1. /\ pc[r] = "airlines_done" /\ pc' = [pc EXCEPT ![r] = "members"]
        /\ doomed' = [doomed EXCEPT ![r] = groups]
        /\ UNCHANGED <<feed, changes, airports, airlines, groups, canon, loaded, lock, failures>>
    BY <1>9 DEF ReadMembers, Goto, tables
  <2>. QED
    BY <1>0, <2>1 DEF Inv, RunTypes, TypeOK, TablesAreTyped, Stages
<1>10. ASSUME NEW r \in Runs, ReadGroups(r) PROVE Inv'
  <2>1. /\ pc[r] = "members" /\ pc' = [pc EXCEPT ![r] = "groups"]
        /\ doomed' = [doomed EXCEPT ![r] = groups] /\ lock' \in {r, lock}
        /\ UNCHANGED <<feed, changes, airports, airlines, groups, canon, loaded, failures>>
    BY <1>10 DEF ReadGroups, Goto, tables
  <2>. QED
    BY <1>0, <2>1 DEF Inv, RunTypes, TypeOK, TablesAreTyped, Stages
<1>11. CASE UNCHANGED vars
  BY <1>11 DEF vars, tables, Inv, RunTypes, TypeOK, TablesAreTyped
<1>. QED
  BY <1>1, <1>2, <1>3, <1>4, <1>5, <1>6, <1>7, <1>8, <1>9, <1>10, <1>11 DEF Next, Step

THEOREM Invariance == Spec => []Inv
  BY InvInit, InvStep, PTL DEF Spec

\* Whatever runs overlap, fail or repeat, the tables and the transactions keep their
\* types: only a run that replaces the groups holds the lock.
THEOREM TypeCorrectness == Spec => []TypeOK
<1>1. Inv => TypeOK
  BY DEF Inv
<1>. QED
  BY <1>1, Invariance, PTL

-----------------------------------------------------------------------------
(* Grouped airports are stored *)

\* A metropolitan system of S has an anchor and, for members, codes of S.
LEMMA SystemShape ==
    ASSUME NEW S, NEW g \in MetroSystems(S)
    PROVE  \E anchor : \E T \in SUBSET S : g = [anchor |-> anchor, members |-> {a.icao : a \in T}]
<1>. DEFINE hubsWith(h) == {k \in Hubs(S) : Linked(S)[<<h, k>>]}
            system(h) == hubsWith(h) \cup {a \in Regional(S) : Serving(a, S) \cap hubsWith(h) # {}}
            codes(T) == {a.icao : a \in T}
            anchorOf(h) == Min(codes(hubsWith(h)))
<1>1. MetroSystems(S) = {[anchor |-> anchorOf(h), members |-> codes(system(h))] :
                           h \in {k \in Hubs(S) : Cardinality(system(k)) >= 2}}
  BY Zenon DEF MetroSystems
<1>2. \A h : system(h) \in SUBSET S
  BY DEF Hubs, Regional
<1>. HIDE DEF system, anchorOf
<1>3. PICK h : g = [anchor |-> anchorOf(h), members |-> codes(system(h))]
  BY <1>1
<1>. QED
  BY <1>2, <1>3

\* The members of the groups of a feed are among its airports.
LEMMA MembersAreListed ==
    ASSUME SourcesAreGrouped, NEW f \in Published, NEW g \in f.groups
    PROVE  g.members \subseteq DOMAIN f.airports
<1>1. PICK x \in Feeds : f = Canonical(x)
  BY DEF Published
<1>2. PICK list : f.airports = AirportRows(list) /\ f.listed = ToSet(list)
  BY <1>1 DEF Canonical
<1>3. DOMAIN f.airports = {a.icao : a \in f.listed}
  BY <1>2 DEF AirportRows, Codes, ToSet
<1>4. g \in MetroSystems(f.listed)
  BY DEF SourcesAreGrouped
<1>5. g.members \subseteq {a.icao : a \in f.listed}
  BY <1>4, SystemShape
<1>. QED
  BY <1>3, <1>5

\* A run past its airports has stored all of them, and so those that it groups.
AirportsAreStored ==
    \A r \in Runs : pc[r] \in Stored => DOMAIN canon[r].airports \subseteq DOMAIN airports

LEMMA StoredStep ==
    ASSUME SourcesAreGrouped, Inv, AirportsAreStored, GroupedAirportsExist, [Next]_vars
    PROVE  AirportsAreStored' /\ GroupedAirportsExist'
<1>0. RunTypes /\ TypeOK /\ TablesAreTyped
  BY DEF Inv
<1>1. DOMAIN airports \subseteq DOMAIN airports'
  <2>1. CASE airports' = airports
    BY <2>1
  <2>2. ASSUME NEW r \in Runs, CommitAirports(r) PROVE DOMAIN airports \subseteq DOMAIN airports'
    BY <1>0, <2>2, PublishedTypes, UpsertGrows DEF CommitAirports, Goto, RunTypes, TablesAreTyped
  <2>. QED
    BY <2>1, <2>2 DEF Next, Step, ChangeFeed, Fails, Fetch, LoadAirports, LoadAirlines, CommitAirlines,
       Conflicts, ReadMembers, ReadGroups, CommitGroups, tables, vars
<1>2. AirportsAreStored'
  <2>. SUFFICES ASSUME NEW k \in Runs, pc'[k] \in Stored
                PROVE  DOMAIN canon'[k].airports \subseteq DOMAIN airports'
    BY DEF AirportsAreStored
  <2>1. CASE canon'[k] = canon[k] /\ pc[k] \in Stored
    BY <1>1, <2>1 DEF AirportsAreStored
  <2>2. CASE CommitAirports(k)
    BY <1>0, <2>2, PublishedTypes, UpsertGrows DEF CommitAirports, Goto, RunTypes, TablesAreTyped
  <2>3. ASSUME NEW r \in Runs, Step(r) \/ Fails(r), r # k PROVE canon'[k] = canon[k] /\ pc'[k] = pc[k]
    BY <1>0, <2>3 DEF RunTypes, Step, Fails, Fetch, LoadAirports, CommitAirports, LoadAirlines,
       CommitAirlines, Conflicts, ReadMembers, ReadGroups, CommitGroups, EndRun, Goto
  <2>4. ASSUME Step(k) \/ Fails(k), ~CommitAirports(k) PROVE canon'[k] = canon[k] /\ pc[k] \in Stored
    BY <1>0, <2>4 DEF RunTypes, Stored, Step, Fails, Fetch, LoadAirports, LoadAirlines,
       CommitAirlines, Conflicts, ReadMembers, ReadGroups, CommitGroups, EndRun, Goto
  <2>5. ASSUME ChangeFeed \/ UNCHANGED vars PROVE canon'[k] = canon[k] /\ pc'[k] = pc[k]
    BY <2>5 DEF ChangeFeed, vars
  <2>. QED
    BY <2>1, <2>2, <2>3, <2>4, <2>5 DEF Next
<1>3. GroupedAirportsExist'
  <2>1. CASE groups' = groups
    BY <1>1, <2>1 DEF GroupedAirportsExist
  <2>2. ASSUME NEW r \in Runs, CommitGroups(r) PROVE GroupedAirportsExist'
    <3>1. /\ pc[r] = "groups" /\ canon[r] \in Published /\ airports' = airports
          /\ groups' = (groups \ doomed[r]) \cup GroupRows(r, canon[r].groups)
      BY <1>0, <2>2 DEF CommitGroups, RunTypes
    <3>2. DOMAIN canon[r].airports \subseteq DOMAIN airports
      BY <3>1 DEF AirportsAreStored, Stored
    <3>3. \A g \in GroupRows(r, canon[r].groups) : g.members \subseteq DOMAIN airports
      BY <3>1, <3>2, MembersAreListed DEF GroupRows
    <3>. QED
      BY <3>1, <3>3 DEF GroupedAirportsExist
  <2>. QED
    BY <2>1, <2>2 DEF Next, Step, ChangeFeed, Fails, Fetch, LoadAirports, CommitAirports, LoadAirlines,
       CommitAirlines, Conflicts, ReadMembers, ReadGroups, tables, vars
<1>. QED
  BY <1>2, <1>3

\* The foreign key of a group's member never fails, whatever runs overlap and fail: a
\* run has stored every airport it groups, and no run takes one away.
THEOREM GroupsAreOfStored == ASSUME SourcesAreGrouped PROVE Spec => []GroupedAirportsExist
<1>1. Init => AirportsAreStored /\ GroupedAirportsExist
  <2>. SUFFICES ASSUME Init PROVE AirportsAreStored /\ GroupedAirportsExist
    OBVIOUS
  <2>1. AirportsAreStored
    BY DEF Init, AirportsAreStored, Stored
  <2>2. \A g \in groups : g.members \subseteq DOMAIN airports
    BY MembersAreListed DEF Init, GroupRows
  <2>. QED
    BY <2>1, <2>2 DEF GroupedAirportsExist
<1>2. Inv /\ AirportsAreStored /\ GroupedAirportsExist /\ [Next]_vars =>
          AirportsAreStored' /\ GroupedAirportsExist'
  BY StoredStep
<1>. QED
  BY <1>1, <1>2, Invariance, PTL DEF Spec

-----------------------------------------------------------------------------
(* The groups of one state of the sources *)

\* Who replaces the groups deletes them all and alone: there is always one to lock.
ReplacersAreAlone ==
    /\ groups # {}
    /\ \A r \in Runs : /\ pc[r] = "members" => doomed[r] # {}
                       /\ pc[r] = "groups" => lock = r /\ doomed[r] = groups

OfOneFeed == \E f \in Published : Grouped = f.groups

\* A run inserts the groups it derived, no more and no less.
LEMMA InsertedGroups ==
    ASSUME SourcesAreGrouped, NEW f \in Published, NEW r
    PROVE  /\ {[anchor |-> g.anchor, members |-> g.members] : g \in GroupRows(r, f.groups)} = f.groups
           /\ GroupRows(r, f.groups) # {}
<1>1. \A g \in f.groups : g = [anchor |-> g.anchor, members |-> g.members]
  BY SystemShape DEF SourcesAreGrouped
<1>2. ASSUME NEW g \in GroupRows(r, f.groups)
      PROVE  [anchor |-> g.anchor, members |-> g.members] \in f.groups
  <2>1. PICK d \in f.groups : g = [by |-> r, anchor |-> d.anchor, members |-> d.members]
    BY DEF GroupRows
  <2>2. g.anchor = d.anchor /\ g.members = d.members
    BY <2>1
  <2>. QED
    BY <1>1, <2>2
<1>3. ASSUME NEW d \in f.groups
      PROVE  \E g \in GroupRows(r, f.groups) : d = [anchor |-> g.anchor, members |-> g.members]
  <2>. DEFINE g == [by |-> r, anchor |-> d.anchor, members |-> d.members]
  <2>1. g \in GroupRows(r, f.groups)
    BY DEF GroupRows
  <2>2. g.anchor = d.anchor /\ g.members = d.members
    OBVIOUS
  <2>3. d = [anchor |-> g.anchor, members |-> g.members]
    BY <1>1, <2>2
  <2>. QED
    BY <2>1, <2>3
<1>4. GroupRows(r, f.groups) # {}
  BY DEF SourcesAreGrouped, GroupRows
<1>. QED
  BY <1>2, <1>3, <1>4

LEMMA GroupsStep ==
    ASSUME SourcesAreGrouped, Inv, ReplacersAreAlone, OfOneFeed, [Next]_vars
    PROVE  ReplacersAreAlone' /\ OfOneFeed'
<1>0. RunTypes /\ NULL \notin Runs
  BY ReferenceDataAssumption DEF Inv
<1>1. ASSUME NEW r \in Runs, EndRun(r), groups' = groups PROVE ReplacersAreAlone' /\ OfOneFeed'
  <2>1. \A k \in Runs : k # r => pc'[k] = pc[k] /\ doomed'[k] = doomed[k] /\ (lock = k => lock' = k)
    BY <1>0, <1>1 DEF EndRun, RunTypes
  <2>2. pc'[r] = "idle"
    BY <1>0, <1>1 DEF EndRun, RunTypes
  <2>. QED
    BY <1>1, <2>1, <2>2 DEF ReplacersAreAlone, OfOneFeed, Grouped
<1>2. ASSUME NEW r \in Runs, ReadMembers(r) PROVE ReplacersAreAlone' /\ OfOneFeed'
  <2>1. /\ pc' = [pc EXCEPT ![r] = "members"] /\ doomed' = [doomed EXCEPT ![r] = groups]
        /\ UNCHANGED <<groups, lock>>
    BY <1>2 DEF ReadMembers, Goto, tables
  <2>. QED
    BY <1>0, <2>1 DEF RunTypes, ReplacersAreAlone, OfOneFeed, Grouped
<1>3. ASSUME NEW r \in Runs, ReadGroups(r) PROVE ReplacersAreAlone' /\ OfOneFeed'
  <2>1. /\ pc[r] = "members" /\ pc' = [pc EXCEPT ![r] = "groups"] /\ doomed' = [doomed EXCEPT ![r] = groups]
        /\ groups' = groups /\ lock = NULL /\ lock' = r
    BY <1>3 DEF ReadGroups, Goto, tables, ReplacersAreAlone
  <2>2. \A k \in Runs : pc[k] # "groups"
    BY <1>0, <2>1 DEF ReplacersAreAlone
  <2>. QED
    BY <1>0, <2>1, <2>2 DEF RunTypes, ReplacersAreAlone, OfOneFeed, Grouped
<1>4. ASSUME NEW r \in Runs, CommitGroups(r) PROVE ReplacersAreAlone' /\ OfOneFeed'
  <2>1. /\ lock = r /\ doomed[r] = groups /\ canon[r] \in Published /\ EndRun(r)
        /\ groups' = (groups \ doomed[r]) \cup GroupRows(r, canon[r].groups)
    BY <1>0, <1>4 DEF CommitGroups, RunTypes, ReplacersAreAlone
  <2>2. groups' = GroupRows(r, canon[r].groups)
    BY <2>1
  <2>3. Grouped' = canon[r].groups /\ groups' # {}
    BY <2>1, <2>2, InsertedGroups DEF Grouped
  <2>4. \A k \in Runs : k # r => pc'[k] = pc[k] /\ pc[k] # "groups" /\ doomed'[k] = doomed[k]
    BY <1>0, <2>1 DEF EndRun, RunTypes, ReplacersAreAlone
  <2>5. pc'[r] = "idle"
    BY <1>0, <2>1 DEF EndRun, RunTypes
  <2>. QED
    BY <2>1, <2>3, <2>4, <2>5 DEF ReplacersAreAlone, OfOneFeed
<1>5. ASSUME NEW r \in Runs, NEW from, NEW to, Goto(r, from, to), to \notin {"members", "groups"},
             UNCHANGED <<groups, doomed, lock>>
      PROVE  ReplacersAreAlone' /\ OfOneFeed'
  BY <1>0, <1>5 DEF Goto, RunTypes, ReplacersAreAlone, OfOneFeed, Grouped
<1>6. ASSUME UNCHANGED <<groups, pc, doomed, lock>> PROVE ReplacersAreAlone' /\ OfOneFeed'
  BY <1>6 DEF ReplacersAreAlone, OfOneFeed, Grouped
<1>7. ASSUME NEW r \in Runs,
             Fetch(r) \/ LoadAirports(r) \/ CommitAirports(r) \/ LoadAirlines(r) \/ CommitAirlines(r)
      PROVE  ReplacersAreAlone' /\ OfOneFeed'
  BY <1>5, <1>7 DEF Fetch, LoadAirports, CommitAirports, LoadAirlines, CommitAirlines, tables
<1>8. ASSUME NEW r \in Runs, Conflicts(r) \/ Fails(r) PROVE ReplacersAreAlone' /\ OfOneFeed'
  BY <1>1, <1>8 DEF Conflicts, Fails, tables
<1>9. ASSUME ChangeFeed \/ UNCHANGED vars PROVE ReplacersAreAlone' /\ OfOneFeed'
  BY <1>6, <1>9 DEF ChangeFeed, vars, tables
<1>. QED
  BY <1>2, <1>3, <1>4, <1>7, <1>8, <1>9 DEF Next, Step

\* The groups are the metropolitan systems of one state of the sources, whatever runs
\* overlap, fail or repeat: no airport is in two groups and no group is half there.
THEOREM GroupsAreOfOneFeed == ASSUME SourcesAreGrouped PROVE Spec => []GroupsAreMetroSystems
<1>1. Init => ReplacersAreAlone /\ OfOneFeed
  <2>. SUFFICES ASSUME Init PROVE ReplacersAreAlone /\ OfOneFeed
    OBVIOUS
  <2>1. PICK r \in Runs : groups = GroupRows(r, feed.groups)
    BY DEF Init
  <2>2. feed \in Published /\ groups # {} /\ Grouped = feed.groups
    BY <2>1, InsertedGroups DEF Init, Grouped
  <2>. QED
    BY <2>2 DEF Init, ReplacersAreAlone, OfOneFeed
<1>2. Inv /\ ReplacersAreAlone /\ OfOneFeed /\ [Next]_vars => ReplacersAreAlone' /\ OfOneFeed'
  BY GroupsStep
<1>3. OfOneFeed => GroupsAreMetroSystems
  <2>1. ASSUME NEW f \in Published, Grouped = f.groups
        PROVE  \E system \in Systems : Grouped = system[2]
    <3>1. <<f, MetroSystems(f.listed)>> \in Systems
      BY DEF Systems
    <3>. QED
      BY <2>1, <3>1 DEF SourcesAreGrouped
  <2>. QED
    BY <2>1 DEF OfOneFeed, GroupsAreMetroSystems
<1>. QED
  BY <1>1, <1>2, <1>3, Invariance, PTL DEF Spec
=============================================================================
