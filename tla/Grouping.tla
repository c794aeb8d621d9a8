------------------------------ MODULE Grouping ------------------------------
(***************************************************************************)
(* How airports are clustered into metropolitan groups:                    *)
(* src/domain/reference_data/grouping.py, as operators on a list of        *)
(* airports.  ICAO codes are numbers in alphabetical order.                *)
(***************************************************************************)
EXTENDS Integers, Sequences, FiniteSets, SequencesExt, Graphs

CONSTANTS
    Distance(_, _),  \* kilometres between two positions (haversine_km)
    HUB_RADIUS,      \* hubs this close belong together (50 km)
    MEMBER_RADIUS,   \* a regional airport joins a hub this close (100 km)
    NULL             \* an absent value

ASSUME GroupingAssumption == HUB_RADIUS \in Nat /\ MEMBER_RADIUS \in Nat

ANCHOR_TYPE == "large_airport"
GROUPABLE_TYPES == {"large_airport", "medium_airport"}

-----------------------------------------------------------------------------
(* _UnionFind: find halves the path it walks. *)

find(parent, item) ==
    LET walk[p \in [DOMAIN parent -> DOMAIN parent], i \in DOMAIN parent] ==
            IF p[i] = i THEN [root |-> i, parent |-> p]
            ELSE LET halved == [p EXCEPT ![i] = p[p[i]]] IN walk[halved, halved[i]]
    IN  walk[parent, item]

union(parent, a, b) ==
    LET root_a == find(parent, a)
        root_b == find(root_a.parent, b)
    IN  IF root_a.root = root_b.root THEN root_b.parent
        ELSE [root_b.parent EXCEPT ![root_a.root] = root_b.root]

-----------------------------------------------------------------------------
(* derive_groups *)

Pairs(n) == FlattenSeq([i \in 1..n |-> [k \in 1..(n - i) |-> <<i, i + k>>]])

\* Single linkage of the hubs, pair by pair in the order of the list.
hub_uf(hubs) ==
    FoldLeft(LAMBDA parent, ij :
                LET a == hubs[ij[1]] b == hubs[ij[2]]
                IN  IF Distance(a.at, b.at) <= HUB_RADIUS THEN union(parent, a.icao, b.icao)
                    ELSE parent,
             [code \in {hubs[i].icao : i \in DOMAIN hubs} |-> code],
             Pairs(Len(hubs)))

\* The nearest hub within the radius; of equally near ones the last listed.
nearest_hub(candidate, hubs) ==
    FoldLeft(LAMBDA best, hub :
                IF Distance(candidate.at, hub.at) <= best.distance
                THEN [hub |-> hub.icao, distance |-> Distance(candidate.at, hub.at)]
                ELSE best,
             [hub |-> NULL, distance |-> MEMBER_RADIUS],
             hubs).hub

derive_groups(airports) ==
    LET candidates == SelectSeq(airports, LAMBDA a : a.type \in GROUPABLE_TYPES)
        hubs == SelectSeq(candidates, LAMBDA a : a.type = ANCHOR_TYPE)
        members == SelectSeq(candidates, LAMBDA a : a.type # ANCHOR_TYPE)
        uf == hub_uf(hubs)
        hubsOf(root) == {h \in DOMAIN uf : find(uf, h).root = root}
        cluster(root) == hubsOf(root) \cup
            {a.icao : a \in {m \in ToSet(members) : nearest_hub(m, hubs) \in hubsOf(root)}}
    IN  {[anchor |-> Min(hubsOf(root)), members |-> cluster(root)] :
            root \in {r \in {find(uf, h).root : h \in DOMAIN uf} : Cardinality(cluster(r)) >= 2}}

-----------------------------------------------------------------------------
(* What a grouping is: the definition derive_groups is checked against. *)

Hubs(S) == {a \in S : a.type = ANCHOR_TYPE}
Regional(S) == {a \in S : a.type \in GROUPABLE_TYPES \ {ANCHOR_TYPE}}

\* Hubs reachable from one another in hops of at most HUB_RADIUS.
Linked(S) ==
    ConnectionsIn([node |-> Hubs(S),
                   edge |-> {e \in Hubs(S) \X Hubs(S) : Distance(e[1].at, e[2].at) <= HUB_RADIUS}])

\* The hubs a regional airport may be assigned to: nearest, and near enough.
Serving(a, S) ==
    {h \in Hubs(S) : /\ Distance(a.at, h.at) <= MEMBER_RADIUS
                     /\ \A k \in Hubs(S) : Distance(a.at, h.at) <= Distance(a.at, k.at)}

MetroSystems(S) ==
    LET linked == Linked(S)
        hubsWith(h) == {k \in Hubs(S) : linked[<<h, k>>]}
        system(h) == hubsWith(h) \cup {a \in Regional(S) : Serving(a, S) \cap hubsWith(h) # {}}
        codes(T) == {a.icao : a \in T}
    IN  {[anchor |-> Min(codes(hubsWith(h))), members |-> codes(system(h))] :
            h \in {k \in Hubs(S) : Cardinality(system(k)) >= 2}}

\* No regional airport lies equally near to two systems.
Untied(S) ==
    \A a \in Regional(S) : \A h, k \in Serving(a, S) : Linked(S)[<<h, k>>]

\* derive_groups finds the systems, in whatever order the source lists airports.
IsGrouping(airports) ==
    Untied(ToSet(airports)) => derive_groups(airports) = MetroSystems(ToSet(airports))
=============================================================================
