------------------------ MODULE ScheduledCollection ------------------------
(***************************************************************************)
(* The daily job that searches every known route again                     *)
(* (src/apps/worker/jobs/scheduled_collection.py) beside the searches of   *)
(* SearchPipeline.  It is a job of the same worker: it takes one of its    *)
(* slots, dies with it and is redelivered; it commits a search and then    *)
(* enqueues the search's job, route by route.                              *)
(***************************************************************************)
EXTENDS SearchPipeline

CONSTANTS
    Routes,         \* origin, destination and month
    MaxCollections  \* bound: times the cron starts the job

ASSUME ScheduledCollectionAssumption == MaxCollections \in Nat

VARIABLES
    routes,       \* the distinct routes of the searches table
    collection,   \* where the collection's job is
    plan,         \* routes it has read and not yet committed a search for
    committed,    \* its searches that are committed and not yet enqueued
    collections,  \* times the cron started it
    cut,          \* runs that ended before their last route
    abandoned     \* history: searches a run had committed and not enqueued when it ended

collectionVars == <<routes, collection, plan, committed, collections, cut, abandoned>>
allVars == <<vars, collectionVars>>

Free == {s \in Jobs : request[s] = "none"}

CollectionInit ==
    /\ routes \in {{}, Routes}
    /\ collection = "off"
    /\ plan = {}
    /\ committed = {}
    /\ collections = 0
    /\ cut = 0
    /\ abandoned = {}

Occupied == Cardinality(Running) + Cardinality({c \in {collection} : c \in {"looping", "returned"}})

-----------------------------------------------------------------------------
\* The cron is due, or a worker's death left the job in the queue.
Due ==
    \/ collection = "off" /\ collections < MaxCollections /\ collections' = collections + 1
    \/ collection = "queued" /\ UNCHANGED collections

\* Every route once, however many searches it has had.  A run with nothing to
\* collect returns.  (Bound: the search ids suffice for the routes.)
StartCollection ==
    /\ Due
    /\ redis
    /\ Occupied < MAX_JOBS
    /\ Cardinality(routes) <= Cardinality(Free)
    /\ plan' = routes
    /\ collection' = IF routes = {} THEN "returned" ELSE "looping"
    /\ UNCHANGED <<vars, routes, committed, cut, abandoned>>

\* Mutant: all searches are committed in one transaction, then enqueued.
CommitNext_all ==
    /\ collection = "looping"
    /\ plan # {}
    /\ \E S \in SUBSET Free :
        /\ Cardinality(S) = Cardinality(plan)
        /\ search' = [s \in Jobs |-> IF s \in S THEN NewSearch ELSE search[s]]
        /\ request' = [s \in Jobs |-> IF s \in S THEN "collected" ELSE request[s]]
        /\ committed' = S
    /\ plan' = {}
    /\ UNCHANGED <<healthVars, pool, redisVars, jobVars, queue, tries, raw>>
    /\ UNCHANGED <<routes, collection, collections, cut, abandoned>>

CommitNext ==
    /\ collection = "looping"
    /\ committed = {}
    /\ \E route \in plan, s \in Free :
        /\ plan' = plan \ {route}
        /\ committed' = {s}
        /\ search' = [search EXCEPT ![s] = NewSearch]
        /\ request' = [request EXCEPT ![s] = "collected"]
    /\ UNCHANGED <<healthVars, pool, redisVars, jobVars, queue, tries, raw>>
    /\ UNCHANGED <<routes, collection, collections, cut, abandoned>>

\* The last route's enqueue ends the run.
EnqueueNext ==
    /\ redis
    /\ \E s \in committed :
        /\ queue' = queue \cup {s}
        /\ committed' = committed \ {s}
    /\ collection' = IF plan = {} /\ committed' = {} THEN "returned" ELSE "looping"
    /\ UNCHANGED <<healthVars, apiVars, redisVars, jobVars, search, tries, raw>>
    /\ UNCHANGED <<routes, plan, collections, cut, abandoned>>

\* enqueue_job raises, or the job's time is up: the rest of the plan is dropped.
CollectionCut ==
    /\ collection = "looping"
    /\ collection' = "returned"
    /\ plan' = {}
    /\ committed' = {}
    /\ cut' = cut + 1
    /\ abandoned' = abandoned \cup committed

EnqueueNextFails ==
    /\ ~redis
    /\ committed # {}
    /\ CollectionCut
    /\ UNCHANGED <<vars, routes, collections>>

CollectionCancelled ==
    /\ clock > 0
    /\ CollectionCut
    /\ UNCHANGED <<vars, routes, collections>>

FinishCollection ==
    /\ redis
    /\ collection = "returned"
    /\ collection' = "off"
    /\ UNCHANGED <<vars, routes, plan, committed, collections, cut, abandoned>>

-----------------------------------------------------------------------------
\* The collection's job is redelivered with the searches', from its beginning.
WorkerDiesToo ==
    /\ WorkerDies
    /\ collection' = IF collection = "off" THEN "off" ELSE "queued"
    /\ plan' = {}
    /\ committed' = {}
    /\ abandoned' = abandoned \cup committed
    /\ UNCHANGED <<routes, collections, cut>>

\* A user's search may be the first of its route.  (Bound: it leaves the ids the
\* collection needs.)
UserSearch(s) ==
    /\ CreateSearch(s)
    /\ Cardinality(Free) > Cardinality(plan)
    /\ \E route \in Routes : routes' = routes \cup {route}
    /\ UNCHANGED <<collection, plan, committed, collections, cut, abandoned>>

\* The worker keeps to its slots.
SearchStep(s) ==
    /\ WorkerStep(s)
    /\ step[s] = "off" /\ step'[s] # "off" => Occupied < MAX_JOBS
    /\ UNCHANGED collectionVars

CollectionStep ==
    \/ CommitNext \/ EnqueueNext \/ EnqueueNextFails \/ FinishCollection
    \/ StartCollection /\ collection = "queued"

CollectionNext ==
    \/ \E s \in Jobs :
        \/ UserSearch(s) \/ SearchStep(s)
        \/ (ApiStep(s) \/ JobCancelled(s)) /\ UNCHANGED collectionVars
    \/ StartCollection \/ CollectionStep \/ CollectionCancelled
    \/ WorkerDiesToo
    \/ (RedisFails \/ RedisReturns \/ ApiDies \/ TimePasses) /\ UNCHANGED collectionVars

SystemInit == PipelineInit /\ CollectionInit

CollectionSpec == SystemInit /\ [][CollectionNext]_allVars

\* The breaker row is absent, or OPEN without a date (UndatedInit).
RestartInit == (PipelineInit \/ UndatedInit) /\ CollectionInit

\* Fairness as for the pipeline; the collection is one more job of the worker.
FairCollectionSpec ==
    /\ RestartInit /\ [][CollectionNext]_allVars
    /\ \A s \in Jobs : WF_allVars(SearchStep(s)) /\ WF_allVars(ApiStep(s) /\ UNCHANGED collectionVars)
    /\ WF_allVars(RedisReturns /\ UNCHANGED collectionVars)
    /\ WF_allVars(CollectionStep)

-----------------------------------------------------------------------------
(* Properties *)

\* Collected, and no job has run for it or is queued.
Stranded ==
    {s \in Jobs : request[s] = "collected" /\ IsState(s, {"pending"}) /\ tries[s] = 0 /\ s \notin queue}

\* A run of the collection that is cut short, by an outage, its timeout or the
\* worker's death, leaves at most one search behind that no job will run.
OneStrandedPerRun ==
    Cardinality(Stranded) <= cut + crashes + Cardinality({c \in {collection} : c = "looping"})

\* Whatever faults strike elsewhere and however many searches were made before, a
\* pending search is handed to the worker, unless its own request was answered with
\* an error (the API died or Redis failed between its commit and its enqueue) or
\* its run of the collection ended just there.
PendingIsRun ==
    \A s \in Jobs : IsState(s, {"pending"}) ~>
        (tries[s] > 0 \/ request[s] = "error" \/ s \in abandoned)
=============================================================================
