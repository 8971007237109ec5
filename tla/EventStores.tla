------------------------------- MODULE EventStores -------------------------------
(* What is kept of events outside their rows, and how events end: vectors in Qdrant      *)
(* (workers/enrich.py, services/vectorize.py), entities (workers/k8s_dispatch.py),       *)
(* indicators (workers/ingest.py) and the retention purge (workers/retention.py).        *)
EXTENDS Integers, FiniteSets, Sequences

CONSTANTS
    StoredEvents,
    RetentionOf,      \* RetentionOf[e]: retention class of the event's plan version
    KeepFor,          \* KeepFor[class]: units of time for the classes that are purged
    ClassOrder,       \* the purged classes in the order of RETENTION_THRESHOLDS
    PurgeBatchSize,   \* BATCH_SIZE
    Purges,           \* purge_expired_events messages
    Vectorizers,      \* vectorize_event messages
    Extractors,       \* enrich_entities messages
    EntityNames,      \* (type, name) pairs that NER can find
    Feeders,          \* ingested items that mention an indicator, each of its own source
    IndicatorValues,
    MaxAge,           \* bound: units of time
    MaxPurgeTries,    \* max_retries of the purge and of the entity extraction
    MaxExtractTries

ASSUME StoreAssumption ==
    /\ ClassOrder \in Seq(DOMAIN KeepFor) \ {<<>>} /\ \A c \in DOMAIN KeepFor : KeepFor[c] \in Nat
    /\ PurgeBatchSize \in Nat \ {0}
    /\ MaxAge \in Nat \ {0} /\ {MaxPurgeTries, MaxExtractTries} \subseteq Nat

VARIABLES
    age,          \* time
    born,         \* born[e]: ingested_at of a stored event, 0 before it is stored
    vectors,      \* the events that have a point in Qdrant
    purge,        \* executions of the purge
    vectorizer,   \* executions of vectorize_event
    adrift,       \* history: events whose vector a failure cut loose
    entityRows,   \* entityRows[n]: number of committed rows of that name
    links,        \* event_entities
    extractor,    \* executions of enrich_entities
    sources,      \* sources[i]: the sources of an indicator, {} when it has no row
    feeder,       \* items that handle an indicator
    met,          \* history: the sources whose item was committed with the indicator
    crowded       \* history: names and indicators two executions handled at the same time

purgeVars == <<age, born, vectors, purge, vectorizer, adrift>>
entityVars == <<entityRows, links, extractor>>
indicatorVars == <<sources, feeder, met>>
storeVars == <<purgeVars, entityVars, indicatorVars, crowded>>

Deleted == -1
Stored(e) == born[e] > 0

Expired(e, class, now) ==
    /\ Stored(e) /\ RetentionOf[e] = class
    /\ born[e] < now - KeepFor[class]

StoreInit ==
    /\ age = 1
    /\ born = [e \in StoredEvents |-> 0]
    /\ vectors = {} /\ adrift = {}
    /\ purge = [p \in Purges |-> [stage |-> "queued", class |-> 1, now |-> 0, ids |-> {}, tries |-> 0]]
    /\ vectorizer = [v \in Vectorizers |-> "queued"]
    /\ entityRows = [n \in EntityNames |-> 0]
    /\ links = [e \in StoredEvents |-> {}]
    /\ extractor = [x \in Extractors |->
          [stage |-> "queued", event |-> 0, todo |-> {}, fresh |-> {}, found |-> {}, tries |-> 0]]
    /\ sources = [i \in IndicatorValues |-> {}]
    /\ feeder = [f \in Feeders |-> [stage |-> "queued", value |-> 0, copy |-> {}]]
    /\ met = [i \in IndicatorValues |-> {}]
    /\ crowded = {}

Ages ==
    /\ age < MaxAge
    /\ age' = age + 1
    /\ UNCHANGED <<born, vectors, purge, vectorizer, adrift, entityVars, indicatorVars, crowded>>

Arrives(e) ==
    /\ born[e] = 0
    /\ born' = [born EXCEPT ![e] = age]
    /\ UNCHANGED <<age, vectors, purge, vectorizer, adrift, entityVars, indicatorVars, crowded>>

(* ------------------------------------------------------------------------------------- *)
(* vectorize_event. "queued" and "done" are stages, an event is one whose row was read.   *)

(* A missing row ends the task: not_found.                                                *)
VectorizeRead(v) ==
    /\ vectorizer[v] = "queued"
    /\ \E e \in StoredEvents : vectorizer' = [vectorizer EXCEPT ![v] = IF ~Stored(e) THEN "done" ELSE e]
    /\ UNCHANGED <<age, born, vectors, purge, adrift, entityVars, indicatorVars, crowded>>

(* The session is closed before the text is embedded and the point is put.                *)
VectorizePut(v) ==
    LET e == vectorizer[v] IN
    /\ e \in StoredEvents
    /\ vectors' = vectors \cup {e}
    /\ vectorizer' = [vectorizer EXCEPT ![v] = "done"]
    /\ adrift' = IF ~Stored(e) THEN adrift \cup {e} ELSE adrift
    /\ UNCHANGED <<age, born, purge, entityVars, indicatorVars, crowded>>

(* Qdrant does not answer: the task is retried, up to its limit.                          *)
VectorizeFails(v) ==
    /\ vectorizer[v] \in StoredEvents
    /\ \E stage \in {"queued", "done"} : vectorizer' = [vectorizer EXCEPT ![v] = stage]
    /\ UNCHANGED <<age, born, vectors, purge, adrift, entityVars, indicatorVars, crowded>>

(* ------------------------------------------------------------------------------------- *)
(* purge_expired_events                                                                  *)

PurgeStart(p) ==
    /\ purge[p].stage = "queued"
    /\ purge' = [purge EXCEPT ![p].stage = "purging", ![p].now = age, ![p].class = 1, ![p].ids = {}]
    /\ UNCHANGED <<age, born, vectors, vectorizer, adrift, entityVars, indicatorVars, crowded>>

ExpiredOf(p) == {e \in StoredEvents : Expired(e, ClassOrder[purge[p].class], purge[p].now)}

(* The ids that the run keeps for Qdrant after a batch.                                   *)
LastBatchOnly(p, batch) == batch   \* a mutant of Collected
Collected(p, batch) == purge[p].ids \cup batch

(* A batch of the expired events is collected, deleted and committed. Links cascade.      *)
PurgeBatch(p) ==
    /\ purge[p].stage = "purging"
    /\ \E batch \in SUBSET ExpiredOf(p) :
          /\ batch # {}
          /\ \/ Cardinality(batch) = PurgeBatchSize
             \/ batch = ExpiredOf(p) /\ Cardinality(batch) < PurgeBatchSize
          /\ born' = [e \in StoredEvents |-> IF e \in batch THEN Deleted ELSE born[e]]
          /\ links' = [e \in StoredEvents |-> IF e \in batch THEN {} ELSE links[e]]
          /\ purge' = [purge EXCEPT ![p].ids = Collected(p, batch)]
    /\ UNCHANGED <<age, vectors, vectorizer, adrift, entityRows, extractor, indicatorVars, crowded>>

(* An empty batch ends the loop of a class. After the last class the vectors follow.      *)
OneBatchIsEnough(p) == purge[p].ids # {} \/ ExpiredOf(p) = {}   \* a mutant of ClassDone
ClassDone(p) == ExpiredOf(p) = {}
NextClass(p) ==
    /\ purge[p].stage = "purging" /\ ClassDone(p)
    /\ purge' = IF purge[p].class < Len(ClassOrder)
                THEN [purge EXCEPT ![p].class = @ + 1]
                ELSE [purge EXCEPT ![p].stage = "removing"]
    /\ UNCHANGED <<age, born, vectors, vectorizer, adrift, entityVars, indicatorVars, crowded>>

(* Qdrant deletes the points, or the failure is logged and forgotten.                     *)
RemoveVectors(p) ==
    /\ purge[p].stage = "removing"
    /\ \/ vectors' = vectors \ purge[p].ids /\ UNCHANGED adrift
       \/ adrift' = adrift \cup purge[p].ids /\ UNCHANGED vectors
    /\ purge' = [purge EXCEPT ![p].stage = "auditing", ![p].ids = {}]
    /\ UNCHANGED <<age, born, vectorizer, entityVars, indicatorVars, crowded>>

Audit(p) ==
    /\ purge[p].stage = "auditing"
    /\ purge' = [purge EXCEPT ![p].stage = "done"]
    /\ UNCHANGED <<age, born, vectors, vectorizer, adrift, entityVars, indicatorVars, crowded>>

(* An exception, or a worker that dies, ends the run. The next one starts with no ids.    *)
PurgeAgain(p) ==
    /\ purge[p].stage \in {"purging", "removing", "auditing"}
    /\ adrift' = adrift \cup purge[p].ids
    /\ purge' = IF purge[p].tries < MaxPurgeTries
                THEN [purge EXCEPT ![p].stage = "queued", ![p].ids = {}, ![p].tries = @ + 1]
                ELSE [purge EXCEPT ![p].stage = "failed", ![p].ids = {}]
    /\ UNCHANGED <<age, born, vectors, vectorizer, entityVars, indicatorVars, crowded>>

(* ------------------------------------------------------------------------------------- *)
(* enrich_entities. The rows have no unique key: uniqueness rests on the look-up.         *)

ExtractRead(x, e, names) ==
    /\ extractor[x].stage = "queued"
    /\ extractor' = IF ~Stored(e) THEN [extractor EXCEPT ![x].stage = "done"]
                    ELSE [extractor EXCEPT ![x].stage = "linking", ![x].event = e, ![x].todo = names]
    /\ UNCHANGED <<purgeVars, entityRows, links, indicatorVars, crowded>>

HandlesName(y, n) == extractor[y].stage = "linking" /\ n \in extractor[y].fresh

(* One row is taken, none is added. Two rows of one name raise, for every event from now. *)
UpsertEntity(x, n) ==
    /\ extractor[x].stage = "linking" /\ n \in extractor[x].todo /\ entityRows[n] <= 1
    /\ extractor' = [extractor EXCEPT ![x].todo = @ \ {n},
                        ![x].fresh = IF entityRows[n] = 0 THEN @ \cup {n} ELSE @,
                        ![x].found = IF entityRows[n] = 0 THEN @ ELSE @ \cup {n}]
    /\ crowded' = IF \E y \in Extractors \ {x} : HandlesName(y, n) THEN crowded \cup {n} ELSE crowded
    /\ UNCHANGED <<purgeVars, entityRows, links, indicatorVars>>

ExtractorLeaves(x, stage) ==
    [extractor EXCEPT ![x] = [@ EXCEPT !.stage = stage, !.todo = {}, !.fresh = {}, !.found = {}]]

(* The new rows and the links are committed. A deleted event fails the foreign key.       *)
ExtractCommit(x) ==
    LET r == extractor[x] IN
    /\ r.stage = "linking" /\ r.todo = {} /\ Stored(r.event)
    /\ entityRows' = [n \in EntityNames |-> entityRows[n] + (IF n \in r.fresh THEN 1 ELSE 0)]
    /\ links' = [links EXCEPT ![r.event] = @ \cup r.fresh \cup r.found]
    /\ extractor' = ExtractorLeaves(x, "done")
    /\ UNCHANGED <<purgeVars, indicatorVars, crowded>>

ExtractAgain(x) ==
    /\ extractor[x].stage = "linking"
    /\ extractor' = IF extractor[x].tries < MaxExtractTries
                    THEN [ExtractorLeaves(x, "queued") EXCEPT ![x].tries = @ + 1]
                    ELSE ExtractorLeaves(x, "failed")
    /\ UNCHANGED <<purgeVars, entityRows, links, indicatorVars, crowded>>

(* ------------------------------------------------------------------------------------- *)
(* Indicators of ingested items, committed with the whole batch                          *)

IndicatorRead(f, i) ==
    /\ feeder[f].stage = "queued"
    /\ feeder' = [feeder EXCEPT ![f] = [stage |-> "read", value |-> i, copy |-> sources[i]]]
    /\ crowded' = IF \E g \in Feeders \ {f} : feeder[g].stage = "read" /\ feeder[g].value = i
                  THEN crowded \cup {i} ELSE crowded
    /\ UNCHANGED <<purgeVars, entityVars, sources, met>>

(* What the item writes: the sources it read and its own, unless its own is there.        *)
Replaced(f) == {f}   \* a mutant of Merged
Merged(f) == feeder[f].copy \cup {f}

(* An indicator that was absent when read is inserted. When another item inserted it      *)
(* meanwhile the unique key fails: the sources are read again, or the item is given up.   *)
IndicatorCommit(f) ==
    LET i == feeder[f].value IN
    /\ feeder[f].stage = "read"
    /\ \/ /\ sources' = [sources EXCEPT ![i] =
                IF feeder[f].copy = {} THEN @ \cup {f} ELSE IF f \in feeder[f].copy THEN @ ELSE Merged(f)]
          /\ met' = [met EXCEPT ![i] = @ \cup {f}]
       \/ /\ feeder[f].copy = {} /\ sources[i] # {}
          /\ UNCHANGED <<sources, met>>
    /\ feeder' = [feeder EXCEPT ![f] = [@ EXCEPT !.stage = "done", !.copy = {}]]
    /\ UNCHANGED <<purgeVars, entityVars, crowded>>

PurgeNext ==
    \/ Ages
    \/ \E e \in StoredEvents : Arrives(e)
    \/ \E v \in Vectorizers : VectorizeRead(v) \/ VectorizePut(v) \/ VectorizeFails(v)
    \/ \E p \in Purges : \/ PurgeStart(p) \/ PurgeBatch(p) \/ NextClass(p) \/ RemoveVectors(p)
                         \/ Audit(p) \/ PurgeAgain(p)

KnowledgeNext ==
    \/ \E x \in Extractors :
          \/ \E e \in StoredEvents, names \in SUBSET EntityNames : ExtractRead(x, e, names)
          \/ \E n \in EntityNames : UpsertEntity(x, n)
          \/ ExtractCommit(x) \/ ExtractAgain(x)
    \/ \E f \in Feeders :
          \/ \E i \in IndicatorValues : IndicatorRead(f, i)
          \/ IndicatorCommit(f)

StoreNext == PurgeNext \/ KnowledgeNext

StoreSpec == StoreInit /\ [][StoreNext]_storeVars

PurgeRuns ==
    [stage : {"queued", "purging", "removing", "auditing", "done", "failed"},
     class : 1 .. Len(ClassOrder), now : 0 .. MaxAge, ids : SUBSET StoredEvents,
     tries : 0 .. MaxPurgeTries]

Extractions ==
    [stage : {"queued", "linking", "done", "failed"}, event : StoredEvents \cup {0},
     todo : SUBSET EntityNames, fresh : SUBSET EntityNames, found : SUBSET EntityNames,
     tries : 0 .. MaxExtractTries]

Feedings == [stage : {"queued", "read", "done"}, value : IndicatorValues \cup {0}, copy : SUBSET Feeders]

StoreTypeOK ==
    /\ age \in 1 .. MaxAge /\ born \in [StoredEvents -> Deleted .. MaxAge]
    /\ vectors \subseteq StoredEvents /\ adrift \subseteq StoredEvents
    /\ purge \in [Purges -> PurgeRuns]
    /\ vectorizer \in [Vectorizers -> StoredEvents \cup {"queued", "done"}]
    /\ entityRows \in [EntityNames -> Nat] /\ links \in [StoredEvents -> SUBSET EntityNames]
    /\ extractor \in [Extractors -> Extractions]
    /\ \A x \in Extractors : extractor[x].fresh \cap extractor[x].found = {}
    /\ sources \in [IndicatorValues -> SUBSET Feeders] /\ met \in [IndicatorValues -> SUBSET Feeders]
    /\ feeder \in [Feeders -> Feedings]
    /\ crowded \subseteq EntityNames \cup IndicatorValues

(* A purge that has left its loops leaves no event of a purged class that was past its     *)
(* time when the purge began, however many batches it took and whoever else deletes        *)
(* (retention.py:67-77, 126-151).                                                          *)
PurgeEndsClean ==
    \A p \in Purges : purge[p].stage \in {"removing", "auditing", "done"} =>
        \A e \in StoredEvents, c \in DOMAIN ClassOrder : ~Expired(e, ClassOrder[c], purge[p].now)

(* A vector outlives its event only when a purge run was cut short, Qdrant refused the      *)
(* deletion, or the vector was put after the row had gone: a run that ends normally takes   *)
(* every vector of what it deleted (retention.py:80, 141, 184).                             *)
OrphansAreExplained ==
    \A e \in vectors : Stored(e) \/ e \in adrift \/ \E p \in Purges : e \in purge[p].ids

(* Without two executions handling it at once, an entity name has one row at most and an     *)
(* indicator keeps every source that met it (k8s_dispatch.py:84, ingest.py:338-342).         *)
UncrowdedUpsertsAreExact ==
    /\ \A n \in EntityNames \ crowded : entityRows[n] <= 1
    /\ \A i \in IndicatorValues \ crowded : sources[i] = met[i]

(* NOT properties of this code (see README). *)
VectorsFollowEvents == \A e \in vectors : Stored(e) \/ \E p \in Purges : e \in purge[p].ids
EntitiesUnique == \A n \in EntityNames : entityRows[n] <= 1
==================================================================================
