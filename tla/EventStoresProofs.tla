------------------------- MODULE EventStoresProofs -------------------------
(***************************************************************************)
(* Proofs about EventStores: retention, vectors, entities and indicators,  *)
(* for every number of events, executions, classes and units of time.      *)
(***************************************************************************)
EXTENDS EventStores, TLAPS

(* Expired, of an event that was ingested at b[e]. *)
PastDue(b, e, class, now) == b[e] > 0 /\ RetentionOf[e] = class /\ b[e] < now - KeepFor[class]

(* A run began in the past, holds ids only while it deletes, and has left     *)
(* nothing in the classes that it is done with.                               *)
RunFits(q, b, a) ==
    /\ q.now <= a
    /\ q.stage \notin {"purging", "removing"} => q.ids = {}
    /\ \A e \in StoredEvents, c \in DOMAIN ClassOrder :
          (q.stage = "purging" /\ c < q.class) \/ q.stage \in {"removing", "auditing", "done"}
             => ~PastDue(b, e, ClassOrder[c], q.now)

RetentionInv == OrphansAreExplained /\ \A p \in Purges : RunFits(purge[p], born, age)

(* An extraction holds names only while it links, each in one of its sets.    *)
ExtractionFits(r) ==
    /\ r.stage = "linking" => r.event \in StoredEvents
    /\ r.stage # "linking" => r.todo = {} /\ r.fresh = {} /\ r.found = {}
    /\ r.todo \cap (r.fresh \cup r.found) = {} /\ r.fresh \cap r.found = {}

(* A name that no two extractions handled at once has no row as long as one   *)
(* of them is about to insert it.                                             *)
EntityInv ==
    /\ \A x \in Extractors : ExtractionFits(extractor[x])
    /\ \A n \in EntityNames \ crowded :
          /\ entityRows[n] <= 1
          /\ \A x \in Extractors : HandlesName(x, n) =>
                entityRows[n] = 0 /\ \A y \in Extractors : HandlesName(y, n) => x = y

Reads(f, i) == feeder[f].stage = "read" /\ feeder[f].value = i

(* The one item that handles an uncrowded indicator holds its sources as they *)
(* are.                                                                       *)
IndicatorInv ==
    /\ \A f \in Feeders : feeder[f].stage = "read" => feeder[f].value \in IndicatorValues
    /\ \A i \in IndicatorValues \ crowded :
          /\ sources[i] = met[i]
          /\ \A f \in Feeders : Reads(f, i) =>
                feeder[f].copy = sources[i] /\ \A g \in Feeders : Reads(g, i) => f = g

StoreInv == StoreTypeOK /\ RetentionInv /\ EntityInv /\ IndicatorInv

-----------------------------------------------------------------------------
(* Records, and one field of them changed *)

LEMMA PurgeEdit ==
    ASSUME NEW q \in PurgeRuns
    PROVE  /\ \A s \in {"queued", "purging", "removing", "auditing", "done", "failed"} :
                 [q EXCEPT !.stage = s] \in PurgeRuns
           /\ \A c \in 1 .. Len(ClassOrder) : [q EXCEPT !.class = c] \in PurgeRuns
           /\ \A n \in 0 .. MaxAge : [q EXCEPT !.now = n] \in PurgeRuns
           /\ \A ids \in SUBSET StoredEvents : [q EXCEPT !.ids = ids] \in PurgeRuns
           /\ \A t \in 0 .. MaxPurgeTries : [q EXCEPT !.tries = t] \in PurgeRuns
  BY DEF PurgeRuns

LEMMA PurgeFields ==
    ASSUME NEW q \in PurgeRuns
    PROVE  /\ q.stage \in {"queued", "purging", "removing", "auditing", "done", "failed"}
           /\ q.class \in 1 .. Len(ClassOrder) /\ q.now \in 0 .. MaxAge
           /\ q.ids \in SUBSET StoredEvents /\ q.tries \in 0 .. MaxPurgeTries
  BY DEF PurgeRuns

LEMMA ExtractionEdit ==
    ASSUME NEW r \in Extractions
    PROVE  /\ \A s \in {"queued", "linking", "done", "failed"} : [r EXCEPT !.stage = s] \in Extractions
           /\ \A e \in StoredEvents : [r EXCEPT !.event = e] \in Extractions
           /\ \A names \in SUBSET EntityNames : /\ [r EXCEPT !.todo = names] \in Extractions
                                                /\ [r EXCEPT !.fresh = names] \in Extractions
                                                /\ [r EXCEPT !.found = names] \in Extractions
           /\ \A t \in 0 .. MaxExtractTries : [r EXCEPT !.tries = t] \in Extractions
  BY DEF Extractions

LEMMA ExtractionFields ==
    ASSUME NEW r \in Extractions
    PROVE  /\ r.stage \in {"queued", "linking", "done", "failed"}
           /\ r.event \in StoredEvents \cup {0}
           /\ r.todo \in SUBSET EntityNames /\ r.fresh \in SUBSET EntityNames
           /\ r.found \in SUBSET EntityNames /\ r.tries \in 0 .. MaxExtractTries
  BY DEF Extractions

LEMMA FeedingFields ==
    ASSUME NEW r \in Feedings
    PROVE  /\ r.stage \in {"queued", "read", "done"}
           /\ r.value \in IndicatorValues \cup {0} /\ r.copy \in SUBSET Feeders
  BY DEF Feedings

LEMMA Constants ==
    /\ MaxAge \in Nat \ {0} /\ MaxPurgeTries \in Nat /\ MaxExtractTries \in Nat
    /\ Len(ClassOrder) \in Nat /\ Len(ClassOrder) >= 1
    /\ DOMAIN ClassOrder = 1 .. Len(ClassOrder)
    /\ \A c \in DOMAIN ClassOrder : KeepFor[ClassOrder[c]] \in Nat
  <1>1. ClassOrder \in Seq(DOMAIN KeepFor) /\ ClassOrder # <<>>
    BY StoreAssumption
  <1>2. DOMAIN ClassOrder = 1 .. Len(ClassOrder) /\ Len(ClassOrder) \in Nat
        /\ \A c \in 1 .. Len(ClassOrder) : ClassOrder[c] \in DOMAIN KeepFor
    BY <1>1
  <1>3. Len(ClassOrder) # 0
    BY <1>1
  <1> QED
    BY <1>2, <1>3, StoreAssumption

LEMMA InitInv == StoreInit => StoreInv
  <1> SUFFICES ASSUME StoreInit PROVE StoreInv
    OBVIOUS
  <1>1. 1 \in 1 .. Len(ClassOrder) /\ 0 \in 0 .. MaxAge /\ 0 \in 0 .. MaxPurgeTries
        /\ 0 \in 0 .. MaxExtractTries /\ 1 \in 1 .. MaxAge /\ 0 \in Deleted .. MaxAge /\ 0 <= 1
    BY Constants DEF Deleted
  <1>2. StoreTypeOK
    <2>1. purge \in [Purges -> PurgeRuns]
      BY <1>1 DEF StoreInit, PurgeRuns
    <2>2. extractor \in [Extractors -> Extractions]
      BY <1>1 DEF StoreInit, Extractions
    <2>3. feeder \in [Feeders -> Feedings]
      BY DEF StoreInit, Feedings
    <2> QED
      BY <1>1, <2>1, <2>2, <2>3 DEF StoreInit, StoreTypeOK
  <1>3. RetentionInv
    BY <1>1 DEF StoreInit, RetentionInv, OrphansAreExplained, RunFits
  <1>4. EntityInv
    BY DEF StoreInit, EntityInv, ExtractionFits, HandlesName
  <1>5. IndicatorInv
    BY DEF StoreInit, IndicatorInv, Reads
  <1> QED
    BY <1>2, <1>3, <1>4, <1>5 DEF StoreInv

-----------------------------------------------------------------------------
(* Retention *)

(* A step that leaves entities and indicators alone keeps their invariants.   *)
LEMMA KnowledgeStays ==
    ASSUME EntityInv, IndicatorInv, UNCHANGED <<entityRows, extractor, indicatorVars, crowded>>
    PROVE  EntityInv' /\ IndicatorInv'
  <1>1. EntityInv'
    BY DEF EntityInv, ExtractionFits, HandlesName
  <1>2. IndicatorInv'
    BY DEF IndicatorInv, Reads, indicatorVars
  <1> QED
    BY <1>1, <1>2

(* A run moves on by itself: it may drop vectors, and what it forgets of the  *)
(* others is adrift.                                                          *)
LEMMA RunMoves ==
    ASSUME StoreInv, NEW p \in Purges, NEW q \in PurgeRuns, RunFits(q, born, age),
           purge' = [purge EXCEPT ![p] = q],
           vectors' \subseteq vectors, adrift \subseteq adrift', adrift' \subseteq StoredEvents,
           \A e \in vectors' \cap purge[p].ids : e \in adrift' \cup q.ids,
           UNCHANGED <<age, born, vectorizer, entityVars, indicatorVars, crowded>>
    PROVE  StoreInv'
  <1>1. StoreTypeOK'
    BY DEF StoreInv, StoreTypeOK, entityVars, indicatorVars
  <1>2. \A r \in Purges : purge'[r] = IF r = p THEN q ELSE purge[r]
    BY DEF StoreInv, StoreTypeOK
  <1>3. OrphansAreExplained'
    BY <1>2 DEF StoreInv, RetentionInv, OrphansAreExplained, Stored
  <1>4. RetentionInv'
    <2>1. \A r \in Purges : RunFits(purge[r], born, age)
      BY DEF StoreInv, RetentionInv
    <2>2. \A r \in Purges : RunFits(purge'[r], born', age')
      BY <1>2, <2>1
    <2> QED
      BY <1>3, <2>2 DEF RetentionInv
  <1> QED
    BY <1>1, <1>4, KnowledgeStays DEF StoreInv, entityVars

(* Time passes and events arrive: neither makes an event past due for a run   *)
(* that has begun.                                                            *)
LEMMA TimeStep ==
    ASSUME StoreInv, Ages \/ \E e \in StoredEvents : Arrives(e)
    PROVE  StoreInv'
  <1>1. /\ UNCHANGED <<vectors, purge, vectorizer, adrift, entityVars, indicatorVars, crowded>>
        /\ age \in 1 .. MaxAge /\ age' \in 1 .. MaxAge /\ age <= age'
        /\ born \in [StoredEvents -> Deleted .. MaxAge]
        /\ born' \in [StoredEvents -> Deleted .. MaxAge]
        /\ \A e \in StoredEvents : born'[e] = born[e] \/ (born[e] = 0 /\ born'[e] = age)
    <2>1. age \in 1 .. MaxAge /\ age \in Deleted .. MaxAge /\ age <= age
      BY Constants DEF StoreInv, StoreTypeOK, Deleted
    <2>2. CASE Ages
      <3>1. age' \in 1 .. MaxAge /\ age <= age'
        BY <2>1, <2>2, Constants DEF Ages
      <3> QED
        BY <2>1, <2>2, <3>1 DEF Ages, StoreInv, StoreTypeOK
    <2>3. ASSUME NEW e \in StoredEvents, Arrives(e) 
          PROVE  /\ UNCHANGED <<vectors, purge, vectorizer, adrift, entityVars, indicatorVars, crowded>>
                 /\ age' = age /\ born' \in [StoredEvents -> Deleted .. MaxAge]
                 /\ \A d \in StoredEvents : born'[d] = born[d] \/ (born[d] = 0 /\ born'[d] = age)
      BY <2>1, <2>3 DEF Arrives, StoreInv, StoreTypeOK
    <2> QED
      BY <2>1, <2>2, <2>3 DEF StoreInv, StoreTypeOK
  <1>2. StoreTypeOK'
    BY <1>1 DEF StoreInv, StoreTypeOK, entityVars, indicatorVars
  <1>3. OrphansAreExplained'
    BY <1>1 DEF StoreInv, StoreTypeOK, RetentionInv, OrphansAreExplained, Stored
  <1>4. ASSUME NEW p \in Purges PROVE RunFits(purge[p], born', age')
    <2> DEFINE q == purge[p]
    <2>1. q \in PurgeRuns /\ RunFits(q, born, age)
      BY DEF StoreInv, StoreTypeOK, RetentionInv
    <2>2. q.now \in 0 .. MaxAge
      BY <2>1, PurgeFields
    <2>3. q.now <= age /\ q.now <= age'
      BY <1>1, <2>1, <2>2 DEF RunFits
    <2>4. ASSUME NEW e \in StoredEvents, NEW c \in DOMAIN ClassOrder,
                 ~PastDue(born, e, ClassOrder[c], q.now)
          PROVE  ~PastDue(born', e, ClassOrder[c], q.now)
      <3>1. KeepFor[ClassOrder[c]] \in Nat
        BY Constants
      <3> HIDE DEF q
      <3> QED
        BY <1>1, <2>2, <2>3, <2>4, <3>1 DEF PastDue
    <2> HIDE DEF q
    <2>5. RunFits(q, born', age')
      BY <2>1, <2>3, <2>4 DEF RunFits
    <2> QED
      BY <2>5 DEF q
  <1>5. RetentionInv'
    BY <1>1, <1>3, <1>4 DEF RetentionInv
  <1> QED
    BY <1>1, <1>2, <1>5, KnowledgeStays DEF StoreInv, entityVars

LEMMA VectorStep ==
    ASSUME StoreInv, NEW v \in Vectorizers,
           VectorizeRead(v) \/ VectorizePut(v) \/ VectorizeFails(v)
    PROVE  StoreInv'
  <1>1. /\ UNCHANGED <<age, born, purge, entityVars, indicatorVars, crowded>>
        /\ vectorizer' \in [Vectorizers -> StoredEvents \cup {"queued", "done"}]
        /\ vectors' \subseteq StoredEvents /\ adrift' \subseteq StoredEvents
        /\ adrift \subseteq adrift'
        /\ \A e \in vectors' : e \in vectors \/ Stored(e) \/ e \in adrift'
    BY DEF VectorizeRead, VectorizePut, VectorizeFails, StoreInv, StoreTypeOK
  <1>2. StoreTypeOK'
    BY <1>1 DEF StoreInv, StoreTypeOK, entityVars, indicatorVars
  <1>3. OrphansAreExplained'
    BY <1>1 DEF StoreInv, RetentionInv, OrphansAreExplained, Stored
  <1>4. RetentionInv'
    BY <1>1, <1>3 DEF StoreInv, RetentionInv
  <1> QED
    BY <1>1, <1>2, <1>4, KnowledgeStays DEF StoreInv, entityVars

LEMMA PurgeStartStep ==
    ASSUME StoreInv, NEW p \in Purges, PurgeStart(p)
    PROVE  StoreInv'
  <1> DEFINE q0 == purge[p]
             q1 == [q0 EXCEPT !.stage = "purging"]
             q2 == [q1 EXCEPT !.now = age]
             q3 == [q2 EXCEPT !.class = 1]
             q  == [q3 EXCEPT !.ids = {}]
  <1>1. q0 \in PurgeRuns /\ q0.stage = "queued" /\ RunFits(q0, born, age)
        /\ age \in 0 .. MaxAge /\ age \in Nat /\ 1 \in 1 .. Len(ClassOrder)
        /\ adrift \subseteq StoredEvents
    BY Constants DEF StoreInv, StoreTypeOK, RetentionInv, PurgeStart
  <1>2. purge' = [purge EXCEPT ![p] = q]
    BY <1>1 DEF PurgeStart, StoreInv, StoreTypeOK, PurgeRuns
  <1>3. q \in PurgeRuns
    <2>1. q1 \in PurgeRuns
      BY <1>1, PurgeEdit
    <2> HIDE DEF q1
    <2>2. q2 \in PurgeRuns
      BY <1>1, <2>1, PurgeEdit
    <2> HIDE DEF q2
    <2>3. q3 \in PurgeRuns
      BY <1>1, <2>2, PurgeEdit
    <2> HIDE DEF q3
    <2> QED
      BY <2>3, PurgeEdit
  <1>4. q.stage = "purging" /\ q.now = age /\ q.class = 1 /\ q.ids = {}
    BY <1>1 DEF PurgeRuns
  <1>5. q0.ids = {}
    BY <1>1 DEF RunFits
  <1> HIDE DEF q
  <1>6. RunFits(q, born, age)
    BY <1>1, <1>4, Constants DEF RunFits
  <1> QED
    BY <1>1, <1>2, <1>3, <1>5, <1>6, RunMoves DEF PurgeStart

LEMMA NextClassStep ==
    ASSUME StoreInv, NEW p \in Purges, NextClass(p)
    PROVE  StoreInv'
  <1> DEFINE q0 == purge[p]
  <1>1. /\ q0 \in PurgeRuns /\ q0.stage = "purging" /\ RunFits(q0, born, age)
        /\ q0.class \in 1 .. Len(ClassOrder) /\ adrift \subseteq StoredEvents
        /\ \A e \in StoredEvents : ~PastDue(born, e, ClassOrder[q0.class], q0.now)
    BY PurgeFields DEF StoreInv, StoreTypeOK, RetentionInv, NextClass, ClassDone, ExpiredOf,
                       Expired, Stored, PastDue
  <1>2. \A c \in DOMAIN ClassOrder : c \in Nat /\ c <= Len(ClassOrder)
    BY Constants
  <1>3. Len(ClassOrder) \in Nat
    BY Constants
  <1>4. CASE q0.class < Len(ClassOrder)
    <2> DEFINE q == [q0 EXCEPT !.class = q0.class + 1]
    <2>1. purge' = [purge EXCEPT ![p] = q]
      BY <1>1, <1>4 DEF NextClass, StoreInv, StoreTypeOK, PurgeRuns
    <2>2. q0.class + 1 \in 1 .. Len(ClassOrder)
      BY <1>1, <1>3, <1>4
    <2>3. q \in PurgeRuns
      BY <1>1, <2>2, PurgeEdit
    <2>4. q.stage = "purging" /\ q.now = q0.now /\ q.class = q0.class + 1 /\ q.ids = q0.ids
      BY <1>1 DEF PurgeRuns
    <2> HIDE DEF q
    <2>5. RunFits(q, born, age)
      <3>1. \A c \in DOMAIN ClassOrder : c < q.class => c < q0.class \/ c = q0.class
        BY <1>1, <1>2, <2>4
      <3> QED
        BY <1>1, <2>4, <3>1 DEF RunFits
    <2> QED
      BY <1>1, <2>1, <2>3, <2>4, <2>5, RunMoves DEF NextClass
  <1>5. CASE ~(q0.class < Len(ClassOrder))
    <2> DEFINE q == [q0 EXCEPT !.stage = "removing"]
    <2>1. purge' = [purge EXCEPT ![p] = q]
      BY <1>1, <1>5 DEF NextClass, StoreInv, StoreTypeOK, PurgeRuns
    <2>2. q \in PurgeRuns
      BY <1>1, PurgeEdit
    <2>3. q.stage = "removing" /\ q.now = q0.now /\ q.ids = q0.ids
      BY <1>1 DEF PurgeRuns
    <2> HIDE DEF q
    <2>4. RunFits(q, born, age)
      <3>1. \A c \in DOMAIN ClassOrder : c < q0.class \/ c = q0.class
        BY <1>1, <1>2, <1>3, <1>5
      <3> QED
        BY <1>1, <2>3, <3>1 DEF RunFits
    <2> QED
      BY <1>1, <2>1, <2>2, <2>3, <2>4, RunMoves DEF NextClass
  <1> QED
    BY <1>4, <1>5

LEMMA RemoveVectorsStep ==
    ASSUME StoreInv, NEW p \in Purges, RemoveVectors(p)
    PROVE  StoreInv'
  <1> DEFINE q0 == purge[p]
             q1 == [q0 EXCEPT !.stage = "auditing"]
             q  == [q1 EXCEPT !.ids = {}]
  <1>1. q0 \in PurgeRuns /\ q0.stage = "removing" /\ RunFits(q0, born, age)
        /\ q0.ids \subseteq StoredEvents /\ adrift \subseteq StoredEvents
    BY PurgeFields DEF StoreInv, StoreTypeOK, RetentionInv, RemoveVectors
  <1>2. purge' = [purge EXCEPT ![p] = q]
    BY <1>1 DEF RemoveVectors, StoreInv, StoreTypeOK, PurgeRuns
  <1>3. q \in PurgeRuns
    <2>1. q1 \in PurgeRuns
      BY <1>1, PurgeEdit
    <2> HIDE DEF q1
    <2> QED
      BY <2>1, PurgeEdit
  <1>4. q.stage = "auditing" /\ q.now = q0.now /\ q.ids = {}
    BY <1>1 DEF PurgeRuns
  <1> HIDE DEF q
  <1>5. RunFits(q, born, age)
    BY <1>1, <1>4 DEF RunFits
  <1>6. /\ vectors' \subseteq vectors /\ adrift \subseteq adrift' /\ adrift' \subseteq StoredEvents
        /\ \A e \in vectors' \cap purge[p].ids : e \in adrift'
    BY <1>1 DEF RemoveVectors
  <1> QED
    BY <1>2, <1>3, <1>5, <1>6, RunMoves DEF RemoveVectors

LEMMA AuditStep ==
    ASSUME StoreInv, NEW p \in Purges, Audit(p)
    PROVE  StoreInv'
  <1> DEFINE q0 == purge[p]
             q  == [q0 EXCEPT !.stage = "done"]
  <1>1. q0 \in PurgeRuns /\ q0.stage = "auditing" /\ RunFits(q0, born, age)
        /\ adrift \subseteq StoredEvents
    BY DEF StoreInv, StoreTypeOK, RetentionInv, Audit
  <1>2. purge' = [purge EXCEPT ![p] = q]
    BY <1>1 DEF Audit, StoreInv, StoreTypeOK, PurgeRuns
  <1>3. q \in PurgeRuns
    BY <1>1, PurgeEdit
  <1>4. q.stage = "done" /\ q.now = q0.now /\ q.ids = q0.ids
    BY <1>1 DEF PurgeRuns
  <1> HIDE DEF q
  <1>5. RunFits(q, born, age)
    BY <1>1, <1>4 DEF RunFits
  <1> QED
    BY <1>1, <1>2, <1>3, <1>4, <1>5, RunMoves DEF Audit

LEMMA PurgeAgainStep ==
    ASSUME StoreInv, NEW p \in Purges, PurgeAgain(p)
    PROVE  StoreInv'
  <1> DEFINE q0 == purge[p]
  <1>1. /\ q0 \in PurgeRuns /\ RunFits(q0, born, age)
        /\ q0.ids \subseteq StoredEvents /\ adrift \subseteq StoredEvents
        /\ q0.tries \in 0 .. MaxPurgeTries /\ MaxPurgeTries \in Nat
    BY PurgeFields, Constants DEF StoreInv, StoreTypeOK, RetentionInv
  <1>2. /\ adrift \subseteq adrift' /\ adrift' \subseteq StoredEvents
        /\ vectors' = vectors
        /\ \A e \in vectors' \cap purge[p].ids : e \in adrift'
    BY <1>1 DEF PurgeAgain
  <1>3. \E q \in PurgeRuns : /\ q.stage \in {"queued", "failed"} /\ q.now = q0.now /\ q.ids = {}
                             /\ purge' = [purge EXCEPT ![p] = q]
    <2> DEFINE q1(s) == [q0 EXCEPT !.stage = s]
               q2(s) == [q1(s) EXCEPT !.ids = {}]
               q3 == [q2("queued") EXCEPT !.tries = q0.tries + 1]
    <2>1. ASSUME NEW s \in {"queued", "failed"} PROVE q2(s) \in PurgeRuns
      <3>1. q1(s) \in PurgeRuns
        BY <1>1, PurgeEdit
      <3> HIDE DEF q1
      <3> QED
        BY <3>1, PurgeEdit
    <2>2. CASE q0.tries < MaxPurgeTries
      <3>1. q0.tries + 1 \in 0 .. MaxPurgeTries
        BY <1>1, <2>2
      <3>2. q3 \in PurgeRuns
        <4> HIDE DEF q2
        <4> QED
          BY <2>1, <3>1, PurgeEdit
      <3>3. q3.stage = "queued" /\ q3.now = q0.now /\ q3.ids = {}
        BY <1>1 DEF PurgeRuns
      <3>4. purge' = [purge EXCEPT ![p] = q3]
        BY <1>1, <2>2 DEF PurgeAgain, StoreInv, StoreTypeOK, PurgeRuns
      <3> HIDE DEF q3
      <3> QED
        BY <3>2, <3>3, <3>4
    <2>3. CASE ~(q0.tries < MaxPurgeTries)
      <3>1. q2("failed").stage = "failed" /\ q2("failed").now = q0.now /\ q2("failed").ids = {}
        BY <1>1 DEF PurgeRuns
      <3>2. purge' = [purge EXCEPT ![p] = q2("failed")]
        BY <1>1, <2>3 DEF PurgeAgain, StoreInv, StoreTypeOK, PurgeRuns
      <3>3. q2("failed") \in PurgeRuns
        BY <2>1
      <3> HIDE DEF q2
      <3> QED
        BY <3>1, <3>2, <3>3
    <2> QED
      BY <2>2, <2>3
  <1>4. PICK q \in PurgeRuns : /\ q.stage \in {"queued", "failed"} /\ q.now = q0.now /\ q.ids = {}
                               /\ purge' = [purge EXCEPT ![p] = q]
    BY <1>3
  <1>5. RunFits(q, born, age)
    BY <1>1, <1>4 DEF RunFits
  <1> QED
    BY <1>1, <1>2, <1>4, <1>5, RunMoves DEF PurgeAgain

(* A batch is deleted: its vectors are explained by the ids that the run now  *)
(* holds, and fewer events are left to be past due.                           *)
LEMMA PurgeBatchStep ==
    ASSUME StoreInv, NEW p \in Purges, PurgeBatch(p)
    PROVE  StoreInv'
  <1> DEFINE q0 == purge[p]
  <1>1. PICK batch \in SUBSET ExpiredOf(p) :
           /\ born' = [e \in StoredEvents |-> IF e \in batch THEN Deleted ELSE born[e]]
           /\ links' = [e \in StoredEvents |-> IF e \in batch THEN {} ELSE links[e]]
           /\ purge' = [purge EXCEPT ![p].ids = Collected(p, batch)]
    BY DEF PurgeBatch
  <1>2. /\ q0 \in PurgeRuns /\ q0.stage = "purging" /\ q0.ids \subseteq StoredEvents
        /\ batch \subseteq StoredEvents
        /\ UNCHANGED <<age, vectors, vectorizer, adrift, entityRows, extractor, indicatorVars, crowded>>
    BY PurgeFields DEF PurgeBatch, StoreInv, StoreTypeOK, ExpiredOf
  <1> DEFINE q == [q0 EXCEPT !.ids = q0.ids \cup batch]
  <1>3. purge' = [purge EXCEPT ![p] = q]
    BY <1>1, <1>2 DEF Collected, StoreInv, StoreTypeOK, PurgeRuns
  <1>4. q \in PurgeRuns
    BY <1>2, PurgeEdit
  <1>5. q.stage = "purging" /\ q.now = q0.now /\ q.class = q0.class /\ q.ids = q0.ids \cup batch
    BY <1>2 DEF PurgeRuns
  <1> HIDE DEF q
  <1>6. /\ born' \in [StoredEvents -> Deleted .. MaxAge]
        /\ \A e \in StoredEvents : born'[e] = born[e] \/ (born'[e] = Deleted /\ e \in batch)
    <2>1. Deleted \in Deleted .. MaxAge
      BY Constants DEF Deleted
    <2> QED
      BY <1>1, <2>1 DEF StoreInv, StoreTypeOK
  <1>7. StoreTypeOK'
    BY <1>1, <1>2, <1>3, <1>4, <1>6 DEF StoreInv, StoreTypeOK, indicatorVars
  <1>8. \A r \in Purges : purge'[r] = IF r = p THEN q ELSE purge[r]
    BY <1>3 DEF StoreInv, StoreTypeOK
  <1>9. OrphansAreExplained'
    BY <1>2, <1>5, <1>6, <1>8 DEF StoreInv, StoreTypeOK, RetentionInv, OrphansAreExplained, Stored
  <1>10. ASSUME NEW r \in Purges PROVE RunFits(purge'[r], born', age')
    <2> DEFINE s == purge'[r]
               t == purge[r]
    <2>1. s.now = t.now /\ s.stage = t.stage /\ s.class = t.class
          /\ (s.stage # "purging" => s.ids = t.ids)
      BY <1>2, <1>5, <1>8
    <2>2. RunFits(t, born, age)
      BY DEF StoreInv, RetentionInv
    <2> HIDE DEF s, t
    <2>3. \A e \in StoredEvents, c \in DOMAIN ClassOrder :
             ~PastDue(born, e, ClassOrder[c], t.now) => ~PastDue(born', e, ClassOrder[c], t.now)
      BY <1>6 DEF PastDue, Deleted
    <2>4. RunFits(s, born', age')
      BY <1>2, <2>1, <2>2, <2>3 DEF RunFits
    <2> QED
      BY <2>4 DEF s
  <1>11. RetentionInv'
    BY <1>9, <1>10 DEF RetentionInv
  <1> QED
    BY <1>2, <1>7, <1>11, KnowledgeStays DEF StoreInv

(* The purge, the arrivals and the vectors.                                   *)
LEMMA PurgeKeepsInv ==
    ASSUME StoreInv, PurgeNext
    PROVE  StoreInv'
  BY TimeStep, VectorStep, PurgeStartStep, NextClassStep, RemoveVectorsStep, AuditStep,
     PurgeAgainStep, PurgeBatchStep DEF PurgeNext

-----------------------------------------------------------------------------
(* Entities *)

LEMMA RetentionStays ==
    ASSUME RetentionInv, UNCHANGED purgeVars
    PROVE  RetentionInv'
  <1>1. OrphansAreExplained'
    BY DEF RetentionInv, OrphansAreExplained, Stored, purgeVars
  <1> QED
    BY <1>1 DEF RetentionInv, purgeVars

LEMMA IndicatorsStay ==
    ASSUME IndicatorInv, UNCHANGED indicatorVars, crowded \subseteq crowded'
    PROVE  IndicatorInv'
  BY DEF IndicatorInv, Reads, indicatorVars

(* An extraction that takes up no new row: the others are as they were, and   *)
(* its own names are in one set each.                                         *)
LEMMA ExtractionMoves ==
    ASSUME StoreInv, NEW x \in Extractors, NEW r \in Extractions, ExtractionFits(r),
           extractor' = [extractor EXCEPT ![x] = r],
           r.stage = "linking" => r.fresh \subseteq extractor[x].fresh,
           UNCHANGED <<purgeVars, entityRows, links, indicatorVars, crowded>>
    PROVE  StoreInv'
  <1>1. \A y \in Extractors : extractor'[y] = IF y = x THEN r ELSE extractor[y]
    BY DEF StoreInv, StoreTypeOK
  <1>2. \A y \in Extractors : ExtractionFits(extractor'[y]) 
    BY <1>1 DEF StoreInv, EntityInv
  <1>3. StoreTypeOK'
    BY <1>1, <1>2 DEF StoreInv, StoreTypeOK, purgeVars, indicatorVars, ExtractionFits
  <1>4. \A y \in Extractors, n \in EntityNames : HandlesName(y, n)' => HandlesName(y, n)
    BY <1>1 DEF HandlesName, StoreInv, EntityInv, ExtractionFits
  <1>5. EntityInv'
    BY <1>2, <1>4 DEF StoreInv, EntityInv, ExtractionFits
  <1> QED
    BY <1>3, <1>5, RetentionStays, IndicatorsStay DEF StoreInv

LEMMA ExtractReadStep ==
    ASSUME StoreInv, NEW x \in Extractors, NEW e \in StoredEvents, NEW names \in SUBSET EntityNames,
           ExtractRead(x, e, names)
    PROVE  StoreInv'
  <1> DEFINE r0 == extractor[x]
  <1>1. r0 \in Extractions /\ r0.stage = "queued" /\ ExtractionFits(r0)
    BY DEF StoreInv, StoreTypeOK, EntityInv, ExtractRead
  <1>2. r0.todo = {} /\ r0.fresh = {} /\ r0.found = {}
    BY <1>1 DEF ExtractionFits
  <1>3. CASE ~Stored(e)
    <2> DEFINE r == [r0 EXCEPT !.stage = "done"]
    <2>1. r \in Extractions
      BY <1>1, ExtractionEdit
    <2>2. r.stage = "done" /\ r.todo = {} /\ r.fresh = {} /\ r.found = {}
      BY <1>1, <1>2 DEF Extractions
    <2>3. extractor' = [extractor EXCEPT ![x] = r]
      BY <1>1, <1>3 DEF ExtractRead, StoreInv, StoreTypeOK, Extractions
    <2> HIDE DEF r
    <2>4. ExtractionFits(r)
      BY <2>2 DEF ExtractionFits
    <2> QED
      BY <2>1, <2>2, <2>3, <2>4, ExtractionMoves DEF ExtractRead
  <1>4. CASE Stored(e)
    <2> DEFINE r1 == [r0 EXCEPT !.stage = "linking"]
               r2 == [r1 EXCEPT !.event = e]
               r  == [r2 EXCEPT !.todo = names]
    <2>1. r \in Extractions
      <3>1. r1 \in Extractions
        BY <1>1, ExtractionEdit
      <3> HIDE DEF r1
      <3>2. r2 \in Extractions
        BY <3>1, ExtractionEdit
      <3> HIDE DEF r2
      <3> QED
        BY <3>2, ExtractionEdit
    <2>2. r.stage = "linking" /\ r.event = e /\ r.todo = names /\ r.fresh = {} /\ r.found = {}
      BY <1>1, <1>2 DEF Extractions
    <2>3. extractor' = [extractor EXCEPT ![x] = r]
      BY <1>1, <1>4 DEF ExtractRead, StoreInv, StoreTypeOK, Extractions
    <2> HIDE DEF r
    <2>4. ExtractionFits(r)
      BY <2>2 DEF ExtractionFits
    <2> QED
      BY <2>1, <2>2, <2>3, <2>4, ExtractionMoves DEF ExtractRead
  <1> QED
    BY <1>3, <1>4

(* An execution that ends or starts again forgets its names.                  *)
LEMMA ExtractorForgets ==
    ASSUME StoreInv, NEW x \in Extractors, NEW s \in {"queued", "done", "failed"}
    PROVE  \E r \in Extractions :
              /\ r.stage = s /\ r.todo = {} /\ r.fresh = {} /\ r.found = {}
              /\ r.tries = extractor[x].tries
              /\ ExtractorLeaves(x, s) = [extractor EXCEPT ![x] = r]
  <1> DEFINE r0 == extractor[x]
             r1 == [r0 EXCEPT !.stage = s]
             r2 == [r1 EXCEPT !.todo = {}]
             r3 == [r2 EXCEPT !.fresh = {}]
             r  == [r3 EXCEPT !.found = {}]
  <1>1. r0 \in Extractions /\ extractor \in [Extractors -> Extractions]
    BY DEF StoreInv, StoreTypeOK
  <1>2. r \in Extractions
    <2>1. r1 \in Extractions
      BY <1>1, ExtractionEdit
    <2> HIDE DEF r1
    <2>2. r2 \in Extractions
      BY <2>1, ExtractionEdit
    <2> HIDE DEF r2
    <2>3. r3 \in Extractions
      BY <2>2, ExtractionEdit
    <2> HIDE DEF r3
    <2> QED
      BY <2>3, ExtractionEdit
  <1>3. r.stage = s /\ r.todo = {} /\ r.fresh = {} /\ r.found = {} /\ r.tries = r0.tries
    BY <1>1 DEF Extractions
  <1>4. ExtractorLeaves(x, s) = [extractor EXCEPT ![x] = r]
    BY <1>1 DEF ExtractorLeaves, Extractions
  <1> HIDE DEF r
  <1> QED
    BY <1>2, <1>3, <1>4

LEMMA ExtractAgainStep ==
    ASSUME StoreInv, NEW x \in Extractors, ExtractAgain(x)
    PROVE  StoreInv'
  <1>1. extractor \in [Extractors -> Extractions] /\ extractor[x].tries \in 0 .. MaxExtractTries
        /\ MaxExtractTries \in Nat
    BY ExtractionFields, Constants DEF StoreInv, StoreTypeOK
  <1>2. CASE extractor[x].tries < MaxExtractTries
    <2>1. PICK r1 \in Extractions :
              /\ r1.stage = "queued" /\ r1.todo = {} /\ r1.fresh = {} /\ r1.found = {}
              /\ r1.tries = extractor[x].tries
              /\ ExtractorLeaves(x, "queued") = [extractor EXCEPT ![x] = r1]
      BY ExtractorForgets
    <2> DEFINE r == [r1 EXCEPT !.tries = r1.tries + 1]
    <2>2. r1.tries + 1 \in 0 .. MaxExtractTries
      BY <1>1, <1>2, <2>1
    <2>3. r \in Extractions
      BY <2>2, ExtractionEdit
    <2>4. r.stage = "queued" /\ r.todo = {} /\ r.fresh = {} /\ r.found = {}
      BY <2>1 DEF Extractions
    <2>5. extractor' = [extractor EXCEPT ![x] = r]
      BY <1>1, <1>2, <2>1 DEF ExtractAgain
    <2> HIDE DEF r
    <2>6. ExtractionFits(r)
      BY <2>4 DEF ExtractionFits
    <2> QED
      BY <2>3, <2>4, <2>5, <2>6, ExtractionMoves DEF ExtractAgain
  <1>3. CASE ~(extractor[x].tries < MaxExtractTries)
    <2>1. PICK r \in Extractions :
              /\ r.stage = "failed" /\ r.todo = {} /\ r.fresh = {} /\ r.found = {}
              /\ ExtractorLeaves(x, "failed") = [extractor EXCEPT ![x] = r]
      BY ExtractorForgets
    <2>2. extractor' = [extractor EXCEPT ![x] = r]
      BY <1>3, <2>1 DEF ExtractAgain
    <2>3. ExtractionFits(r)
      BY <2>1 DEF ExtractionFits
    <2> QED
      BY <2>1, <2>2, <2>3, ExtractionMoves DEF ExtractAgain
  <1> QED
    BY <1>2, <1>3

(* The look-up of a name: whoever takes it up as new is the only one, or the  *)
(* name is crowded from now on.                                               *)
LEMMA UpsertStep ==
    ASSUME StoreInv, NEW x \in Extractors, NEW n \in EntityNames, UpsertEntity(x, n)
    PROVE  StoreInv'
  <1> DEFINE r0 == extractor[x]
             new == entityRows[n] = 0
             r1 == [r0 EXCEPT !.todo = r0.todo \ {n}]
             r2 == [r1 EXCEPT !.fresh = IF new THEN r0.fresh \cup {n} ELSE r0.fresh]
             r  == [r2 EXCEPT !.found = IF new THEN r0.found ELSE r0.found \cup {n}]
  <1>1. /\ r0 \in Extractions /\ r0.stage = "linking" /\ ExtractionFits(r0) /\ n \in r0.todo
        /\ extractor \in [Extractors -> Extractions]
        /\ UNCHANGED <<purgeVars, entityRows, links, indicatorVars>>
    BY DEF StoreInv, StoreTypeOK, EntityInv, UpsertEntity
  <1>2. r0.todo \in SUBSET EntityNames /\ r0.fresh \in SUBSET EntityNames
        /\ r0.found \in SUBSET EntityNames
    BY <1>1, ExtractionFields
  <1>3. extractor' = [extractor EXCEPT ![x] = r]
    BY <1>1 DEF UpsertEntity, Extractions
  <1>4. r \in Extractions
    <2>1. r1 \in Extractions
      BY <1>1, <1>2, ExtractionEdit
    <2> HIDE DEF r1
    <2>2. (IF new THEN r0.fresh \cup {n} ELSE r0.fresh) \in SUBSET EntityNames
          /\ (IF new THEN r0.found ELSE r0.found \cup {n}) \in SUBSET EntityNames
      BY <1>2
    <2>3. r2 \in Extractions
      BY <2>1, <2>2, ExtractionEdit
    <2> HIDE DEF r2
    <2> QED
      BY <2>2, <2>3, ExtractionEdit
  <1>5. /\ r.stage = "linking" /\ r.event = r0.event /\ r.todo = r0.todo \ {n}
        /\ r.fresh = IF new THEN r0.fresh \cup {n} ELSE r0.fresh
        /\ r.found = IF new THEN r0.found ELSE r0.found \cup {n}
    BY <1>1 DEF Extractions
  <1> HIDE DEF r
  <1>6. ExtractionFits(r)
    BY <1>1, <1>5 DEF ExtractionFits
  <1>7. \A y \in Extractors : extractor'[y] = IF y = x THEN r ELSE extractor[y]
    BY <1>1, <1>3
  <1>8. \A y \in Extractors : ExtractionFits(extractor'[y])
    BY <1>6, <1>7 DEF StoreInv, EntityInv
  <1>9. crowded \subseteq crowded' /\ crowded' \subseteq EntityNames \cup IndicatorValues
    BY DEF UpsertEntity, StoreInv, StoreTypeOK
  <1>10. StoreTypeOK'
    BY <1>1, <1>3, <1>4, <1>8, <1>9 DEF StoreInv, StoreTypeOK, purgeVars, indicatorVars, ExtractionFits
  <1>11. ASSUME NEW m \in EntityNames \ crowded'
         PROVE  /\ entityRows'[m] <= 1
                /\ \A z \in Extractors : HandlesName(z, m)' =>
                      entityRows'[m] = 0 /\ \A y \in Extractors : HandlesName(y, m)' => z = y
    <2>1. m \in EntityNames \ crowded
      BY <1>9
    <2>2. /\ entityRows[m] <= 1
          /\ \A z \in Extractors : HandlesName(z, m) =>
                entityRows[m] = 0 /\ \A y \in Extractors : HandlesName(y, m) => z = y
      BY <2>1 DEF StoreInv, EntityInv
    <2>3. CASE m = n /\ new
      <3>1. \A y \in Extractors \ {x} : ~HandlesName(y, n)
        BY <2>3 DEF UpsertEntity
      <3> QED
        BY <1>1, <1>7, <2>2, <2>3, <3>1 DEF HandlesName
    <2>4. CASE ~(m = n /\ new)
      <3>1. \A y \in Extractors : HandlesName(y, m)' => HandlesName(y, m)
        BY <1>1, <1>5, <1>7, <2>4 DEF HandlesName
      <3> QED
        BY <1>1, <2>2, <3>1
    <2> QED
      BY <2>3, <2>4
  <1>12. EntityInv'
    BY <1>8, <1>11 DEF EntityInv, ExtractionFits
  <1> QED
    BY <1>1, <1>9, <1>10, <1>12, RetentionStays, IndicatorsStay DEF StoreInv

(* The new rows are inserted. Of an uncrowded name nobody else holds it as    *)
(* new, and the one who did has let it go.                                    *)
LEMMA ExtractCommitStep ==
    ASSUME StoreInv, NEW x \in Extractors, ExtractCommit(x)
    PROVE  StoreInv'
  <1> DEFINE r0 == extractor[x]
  <1>1. /\ r0 \in Extractions /\ r0.stage = "linking" /\ ExtractionFits(r0)
        /\ extractor \in [Extractors -> Extractions]
        /\ entityRows \in [EntityNames -> Nat] /\ links \in [StoredEvents -> SUBSET EntityNames]
        /\ UNCHANGED <<purgeVars, indicatorVars, crowded>>
    BY DEF StoreInv, StoreTypeOK, EntityInv, ExtractCommit
  <1>2. r0.event \in StoredEvents /\ r0.fresh \subseteq EntityNames /\ r0.found \subseteq EntityNames
    BY <1>1, ExtractionFields DEF ExtractionFits
  <1>3. PICK r \in Extractions :
              /\ r.stage = "done" /\ r.todo = {} /\ r.fresh = {} /\ r.found = {}
              /\ ExtractorLeaves(x, "done") = [extractor EXCEPT ![x] = r]
    BY ExtractorForgets
  <1>4. extractor' = [extractor EXCEPT ![x] = r]
    BY <1>3 DEF ExtractCommit
  <1>5. \A y \in Extractors : extractor'[y] = IF y = x THEN r ELSE extractor[y]
    BY <1>1, <1>4
  <1>6. /\ entityRows' \in [EntityNames -> Nat]
        /\ \A n \in EntityNames : entityRows'[n] = entityRows[n] + (IF n \in r0.fresh THEN 1 ELSE 0)
    BY <1>1 DEF ExtractCommit
  <1>7. links' \in [StoredEvents -> SUBSET EntityNames]
    BY <1>1, <1>2 DEF ExtractCommit
  <1>8. ExtractionFits(r)
    BY <1>3 DEF ExtractionFits
  <1>9. \A y \in Extractors : ExtractionFits(extractor'[y])
    BY <1>5, <1>8 DEF StoreInv, EntityInv
  <1>10. StoreTypeOK'
    BY <1>1, <1>4, <1>6, <1>7, <1>9 DEF StoreInv, StoreTypeOK, purgeVars, indicatorVars, ExtractionFits
  <1>11. \A y \in Extractors, n \in EntityNames : HandlesName(y, n)' => y # x /\ HandlesName(y, n)
    BY <1>3, <1>5 DEF HandlesName
  <1>12. ASSUME NEW n \in EntityNames \ crowded'
         PROVE  /\ entityRows'[n] <= 1
                /\ \A z \in Extractors : HandlesName(z, n)' =>
                      entityRows'[n] = 0 /\ \A y \in Extractors : HandlesName(y, n)' => z = y
    <2>1. /\ entityRows[n] <= 1 /\ entityRows[n] \in Nat
          /\ \A z \in Extractors : HandlesName(z, n) =>
                entityRows[n] = 0 /\ \A y \in Extractors : HandlesName(y, n) => z = y
      BY <1>1 DEF StoreInv, EntityInv
    <2>2. CASE n \in r0.fresh
      <3>1. HandlesName(x, n)
        BY <1>1, <2>2 DEF HandlesName
      <3> QED
        BY <1>6, <1>11, <2>1, <2>2, <3>1
    <2>3. CASE n \notin r0.fresh
      BY <1>6, <1>11, <2>1, <2>3
    <2> QED
      BY <2>2, <2>3
  <1>13. EntityInv'
    BY <1>9, <1>12 DEF EntityInv, ExtractionFits
  <1> QED
    BY <1>1, <1>10, <1>13, RetentionStays, IndicatorsStay DEF StoreInv

-----------------------------------------------------------------------------
(* Indicators *)

LEMMA EntitiesStay ==
    ASSUME EntityInv, UNCHANGED <<entityRows, extractor>>, crowded \subseteq crowded'
    PROVE  EntityInv'
  <1>1. \A x \in Extractors : ExtractionFits(extractor[x])'
    BY DEF EntityInv, ExtractionFits
  <1>2. \A x \in Extractors, n \in EntityNames : HandlesName(x, n)' <=> HandlesName(x, n)
    BY DEF HandlesName
  <1> QED
    BY <1>1, <1>2 DEF EntityInv

LEMMA IndicatorReadStep ==
    ASSUME StoreInv, NEW f \in Feeders, NEW i \in IndicatorValues, IndicatorRead(f, i)
    PROVE  StoreInv'
  <1> DEFINE r == [stage |-> "read", value |-> i, copy |-> sources[i]]
  <1>1. /\ feeder \in [Feeders -> Feedings] /\ sources \in [IndicatorValues -> SUBSET Feeders]
        /\ feeder' = [feeder EXCEPT ![f] = r] /\ feeder[f].stage = "queued"
        /\ UNCHANGED <<purgeVars, entityVars, sources, met>>
    BY DEF IndicatorRead, StoreInv, StoreTypeOK
  <1>2. r \in Feedings
    BY <1>1 DEF Feedings
  <1>3. \A g \in Feeders : feeder'[g] = IF g = f THEN r ELSE feeder[g]
    BY <1>1
  <1>4. crowded \subseteq crowded' /\ crowded' \subseteq EntityNames \cup IndicatorValues
    BY DEF IndicatorRead, StoreInv, StoreTypeOK
  <1>5. StoreTypeOK'
    BY <1>1, <1>2, <1>4 DEF StoreInv, StoreTypeOK, purgeVars, entityVars
  <1>6. \A g \in Feeders : feeder'[g].stage = "read" => feeder'[g].value \in IndicatorValues
    BY <1>3 DEF StoreInv, IndicatorInv
  <1>7. ASSUME NEW j \in IndicatorValues \ crowded'
        PROVE  /\ sources'[j] = met'[j]
               /\ \A g \in Feeders : Reads(g, j)' =>
                     feeder'[g].copy = sources'[j] /\ \A h \in Feeders : Reads(h, j)' => g = h
    <2>1. /\ sources[j] = met[j]
          /\ \A g \in Feeders : Reads(g, j) =>
                feeder[g].copy = sources[j] /\ \A h \in Feeders : Reads(h, j) => g = h
      BY <1>4 DEF StoreInv, IndicatorInv
    <2>2. CASE j = i
      <3>1. \A g \in Feeders \ {f} : ~Reads(g, i)
        BY <2>2 DEF IndicatorRead, Reads
      <3> QED
        BY <1>1, <1>3, <2>1, <2>2, <3>1 DEF Reads
    <2>3. CASE j # i
      <3>1. \A g \in Feeders : Reads(g, j)' => Reads(g, j) /\ feeder'[g] = feeder[g]
        BY <1>3, <2>3 DEF Reads
      <3> QED
        BY <1>1, <2>1, <3>1
    <2> QED
      BY <2>2, <2>3
  <1>8. IndicatorInv'
    BY <1>6, <1>7 DEF IndicatorInv
  <1> QED
    BY <1>1, <1>4, <1>5, <1>8, RetentionStays, EntitiesStay DEF StoreInv, entityVars

(* The only reader of an uncrowded indicator writes what is there and itself, *)
(* so nobody else's source is lost.                                           *)
LEMMA IndicatorCommitStep ==
    ASSUME StoreInv, NEW f \in Feeders, IndicatorCommit(f)
    PROVE  StoreInv'
  <1> DEFINE i == feeder[f].value
             r1 == [feeder[f] EXCEPT !.stage = "done"]
             r == [r1 EXCEPT !.copy = {}]
  <1>1. /\ feeder \in [Feeders -> Feedings] /\ sources \in [IndicatorValues -> SUBSET Feeders]
        /\ met \in [IndicatorValues -> SUBSET Feeders]
        /\ feeder' = [feeder EXCEPT ![f] = r]
        /\ Reads(f, i) /\ i \in IndicatorValues
        /\ UNCHANGED <<purgeVars, entityVars, crowded>>
    <2>1. feeder \in [Feeders -> Feedings] /\ feeder[f] \in Feedings
      BY DEF StoreInv, StoreTypeOK
    <2>2. [feeder[f] EXCEPT !.stage = "done", !.copy = {}] = r
      BY <2>1 DEF Feedings
    <2> HIDE DEF r
    <2> QED
      BY <2>1, <2>2 DEF IndicatorCommit, StoreInv, StoreTypeOK, IndicatorInv, Reads
  <1>2. r \in Feedings /\ r.stage = "done"
    <2>1. feeder[f] \in Feedings
      BY <1>1
    <2>2. r1 \in Feedings /\ r1.stage = "done"
      BY <2>1 DEF Feedings
    <2> HIDE DEF r1
    <2> QED
      BY <2>2 DEF Feedings
  <1>3. feeder[f].copy \subseteq Feeders
    BY <1>1, FeedingFields
  <1> HIDE DEF r
  <1>4. \A g \in Feeders : feeder'[g] = IF g = f THEN r ELSE feeder[g]
    BY <1>1
  <1>5. /\ sources' \in [IndicatorValues -> SUBSET Feeders]
        /\ met' \in [IndicatorValues -> SUBSET Feeders]
        /\ \A j \in IndicatorValues : j # i => sources'[j] = sources[j] /\ met'[j] = met[j]
    BY <1>1, <1>3 DEF IndicatorCommit, Merged
  <1>6. StoreTypeOK'
    BY <1>1, <1>2, <1>5 DEF StoreInv, StoreTypeOK, purgeVars, entityVars
  <1>7. \A g \in Feeders, j \in IndicatorValues :
           Reads(g, j)' => g # f /\ Reads(g, j) /\ feeder'[g] = feeder[g]
    BY <1>2, <1>4 DEF Reads
  <1>8. \A g \in Feeders : feeder'[g].stage = "read" => feeder'[g].value \in IndicatorValues
    BY <1>2, <1>4 DEF StoreInv, IndicatorInv
  <1>9. ASSUME NEW j \in IndicatorValues \ crowded'
        PROVE  /\ sources'[j] = met'[j]
               /\ \A g \in Feeders : Reads(g, j)' =>
                     feeder'[g].copy = sources'[j] /\ \A h \in Feeders : Reads(h, j)' => g = h
    <2>1. /\ sources[j] = met[j]
          /\ \A g \in Feeders : Reads(g, j) =>
                feeder[g].copy = sources[j] /\ \A h \in Feeders : Reads(h, j) => g = h
      BY <1>1 DEF StoreInv, IndicatorInv
    <2>2. CASE j = i
      <3>1. feeder[f].copy = sources[i] /\ \A g \in Feeders : Reads(g, i) => g = f
        BY <1>1, <2>1, <2>2
      <3>2. sources'[i] = met'[i]
        <4>1. \/ /\ sources'[i] = IF feeder[f].copy = {} THEN sources[i] \cup {f}
                                  ELSE IF f \in feeder[f].copy THEN sources[i] ELSE feeder[f].copy \cup {f}
                 /\ met'[i] = met[i] \cup {f}
              \/ sources'[i] = sources[i] /\ met'[i] = met[i]
          BY <1>1, <3>1 DEF IndicatorCommit, Merged
        <4> QED
          BY <2>1, <2>2, <3>1, <4>1
      <3> QED
        BY <1>7, <2>2, <3>1, <3>2
    <2>3. CASE j # i
      BY <1>5, <1>7, <2>1, <2>3
    <2> QED
      BY <2>2, <2>3
  <1>10. IndicatorInv'
    BY <1>8, <1>9 DEF IndicatorInv
  <1> QED
    BY <1>1, <1>6, <1>10, RetentionStays, EntitiesStay DEF StoreInv, entityVars

LEMMA KnowledgeKeepsInv ==
    ASSUME StoreInv, KnowledgeNext
    PROVE  StoreInv'
  BY ExtractReadStep, UpsertStep, ExtractCommitStep, ExtractAgainStep, IndicatorReadStep,
     IndicatorCommitStep DEF KnowledgeNext

-----------------------------------------------------------------------------
LEMMA NextInv ==
    ASSUME StoreInv, [StoreNext]_storeVars
    PROVE  StoreInv'
  <1>1. CASE UNCHANGED storeVars
    <2>1. UNCHANGED <<purgeVars, entityVars, indicatorVars, crowded>>
      BY <1>1 DEF storeVars
    <2>2. StoreTypeOK'
      BY <2>1 DEF StoreInv, StoreTypeOK, purgeVars, entityVars, indicatorVars
    <2> QED
      BY <2>1, <2>2, RetentionStays, KnowledgeStays DEF StoreInv, entityVars
  <1> QED
    BY <1>1, PurgeKeepsInv, KnowledgeKeepsInv DEF StoreNext

(* What the invariant says of purges, of vectors without events and of upserts.*)
LEMMA PurgesPromise == StoreInv => PurgeEndsClean
  BY DEF StoreInv, RetentionInv, RunFits, PurgeEndsClean, PastDue, Expired, Stored

LEMMA OrphansPromise == StoreInv => OrphansAreExplained
  BY DEF StoreInv, RetentionInv

LEMMA UpsertsPromise == StoreInv => UncrowdedUpsertsAreExact
  BY DEF StoreInv, EntityInv, IndicatorInv, UncrowdedUpsertsAreExact

LEMMA InvAlways == StoreSpec => []StoreInv
  BY InitInv, NextInv, PTL DEF StoreSpec

(* Every variable keeps its type, and no extraction holds a name twice.       *)
THEOREM TypeCorrect == StoreSpec => []StoreTypeOK
  <1>1. StoreInv => StoreTypeOK
    BY DEF StoreInv
  <1> QED
    BY <1>1, InvAlways, PTL

(* A purge that has left its loops leaves nothing of a purged class that was  *)
(* past its time when it began, for any number of purges that run at once.    *)
THEOREM PurgesLeaveNothing == StoreSpec => []PurgeEndsClean
  BY PurgesPromise, InvAlways, PTL

(* Every vector without its event was cut loose by a failure, or a purge is   *)
(* about to delete it.                                                        *)
THEOREM VectorsAreAccountedFor == StoreSpec => []OrphansAreExplained
  BY OrphansPromise, InvAlways, PTL

(* Look-up and insert without a unique key, and read and write without a      *)
(* lock, are exact for what no two executions handle at the same time.        *)
THEOREM LoneUpsertsAreExact == StoreSpec => []UncrowdedUpsertsAreExact
  BY UpsertsPromise, InvAlways, PTL
=============================================================================
