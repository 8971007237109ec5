------------------------ MODULE IngestPipelineProofs ------------------------
(***************************************************************************)
(* Proofs about IngestPipeline, for every set of tasks, workers, items and *)
(* feeds and every bound.                                                  *)
(***************************************************************************)
EXTENDS IngestPipeline, SequenceTheorems, TLAPS

-----------------------------------------------------------------------------
(* The invariant *)

Reading == {"fetch", "precheck", "insert", "link"}

(* The row of the item an execution is at. *)
RowFor(r) == <<r.msg.task, r.n, Head(r.items)>>

(* What an execution holds in memory fits its stage. *)
Consistent(r) ==
    /\ r.stage # "idle" => r.msg \in Messages /\ r.n >= 1
    /\ r.stage = "fetch" => r.errors = 0
    /\ r.stage \in InTransaction => r.errors + Len(r.items) <= r.count
    /\ r.stage \in {"insert", "link"} => r.items # <<>>
    /\ \A e \in r.own \union r.ids : AttemptOf(e) = r.n
    /\ r.own # {} => r.stage \in InTransaction
    /\ r.stage \in {"precheck", "insert"} => r.own \subseteq r.ids
    /\ r.stage = "link" => r.own \subseteq r.ids \union {RowFor(r)}
    /\ r.todo \subseteq r.ids /\ r.built \subseteq r.ids /\ r.todo \cap r.built = {}
    /\ r.todo # {} => r.stage = "dispatch"
    /\ r.built # {} => r.stage \in {"dispatch", "chord", "fallback"} /\ r.msg.cal
    /\ r.stage = "dispatch" /\ r.msg.cal /\ r.failures = 0 => r.ids = r.todo \union r.built
    /\ r.stage = "chord" => r.built = r.ids

(* Where an execution is, compared with what is stored and published. *)
Unpublished(r) ==
    /\ \A e \in r.todo \union r.built : chains[e] = 0
    /\ r.stage \in Reading => \A e \in EventIds : AttemptOf(e) = r.n => chains[e] = 0
    /\ r.stage \in Reading \union {"retry"} => \A e \in events : AttemptOf(e) # r.n
    /\ r.stage \in {"dispatch", "chord"} => \A e \in events : AttemptOf(e) = r.n => e \in r.ids

(* Executions are numbered in the order of their start. *)
Numbered ==
    /\ \A w \in Workers : run[w].stage # "idle" => run[w].n <= attempts
    /\ \A v, w \in Workers :
          run[v].stage # "idle" /\ run[w].stage # "idle" /\ run[v].n = run[w].n => v = w
    /\ \A e \in EventIds : e \in events \/ chains[e] > 0 => AttemptOf(e) <= attempts

(* An item has one row, committed or not. *)
OneRowEach ==
    /\ NoDuplicateEvents
    /\ \A w \in Workers : \A e \in run[w].own, f \in events : ItemOf(e) # ItemOf(f)
    /\ \A v, w \in Workers : \A e \in run[v].own, f \in run[w].own :
          ItemOf(e) = ItemOf(f) => v = w /\ e = f

IngestInv ==
    /\ TypeOK
    /\ \A w \in Workers : Consistent(run[w]) /\ Unpublished(run[w])
    /\ Numbered
    /\ OneRowEach
    /\ EnrichedAtMostOnce
    /\ ChordsAreComplete

-----------------------------------------------------------------------------
(* Records and rows *)

Numbers == 0 .. AttemptBound

LEMMA RunFields ==
    ASSUME NEW r \in RunType
    PROVE  /\ r.stage \in Stages /\ r.msg \in Messages \union {NoMessage} /\ r.n \in Numbers
           /\ r.items \in Seq(Items) /\ r.count \in 0 .. MaxItems
           /\ r.own \in SUBSET EventIds /\ r.ids \in SUBSET EventIds
           /\ r.todo \in SUBSET EventIds /\ r.built \in SUBSET EventIds
           /\ r.errors \in 0 .. MaxItems /\ r.failures \in Nat /\ r.restored \in BOOLEAN
  BY DEF RunType, Numbers

LEMMA RunEdit ==
    ASSUME NEW r \in RunType
    PROVE  /\ \A x \in Stages : [r EXCEPT !.stage = x] \in RunType
           /\ \A x \in Messages : [r EXCEPT !.msg = x] \in RunType
           /\ \A x \in Numbers : [r EXCEPT !.n = x] \in RunType
           /\ \A x \in Seq(Items) : [r EXCEPT !.items = x] \in RunType
           /\ \A x \in 0 .. MaxItems : [r EXCEPT !.count = x] \in RunType
           /\ \A x \in 0 .. MaxItems : [r EXCEPT !.errors = x] \in RunType
           /\ \A x \in SUBSET EventIds : [r EXCEPT !.own = x] \in RunType
           /\ \A x \in SUBSET EventIds : [r EXCEPT !.ids = x] \in RunType
           /\ \A x \in SUBSET EventIds : [r EXCEPT !.todo = x] \in RunType
           /\ \A x \in SUBSET EventIds : [r EXCEPT !.built = x] \in RunType
           /\ \A x \in Nat : [r EXCEPT !.failures = x] \in RunType
           /\ \A x \in BOOLEAN : [r EXCEPT !.restored = x] \in RunType
  <1>1. \A x \in Stages : [r EXCEPT !.stage = x] \in RunType
    BY DEF RunType
  <1>2. \A x \in Messages : [r EXCEPT !.msg = x] \in RunType
    BY DEF RunType
  <1>3. \A x \in Numbers : [r EXCEPT !.n = x] \in RunType
    BY DEF RunType, Numbers
  <1>4. \A x \in Seq(Items) : [r EXCEPT !.items = x] \in RunType
    BY DEF RunType
  <1>5. \A x \in 0 .. MaxItems : [r EXCEPT !.count = x] \in RunType
    BY DEF RunType
  <1>6. \A x \in 0 .. MaxItems : [r EXCEPT !.errors = x] \in RunType
    BY DEF RunType
  <1>7. \A x \in SUBSET EventIds : [r EXCEPT !.own = x] \in RunType
    BY DEF RunType
  <1>8. \A x \in SUBSET EventIds : [r EXCEPT !.ids = x] \in RunType
    BY DEF RunType
  <1>9. \A x \in SUBSET EventIds : [r EXCEPT !.todo = x] \in RunType
    BY DEF RunType
  <1>10. \A x \in SUBSET EventIds : [r EXCEPT !.built = x] \in RunType
    BY DEF RunType
  <1>11. \A x \in Nat : [r EXCEPT !.failures = x] \in RunType
    BY DEF RunType
  <1>12. \A x \in BOOLEAN : [r EXCEPT !.restored = x] \in RunType
    BY DEF RunType
  <1> QED
    BY <1>1, <1>2, <1>3, <1>4, <1>5, <1>6, <1>7, <1>8, <1>9, <1>10, <1>11, <1>12

LEMMA IdleType == Idle \in RunType
  BY RetriesAreBounded, CapIsPositive, AttemptsAreBounded DEF Idle, RunType, Stages

LEMMA InitInv == Init => IngestInv
  <1> SUFFICES ASSUME Init PROVE IngestInv
    OBVIOUS
  <1>1. \A w \in Workers : run[w] = Idle
    BY DEF Init
  <1>2. /\ Idle.stage = "idle" /\ Idle.own = {} /\ Idle.ids = {} /\ Idle.todo = {}
        /\ Idle.built = {}
    BY DEF Idle
  <1>3. TypeOK
    BY <1>1, <1>2, IdleType, BudgetIsNat, AttemptsAreBounded DEF Init, TypeOK, JobStatuses
  <1>4. \A w \in Workers : Consistent(run[w]) /\ Unpublished(run[w])
    BY <1>1, <1>2 DEF Consistent, Unpublished, InTransaction, Reading
  <1>5. Numbered /\ OneRowEach
    BY <1>1, <1>2 DEF Numbered, OneRowEach, NoDuplicateEvents, Init
  <1>6. EnrichedAtMostOnce /\ ChordsAreComplete
    BY DEF Init, EnrichedAtMostOnce, ChordsAreComplete
  <1> QED
    BY <1>3, <1>4, <1>5, <1>6 DEF IngestInv

-----------------------------------------------------------------------------
(* The kinds of steps *)

(* No execution is at work on the events of another one. *)
LEMMA OthersApart ==
    ASSUME IngestInv, NEW v \in Workers, NEW w \in Workers, v # w,
           NEW e \in run[v].own \union run[v].ids \union run[v].todo \union run[v].built,
           NEW f \in run[w].own \union run[w].todo \union run[w].built
    PROVE  run[v].stage # "idle" => AttemptOf(e) # AttemptOf(f)
  <1>1. AttemptOf(e) = run[v].n
    BY DEF IngestInv, Consistent
  <1>2. AttemptOf(f) = run[w].n /\ run[w].stage # "idle"
    BY DEF IngestInv, Consistent, InTransaction
  <1> QED
    BY <1>1, <1>2 DEF IngestInv, Numbered

(* A step that stores and publishes nothing: the execution goes on with another *)
(* consistent record, holding at most one more row, of an item that has none.   *)
LEMMA LocalStep ==
    ASSUME IngestInv, NEW w \in Workers, NEW next \in RunType, run' = [run EXCEPT ![w] = next],
           events' = events, chains' = chains, chords' = chords, attempts' = attempts,
           sent' \subseteq Tasks, ready' \in [Messages -> Nat],
           redelivered' \in 0 .. DeliveryBudget, job' \in [Tasks -> JobStatuses],
           Consistent(next), Unpublished(next),
           next.stage # "idle" => run[w].stage # "idle" /\ next.n = run[w].n,
           \A e, f \in next.own \ run[w].own : e = f,
           \A e \in next.own \ run[w].own :
               /\ \A f \in events : ItemOf(e) # ItemOf(f)
               /\ \A v \in Workers : \A f \in run[v].own : ItemOf(e) # ItemOf(f)
    PROVE  IngestInv'
  <1>1. run'[w] = next /\ \A v \in Workers \ {w} : run'[v] = run[v]
    BY DEF IngestInv, TypeOK
  <1>2. TypeOK'
    <2>1. run' \in [Workers -> RunType]
      BY DEF IngestInv, TypeOK
    <2>2. \A v \in Workers : run'[v].stage # "idle" => run'[v].msg \in Messages /\ run'[v].n >= 1
      BY <1>1 DEF IngestInv, TypeOK, Consistent
    <2> QED
      BY <2>1, <2>2 DEF IngestInv, TypeOK
  <1>3. \A v \in Workers : Consistent(run'[v]) /\ Unpublished(run[v])
    BY <1>1 DEF IngestInv
  <1>4. \A v \in Workers : Unpublished(run[v])'
    BY <1>1, <1>3 DEF Unpublished
  <1>5. Numbered'
    BY <1>1 DEF IngestInv, Numbered
  <1>6. OneRowEach'
    <2>1. ASSUME NEW v \in Workers, NEW e \in run'[v].own, NEW f \in events
          PROVE  ItemOf(e) # ItemOf(f)
      BY <1>1 DEF IngestInv, OneRowEach
    <2>2. ASSUME NEW u \in Workers, NEW v \in Workers, NEW e \in run'[u].own,
                 NEW f \in run'[v].own, ItemOf(e) = ItemOf(f)
          PROVE  u = v /\ e = f
      BY <1>1, <2>2 DEF IngestInv, OneRowEach
    <2> QED
      BY <2>1, <2>2 DEF IngestInv, OneRowEach, NoDuplicateEvents
  <1>7. EnrichedAtMostOnce' /\ ChordsAreComplete'
    BY DEF IngestInv, EnrichedAtMostOnce, ChordsAreComplete
  <1> QED
    BY <1>1, <1>2, <1>3, <1>4, <1>5, <1>6, <1>7 DEF IngestInv

(* A step that publishes the chains of events E, which the execution held for   *)
(* publication, and with the whole batch possibly its chord.                    *)
LEMMA PublishStep ==
    ASSUME IngestInv, NEW w \in Workers, NEW next \in RunType, run' = [run EXCEPT ![w] = next],
           NEW E \in SUBSET (run[w].todo \union run[w].built),
           chains' = [e \in EventIds |-> chains[e] + (IF e \in E THEN 1 ELSE 0)],
           events' = events, attempts' = attempts, sent' = sent, ready' = ready,
           redelivered' = redelivered, job' = job,
           \/ chords' = chords
           \/ /\ run[w].stage = "chord" /\ E = run[w].ids
              /\ chords' = chords \union {run[w].ids},
           Consistent(next), next.stage \in {"dispatch", "fallback", "record"},
           run[w].stage # "idle" /\ next.n = run[w].n /\ next.ids = run[w].ids,
           next.stage = "dispatch" => run[w].stage = "dispatch",
           next.todo \union next.built \subseteq (run[w].todo \union run[w].built) \ E
    PROVE  IngestInv'
  <1>1. run'[w] = next /\ \A v \in Workers \ {w} : run'[v] = run[v]
    BY DEF IngestInv, TypeOK
  <1>2. \A e \in EventIds : chains[e] \in Nat
    BY DEF IngestInv, TypeOK
  <1>3. \A e \in E : e \in EventIds /\ AttemptOf(e) = run[w].n /\ chains[e] = 0
    <2>1. run[w] \in RunType
      BY DEF IngestInv, TypeOK
    <2> QED
      BY <2>1, RunFields DEF IngestInv, Consistent, Unpublished
  <1>4. \A e \in EventIds : chains'[e] = IF e \in E THEN 1 ELSE chains[e]
    BY <1>2, <1>3
  <1>5. run[w].ids \subseteq EventIds
    BY RunFields DEF IngestInv, TypeOK
  <1>6. TypeOK'
    <2>1. run' \in [Workers -> RunType] /\ chains' \in [EventIds -> Nat]
      BY <1>2 DEF IngestInv, TypeOK
    <2>2. \A v \in Workers : run'[v].stage # "idle" => run'[v].msg \in Messages /\ run'[v].n >= 1
      BY <1>1 DEF IngestInv, TypeOK, Consistent
    <2>3. chords' \subseteq SUBSET EventIds
      BY <1>5 DEF IngestInv, TypeOK
    <2> QED
      BY <2>1, <2>2, <2>3 DEF IngestInv, TypeOK
  <1>7. \A v \in Workers : Consistent(run'[v])
    BY <1>1 DEF IngestInv
  <1>8. ASSUME NEW v \in Workers PROVE Unpublished(run[v])'
    <2>1. CASE v = w
      <3>1. \A e \in next.todo \union next.built : chains'[e] = 0
        <4>1. \A e \in next.todo \union next.built : e \in EventIds /\ e \notin E /\ chains[e] = 0
          BY RunFields DEF IngestInv, Unpublished
        <4> QED
          BY <1>4, <4>1
      <3>2. next.stage \notin Reading \union {"retry", "chord"}
        BY DEF Reading
      <3>3. next.stage = "dispatch" => \A e \in events : AttemptOf(e) = next.n => e \in next.ids
        BY DEF IngestInv, Unpublished
      <3> QED
        BY <1>1, <2>1, <3>1, <3>2, <3>3 DEF Unpublished
    <2>2. CASE v # w
      <3>1. run[v] \in RunType /\ Unpublished(run[v])
        BY DEF IngestInv, TypeOK
      <3>2. \A e \in run[v].todo \union run[v].built : chains'[e] = 0
        <4>1. ASSUME NEW e \in run[v].todo \union run[v].built PROVE e \notin E /\ e \in EventIds
          <5>1. run[v].stage # "idle"
            BY DEF IngestInv, Consistent
          <5> QED
            BY <2>2, <3>1, <5>1, OthersApart, RunFields
        <4> QED
          BY <1>4, <3>1, <4>1 DEF Unpublished
      <3>3. ASSUME run[v].stage \in Reading, NEW e \in EventIds, AttemptOf(e) = run[v].n
            PROVE  chains'[e] = 0
        <4>1. e \notin E
          BY <1>3, <2>2, <3>3 DEF IngestInv, Numbered, Reading
        <4> QED
          BY <1>4, <3>1, <3>3, <4>1 DEF Unpublished
      <3> QED
        BY <1>1, <2>2, <3>1, <3>2, <3>3 DEF Unpublished
    <2> QED
      BY <2>1, <2>2
  <1>9. Numbered'
    <2>1. \A e \in EventIds : chains'[e] > 0 => AttemptOf(e) <= attempts
      BY <1>2, <1>3, <1>4 DEF IngestInv, Numbered
    <2> QED
      BY <1>1, <2>1 DEF IngestInv, Numbered
  <1>10. OneRowEach'
    <2>1. next.own = {}
      BY DEF Consistent, InTransaction
    <2> QED
      BY <1>1, <2>1 DEF IngestInv, OneRowEach, NoDuplicateEvents
  <1>11. EnrichedAtMostOnce'
    BY <1>4 DEF IngestInv, EnrichedAtMostOnce
  <1>12. ChordsAreComplete'
    <2>1. ASSUME NEW c \in chords
          PROVE  /\ \A e \in c : chains'[e] = 1
                 /\ \A e \in events : (\E f \in c : AttemptOf(f) = AttemptOf(e)) => e \in c
      <3>1. \A e \in c : e \in EventIds /\ chains[e] = 1
        BY DEF IngestInv, ChordsAreComplete, TypeOK
      <3> QED
        BY <1>3, <1>4, <3>1 DEF IngestInv, ChordsAreComplete
    <2>2. ASSUME run[w].stage = "chord", E = run[w].ids
          PROVE  /\ \A e \in E : chains'[e] = 1
                 /\ \A e \in events : (\E f \in E : AttemptOf(f) = AttemptOf(e)) => e \in E
      BY <1>3, <1>4, <2>2 DEF IngestInv, Unpublished
    <2> QED
      BY <2>1, <2>2 DEF ChordsAreComplete
  <1> QED
    BY <1>6, <1>7, <1>8, <1>9, <1>10, <1>11, <1>12 DEF IngestInv

LEMMA MovesStep ==
    ASSUME IngestInv, NEW w \in Workers, NEW next \in RunType, Moves(w, next),
           Consistent(next), Unpublished(next),
           next.stage # "idle" => run[w].stage # "idle" /\ next.n = run[w].n,
           next.own \subseteq run[w].own
    PROVE  IngestInv'
  <1>1. /\ run' = [run EXCEPT ![w] = next]
        /\ UNCHANGED <<sent, ready, attempts, redelivered, events, job, chains, chords>>
    BY DEF Moves, Becomes, Broker, Store, Published
  <1>2. /\ sent' \subseteq Tasks /\ ready' \in [Messages -> Nat]
        /\ redelivered' \in 0 .. DeliveryBudget /\ job' \in [Tasks -> JobStatuses]
    BY <1>1 DEF IngestInv, TypeOK
  <1> QED
    BY <1>1, <1>2, LocalStep

-----------------------------------------------------------------------------
(* The records that executions go on with *)

(* What the invariant says of a running execution. *)
LEMMA Running ==
    ASSUME IngestInv, NEW w \in Workers, run[w].stage # "idle"
    PROVE  /\ run[w] \in RunType /\ Consistent(run[w]) /\ Unpublished(run[w])
           /\ run[w].msg \in Messages /\ run[w].n \in 1 .. AttemptBound
  <1>1. run[w] \in RunType /\ Consistent(run[w]) /\ Unpublished(run[w])
    BY DEF IngestInv, TypeOK
  <1> QED
    BY <1>1, RunFields, AttemptsAreBounded DEF Consistent, Numbers

LEMMA IdleIsConsistent ==
    Consistent(Idle) /\ Unpublished(Idle) /\ Idle.stage = "idle" /\ Idle.own = {}
  <1>1. /\ Idle.stage = "idle" /\ Idle.own = {} /\ Idle.ids = {} /\ Idle.todo = {}
        /\ Idle.built = {}
    BY DEF Idle
  <1> QED
    BY <1>1 DEF Consistent, Unpublished, InTransaction, Reading

LEMMA EndsAreConsistent ==
    ASSUME NEW r \in RunType, NEW stage \in {"reject", "retry", "ack"},
           r.msg \in Messages, r.n >= 1
    PROVE  /\ Ends(r, stage) \in RunType /\ Consistent(Ends(r, stage))
           /\ Ends(r, stage).stage = stage /\ Ends(r, stage).n = r.n
           /\ Ends(r, stage).own = {} /\ Ends(r, stage).todo = {} /\ Ends(r, stage).built = {}
  <1> DEFINE a == [Idle EXCEPT !.stage = stage]
             b == [a EXCEPT !.msg = r.msg]
             c == [b EXCEPT !.n = r.n]
             d == [c EXCEPT !.restored = r.restored]
  <1>1. stage \in Stages /\ r.n \in Numbers /\ r.restored \in BOOLEAN
    BY RunFields DEF Stages
  <1>2. a \in RunType
    BY <1>1, IdleType, RunEdit
  <1>3. b \in RunType
    BY <1>2, RunEdit
  <1>4. c \in RunType
    BY <1>1, <1>3, RunEdit
  <1>5. d \in RunType /\ d = Ends(r, stage)
    BY <1>1, <1>4, RunEdit DEF Ends
  <1>6. /\ d.stage = stage /\ d.msg = r.msg /\ d.n = r.n /\ d.own = {} /\ d.ids = {}
        /\ d.todo = {} /\ d.built = {}
    BY DEF Idle
  <1>7. Consistent(d)
    <2> HIDE DEF d
    <2> QED
      BY <1>6 DEF Consistent, InTransaction
  <1> QED
    BY <1>5, <1>6, <1>7

(* The turn of an item ends, without or with an error. *)
LEMMA AfterItemIs ==
    ASSUME NEW r \in RunType, r.items # <<>>
    PROVE  /\ AfterItem(r) \in RunType
           /\ AfterItem(r).stage = "precheck" /\ AfterItem(r).items = Tail(r.items)
           /\ AfterItem(r).msg = r.msg /\ AfterItem(r).n = r.n /\ AfterItem(r).own = r.own
           /\ AfterItem(r).ids = r.ids /\ AfterItem(r).todo = r.todo
           /\ AfterItem(r).built = r.built /\ AfterItem(r).errors = r.errors
           /\ AfterItem(r).count = r.count
           /\ Len(Tail(r.items)) = Len(r.items) - 1 /\ Len(r.items) \in Nat \ {0}
           /\ Tail(r.items) \in Seq(Items) /\ Head(r.items) \in Items
  <1>1. r.items \in Seq(Items)
    BY RunFields
  <1>2. /\ Tail(r.items) \in Seq(Items) /\ Len(Tail(r.items)) = Len(r.items) - 1
        /\ Head(r.items) \in Items /\ Len(r.items) \in Nat \ {0}
    BY <1>1, HeadTailProperties, EmptySeq
  <1> DEFINE a == [r EXCEPT !.stage = "precheck"]
             b == [a EXCEPT !.items = Tail(r.items)]
  <1>3. a \in RunType
    BY RunEdit DEF Stages
  <1>4. b \in RunType
    BY <1>2, <1>3, RunEdit
  <1>5. b = AfterItem(r)
    BY DEF AfterItem, RunType
  <1>6. /\ b.stage = "precheck" /\ b.items = Tail(r.items) /\ b.msg = r.msg /\ b.n = r.n
        /\ b.own = r.own /\ b.ids = r.ids /\ b.todo = r.todo /\ b.built = r.built
        /\ b.errors = r.errors /\ b.count = r.count
    BY DEF RunType
  <1> HIDE DEF b
  <1> QED
    BY <1>2, <1>4, <1>5, <1>6

LEMMA FailedIs ==
    ASSUME NEW r \in RunType, r.items # <<>>, Consistent(r), r.stage \in InTransaction
    PROVE  /\ Failed(r) \in RunType
           /\ Failed(r).stage = "precheck" /\ Failed(r).items = Tail(r.items)
           /\ Failed(r).msg = r.msg /\ Failed(r).n = r.n /\ Failed(r).own = r.own
           /\ Failed(r).ids = r.ids /\ Failed(r).todo = r.todo
           /\ Failed(r).built = r.built /\ Failed(r).errors = r.errors + 1
           /\ Failed(r).count = r.count
  <1> DEFINE a == AfterItem(r)
             b == [a EXCEPT !.errors = r.errors + 1]
  <1>1. a \in RunType /\ a.errors = r.errors
    BY AfterItemIs
  <1>2. r.errors + 1 \in 0 .. MaxItems
    BY AfterItemIs, RunFields, CapIsPositive DEF Consistent
  <1>3. b \in RunType
    BY <1>1, <1>2, RunEdit
  <1>4. b = Failed(r)
    BY <1>1 DEF Failed
  <1>5. /\ b.stage = a.stage /\ b.items = a.items /\ b.msg = a.msg /\ b.n = a.n
        /\ b.own = a.own /\ b.ids = a.ids /\ b.todo = a.todo /\ b.built = a.built
        /\ b.errors = r.errors + 1 /\ b.count = a.count
    <2> HIDE DEF a
    <2> QED
      BY <1>1 DEF RunType
  <1> HIDE DEF a, b
  <1> QED
    BY <1>3, <1>4, <1>5, AfterItemIs DEF a

-----------------------------------------------------------------------------
(* The items of an execution *)

(* While an execution reads and stores its items nothing of it is published. *)
LEMMA TransactionRecord ==
    ASSUME IngestInv, NEW w \in Workers, run[w].stage \in Reading, NEW next \in RunType,
           next.stage \in InTransaction, next.msg = run[w].msg, next.n = run[w].n,
           next.todo = {}, next.built = {},
           next.errors + Len(next.items) <= next.count,
           next.stage \in {"insert", "link"} => next.items # <<>>,
           \A e \in next.own \union next.ids : AttemptOf(e) = next.n,
           next.own \subseteq next.ids \/
               (next.stage = "link" /\ next.own \subseteq next.ids \union {RowFor(next)})
    PROVE  Consistent(next) /\ Unpublished(next)
  <1>1. Unpublished(run[w]) /\ run[w].msg \in Messages /\ run[w].n >= 1
    BY DEF IngestInv, Consistent, Reading
  <1>2. next.stage \in Reading /\ next.stage \notin {"idle", "fetch", "dispatch", "chord"}
    BY DEF InTransaction, Reading
  <1>3. Consistent(next)
    BY <1>1, <1>2 DEF Consistent
  <1>4. Unpublished(next)
    BY <1>1, <1>2 DEF Unpublished
  <1> QED
    BY <1>3, <1>4

LEMMA FetchInv ==
    ASSUME IngestInv, NEW w \in Workers, Fetch(w)
    PROVE  IngestInv'
  <1>1. run[w].stage = "fetch"
    BY DEF Fetch
  <1>2. PICK feed \in Feeds :
            Moves(w, [run[w] EXCEPT !.stage = "precheck", !.items = Batch(feed),
                                    !.count = Len(Batch(feed))])
    BY DEF Fetch
  <1>3. run[w] \in RunType /\ Consistent(run[w])
    BY <1>1, Running
  <1>4. Batch(feed) \in Seq(Items) /\ Len(Batch(feed)) \in 0 .. MaxItems
    <2> DEFINE k == IF Len(feed) < MaxItems THEN Len(feed) ELSE MaxItems
    <2>1. feed \in Seq(Items)
      BY FeedsAreItems
    <2>2. k \in 0 .. Len(feed) /\ k <= MaxItems /\ Len(feed) \in Nat
      BY <2>1, LenProperties, CapIsPositive
    <2> HIDE DEF k
    <2>3. \A i \in 1 .. k : feed[i] \in Items
      BY <2>1, <2>2, ElementOfSeq
    <2>4. SubSeq(feed, 1, k) \in Seq(Items) /\ Len(SubSeq(feed, 1, k)) = IF 1 <= k THEN k - 1 + 1 ELSE 0
      BY <2>2, <2>3, SubSeqProperties
    <2> QED
      BY <2>2, <2>4, CapIsPositive DEF Batch, k
  <1> DEFINE a == [run[w] EXCEPT !.stage = "precheck"]
             b == [a EXCEPT !.items = Batch(feed)]
             next == [b EXCEPT !.count = Len(Batch(feed))]
  <1>5. a \in RunType
    BY <1>3, RunEdit DEF Stages
  <1>6. b \in RunType
    BY <1>4, <1>5, RunEdit
  <1>7. next \in RunType /\ Moves(w, next)
    BY <1>2, <1>4, <1>6, RunEdit
  <1>8. /\ next.stage = "precheck" /\ next.items = Batch(feed) /\ next.count = Len(Batch(feed))
        /\ next.msg = run[w].msg /\ next.n = run[w].n /\ next.errors = run[w].errors
        /\ next.own = run[w].own /\ next.ids = run[w].ids
        /\ next.todo = run[w].todo /\ next.built = run[w].built
    BY <1>3 DEF RunType
  <1> HIDE DEF next
  <1>9. /\ run[w].errors = 0 /\ run[w].own = {} /\ run[w].todo = {} /\ run[w].built = {}
        /\ \A e \in run[w].ids : AttemptOf(e) = run[w].n
    BY <1>1, <1>3 DEF Consistent, InTransaction
  <1>10. Consistent(next) /\ Unpublished(next)
    BY <1>1, <1>4, <1>7, <1>8, <1>9, TransactionRecord DEF Reading, InTransaction
  <1> QED
    BY <1>1, <1>7, <1>8, <1>10, MovesStep

LEMMA EndsInv ==
    ASSUME IngestInv, NEW w \in Workers, NEW stage \in {"reject", "retry"},
           run[w].stage \in Reading, Moves(w, Ends(run[w], stage))
    PROVE  IngestInv'
  <1>1. /\ run[w].stage # "idle" /\ run[w] \in RunType /\ run[w].msg \in Messages
        /\ run[w].n >= 1 /\ Unpublished(run[w])
    BY Running, AttemptsAreBounded DEF Reading
  <1> DEFINE next == Ends(run[w], stage)
  <1>2. /\ next \in RunType /\ Consistent(next) /\ next.stage = stage
        /\ next.n = run[w].n /\ next.own = {} /\ next.todo = {} /\ next.built = {}
    BY <1>1, EndsAreConsistent
  <1>3. Moves(w, next)
    OBVIOUS
  <1> HIDE DEF next
  <1>4. Unpublished(next)
    BY <1>1, <1>2 DEF Unpublished, Reading
  <1> QED
    BY <1>1, <1>2, <1>3, <1>4, MovesStep

(* The item's turn ends without a new row. *)
LEMMA SkipInv ==
    ASSUME IngestInv, NEW w \in Workers, run[w].stage \in {"precheck", "insert"},
           run[w].items # <<>>,
           Moves(w, AfterItem(run[w])) \/ Moves(w, Failed(run[w]))
    PROVE  IngestInv'
  <1>1. /\ run[w] \in RunType /\ Consistent(run[w]) /\ run[w].stage \in Reading
        /\ run[w].stage \in InTransaction
    BY Running DEF Reading, InTransaction
  <1>2. run[w].errors \in Nat /\ run[w].count \in Nat
    BY <1>1, RunFields, CapIsPositive
  <1>3. /\ run[w].todo = {} /\ run[w].built = {} /\ run[w].own \subseteq run[w].ids
        /\ \A e \in run[w].own \union run[w].ids : AttemptOf(e) = run[w].n
        /\ run[w].errors + Len(run[w].items) <= run[w].count
    BY <1>1 DEF Consistent
  <1>4. PICK next \in {AfterItem(run[w]), Failed(run[w])} : Moves(w, next)
    OBVIOUS
  <1>5. /\ next \in RunType /\ next.stage = "precheck" /\ next.items = Tail(run[w].items)
        /\ next.msg = run[w].msg /\ next.n = run[w].n /\ next.own = run[w].own
        /\ next.ids = run[w].ids /\ next.todo = run[w].todo /\ next.built = run[w].built
        /\ next.errors \in {run[w].errors, run[w].errors + 1} /\ next.count = run[w].count
    BY <1>1, <1>4, AfterItemIs, FailedIs
  <1>6. next.errors + Len(next.items) <= next.count
    BY <1>1, <1>2, <1>3, <1>5, AfterItemIs
  <1>7. Consistent(next) /\ Unpublished(next)
    BY <1>1, <1>3, <1>5, <1>6, TransactionRecord DEF InTransaction
  <1> QED
    BY <1>1, <1>4, <1>5, <1>7, MovesStep DEF Reading

LEMMA PrecheckInv ==
    ASSUME IngestInv, NEW w \in Workers, Precheck(w)
    PROVE  IngestInv'
  <1>1. run[w].stage = "precheck" /\ run[w].items # <<>>
    BY DEF Precheck
  <1>2. CASE Head(run[w].items) \in Seen(w)
    BY <1>1, <1>2, SkipInv DEF Precheck
  <1>3. CASE Head(run[w].items) \notin Seen(w)
    <2> DEFINE next == [run[w] EXCEPT !.stage = "insert"]
    <2>1. run[w] \in RunType /\ Consistent(run[w])
      BY <1>1, Running
    <2>2. next \in RunType
      BY <2>1, RunEdit DEF Stages
    <2>3. /\ next.stage = "insert" /\ next.items = run[w].items /\ next.count = run[w].count
          /\ next.msg = run[w].msg /\ next.n = run[w].n /\ next.errors = run[w].errors
          /\ next.own = run[w].own /\ next.ids = run[w].ids
          /\ next.todo = run[w].todo /\ next.built = run[w].built
      BY <2>1 DEF RunType
    <2>4. Moves(w, next)
      BY <1>3 DEF Precheck
    <2> HIDE DEF next
    <2>5. /\ run[w].todo = {} /\ run[w].built = {} /\ run[w].own \subseteq run[w].ids
          /\ \A e \in run[w].own \union run[w].ids : AttemptOf(e) = run[w].n
          /\ run[w].errors + Len(run[w].items) <= run[w].count
      BY <1>1, <2>1 DEF Consistent, InTransaction
    <2>6. Consistent(next) /\ Unpublished(next)
      BY <1>1, <2>2, <2>3, <2>5, TransactionRecord DEF Reading, InTransaction
    <2> QED
      BY <1>1, <2>2, <2>3, <2>4, <2>6, MovesStep
  <1> QED
    BY <1>2, <1>3

LEMMA NewEventIs ==
    ASSUME IngestInv, NEW w \in Workers, run[w].stage \in {"insert", "link"}
    PROVE  /\ NewEvent(w) \in EventIds /\ AttemptOf(NewEvent(w)) = run[w].n
           /\ ItemOf(NewEvent(w)) = Head(run[w].items) /\ NewEvent(w) = RowFor(run[w])
           /\ run[w].items # <<>>
  <1>1. /\ run[w] \in RunType /\ run[w].msg \in Messages /\ run[w].n \in 1 .. AttemptBound
        /\ run[w].items # <<>>
    BY Running DEF Consistent
  <1>2. Head(run[w].items) \in Items
    BY <1>1, AfterItemIs
  <1>3. run[w].msg.task \in Tasks
    BY <1>1 DEF Messages
  <1> QED
    BY <1>1, <1>2, <1>3 DEF NewEvent, RowFor, EventIds, AttemptOf, ItemOf

(* The unique index, and the wait for uncommitted rows: a new row is of an item *)
(* that has none.                                                               *)
LEMMA InsertInv ==
    ASSUME IngestInv, NEW w \in Workers, Insert(w)
    PROVE  IngestInv'
  <1>1. run[w].stage = "insert" /\ \A v \in Workers : ~Blocks(v, w)
    BY DEF Insert
  <1>2. run[w].items # <<>>
    BY <1>1, NewEventIs
  <1>3. CASE Conflicts(w)
    BY <1>1, <1>2, <1>3, SkipInv DEF Insert
  <1>4. CASE ~Conflicts(w)
    <2> DEFINE a == [run[w] EXCEPT !.stage = "link"]
               next == [a EXCEPT !.own = run[w].own \union {NewEvent(w)}]
    <2>1. run[w] \in RunType /\ Consistent(run[w]) /\ Unpublished(run[w])
      BY <1>1, Running
    <2>2. /\ NewEvent(w) \in EventIds /\ AttemptOf(NewEvent(w)) = run[w].n
          /\ ItemOf(NewEvent(w)) = Head(run[w].items) /\ NewEvent(w) = RowFor(run[w])
      BY <1>1, NewEventIs
    <2>3. a \in RunType
      BY <2>1, RunEdit DEF Stages
    <2>4. run[w].own \union {NewEvent(w)} \in SUBSET EventIds
      BY <2>1, <2>2, RunFields
    <2>5. next \in RunType
      BY <2>3, <2>4, RunEdit
    <2>6. /\ next.stage = "link" /\ next.items = run[w].items /\ next.count = run[w].count
          /\ next.msg = run[w].msg /\ next.n = run[w].n /\ next.errors = run[w].errors
          /\ next.own = run[w].own \union {NewEvent(w)} /\ next.ids = run[w].ids
          /\ next.todo = run[w].todo /\ next.built = run[w].built
      BY <2>1 DEF RunType
    <2>7. Moves(w, next)
      BY <1>4, <2>1 DEF Insert, RunType
    <2> HIDE DEF next
    <2>8. /\ run[w].todo = {} /\ run[w].built = {} /\ run[w].own \subseteq run[w].ids
          /\ \A e \in run[w].own \union run[w].ids : AttemptOf(e) = run[w].n
          /\ run[w].errors + Len(run[w].items) <= run[w].count
      BY <1>1, <2>1 DEF Consistent, InTransaction
    <2>9. RowFor(next) = NewEvent(w)
      BY <2>2, <2>6 DEF RowFor
    <2>10. next.own \subseteq next.ids \union {RowFor(next)}
      BY <2>6, <2>8, <2>9
    <2>11. \A e \in next.own \union next.ids : AttemptOf(e) = next.n
      BY <2>2, <2>6, <2>8
    <2>12. Consistent(next) /\ Unpublished(next)
      BY <1>1, <1>2, <2>5, <2>6, <2>8, <2>10, <2>11, TransactionRecord DEF Reading, InTransaction
    <2>13. \A e, f \in next.own \ run[w].own : e = f
      BY <2>6
    <2>14. \A e \in next.own \ run[w].own :
              /\ \A f \in events : ItemOf(e) # ItemOf(f)
              /\ \A v \in Workers : \A f \in run[v].own : ItemOf(e) # ItemOf(f)
      <3>1. \A f \in events \union run[w].own : ItemOf(f) # Head(run[w].items)
        BY <1>4 DEF Conflicts, Seen, ItemsOf
      <3>2. \A v \in Workers \ {w} : \A f \in run[v].own : ItemOf(f) # Head(run[w].items)
        BY <1>1 DEF Blocks, ItemsOf
      <3> QED
        BY <2>2, <2>6, <3>1, <3>2
    <2>15. /\ run' = [run EXCEPT ![w] = next]
           /\ UNCHANGED <<sent, ready, attempts, redelivered, events, job, chains, chords>>
      BY <2>7 DEF Moves, Becomes, Broker, Store, Published
    <2>16. /\ sent' \subseteq Tasks /\ ready' \in [Messages -> Nat]
           /\ redelivered' \in 0 .. DeliveryBudget /\ job' \in [Tasks -> JobStatuses]
      BY <2>15 DEF IngestInv, TypeOK
    <2>17. run[w].stage # "idle" /\ next.n = run[w].n
      BY <1>1, <2>6
    <2> QED
      BY <2>5, <2>12, <2>13, <2>14, <2>15, <2>16, <2>17, LocalStep
  <1> QED
    BY <1>3, <1>4

(* The end of a stored item's turn: its row stays and its id is noted, or the   *)
(* row is rolled back, with the id noted or not.                                *)
LEMMA LinkEndsInv ==
    ASSUME IngestInv, NEW w \in Workers, run[w].stage = "link",
           \/ Moves(w, [AfterItem(run[w]) EXCEPT !.ids = @ \union {NewEvent(w)}])
           \/ \E ids \in {run[w].ids, run[w].ids \union {NewEvent(w)}} :
                Moves(w, [Failed(run[w]) EXCEPT !.own = @ \ {NewEvent(w)}, !.ids = ids])
    PROVE  IngestInv'
  <1>1. /\ run[w] \in RunType /\ Consistent(run[w]) /\ run[w].stage \in Reading
        /\ run[w].stage \in InTransaction
    BY Running DEF Reading, InTransaction
  <1>2. /\ NewEvent(w) \in EventIds /\ AttemptOf(NewEvent(w)) = run[w].n
        /\ NewEvent(w) = RowFor(run[w]) /\ run[w].items # <<>>
    BY NewEventIs
  <1>3. run[w].own \in SUBSET EventIds /\ run[w].ids \in SUBSET EventIds
    BY <1>1, RunFields
  <1>4. /\ run[w].todo = {} /\ run[w].built = {}
        /\ run[w].own \subseteq run[w].ids \union {NewEvent(w)}
        /\ \A e \in run[w].own \union run[w].ids : AttemptOf(e) = run[w].n
    BY <1>1, <1>2 DEF Consistent
  <1>5. /\ run[w].errors + Len(run[w].items) <= run[w].count
        /\ run[w].errors \in Nat /\ run[w].count \in Nat
        /\ Len(run[w].items) \in Nat /\ Len(Tail(run[w].items)) = Len(run[w].items) - 1
    <2>1. run[w].errors + Len(run[w].items) <= run[w].count
      BY <1>1 DEF Consistent
    <2> QED
      BY <1>1, <1>2, <2>1, AfterItemIs, RunFields, CapIsPositive
  <1>6. ASSUME NEW next \in RunType, Moves(w, next), next.stage = "precheck",
               next.items = Tail(run[w].items), next.msg = run[w].msg, next.n = run[w].n,
               next.own \subseteq run[w].own, next.own \subseteq next.ids,
               next.ids \subseteq run[w].ids \union {NewEvent(w)},
               next.todo = {}, next.built = {}, next.count = run[w].count,
               next.errors \in {run[w].errors, run[w].errors + 1}
        PROVE  IngestInv'
    <2>1. next.errors + Len(next.items) <= next.count
      <3>1. Len(next.items) = Len(run[w].items) - 1
        BY <1>5, <1>6
      <3>2. next.errors = run[w].errors \/ next.errors = run[w].errors + 1
        BY <1>6
      <3>3. next.count = run[w].count
        BY <1>6
      <3>4. PICK n, e, c \in Nat : n = Len(run[w].items) /\ e = run[w].errors /\ c = run[w].count
        BY <1>5
      <3>5. e + n <= c /\ Len(next.items) = n - 1 /\ next.count = c
        BY <1>5, <3>1, <3>3, <3>4
      <3>6. PICK g \in Nat : g = next.errors /\ (g = e \/ g = e + 1)
        BY <3>2, <3>4
      <3>7. g + (n - 1) <= c
        BY <3>5, <3>6
      <3> QED
        BY SMTT(30), <3>5, <3>6, <3>7
    <2>2. \A e \in next.own \union next.ids : AttemptOf(e) = next.n
      BY <1>2, <1>4, <1>6
    <2>3. Consistent(next) /\ Unpublished(next)
      BY <1>1, <1>6, <2>1, <2>2, TransactionRecord DEF InTransaction
    <2> QED
      BY <1>1, <1>6, <2>3, MovesStep DEF Reading
  <1>7. CASE Moves(w, [AfterItem(run[w]) EXCEPT !.ids = @ \union {NewEvent(w)}])
    <2> DEFINE a == AfterItem(run[w])
               next == [a EXCEPT !.ids = run[w].ids \union {NewEvent(w)}]
    <2>1. a \in RunType /\ a.ids = run[w].ids /\ a.own = run[w].own
      BY <1>1, <1>2, AfterItemIs
    <2>2. next \in RunType
      BY <1>2, <1>3, <2>1, RunEdit
    <2>3. Moves(w, next)
      BY <1>7, <2>1
    <2> HIDE DEF a
    <2>4. /\ next.stage = a.stage /\ next.items = a.items /\ next.msg = a.msg /\ next.n = a.n
          /\ next.own = a.own /\ next.ids = run[w].ids \union {NewEvent(w)}
          /\ next.todo = a.todo /\ next.built = a.built /\ next.count = a.count
          /\ next.errors = a.errors
      BY <2>1 DEF RunType
    <2> HIDE DEF next
    <2>5. /\ a.stage = "precheck" /\ a.items = Tail(run[w].items) /\ a.msg = run[w].msg
          /\ a.n = run[w].n /\ a.todo = {} /\ a.built = {} /\ a.count = run[w].count
          /\ a.errors = run[w].errors
      BY <1>1, <1>2, <1>4, AfterItemIs DEF a
    <2> QED
      BY <1>4, <1>6, <2>1, <2>2, <2>3, <2>4, <2>5
  <1>8. ASSUME NEW ids \in {run[w].ids, run[w].ids \union {NewEvent(w)}},
               Moves(w, [Failed(run[w]) EXCEPT !.own = @ \ {NewEvent(w)}, !.ids = ids])
        PROVE  IngestInv'
    <2> DEFINE a == Failed(run[w])
               b == [a EXCEPT !.own = run[w].own \ {NewEvent(w)}]
               next == [b EXCEPT !.ids = ids]
    <2>1. a \in RunType /\ a.own = run[w].own
      BY <1>1, <1>2, FailedIs
    <2>2. b \in RunType
      BY <1>3, <2>1, RunEdit
    <2>3. next \in RunType
      BY <1>2, <1>3, <2>2, RunEdit
    <2>4. Moves(w, next)
      BY <1>8, <2>1
    <2> HIDE DEF a
    <2>5. /\ next.stage = a.stage /\ next.items = a.items /\ next.msg = a.msg /\ next.n = a.n
          /\ next.own = run[w].own \ {NewEvent(w)} /\ next.ids = ids
          /\ next.todo = a.todo /\ next.built = a.built /\ next.count = a.count
          /\ next.errors = a.errors
      BY <2>1 DEF RunType
    <2> HIDE DEF b, next
    <2>6. /\ a.stage = "precheck" /\ a.items = Tail(run[w].items) /\ a.msg = run[w].msg
          /\ a.n = run[w].n /\ a.todo = {} /\ a.built = {} /\ a.count = run[w].count
          /\ a.errors = run[w].errors + 1
      BY <1>1, <1>2, <1>4, FailedIs DEF a
    <2> QED
      BY <1>4, <1>6, <2>3, <2>4, <2>5, <2>6
  <1> QED
    BY <1>7, <1>8

LEMMA ItemFailsInv ==
    ASSUME IngestInv, NEW w \in Workers, ItemFails(w)
    PROVE  IngestInv'
  <1>1. CASE run[w].stage \in {"precheck", "insert"} /\ run[w].items # <<>> /\ Moves(w, Failed(run[w]))
    BY <1>1, SkipInv
  <1>2. CASE run[w].stage = "link"
    BY <1>2, LinkEndsInv DEF ItemFails
  <1> QED
    BY <1>1, <1>2 DEF ItemFails

LEMMA DeadlockVictimInv ==
    ASSUME IngestInv, NEW w \in Workers, DeadlockVictim(w)
    PROVE  IngestInv'
  <1>1. run[w].stage = "insert" /\ Moves(w, Failed(run[w]))
    BY DEF DeadlockVictim, Blocks
  <1> QED
    BY <1>1, NewEventIs, SkipInv

-----------------------------------------------------------------------------
(* The commit and the publication *)

LEMMA CommitInv ==
    ASSUME IngestInv, NEW w \in Workers, Commit(w)
    PROVE  IngestInv'
  <1> DEFINE a == [run[w] EXCEPT !.stage = "dispatch"]
             b == [a EXCEPT !.own = {}]
             next == [b EXCEPT !.todo = run[w].ids]
  <1>1. /\ run[w].stage = "precheck" /\ events' = events \union run[w].own
        /\ UNCHANGED <<sent, ready, attempts, redelivered, job, chains, chords>>
    BY DEF Commit, EndOfItems, Broker, Published
  <1>2. /\ run[w] \in RunType /\ Consistent(run[w]) /\ Unpublished(run[w])
        /\ run[w].msg \in Messages /\ run[w].n \in 1 .. AttemptBound
    BY <1>1, Running
  <1>3. run[w].own \in SUBSET EventIds /\ run[w].ids \in SUBSET EventIds
    BY <1>2, RunFields
  <1>4. a \in RunType
    BY <1>2, RunEdit DEF Stages
  <1>5. b \in RunType
    BY <1>4, RunEdit
  <1>6. next \in RunType
    BY <1>3, <1>5, RunEdit
  <1>7. run' = [run EXCEPT ![w] = next]
    BY <1>2 DEF Commit, Becomes, RunType
  <1>8. /\ next.stage = "dispatch" /\ next.own = {} /\ next.todo = run[w].ids
        /\ next.ids = run[w].ids /\ next.built = run[w].built /\ next.msg = run[w].msg
        /\ next.n = run[w].n
    BY <1>2 DEF RunType
  <1> HIDE DEF next
  <1>9. /\ run[w].built = {} /\ run[w].own \subseteq run[w].ids
        /\ \A e \in run[w].own \union run[w].ids : AttemptOf(e) = run[w].n
    BY <1>1, <1>2 DEF Consistent
  <1>10. run'[w] = next /\ \A v \in Workers \ {w} : run'[v] = run[v]
    BY <1>7 DEF IngestInv, TypeOK
  <1>11. TypeOK'
    <2>1. run' \in [Workers -> RunType]
      BY <1>6, <1>7 DEF IngestInv, TypeOK
    <2>2. \A v \in Workers : run'[v].stage # "idle" => run'[v].msg \in Messages /\ run'[v].n >= 1
      BY <1>2, <1>8, <1>10 DEF IngestInv, TypeOK
    <2> QED
      BY <1>1, <1>3, <2>1, <2>2 DEF IngestInv, TypeOK
  <1>12. Consistent(next)
    BY <1>2, <1>8, <1>9 DEF Consistent, InTransaction
  <1>13. \A v \in Workers : Consistent(run'[v])
    BY <1>10, <1>12 DEF IngestInv
  <1>14. ASSUME NEW v \in Workers PROVE Unpublished(run[v])'
    <2>1. CASE v = w
      <3>1. \A e \in EventIds : AttemptOf(e) = run[w].n => chains[e] = 0
        BY <1>1, <1>2 DEF Unpublished, Reading
      <3>2. \A e \in events : AttemptOf(e) # run[w].n
        BY <1>1, <1>2 DEF Unpublished, Reading
      <3>3. \A e \in next.todo \union next.built : chains[e] = 0
        BY <1>3, <1>8, <1>9, <3>1
      <3>4. \A e \in events' : AttemptOf(e) = next.n => e \in next.ids
        BY <1>1, <1>8, <1>9, <3>2
      <3> QED
        BY <1>1, <1>8, <1>10, <2>1, <3>3, <3>4 DEF Unpublished, Reading
    <2>2. CASE v # w
      <3>1. Unpublished(run[v])
        BY DEF IngestInv
      <3>2. run[v].stage # "idle" => \A e \in run[w].own : AttemptOf(e) # run[v].n
        BY <1>1, <1>9, <2>2 DEF IngestInv, Numbered
      <3> QED
        BY <1>1, <1>10, <2>2, <3>1, <3>2 DEF Unpublished, Reading
    <2> QED
      BY <2>1, <2>2
  <1>15. Numbered'
    <2>1. \A e \in EventIds : e \in events' \/ chains[e] > 0 => AttemptOf(e) <= attempts
      BY <1>1, <1>9 DEF IngestInv, Numbered
    <2> QED
      BY <1>1, <1>8, <1>10, <2>1 DEF IngestInv, Numbered
  <1>16. OneRowEach'
    <2>1. \A e, f \in events' : ItemOf(e) = ItemOf(f) => e = f
      BY <1>1 DEF IngestInv, OneRowEach, NoDuplicateEvents
    <2>2. ASSUME NEW v \in Workers, NEW e \in run'[v].own, NEW f \in events'
          PROVE  ItemOf(e) # ItemOf(f)
      BY <1>1, <1>8, <1>10 DEF IngestInv, OneRowEach
    <2>3. ASSUME NEW u \in Workers, NEW v \in Workers, NEW e \in run'[u].own,
                 NEW f \in run'[v].own, ItemOf(e) = ItemOf(f)
          PROVE  u = v /\ e = f
      BY <1>8, <1>10, <2>3 DEF IngestInv, OneRowEach
    <2> QED
      BY <2>1, <2>2, <2>3 DEF OneRowEach, NoDuplicateEvents
  <1>17. EnrichedAtMostOnce'
    BY <1>1 DEF IngestInv, EnrichedAtMostOnce
  <1>18. ChordsAreComplete'
    <2>1. ASSUME NEW c \in chords, NEW e \in run[w].own, NEW f \in c, AttemptOf(f) = AttemptOf(e)
          PROVE  FALSE
      <3>1. f \in EventIds /\ chains[f] = 1
        BY DEF IngestInv, TypeOK, ChordsAreComplete
      <3>2. AttemptOf(f) = run[w].n
        BY <1>9, <2>1
      <3> QED
        BY <1>1, <1>2, <3>1, <3>2 DEF Unpublished, Reading
    <2> QED
      BY <1>1, <2>1 DEF IngestInv, ChordsAreComplete
  <1> QED
    BY <1>11, <1>13, <1>14, <1>15, <1>16, <1>17, <1>18 DEF IngestInv

(* After the commit an execution only has fewer chains left to publish. *)
LEMMA DispatchRecord ==
    ASSUME IngestInv, NEW w \in Workers, run[w].stage \in {"dispatch", "fallback"},
           NEW next \in RunType, Moves(w, next),
           next.stage \in {"dispatch", "chord", "fallback", "record"},
           next.stage \in {"dispatch", "chord"} => run[w].stage = "dispatch",
           next.msg = run[w].msg, next.n = run[w].n, next.own = {}, next.ids = run[w].ids,
           next.todo \union next.built \subseteq run[w].todo \union run[w].built,
           next.todo \cap next.built = {},
           next.todo # {} => next.stage = "dispatch",
           next.built # {} => next.stage \in {"dispatch", "chord", "fallback"} /\ next.msg.cal,
           next.stage = "dispatch" /\ next.msg.cal /\ next.failures = 0 =>
               next.ids = next.todo \union next.built,
           next.stage = "chord" => next.built = next.ids
    PROVE  IngestInv'
  <1>1. /\ Consistent(run[w]) /\ Unpublished(run[w]) /\ run[w].msg \in Messages
        /\ run[w].n >= 1
    BY Running, AttemptsAreBounded
  <1>2. Consistent(next)
    BY <1>1 DEF Consistent, InTransaction
  <1>3. Unpublished(next)
    BY <1>1 DEF Unpublished, Reading
  <1> QED
    BY <1>2, <1>3, MovesStep

LEMMA DispatchInv ==
    ASSUME IngestInv, NEW w \in Workers, Dispatch(w)
    PROVE  IngestInv'
  <1>1. run[w].stage = "dispatch"
    BY DEF Dispatch
  <1>2. run[w] \in RunType /\ Consistent(run[w])
    BY <1>1, Running
  <1> DEFINE rest(e) == [run[w] EXCEPT !.todo = run[w].todo \ {e}]
             kept(e) == [rest(e) EXCEPT !.built = run[w].built \union {e}]
  <1>3. PICK e \in run[w].todo : IF run[w].msg.cal THEN Moves(w, kept(e))
                                 ELSE Publish(w, {e}, rest(e))
    BY <1>2 DEF Dispatch, RunType
  <1>4. /\ run[w].todo \in SUBSET EventIds /\ run[w].built \in SUBSET EventIds
        /\ run[w].ids \in SUBSET EventIds
    BY <1>2, RunFields
  <1>5. rest(e) \in RunType
    BY <1>2, <1>4, RunEdit
  <1>6. kept(e) \in RunType
    BY <1>4, <1>5, RunEdit
  <1>7. /\ rest(e).stage = "dispatch" /\ rest(e).msg = run[w].msg /\ rest(e).n = run[w].n
        /\ rest(e).own = run[w].own /\ rest(e).ids = run[w].ids
        /\ rest(e).todo = run[w].todo \ {e} /\ rest(e).built = run[w].built
        /\ rest(e).failures = run[w].failures
    BY <1>1, <1>2 DEF RunType
  <1>8. /\ kept(e).stage = "dispatch" /\ kept(e).msg = run[w].msg /\ kept(e).n = run[w].n
        /\ kept(e).own = run[w].own /\ kept(e).ids = run[w].ids
        /\ kept(e).todo = run[w].todo \ {e} /\ kept(e).built = run[w].built \union {e}
        /\ kept(e).failures = run[w].failures
    BY <1>1, <1>2 DEF RunType
  <1> HIDE DEF rest, kept
  <1>9. /\ run[w].own = {} /\ run[w].todo \subseteq run[w].ids /\ run[w].built \subseteq run[w].ids
        /\ run[w].todo \cap run[w].built = {}
        /\ run[w].built # {} => run[w].msg.cal
        /\ run[w].msg.cal /\ run[w].failures = 0 => run[w].ids = run[w].todo \union run[w].built
        /\ run[w].msg \in Messages /\ run[w].n >= 1
        /\ \A f \in run[w].ids : AttemptOf(f) = run[w].n
    BY <1>1, <1>2 DEF Consistent, InTransaction
  <1>10. CASE run[w].msg.cal
    BY <1>1, <1>3, <1>6, <1>8, <1>9, <1>10, DispatchRecord
  <1>11. CASE ~run[w].msg.cal
    <2>1. Publish(w, {e}, rest(e))
      BY <1>3, <1>11
    <2>2. Consistent(rest(e))
      BY <1>7, <1>9, <1>11 DEF Consistent, InTransaction
    <2>3. {e} \in SUBSET (run[w].todo \union run[w].built)
      OBVIOUS
    <2>4. rest(e).todo \union rest(e).built \subseteq (run[w].todo \union run[w].built) \ {e}
      BY <1>7, <1>9
    <2>5. /\ run' = [run EXCEPT ![w] = rest(e)]
          /\ chains' = [f \in EventIds |-> chains[f] + (IF f \in {e} THEN 1 ELSE 0)]
          /\ UNCHANGED <<sent, ready, attempts, redelivered, events, job, chords>>
      BY <2>1 DEF Publish, Becomes, Broker, Store
    <2> QED
      BY <1>1, <1>5, <1>7, <2>2, <2>3, <2>4, <2>5, PublishStep
  <1> QED
    BY <1>10, <1>11

LEMMA DispatchFailsInv ==
    ASSUME IngestInv, NEW w \in Workers, DispatchFails(w)
    PROVE  IngestInv'
  <1>1. run[w].stage = "dispatch"
    BY DEF DispatchFails
  <1>2. run[w] \in RunType /\ Consistent(run[w])
    BY <1>1, Running
  <1>3. PICK e \in run[w].todo :
            Moves(w, [run[w] EXCEPT !.todo = @ \ {e}, !.failures = @ + 1])
    BY DEF DispatchFails
  <1> DEFINE a == [run[w] EXCEPT !.todo = run[w].todo \ {e}]
             next == [a EXCEPT !.failures = run[w].failures + 1]
  <1>4. /\ run[w].todo \ {e} \in SUBSET EventIds
        /\ run[w].failures \in Nat /\ run[w].failures + 1 \in Nat
    BY <1>2, RunFields
  <1>5. a \in RunType
    BY <1>2, <1>4, RunEdit
  <1>6. next \in RunType
    BY <1>4, <1>5, RunEdit
  <1>7. Moves(w, next)
    BY <1>2, <1>3 DEF RunType
  <1>8. /\ next.stage = "dispatch" /\ next.msg = run[w].msg /\ next.n = run[w].n
        /\ next.own = run[w].own /\ next.ids = run[w].ids
        /\ next.todo = run[w].todo \ {e} /\ next.built = run[w].built
        /\ next.failures = run[w].failures + 1
    BY <1>1, <1>2 DEF RunType
  <1> HIDE DEF next
  <1>9. /\ run[w].own = {} /\ run[w].todo \cap run[w].built = {}
        /\ run[w].built # {} => run[w].msg.cal
    BY <1>1, <1>2 DEF Consistent, InTransaction
  <1>10. next.failures # 0
    BY <1>4, <1>8
  <1> QED
    BY <1>1, <1>6, <1>7, <1>8, <1>9, <1>10, DispatchRecord

(* A chord is prepared only with every chain of the batch. *)
LEMMA EndDispatchInv ==
    ASSUME IngestInv, NEW w \in Workers, EndDispatch(w)
    PROVE  IngestInv'
  <1>1. run[w].stage = "dispatch" /\ run[w].todo = {}
    BY DEF EndDispatch
  <1>2. run[w] \in RunType /\ Consistent(run[w])
    BY <1>1, Running
  <1> DEFINE s == IF ~UsesChord(run[w]) THEN "record"
                  ELSE IF AllBuilt(run[w]) THEN "chord"
                  ELSE "fallback"
             next == [run[w] EXCEPT !.stage = s]
  <1>3. Moves(w, next)
    BY DEF EndDispatch
  <1>4. s \in {"record", "chord", "fallback"}
    OBVIOUS
  <1>5. next \in RunType
    BY <1>2, <1>4, RunEdit DEF Stages
  <1>6. /\ next.stage = s /\ next.msg = run[w].msg /\ next.n = run[w].n
        /\ next.own = run[w].own /\ next.ids = run[w].ids
        /\ next.todo = run[w].todo /\ next.built = run[w].built
    BY <1>2 DEF RunType
  <1>7. /\ run[w].own = {} /\ run[w].built \subseteq run[w].ids
        /\ run[w].built # {} => run[w].msg.cal
        /\ run[w].msg.cal /\ run[w].failures = 0 => run[w].ids = run[w].built
    BY <1>1, <1>2 DEF Consistent, InTransaction
  <1>8. /\ run[w].built # {} => s \in {"chord", "fallback"}
        /\ s = "chord" => run[w].built = run[w].ids
    BY <1>7 DEF UsesChord, AllBuilt
  <1> HIDE DEF s, next
  <1> QED
    BY <1>1, <1>3, <1>4, <1>5, <1>6, <1>7, <1>8, DispatchRecord

(* What is published of a batch that waits for its chord, or falls back. *)
LEMMA BatchPublished ==
    ASSUME IngestInv, NEW w \in Workers, run[w].stage \in {"chord", "fallback"},
           NEW E \in SUBSET run[w].built, NEW next \in RunType,
           run' = [run EXCEPT ![w] = next],
           chains' = [e \in EventIds |-> chains[e] + (IF e \in E THEN 1 ELSE 0)],
           UNCHANGED <<Broker, Store>>,
           \/ chords' = chords
           \/ /\ run[w].stage = "chord" /\ E = run[w].ids
              /\ chords' = chords \union {run[w].ids},
           next.stage \in {"fallback", "record"}, next.stage = "record" => next.built = {},
           next.msg = run[w].msg, next.n = run[w].n, next.own = run[w].own,
           next.ids = run[w].ids, next.todo = run[w].todo,
           next.built \subseteq run[w].built \ E
    PROVE  IngestInv'
  <1>1. Consistent(run[w]) /\ run[w].msg \in Messages
    BY Running
  <1>2. /\ run[w].own = {} /\ run[w].todo = {} /\ run[w].built \subseteq run[w].ids
        /\ run[w].built # {} => run[w].msg.cal
        /\ run[w].n >= 1 /\ \A f \in run[w].ids : AttemptOf(f) = run[w].n
    BY <1>1 DEF Consistent, InTransaction
  <1>3. Consistent(next)
    BY <1>1, <1>2 DEF Consistent, InTransaction
  <1>4. E \in SUBSET (run[w].todo \union run[w].built)
    OBVIOUS
  <1>5. next.todo \union next.built \subseteq (run[w].todo \union run[w].built) \ E
    BY <1>2
  <1>6. UNCHANGED <<sent, ready, attempts, redelivered, events, job>>
    BY DEF Broker, Store
  <1> QED
    BY <1>3, <1>4, <1>5, <1>6, PublishStep

Keeps(r, s, B) == [r EXCEPT !.stage = s, !.built = B]

LEMMA KeepsIs ==
    ASSUME NEW r \in RunType, NEW B \in SUBSET r.built, NEW s \in {"fallback", "record"}
    PROVE  /\ Keeps(r, s, B) \in RunType
           /\ Keeps(r, s, B).stage = s /\ Keeps(r, s, B).built = B /\ Keeps(r, s, B).msg = r.msg
           /\ Keeps(r, s, B).n = r.n /\ Keeps(r, s, B).own = r.own
           /\ Keeps(r, s, B).ids = r.ids /\ Keeps(r, s, B).todo = r.todo
  <1> DEFINE a == [r EXCEPT !.stage = s]
             b == [a EXCEPT !.built = B]
  <1>1. a \in RunType
    BY RunEdit DEF Stages
  <1>2. B \in SUBSET EventIds
    BY RunFields
  <1>3. b \in RunType
    BY <1>1, <1>2, RunEdit
  <1>4. b = Keeps(r, s, B)
    BY DEF RunType, Keeps
  <1>5. /\ b.stage = s /\ b.built = B /\ b.msg = r.msg
        /\ b.n = r.n /\ b.own = r.own /\ b.ids = r.ids /\ b.todo = r.todo
    BY DEF RunType
  <1> HIDE DEF b
  <1> QED
    BY <1>3, <1>4, <1>5

LEMMA PublishChordInv ==
    ASSUME IngestInv, NEW w \in Workers, PublishChord(w)
    PROVE  IngestInv'
  <1>1. run[w].stage = "chord"
    BY DEF PublishChord
  <1>2. run[w] \in RunType /\ Consistent(run[w])
    BY <1>1, Running
  <1> DEFINE next == Keeps(run[w], "record", {})
  <1>3. /\ run' = [run EXCEPT ![w] = next] /\ chords' = chords \union {run[w].ids}
        /\ chains' = [e \in EventIds |-> chains[e] + (IF e \in run[w].built THEN 1 ELSE 0)]
        /\ UNCHANGED <<Broker, Store>>
    BY DEF PublishChord, Becomes, Keeps
  <1>4. /\ next \in RunType /\ next.stage = "record" /\ next.built = {}
        /\ next.msg = run[w].msg /\ next.n = run[w].n /\ next.own = run[w].own
        /\ next.ids = run[w].ids /\ next.todo = run[w].todo
    BY <1>2, KeepsIs
  <1>5. run[w].built = run[w].ids
    BY <1>1, <1>2 DEF Consistent
  <1> HIDE DEF next
  <1> QED
    BY <1>1, <1>3, <1>4, <1>5, BatchPublished

LEMMA ChordFailsInv ==
    ASSUME IngestInv, NEW w \in Workers, ChordFails(w)
    PROVE  IngestInv'
  <1>1. run[w].stage = "chord"
    BY DEF ChordFails
  <1>2. run[w] \in RunType
    BY <1>1, Running
  <1> DEFINE next == Keeps(run[w], "record", {})
  <1>3. PICK E \in SUBSET run[w].built : Publish(w, E, next)
    BY DEF ChordFails, Keeps
  <1>4. /\ run' = [run EXCEPT ![w] = next] /\ chords' = chords
        /\ chains' = [e \in EventIds |-> chains[e] + (IF e \in E THEN 1 ELSE 0)]
        /\ UNCHANGED <<Broker, Store>>
    BY <1>3 DEF Publish, Becomes
  <1>5. /\ next \in RunType /\ next.stage = "record" /\ next.built = {}
        /\ next.msg = run[w].msg /\ next.n = run[w].n /\ next.own = run[w].own
        /\ next.ids = run[w].ids /\ next.todo = run[w].todo
    BY <1>2, KeepsIs
  <1> HIDE DEF next
  <1> QED
    BY <1>1, <1>4, <1>5, BatchPublished

LEMMA FallbackInv ==
    ASSUME IngestInv, NEW w \in Workers, Fallback(w)
    PROVE  IngestInv'
  <1>1. run[w].stage = "fallback"
    BY DEF Fallback
  <1>2. run[w] \in RunType /\ Consistent(run[w])
    BY <1>1, Running
  <1>3. CASE run[w].built = {}
    <2> DEFINE next == [run[w] EXCEPT !.stage = "record"]
    <2>1. Moves(w, next)
      BY <1>3 DEF Fallback
    <2>2. next \in RunType
      BY <1>2, RunEdit DEF Stages
    <2>3. /\ next.stage = "record" /\ next.built = run[w].built /\ next.msg = run[w].msg
          /\ next.n = run[w].n /\ next.own = run[w].own /\ next.ids = run[w].ids
          /\ next.todo = run[w].todo
      BY <1>2 DEF RunType
    <2>4. run[w].own = {} /\ run[w].todo = {}
      BY <1>1, <1>2 DEF Consistent, InTransaction
    <2> HIDE DEF next
    <2> QED
      BY <1>1, <1>3, <2>1, <2>2, <2>3, <2>4, DispatchRecord
  <1>4. CASE run[w].built # {}
    <2>1. PICK e \in run[w].built, published \in BOOLEAN :
              Publish(w, IF published THEN {e} ELSE {}, [run[w] EXCEPT !.built = @ \ {e}])
      BY <1>4 DEF Fallback
    <2> DEFINE E == IF published THEN {e} ELSE {}
               next == Keeps(run[w], "fallback", run[w].built \ {e})
    <2>2. Publish(w, E, next)
      BY <1>1, <1>2, <2>1 DEF RunType, Keeps
    <2>3. /\ run' = [run EXCEPT ![w] = next] /\ chords' = chords
          /\ chains' = [f \in EventIds |-> chains[f] + (IF f \in E THEN 1 ELSE 0)]
          /\ UNCHANGED <<Broker, Store>>
      BY <2>2 DEF Publish, Becomes
    <2>4. /\ next \in RunType /\ next.stage = "fallback" /\ next.built = run[w].built \ {e}
          /\ next.msg = run[w].msg /\ next.n = run[w].n /\ next.own = run[w].own
          /\ next.ids = run[w].ids /\ next.todo = run[w].todo
      <3>1. run[w].built \ {e} \in SUBSET run[w].built
        OBVIOUS
      <3> QED
        BY <1>2, <3>1, KeepsIs
    <2>5. E \in SUBSET run[w].built /\ next.built \subseteq run[w].built \ E
      BY <2>4
    <2> HIDE DEF next, E
    <2> QED
      BY <1>1, <2>3, <2>4, <2>5, BatchPublished
  <1> QED
    BY <1>3, <1>4

-----------------------------------------------------------------------------
(* The broker, the workers and the job rows *)

LEMMA RecordInv ==
    ASSUME IngestInv, NEW w \in Workers, Record(w)
    PROVE  IngestInv'
  <1> DEFINE next == Ends(run[w], "ack")
  <1>1. /\ run[w].stage \in {"record", "reject"} /\ run' = [run EXCEPT ![w] = next]
        /\ UNCHANGED <<sent, ready, attempts, redelivered, events, chains, chords>>
    BY DEF Record, Becomes, Broker, Published
  <1>2. run[w] \in RunType /\ run[w].msg \in Messages /\ run[w].n >= 1
    BY <1>1, Running, AttemptsAreBounded
  <1>3. run[w].msg.task \in Tasks
    BY <1>2 DEF Messages
  <1>4. job' \in [Tasks -> JobStatuses]
    <2>1. PICK status \in {IF run[w].stage = "reject" THEN "failed" ELSE StatusOf(run[w]),
                           job[run[w].msg.task]} :
              job' = [job EXCEPT ![run[w].msg.task] = status]
      BY DEF Record
    <2>2. StatusOf(run[w]) \in JobStatuses /\ "failed" \in JobStatuses
      BY DEF StatusOf, JobStatuses
    <2>3. job[run[w].msg.task] \in JobStatuses
      BY <1>3 DEF IngestInv, TypeOK
    <2> QED
      BY <2>1, <2>2, <2>3 DEF IngestInv, TypeOK
  <1>5. /\ next \in RunType /\ Consistent(next) /\ next.stage = "ack" /\ next.n = run[w].n
        /\ next.own = {} /\ next.todo = {} /\ next.built = {}
    BY <1>2, EndsAreConsistent
  <1> HIDE DEF next
  <1>6. Unpublished(next)
    BY <1>5 DEF Unpublished, Reading
  <1> QED
    BY <1>1, <1>4, <1>5, <1>6, LocalStep DEF IngestInv, TypeOK

LEMMA RetryInv ==
    ASSUME IngestInv, NEW w \in Workers, Retry(w)
    PROVE  IngestInv'
  <1> DEFINE next == Ends(run[w], "ack")
             m == run[w].msg
  <1>1. /\ run[w].stage = "retry" /\ run' = [run EXCEPT ![w] = next]
        /\ UNCHANGED <<sent, attempts, redelivered, events, job, chains, chords>>
        /\ ready' = IF m.retries < MaxRetries THEN [ready EXCEPT ![NextMessage(m)] = @ + 1]
                    ELSE ready
    BY DEF Retry, Becomes, Store, Published
  <1>2. run[w] \in RunType /\ m \in Messages /\ run[w].n >= 1
    BY <1>1, Running, AttemptsAreBounded
  <1>3. ready' \in [Messages -> Nat]
    <2>1. m.retries < MaxRetries => NextMessage(m) \in Messages
      BY <1>2, RetriesAreBounded DEF NextMessage, Messages
    <2> QED
      BY <1>1, <2>1 DEF IngestInv, TypeOK
  <1>4. /\ next \in RunType /\ Consistent(next) /\ next.stage = "ack" /\ next.n = run[w].n
        /\ next.own = {} /\ next.todo = {} /\ next.built = {}
    BY <1>2, EndsAreConsistent
  <1> HIDE DEF next
  <1>5. Unpublished(next)
    BY <1>4 DEF Unpublished, Reading
  <1> QED
    BY <1>1, <1>3, <1>4, <1>5, LocalStep DEF IngestInv, TypeOK

(* An execution that ends leaves nothing behind in its worker. *)
LEMMA IdleInv ==
    ASSUME IngestInv, NEW w \in Workers, run' = [run EXCEPT ![w] = Idle],
           UNCHANGED <<sent, attempts, Store, Published>>,
           ready' \in [Messages -> Nat], redelivered' \in 0 .. DeliveryBudget
    PROVE  IngestInv'
  <1>1. UNCHANGED <<events, job, chains, chords>>
    BY DEF Store, Published
  <1> QED
    BY <1>1, IdleType, IdleIsConsistent, LocalStep DEF IngestInv, TypeOK

LEMMA AcknowledgeInv ==
    ASSUME IngestInv, NEW w \in Workers, Acknowledge(w)
    PROVE  IngestInv'
  <1>1. run' = [run EXCEPT ![w] = Idle] /\ UNCHANGED <<Broker, Store, Published>>
    BY DEF Acknowledge, Moves, Becomes
  <1> QED
    BY <1>1, IdleInv DEF IngestInv, TypeOK, Broker

(* The message goes back to the queue. *)
LEMMA Redelivered ==
    ASSUME IngestInv, NEW m \in Messages, redelivered < DeliveryBudget
    PROVE  /\ [ready EXCEPT ![m] = @ + 1] \in [Messages -> Nat]
           /\ redelivered + 1 \in 0 .. DeliveryBudget
  BY BudgetIsNat DEF IngestInv, TypeOK

LEMMA CrashInv ==
    ASSUME IngestInv, NEW w \in Workers, Crash(w)
    PROVE  IngestInv'
  <1>1. run' = [run EXCEPT ![w] = Idle] /\ UNCHANGED <<sent, attempts, Store, Published>>
    BY DEF Crash, Becomes
  <1>2. run[w].msg \in Messages
    BY Running DEF Crash
  <1>3. ready' \in [Messages -> Nat] /\ redelivered' \in 0 .. DeliveryBudget
    <2>1. CASE run[w].restored
      BY <2>1 DEF Crash, IngestInv, TypeOK
    <2>2. CASE ~run[w].restored
      BY <1>2, <2>2, Redelivered DEF Crash
    <2> QED
      BY <2>1, <2>2
  <1> QED
    BY <1>1, <1>3, IdleInv

LEMMA VisibilityTimeoutInv ==
    ASSUME IngestInv, NEW w \in Workers, VisibilityTimeout(w)
    PROVE  IngestInv'
  <1> DEFINE next == [run[w] EXCEPT !.restored = TRUE]
  <1>1. /\ run[w].stage # "idle" /\ run' = [run EXCEPT ![w] = next]
        /\ redelivered < DeliveryBudget
        /\ ready' = [ready EXCEPT ![run[w].msg] = @ + 1] /\ redelivered' = redelivered + 1
        /\ UNCHANGED <<sent, attempts, events, job, chains, chords>>
    BY DEF VisibilityTimeout, Becomes, Store, Published
  <1>2. /\ run[w] \in RunType /\ Consistent(run[w]) /\ Unpublished(run[w])
        /\ run[w].msg \in Messages
    BY <1>1, Running
  <1>3. next \in RunType
    BY <1>2, RunEdit
  <1>4. /\ next.stage = run[w].stage /\ next.msg = run[w].msg /\ next.n = run[w].n
        /\ next.items = run[w].items /\ next.count = run[w].count /\ next.own = run[w].own
        /\ next.ids = run[w].ids /\ next.todo = run[w].todo /\ next.built = run[w].built
        /\ next.errors = run[w].errors /\ next.failures = run[w].failures
    BY <1>2 DEF RunType
  <1> HIDE DEF next
  <1>5. Consistent(next)
    BY <1>2, <1>4 DEF Consistent, RowFor
  <1>6. Unpublished(next)
    BY <1>2, <1>4 DEF Unpublished
  <1>7. ready' \in [Messages -> Nat] /\ redelivered' \in 0 .. DeliveryBudget
    BY <1>1, <1>2, Redelivered
  <1> QED
    BY <1>1, <1>3, <1>4, <1>5, <1>6, <1>7, LocalStep DEF IngestInv, TypeOK

LEMMA SendInv ==
    ASSUME IngestInv, NEW t \in Tasks, NEW cal \in BOOLEAN, Send(t, cal)
    PROVE  IngestInv'
  <1>1. UNCHANGED <<run, attempts, redelivered, events, job, chains, chords>>
    BY DEF Send, Store, Published
  <1>2. TypeOK'
    <2>1. [task |-> t, cal |-> cal, retries |-> 0] \in Messages
      BY RetriesAreBounded DEF Messages
    <2> QED
      BY <1>1, <2>1 DEF Send, IngestInv, TypeOK
  <1> QED
    BY <1>1, <1>2 DEF IngestInv, Unpublished, Numbered, OneRowEach, NoDuplicateEvents,
                      EnrichedAtMostOnce, ChordsAreComplete

(* A new execution has the next number: nothing stored or published has it. *)
LEMMA StartInv ==
    ASSUME IngestInv, NEW w \in Workers, NEW m \in Messages, Start(w, m)
    PROVE  IngestInv'
  <1> DEFINE a == [Idle EXCEPT !.stage = "fetch"]
             b == [a EXCEPT !.msg = m]
             next == [b EXCEPT !.n = attempts + 1]
  <1>1. /\ run[w].stage = "idle" /\ attempts' = attempts + 1 /\ ready[m] > 0
        /\ ready' = [ready EXCEPT ![m] = @ - 1]
        /\ UNCHANGED <<sent, redelivered, events, job, chains, chords>>
    BY DEF Start, Store, Published
  <1>2. attempts \in Nat /\ attempts + 1 \in 1 .. AttemptBound
    BY AttemptsAreBounded DEF Start, IngestInv, TypeOK
  <1>3. a \in RunType
    BY IdleType, RunEdit DEF Stages
  <1>4. b \in RunType
    BY <1>3, RunEdit
  <1>5. next \in RunType
    <2>1. attempts + 1 \in Numbers
      BY <1>2, AttemptsAreBounded DEF Numbers
    <2> QED
      BY <1>4, <2>1, RunEdit
  <1>6. run' = [run EXCEPT ![w] = next]
    BY DEF Start, Becomes, Idle
  <1>7. /\ next.stage = "fetch" /\ next.msg = m /\ next.n = attempts + 1 /\ next.errors = 0
        /\ next.own = {} /\ next.ids = {} /\ next.todo = {} /\ next.built = {}
    BY DEF Idle
  <1> HIDE DEF next
  <1>8. run'[w] = next /\ \A v \in Workers \ {w} : run'[v] = run[v]
    BY <1>6 DEF IngestInv, TypeOK
  <1>9. TypeOK'
    <2>1. ready' \in [Messages -> Nat]
      BY <1>1 DEF IngestInv, TypeOK
    <2>2. run' \in [Workers -> RunType] /\ attempts' \in 0 .. AttemptBound
      BY <1>1, <1>2, <1>5, <1>6 DEF IngestInv, TypeOK
    <2>3. \A v \in Workers : run'[v].stage # "idle" => run'[v].msg \in Messages /\ run'[v].n >= 1
      BY <1>2, <1>7, <1>8 DEF IngestInv, TypeOK
    <2> QED
      BY <1>1, <2>1, <2>2, <2>3 DEF IngestInv, TypeOK
  <1>10. Consistent(next)
    BY <1>2, <1>7 DEF Consistent, InTransaction
  <1>11. \A v \in Workers : Consistent(run'[v])
    BY <1>8, <1>10 DEF IngestInv
  <1>12. \A e \in EventIds : AttemptOf(e) = attempts + 1 => e \notin events /\ chains[e] = 0
    <2>1. \A e \in EventIds : chains[e] \in Nat
      BY DEF IngestInv, TypeOK
    <2> QED
      BY <1>2, <2>1 DEF IngestInv, Numbered
  <1>13. ASSUME NEW v \in Workers PROVE Unpublished(run[v])'
    <2>1. CASE v = w
      <3>1. \A e \in events : AttemptOf(e) # attempts + 1
        BY <1>12 DEF IngestInv, TypeOK
      <3> QED
        BY <1>1, <1>7, <1>8, <1>12, <2>1, <3>1 DEF Unpublished, Reading
    <2>2. CASE v # w
      BY <1>1, <1>8, <2>2 DEF IngestInv, Unpublished
    <2> QED
      BY <2>1, <2>2
  <1>14. Numbered'
    <2>1. ASSUME NEW v \in Workers, run'[v].stage # "idle"
          PROVE  run'[v].n <= attempts + 1 /\ (v # w => run'[v].n <= attempts)
      <3>1. CASE v = w
        BY <1>2, <1>7, <1>8, <3>1
      <3>2. CASE v # w
        <4>1. run'[v] = run[v] /\ run[v].n <= attempts
          BY <1>8, <2>1, <3>2 DEF IngestInv, Numbered
        <4>2. run[v].n \in Numbers
          BY RunFields DEF IngestInv, TypeOK
        <4> QED
          BY <1>2, <4>1, <4>2, AttemptsAreBounded DEF Numbers
      <3> QED
        BY <3>1, <3>2
    <2>2. \A v \in Workers : run'[v].n \in Nat
      BY <1>9, RunFields, AttemptsAreBounded DEF TypeOK, Numbers
    <2>3. \A u, v \in Workers :
              run'[u].stage # "idle" /\ run'[v].stage # "idle" /\ run'[u].n = run'[v].n => u = v
      BY <1>2, <1>7, <1>8, <2>1, <2>2 DEF IngestInv, Numbered
    <2>4. \A e \in EventIds : e \in events \/ chains[e] > 0 => AttemptOf(e) <= attempts + 1
      <3>1. \A e \in EventIds : AttemptOf(e) \in Nat
        BY AttemptsAreBounded DEF EventIds, AttemptOf
      <3> QED
        BY <1>2, <3>1 DEF IngestInv, Numbered
    <2> QED
      BY <1>1, <2>1, <2>3, <2>4 DEF Numbered
  <1>15. OneRowEach'
    BY <1>1, <1>7, <1>8 DEF IngestInv, OneRowEach, NoDuplicateEvents
  <1>16. EnrichedAtMostOnce' /\ ChordsAreComplete'
    BY <1>1 DEF IngestInv, EnrichedAtMostOnce, ChordsAreComplete
  <1> QED
    BY <1>9, <1>11, <1>13, <1>14, <1>15, <1>16 DEF IngestInv

LEMMA NextInv == IngestInv /\ [Next]_vars => IngestInv'
  <1> SUFFICES ASSUME IngestInv, [Next]_vars PROVE IngestInv'
    OBVIOUS
  <1>1. ASSUME NEW w \in Workers, FetchFails(w) PROVE IngestInv'
    BY <1>1, EndsInv DEF FetchFails, Reading
  <1>2. ASSUME NEW w \in Workers, GiveUpBatch(w) PROVE IngestInv'
    BY <1>2, EndsInv DEF GiveUpBatch, EndOfItems, Reading
  <1>3. ASSUME NEW w \in Workers, Link(w) PROVE IngestInv'
    BY <1>3, LinkEndsInv DEF Link
  <1>4. ASSUME NEW w \in Workers, Execute(w) PROVE IngestInv'
    BY <1>1, <1>2, <1>3, <1>4, FetchInv, PrecheckInv, InsertInv, DeadlockVictimInv, CommitInv,
       DispatchInv, DispatchFailsInv, EndDispatchInv, PublishChordInv, ChordFailsInv,
       FallbackInv, RecordInv, RetryInv, AcknowledgeInv DEF Execute
  <1>5. CASE UNCHANGED vars
    BY <1>5 DEF vars, IngestInv, TypeOK, Unpublished, Numbered, OneRowEach, NoDuplicateEvents,
                EnrichedAtMostOnce, ChordsAreComplete
  <1> QED
    BY <1>4, <1>5, SendInv, StartInv, ItemFailsInv, CrashInv, VisibilityTimeoutInv DEF Next

LEMMA InvAlways == Spec => []IngestInv
  BY InitInv, NextInv, PTL DEF Spec

-----------------------------------------------------------------------------
(* The theorems *)

(* Messages, executions, rows and published batches stay within their types and *)
(* every bound.                                                                 *)
THEOREM TypeCorrect == Spec => []TypeOK
  <1>1. IngestInv => TypeOK
    BY DEF IngestInv
  <1> QED
    BY <1>1, InvAlways, PTL

(* Any number of executions of any number of tasks, at the same time or again,  *)
(* store an item once.                                                          *)
THEOREM ItemsAreStoredOnce == Spec => []NoDuplicateEvents
  <1>1. IngestInv => NoDuplicateEvents
    BY DEF IngestInv, OneRowEach
  <1> QED
    BY <1>1, InvAlways, PTL

(* However often a message is delivered, the chain of an event is published at  *)
(* most once.                                                                   *)
THEOREM ChainsArePublishedOnce == Spec => []EnrichedAtMostOnce
  <1>1. IngestInv => EnrichedAtMostOnce
    BY DEF IngestInv
  <1> QED
    BY <1>1, InvAlways, PTL

(* No chain is published for a row that is not committed.                       *)
THEOREM ChainsWaitForCommit == Spec => []ChainsFollowCommit
  <1>1. IngestInv => ChainsFollowCommit
    <2> SUFFICES ASSUME IngestInv, NEW w \in Workers, NEW e \in run[w].own
                 PROVE  chains[e] = 0
      BY DEF ChainsFollowCommit
    <2>1. run[w] \in RunType /\ Consistent(run[w]) /\ Unpublished(run[w])
      BY DEF IngestInv, TypeOK
    <2>2. e \in EventIds /\ AttemptOf(e) = run[w].n /\ run[w].stage \in Reading
      BY <2>1, RunFields DEF Consistent, InTransaction, Reading
    <2> QED
      BY <2>1, <2>2 DEF Unpublished
  <1> QED
    BY <1>1, InvAlways, PTL

(* An execution that will be retried has stored nothing.                        *)
THEOREM RetriesStartClean == Spec => []RetryStartsClean
  <1>1. IngestInv => RetryStartsClean
    BY DEF IngestInv, Unpublished, RetryStartsClean
  <1> QED
    BY <1>1, InvAlways, PTL

(* A chord is published with every chain of its batch, and its batch is all its *)
(* execution stored.                                                            *)
THEOREM PublishedChordsAreComplete == Spec => []ChordsAreComplete
  <1>1. IngestInv => ChordsAreComplete
    BY DEF IngestInv
  <1> QED
    BY <1>1, InvAlways, PTL

-----------------------------------------------------------------------------
(* The task implements EventLives *)

(* An event that an execution still has to publish has no chain, and it counts one *)
(* after the execution has published it.                                           *)
LEMMA PublishEnriches ==
    ASSUME IngestInv, NEW w \in Workers,
           NEW E \in SUBSET (run[w].todo \union run[w].built),
           chains' = [e \in EventIds |-> chains[e] + (IF e \in E THEN 1 ELSE 0)],
           chords' \in {chords, chords \union {E}}, events' = events
    PROVE  Lives!LivesNext
  <1>1. run[w] \in RunType /\ Unpublished(run[w])
    BY DEF IngestInv, TypeOK
  <1>2. run[w].todo \in SUBSET EventIds /\ run[w].built \in SUBSET EventIds
    BY <1>1, RunFields
  <1>3. E \in SUBSET EventIds /\ \A e \in E : chains[e] = 0
    BY <1>1, <1>2 DEF Unpublished
  <1>4. \A e \in EventIds : chains[e] + (IF e \in E THEN 1 ELSE 0) = IF e \in E THEN 1 ELSE chains[e]
    BY <1>3 DEF IngestInv, TypeOK
  <1>5. chains' = [e \in EventIds |-> IF e \in E THEN 1 ELSE chains[e]]
    BY <1>4
  <1>6. Lives!Enrich(E)
    BY <1>3, <1>5 DEF Lives!Enrich
  <1> QED
    BY <1>3, <1>6 DEF Lives!LivesNext

LEMMA CommitStoresNew ==
    ASSUME IngestInv, NEW w \in Workers, Commit(w)
    PROVE  Lives!LivesNext
  <1>1. PICK E : E = run[w].own
    OBVIOUS
  <1>2. run[w] \in RunType /\ Consistent(run[w]) /\ Unpublished(run[w]) /\ run[w].stage = "precheck"
    BY DEF IngestInv, TypeOK, Commit, EndOfItems
  <1>3. E \in SUBSET EventIds /\ \A e \in E : AttemptOf(e) = run[w].n
    BY <1>1, <1>2, RunFields DEF Consistent
  <1>4. \A e \in E : chains[e] = 0
    BY <1>2, <1>3 DEF Unpublished, Reading
  <1>5. /\ events' = events \union E /\ UNCHANGED <<chains, chords>>
        /\ events \in SUBSET EventIds
    BY <1>1 DEF Commit, Published, IngestInv, TypeOK
  <1>6. \A e \in E, f \in events \union E : ItemOf(e) = ItemOf(f) => e = f
    BY <1>1 DEF IngestInv, OneRowEach
  <1>7. PICK Item : Item = [e \in EventIds |-> ItemOf(e)]
    OBVIOUS
  <1>8. \A e \in E, f \in events' : Item[e] = Item[f] => e = f
    BY <1>3, <1>5, <1>6, <1>7
  <1>9. Lives!Store(E)
    BY <1>4, <1>5, <1>7, <1>8 DEF Lives!Store
  <1> QED
    BY <1>3, <1>9 DEF Lives!LivesNext

LEMMA LivesStep ==
    ASSUME IngestInv, [Next]_vars
    PROVE  Lives!LivesNext \/ UNCHANGED <<events, chains, chords>>
  <1>1. ASSUME NEW w \in Workers, NEW r, Moves(w, r)
        PROVE  UNCHANGED <<events, chains, chords>>
    BY <1>1 DEF Moves, Store, Published
  <1>2. ASSUME NEW w \in Workers, NEW E, NEW r, Publish(w, E, r),
               E \subseteq run[w].todo \union run[w].built
        PROVE  Lives!LivesNext
    BY <1>2, PublishEnriches DEF Publish, Store
  <1>3. ASSUME NEW w \in Workers, Dispatch(w)
        PROVE  Lives!LivesNext \/ UNCHANGED <<events, chains, chords>>
    <2>1. PICK e \in run[w].todo :
             LET rest == [run[w] EXCEPT !.todo = @ \ {e}]
             IN  IF run[w].msg.cal
                 THEN Moves(w, [rest EXCEPT !.built = @ \union {e}])
                 ELSE Publish(w, {e}, rest)
      BY ZenonT(30), <1>3 DEF Dispatch
    <2>2. PICK rest : rest = [run[w] EXCEPT !.todo = @ \ {e}]
      OBVIOUS
    <2>3. PICK next : next = [rest EXCEPT !.built = @ \union {e}]
      OBVIOUS
    <2>4. Moves(w, next) \/ Publish(w, {e}, rest)
      BY <2>1, <2>2, <2>3
    <2>5. {e} \subseteq run[w].todo \union run[w].built
      OBVIOUS
    <2> QED
      BY <1>1, <1>2, <2>4, <2>5
  <1>4. ASSUME NEW w \in Workers, PublishChord(w) PROVE Lives!LivesNext
    <2>1. run[w] \in RunType /\ Consistent(run[w]) /\ run[w].stage = "chord"
      BY <1>4 DEF IngestInv, TypeOK, PublishChord
    <2>2. PICK E : E = run[w].built
      OBVIOUS
    <2>3. E = run[w].ids /\ E \subseteq run[w].todo \union run[w].built
      BY <2>1, <2>2 DEF Consistent
    <2>4. /\ chains' = [e \in EventIds |-> chains[e] + (IF e \in E THEN 1 ELSE 0)]
          /\ chords' \in {chords, chords \union {E}} /\ events' = events
      BY <1>4, <2>2, <2>3 DEF PublishChord, Store
    <2> QED
      BY <2>3, <2>4, PublishEnriches
  <1>5. ASSUME NEW w \in Workers, ChordFails(w) PROVE Lives!LivesNext
    <2>1. PICK r : r = [run[w] EXCEPT !.stage = "record", !.built = {}]
      OBVIOUS
    <2>2. PICK E \in SUBSET run[w].built : Publish(w, E, r)
      BY <1>5, <2>1 DEF ChordFails
    <2> QED
      BY <1>2, <2>2
  <1>6. ASSUME NEW w \in Workers, Fallback(w)
        PROVE  Lives!LivesNext \/ UNCHANGED <<events, chains, chords>>
    <2>1. CASE run[w].built = {}
      BY <1>1, <1>6, <2>1 DEF Fallback
    <2>2. CASE run[w].built # {}
      <3>1. PICK e \in run[w].built, published \in BOOLEAN :
                Publish(w, IF published THEN {e} ELSE {}, [run[w] EXCEPT !.built = @ \ {e}])
        BY <1>6, <2>2 DEF Fallback
      <3>2. PICK E : E = IF published THEN {e} ELSE {}
        OBVIOUS
      <3>3. PICK r : r = [run[w] EXCEPT !.built = @ \ {e}]
        OBVIOUS
      <3>4. Publish(w, E, r) /\ E \subseteq run[w].built
        BY <3>1, <3>2, <3>3
      <3> QED
        BY <1>2, <3>4
    <2> QED
      BY <2>1, <2>2
  <1>7. ASSUME NEW w \in Workers, Execute(w)
        PROVE  Lives!LivesNext \/ UNCHANGED <<events, chains, chords>>
    <2>1. CASE Fetch(w) \/ FetchFails(w)
      <3>1. ASSUME Fetch(w) PROVE UNCHANGED <<events, chains, chords>>
        BY <1>1, <3>1 DEF Fetch
      <3>2. ASSUME FetchFails(w) PROVE UNCHANGED <<events, chains, chords>>
        BY <1>1, <3>2 DEF FetchFails
      <3> QED
        BY <2>1, <3>1, <3>2
    <2>6. CASE GiveUpBatch(w) \/ Link(w)
      <3>1. ASSUME GiveUpBatch(w) PROVE UNCHANGED <<events, chains, chords>>
        BY <1>1, <3>1 DEF GiveUpBatch
      <3>2. ASSUME Link(w) PROVE UNCHANGED <<events, chains, chords>>
        <4>1. PICK r : r = [AfterItem(run[w]) EXCEPT !.ids = @ \union {NewEvent(w)}]
          OBVIOUS
        <4> QED
          BY <1>1, <3>2, <4>1 DEF Link
      <3> QED
        BY <2>6, <3>1, <3>2
    <2>2. CASE Precheck(w) \/ Insert(w) \/ DeadlockVictim(w)
      BY <1>1, <2>2 DEF Precheck, Insert, DeadlockVictim
    <2>3. CASE DispatchFails(w) \/ EndDispatch(w) \/ Acknowledge(w)
      <3>1. ASSUME DispatchFails(w) PROVE UNCHANGED <<events, chains, chords>>
        BY <1>1, <3>1 DEF DispatchFails
      <3>2. ASSUME EndDispatch(w) PROVE UNCHANGED <<events, chains, chords>>
        BY <1>1, <3>2 DEF EndDispatch
      <3>3. ASSUME Acknowledge(w) PROVE UNCHANGED <<events, chains, chords>>
        BY <1>1, <3>3 DEF Acknowledge
      <3> QED
        BY <2>3, <3>1, <3>2, <3>3
    <2>4. CASE Record(w)
      BY <2>4 DEF Record, Published
    <2>5. CASE Retry(w)
      BY <2>5 DEF Retry, Store, Published
    <2> QED
      BY <1>3, <1>4, <1>5, <1>6, <1>7, <2>1, <2>2, <2>3, <2>4, <2>5, <2>6, CommitStoresNew DEF Execute
  <1>8. ASSUME NEW w \in Workers, ItemFails(w)
        PROVE  UNCHANGED <<events, chains, chords>>
    BY <1>1, <1>8 DEF ItemFails
  <1>9. ASSUME NEW w \in Workers, Crash(w) \/ VisibilityTimeout(w) \/ \E m \in Messages : Start(w, m)
        PROVE  UNCHANGED <<events, chains, chords>>
    <2>1. Crash(w) => UNCHANGED <<Store, Published>>
      BY DEF Crash
    <2>2. VisibilityTimeout(w) => UNCHANGED <<Store, Published>>
      BY DEF VisibilityTimeout
    <2>3. (\E m \in Messages : Start(w, m)) => UNCHANGED <<Store, Published>>
      BY DEF Start
    <2> QED
      BY <1>9, <2>1, <2>2, <2>3 DEF Store, Published
  <1>10. ASSUME NEW t \in Tasks, NEW cal \in BOOLEAN, Send(t, cal)
         PROVE  UNCHANGED <<events, chains, chords>>
    BY <1>10 DEF Send, Store, Published
  <1>11. CASE UNCHANGED vars
    BY <1>11 DEF vars
  <1> QED
    BY <1>7, <1>8, <1>9, <1>10, <1>11 DEF Next

(* The task implements EventLives: an item becomes one event, and an event's       *)
(* enrichment is published at most once and never ahead of the commit of its row.  *)
THEOREM IngestKeepsItsPromise == Spec => EventsLiveOnce
  <1>1. Init => Lives!LivesInit
    BY DEF Init, Lives!LivesInit
  <1>2. IngestInv /\ [Next]_vars => [Lives!LivesNext]_<<events, chains, chords>>
    BY LivesStep
  <1> QED
    BY <1>1, <1>2, InvAlways, PTL DEF Spec, EventsLiveOnce, Lives!LivesSpec
=============================================================================
