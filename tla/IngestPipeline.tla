--------------------------- MODULE IngestPipeline ---------------------------
(***************************************************************************)
(* The ingest task of one source (workers/ingest.py) as Celery runs it:    *)
(* late acknowledgement, so a crash or a visibility timeout delivers the   *)
(* message again, retries as new messages, one database transaction per    *)
(* execution with a savepoint per item, and the enrichment chains          *)
(* published after the commit.                                             *)
(*                                                                         *)
(* An item stands for its dedupe fingerprint.  An event row is identified  *)
(* by the task and the execution that inserted it and by its item.  What   *)
(* the source, the plan and the broker answer is chosen when they are      *)
(* asked.                                                                  *)
(***************************************************************************)
EXTENDS Integers, Sequences, FiniteSets

CONSTANTS
    Tasks,           \* celery task ids of osint.ingest_source
    Workers,         \* worker processes
    Items,           \* dedupe fingerprints
    Feeds,           \* what the source may answer: sequences of items
    MaxItems,        \* max_items of the source
    MaxRetries,      \* max_retries of the task
    DeliveryBudget,  \* bound: messages the broker may deliver again
    AttemptBound     \* bound: executions started

ASSUME FeedsAreItems == Feeds \subseteq Seq(Items)
ASSUME RetriesAreBounded == MaxRetries \in Nat
ASSUME CapIsPositive == MaxItems \in Nat \ {0}
ASSUME BudgetIsNat == DeliveryBudget \in Nat
ASSUME AttemptsAreBounded == AttemptBound \in Nat

VARIABLES
    sent,      \* tasks dispatched by beat or the API
    ready,     \* broker: how many copies of each message wait in the queue
    run,       \* per worker: the execution it is in
    attempts,  \* executions started so far
    redelivered, \* deliveries repeated so far
    events,    \* committed event rows
    chains,    \* broker: enrichment chains published, per event
    chords,    \* broker: batches published with match_leads as callback
    job        \* the Job row of each task

vars == <<sent, ready, run, attempts, redelivered, events, chains, chords, job>>

EventIds == Tasks \X (1 .. AttemptBound) \X Items
AttemptOf(e) == e[2]
ItemOf(e) == e[3]
ItemsOf(E) == {ItemOf(e) : e \in E}

(* cal: the task's plan is the prospecting plan *)
Messages == [task : Tasks, cal : BOOLEAN, retries : 0 .. MaxRetries]

Stages == {"idle",      \* no execution
           "fetch",     \* about to read the active plan and call the connector
           "precheck",  \* about to look the next item up, or to end the loop
           "insert",    \* about to insert the next item's event
           "link",      \* about to link its indicators and end its savepoint
           "dispatch",  \* committed, about to publish chains
           "chord",     \* all chains built, about to publish the chord
           "fallback",  \* some chains not built, publishing the others
           "record",    \* about to write the Job row
           "reject",    \* configuration error, about to write the Job row
           "retry",     \* the execution raised, about to publish the retry
           "ack"}       \* about to acknowledge the message
InTransaction == {"precheck", "insert", "link"}
JobStatuses == {"none", "succeeded", "partial_success", "failed"}

NoMessage == [task |-> "none", cal |-> FALSE, retries |-> 0]
Idle == [stage |-> "idle", msg |-> NoMessage, n |-> 0, items |-> <<>>, count |-> 0,
         own |-> {}, ids |-> {}, todo |-> {}, built |-> {}, errors |-> 0,
         failures |-> 0, restored |-> FALSE]

RunType ==
    [stage : Stages, msg : Messages \union {NoMessage}, n : 0 .. AttemptBound,
     items : Seq(Items), count : 0 .. MaxItems, own : SUBSET EventIds, ids : SUBSET EventIds,
     todo : SUBSET EventIds, built : SUBSET EventIds, errors : 0 .. MaxItems,
     failures : Nat,
     restored : BOOLEAN]

TypeOK ==
    /\ sent \subseteq Tasks
    /\ ready \in [Messages -> Nat]
    /\ run \in [Workers -> RunType]
    /\ \A w \in Workers : run[w].stage # "idle" => run[w].msg \in Messages /\ run[w].n >= 1
    /\ attempts \in 0 .. AttemptBound
    /\ redelivered \in 0 .. DeliveryBudget
    /\ events \subseteq EventIds
    /\ chains \in [EventIds -> Nat]
    /\ chords \subseteq SUBSET EventIds
    /\ job \in [Tasks -> JobStatuses]

Init ==
    /\ sent = {}
    /\ ready = [m \in Messages |-> 0]
    /\ run = [w \in Workers |-> Idle]
    /\ attempts = 0
    /\ redelivered = 0
    /\ events = {}
    /\ chains = [e \in EventIds |-> 0]
    /\ chords = {}
    /\ job = [t \in Tasks |-> "none"]

Broker == <<sent, ready, attempts, redelivered>>
Store == <<events, job>>
Published == <<chains, chords>>

(* Worker w goes on with record r and touches nothing but its own memory. *)
Becomes(w, r) == run' = [run EXCEPT ![w] = r]
Moves(w, r) == Becomes(w, r) /\ UNCHANGED <<Broker, Store, Published>>

-----------------------------------------------------------------------------
(* The broker and the worker processes *)

(* Beat or POST /jobs sends the task for a source of some plan. *)
Send(t, cal) ==
    /\ t \notin sent
    /\ sent' = sent \union {t}
    /\ ready' = [ready EXCEPT ![[task |-> t, cal |-> cal, retries |-> 0]] = @ + 1]
    /\ UNCHANGED <<run, attempts, redelivered, Store, Published>>

Start(w, m) ==
    /\ run[w].stage = "idle"
    /\ ready[m] > 0
    /\ attempts < AttemptBound
    /\ attempts' = attempts + 1
    /\ ready' = [ready EXCEPT ![m] = @ - 1]
    /\ Becomes(w, [Idle EXCEPT !.stage = "fetch", !.msg = m, !.n = attempts + 1])
    /\ UNCHANGED <<sent, redelivered, Store, Published>>

(* task_acks_late: the message of a dead worker is delivered again; its      *)
(* transaction is rolled back by the database.                               *)
Crash(w) ==
    /\ run[w].stage # "idle"
    /\ run[w].restored \/ redelivered < DeliveryBudget
    /\ IF run[w].restored
       THEN UNCHANGED <<ready, redelivered>>
       ELSE /\ ready' = [ready EXCEPT ![run[w].msg] = @ + 1]
            /\ redelivered' = redelivered + 1
    /\ Becomes(w, Idle)
    /\ UNCHANGED <<sent, attempts, Store, Published>>

(* The visibility timeout passes while w is still at work. *)
VisibilityTimeout(w) ==
    /\ run[w].stage # "idle"
    /\ ~run[w].restored
    /\ redelivered < DeliveryBudget
    /\ ready' = [ready EXCEPT ![run[w].msg] = @ + 1]
    /\ redelivered' = redelivered + 1
    /\ Becomes(w, [run[w] EXCEPT !.restored = TRUE])
    /\ UNCHANGED <<sent, attempts, Store, Published>>

(* Execution r has only its message left: what it held in memory is gone. *)
Ends(r, stage) ==
    [Idle EXCEPT !.stage = stage, !.msg = r.msg, !.n = r.n, !.restored = r.restored]

Acknowledge(w) ==
    /\ run[w].stage = "ack"
    /\ Moves(w, Idle)

SameMessage(m) == m

NextMessage(m) == [m EXCEPT !.retries = @ + 1]

(* self.retry publishes a new message and the old one is acknowledged; when *)
(* the retries are used up the error is raised and no Job row is written.   *)
Retry(w) ==
    /\ run[w].stage = "retry"
    /\ LET m == run[w].msg
       IN  ready' = IF m.retries < MaxRetries
                    THEN [ready EXCEPT ![NextMessage(m)] = @ + 1]
                    ELSE ready
    /\ Becomes(w, Ends(run[w], "ack"))
    /\ UNCHANGED <<sent, attempts, redelivered, Store, Published>>

-----------------------------------------------------------------------------
(* One execution *)

Uncapped(feed) == feed

(* The first max_items items that have a title or a summary. *)
Batch(feed) == SubSeq(feed, 1, IF Len(feed) < MaxItems THEN Len(feed) ELSE MaxItems)

Fetch(w) ==
    /\ run[w].stage = "fetch"
    /\ \E feed \in Feeds :
         Moves(w, [run[w] EXCEPT !.stage = "precheck", !.items = Batch(feed),
                                 !.count = Len(Batch(feed))])

(* No active plan, a plan without the source, or an answer that cannot be     *)
(* parsed raise ValueError or KeyError, a configuration error; any other      *)
(* failure is retried.                                                        *)
FetchFails(w) ==
    /\ run[w].stage = "fetch"
    /\ \E next \in {"reject", "retry"} : Moves(w, Ends(run[w], next))

AfterItem(r) == [r EXCEPT !.stage = "precheck", !.items = Tail(@)]

(* The transaction sees the committed rows and its own. *)
Seen(w) == ItemsOf(events \union run[w].own)

PrecheckCollects(w) ==
    /\ run[w].stage = "precheck"
    /\ run[w].items # <<>>
    /\ LET item == Head(run[w].items)
       IN  Moves(w, IF item \in Seen(w)
                    THEN [AfterItem(run[w]) EXCEPT !.ids = @ \union {e \in events : ItemOf(e) = item}]
                    ELSE [run[w] EXCEPT !.stage = "insert"])

Precheck(w) ==
    /\ run[w].stage = "precheck"
    /\ run[w].items # <<>>
    /\ Moves(w, IF Head(run[w].items) \in Seen(w)
                THEN AfterItem(run[w])
                ELSE [run[w] EXCEPT !.stage = "insert"])

(* The insert waits for another transaction's row with the same fingerprint. *)
Blocks(v, w) ==
    v # w /\ run[w].stage = "insert" /\ Head(run[w].items) \in ItemsOf(run[v].own)

IgnoredIndex(w) == FALSE

(* The unique index on dedupe_fingerprint. *)
Conflicts(w) == Head(run[w].items) \in Seen(w)

NewEvent(w) == <<run[w].msg.task, run[w].n, Head(run[w].items)>>

(* flush; an IntegrityError skips the item *)
Insert(w) ==
    /\ run[w].stage = "insert"
    /\ \A v \in Workers : ~Blocks(v, w)
    /\ Moves(w, IF Conflicts(w)
                THEN AfterItem(run[w])
                ELSE [run[w] EXCEPT !.stage = "link", !.own = @ \union {NewEvent(w)}])

LinkAndDispatch(w) ==
    /\ run[w].stage = "link"
    /\ Becomes(w, [AfterItem(run[w]) EXCEPT !.ids = @ \union {NewEvent(w)}])
    /\ chains' = [chains EXCEPT ![NewEvent(w)] = @ + 1]
    /\ UNCHANGED <<Broker, Store, chords>>

(* Indicators are upserted and the item's savepoint is released. *)
Link(w) ==
    /\ run[w].stage = "link"
    /\ Moves(w, [AfterItem(run[w]) EXCEPT !.ids = @ \union {NewEvent(w)}])

Failed(r) == [AfterItem(r) EXCEPT !.errors = @ + 1]

(* An exception anywhere in the item's turn: its savepoint is rolled back.    *)
(* One raised by the savepoint's release (the last flush) comes after the     *)
(* item's id was added to new_event_ids.                                      *)
ItemFails(w) ==
    \/ /\ run[w].stage \in {"precheck", "insert"}
       /\ run[w].items # <<>>
       /\ Moves(w, Failed(run[w]))
    \/ /\ run[w].stage = "link"
       /\ \E ids \in {run[w].ids, run[w].ids \union {NewEvent(w)}} :
            Moves(w, [Failed(run[w]) EXCEPT !.own = @ \ {NewEvent(w)}, !.ids = ids])

(* PostgreSQL breaks a cycle of two inserts waiting for each other. *)
DeadlockVictim(w) ==
    /\ \E v \in Workers : Blocks(v, w) /\ Blocks(w, v)
    /\ Moves(w, Failed(run[w]))

(* errors / len(items) > 0.5 *)
TooManyErrors(r) == 2 * r.errors > r.count

EndOfItems(w) == run[w].stage = "precheck" /\ run[w].items = <<>>

(* Closing the session without a commit: RuntimeError, or the commit failed. *)
GiveUpBatch(w) ==
    /\ EndOfItems(w)
    /\ Moves(w, Ends(run[w], "retry"))

Commit(w) ==
    /\ EndOfItems(w)
    /\ ~TooManyErrors(run[w])
    /\ events' = events \union run[w].own
    /\ Becomes(w, [run[w] EXCEPT !.stage = "dispatch", !.own = {}, !.todo = run[w].ids])
    /\ UNCHANGED <<Broker, job, Published>>

Publish(w, E, r) ==
    /\ chains' = [e \in EventIds |-> chains[e] + (IF e \in E THEN 1 ELSE 0)]
    /\ Becomes(w, r)
    /\ UNCHANGED <<Broker, Store, chords>>

(* One round of the loop over new_event_ids: the chain is published, or kept *)
(* for the chord.                                                            *)
Dispatch(w) ==
    /\ run[w].stage = "dispatch"
    /\ \E e \in run[w].todo :
         LET rest == [run[w] EXCEPT !.todo = @ \ {e}]
         IN  IF run[w].msg.cal
             THEN Moves(w, [rest EXCEPT !.built = @ \union {e}])
             ELSE Publish(w, {e}, rest)

DispatchRaises(w) ==
    /\ run[w].stage = "dispatch"
    /\ run[w].todo # {}
    /\ Moves(w, Ends(run[w], "retry"))

(* The chain is not built or not published: the error is only logged. *)
DispatchFails(w) ==
    /\ run[w].stage = "dispatch"
    /\ \E e \in run[w].todo :
         Moves(w, [run[w] EXCEPT !.todo = @ \ {e}, !.failures = @ + 1])

NeverPartial(r) == TRUE

AllBuilt(r) == r.failures = 0

UsesChord(r) == r.msg.cal /\ r.ids # {}

EndDispatch(w) ==
    /\ run[w].stage = "dispatch"
    /\ run[w].todo = {}
    /\ LET next == IF ~UsesChord(run[w]) THEN "record"
                   ELSE IF AllBuilt(run[w]) THEN "chord"
                   ELSE "fallback"
       IN  Moves(w, [run[w] EXCEPT !.stage = next])

(* chord(group(chains), match_leads(new_event_ids)).apply_async() *)
PublishChord(w) ==
    /\ run[w].stage = "chord"
    /\ chains' = [e \in EventIds |-> chains[e] + (IF e \in run[w].built THEN 1 ELSE 0)]
    /\ chords' = chords \union {run[w].ids}
    /\ Becomes(w, [run[w] EXCEPT !.stage = "record", !.built = {}])
    /\ UNCHANGED <<Broker, Store>>

(* The broker fails part of the way: some chains are out, the callback is not. *)
ChordFails(w) ==
    /\ run[w].stage = "chord"
    /\ \E E \in SUBSET run[w].built :
         Publish(w, E, [run[w] EXCEPT !.stage = "record", !.built = {}])

(* Some chains were not built: the others go out without match_leads. *)
Fallback(w) ==
    /\ run[w].stage = "fallback"
    /\ IF run[w].built = {}
       THEN Moves(w, [run[w] EXCEPT !.stage = "record"])
       ELSE \E e \in run[w].built, published \in BOOLEAN :
              Publish(w, IF published THEN {e} ELSE {}, [run[w] EXCEPT !.built = @ \ {e}])

StatusOf(r) ==
    IF r.errors > 0 /\ r.ids # {} THEN "partial_success"
    ELSE IF r.errors > 0 THEN "failed"
    ELSE IF r.failures > 0 THEN "partial_success"
    ELSE "succeeded"

(* _record_job and _record_failed_job, whose own failure is only logged. *)
Record(w) ==
    /\ run[w].stage \in {"record", "reject"}
    /\ \E status \in {IF run[w].stage = "reject" THEN "failed" ELSE StatusOf(run[w]),
                      job[run[w].msg.task]} :
         job' = [job EXCEPT ![run[w].msg.task] = status]
    /\ Becomes(w, Ends(run[w], "ack"))
    /\ UNCHANGED <<Broker, events, Published>>

Execute(w) ==
    \/ Fetch(w) \/ FetchFails(w)
    \/ Precheck(w) \/ Insert(w) \/ Link(w) \/ DeadlockVictim(w)
    \/ GiveUpBatch(w) \/ Commit(w)
    \/ Dispatch(w) \/ DispatchFails(w) \/ EndDispatch(w)
    \/ PublishChord(w) \/ ChordFails(w) \/ Fallback(w)
    \/ Record(w) \/ Retry(w) \/ Acknowledge(w)

Next ==
    \/ \E t \in Tasks, cal \in BOOLEAN : Send(t, cal)
    \/ \E w \in Workers :
         \/ \E m \in Messages : Start(w, m)
         \/ Execute(w) \/ ItemFails(w) \/ Crash(w) \/ VisibilityTimeout(w)

Spec == Init /\ [][Next]_vars

(* A running worker goes on and an idle one takes a waiting message.  Nothing *)
(* must be sent, fail, crash or time out.                                     *)
Fairness ==
    \A w \in Workers :
        /\ WF_vars(Execute(w))
        /\ WF_vars(\E m \in Messages : Start(w, m))

FairSpec == Spec /\ Fairness

-----------------------------------------------------------------------------
(* Properties *)

(* Concurrent and repeated executions store an item once: the look-up misses   *)
(* what another transaction has not committed, the unique index does not.      *)
NoDuplicateEvents ==
    \A e, f \in events : ItemOf(e) = ItemOf(f) => e = f

(* However often the message is delivered, retried or run at the same time by  *)
(* two workers, an event's enrichment chain is published at most once.         *)
EnrichedAtMostOnce == \A e \in EventIds : chains[e] <= 1

Lives == INSTANCE EventLives
    WITH Ids <- EventIds, Item <- [e \in EventIds |-> ItemOf(e)], rows <- events

(* The task implements EventLives: whatever is delivered twice, retried, lost or *)
(* refused, a step stores events of new items that no chain has been published   *)
(* for, or publishes chains of events that have none, perhaps with their         *)
(* match_leads, or changes nothing the other tasks see (ingest.py:147-289).      *)
EventsLiveOnce == Lives!LivesSpec

(* No chain is published for a row that is still uncommitted, and may yet be   *)
(* rolled back: the enrichment tasks would not find the event.                 *)
ChainsFollowCommit ==
    \A w \in Workers : \A e \in run[w].own : chains[e] = 0

(* An execution that will be retried has stored nothing: what it had stored    *)
(* would be skipped as a duplicate by the retry and never be enriched.         *)
RetryStartsClean ==
    \A w \in Workers : run[w].stage = "retry" =>
        \A e \in events : AttemptOf(e) # run[w].n

(* ingest.py:259: match_leads is dispatched only when every chain of the batch *)
(* is, "so we never match against un-enriched events"; and the batch holds     *)
(* everything its execution stored.                                            *)
ChordsAreComplete ==
    \A c \in chords :
        /\ \A e \in c : chains[e] = 1
        /\ \A e \in events : (\E f \in c : AttemptOf(f) = AttemptOf(e)) => e \in c

(* docs/verification.md:22-23: a run ends with "Downstream tasks chained" and  *)
(* a Job row "with final status"; a job that says succeeded has left none of   *)
(* the events of its task without a chain.                                     *)
SucceededMeansChained ==
    \A t \in Tasks : job[t] = "succeeded" =>
        \A e \in events : e[1] = t => chains[e] > 0

(* Every task sent is finished some day: retries are bounded, workers do not   *)
(* wait for each other's rows forever.                                         *)
TasksEnd ==
    \A t \in Tasks : t \in sent ~>
        /\ \A m \in Messages : m.task = t => ready[m] = 0
        /\ \A w \in Workers : run[w].stage # "idle" => run[w].msg.task # t
=============================================================================
