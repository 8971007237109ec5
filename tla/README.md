# osint-core in TLA+

A verification project for osint-core: TLA+ modules that model its concurrent core, TLC
configurations that check them on small instances, and proofs of theorems about them.
osint-core is a FastAPI application and a set of Celery workers that collect open-source
intelligence (feeds, advisories, social media, university policies), store it in PostgreSQL,
enrich it, and turn it into alerts, digests and prospecting leads.

## 1. The system

| Component | State it keeps | Operations | Talks to |
|---|---|---|---|
| Plan store (`services/plan_store.py`, `api/routes/plan.py`) | `plan_versions`: version numbers, contents, `is_active` | create, activate, roll back, sync from disk | plan files; read by every worker |
| Plan engine (`services/plan_engine.py`) | none | validate a document, build the beat schedule of a plan | beat |
| Beat and Celery (`workers/celery_app.py`) | beat's shelve file, broker queues | load schedules at start, deliver, acknowledge late, redeliver | all tasks |
| Ingest task (`workers/ingest.py`) | `events`, `indicators`, its `jobs` row | fetch, dedupe, insert, commit, publish enrichment chains or a chord | connectors, enrichment, leads, jobs |
| Connectors (`connectors/*`) | mostly none; hashes of documents and cursors in Redis | one fetch each | the Internet |
| Enrichment (`workers/nlp_enrich.py`, `enrich.py`, `k8s_dispatch.py`) | columns and metadata of an event, vectors, entities, links | LLM classification, vectorise, correlate, extract entities | Qdrant, LLM |
| Scoring and alerts (`workers/score.py`, `api/routes/alerts.py`) | scores, `alerts` | score, open or repeat an alert, operator transitions | notifications |
| Digests (`workers/digest.py`) | `briefs`, the `digested` flag of an event | compile a window, mark, notify | notifications |
| Notifications (`workers/notify.py`) | none | send through several channels, retry when all fail | Gotify, Slack, webhooks, SMTP |
| Leads (`workers/prospecting.py`, `services/lead_matcher.py`, `services/prospecting_report.py`, `api/routes/leads.py`) | `leads`, `reports` | match a batch, analyse, report and mail, operator transitions | LLM, MinIO, Resend |
| Jobs (`api/routes/jobs.py`) | `jobs` | create with an idempotency key, record an outcome | ingest task |
| Retention (`workers/retention.py`) | deletes events and vectors | purge by class | Qdrant |
| Realtime stream (`api/realtime.py`) | subscribers' queues, Redis cool-down | publish, subscribe | Redis |
| Rate limiting (`api/middleware/rate_limit.py`) | counters in Redis | count, refuse | Redis |
| Read routes, web application, audit, metrics | none of their own | read | everything |

**What is hard.** Every writer is a short transaction at READ COMMITTED that reads rows, often
awaits something slow (an LLM, an HTTP fetch, a PDF), and writes columns back; nothing takes
explicit locks or checks what it overwrites. Celery acknowledges late, so every task may run
again after a crash, or at the same time as itself after a visibility timeout. Messages are sent
before a commit (jobs) or after it (ingest), so a failure between the two separates the
database from the queue. Retries share one counter between different reasons to retry. These
are the hazards listed in `PROJECT.json`, each at its line.

**What makes each part correct.** Plans: versions numbered without gaps, never lost, one
active version per plan, and never none once there was one. Ingest: an item is stored once,
each stored event is enriched once, only after its commit. Leads: no evidence is lost or
reported twice, a lead keeps the event it was made from, statuses move along the lifecycle, a
report task always ends. Jobs: one key one
job, an outcome is recorded and stays. Notifications: what one channel
answers, or fails to, repeats nothing to another whose answer is known. Digests: an event is in one digest, and what enrichment and digests know of it stays.
Alerts: one open alert per fingerprint, announced, at the highest severity any promotion allows.
Stores: no vector without its event, one row per entity, every source of an indicator. Stream:
frames in the order of their acceptance, never twice, a bounded queue. Connectors: a fetch ends,
and a change is silenced only by an event made of it or by a known loss. Deep analysis: status
and analysis of a lead always belong together, and with them severity and citations unless a commit
wrote from an outdated copy.

## 2. Modules

| Module | Models | Checked by | Proved |
|---|---|---|---|
| `PlanHistory` | what readers of the plan store are promised | `MCPlanVersions` | by refinement |
| `PlanVersions` | plan store and its routes; implements `PlanHistory` | `MCPlanVersions` | `PlanVersionsProofs` |
| `EventLives` | what the ingest promises about events | `MCIngestPipeline` | by refinement |
| `IngestPipeline` | ingest task, broker, publications; implements `EventLives` | `MCIngestPipeline` | `IngestPipelineProofs` |
| `LeadPipeline` | leads from matching to mail | `MCLeadPipeline` | `LeadPipelineProofs` |
| `JobRecords` | rows of `jobs` from API and task | `MCJobRecords` | `JobRecordsProofs` |
| `Notifications` | the task that sends through channels | `MCEventServices` | `EventServicesProofs` |
| `EventDigests` | LLM enrichment against digests | `MCEventServices` | `EventServicesProofs` |
| `EventAlerts` | scoring, alerts, rescoring, operators | `MCEventServices` | `EventServicesProofs` |
| `EventStores` | vectors, retention, entities, indicators | `MCEventServices` | `EventStoresProofs` |
| `EventServices` | the four above running side by side | `MCEventServices` | `EventServicesProofs` |
| `FrameStream` | what a reader of the stream is promised | `MCServices` | by refinement |
| `RealtimeStream` | the stream over Redis and memory; implements `FrameStream` | `MCServices` | `RealtimeStreamProofs` |
| `SourceFetch` | all connectors, and what of a source becomes an event | `MCServices` | `EdgeProofs` |
| `DeepAnalysis` | the analysis task, the analyzer of one lead, and the matching that writes the same rows | `MCServices` | `EdgeProofs` |
| `EdgeServices` | stream, fetch and analysis running side by side | `MCServices` | `EdgeProofs` |

`PlanVersions`, `IngestPipeline`, `LeadPipeline` and `JobRecords` share no variables: each models
what the others do to it as an action of its environment (an ingest task's message is `Send`; the event batches a chord hands to
`match_leads` are the constant `BatchOf` of the lead module; the task a job request sends is
`Start` of the job module). That is enough because the interfaces are one-way messages.

**PlanVersions.** One action per SQL statement of a request. A session's uncommitted rows
(`new`) and flag changes (`ses[s].on`, `.off`) are laid over the committed state to give what it
sees; `Locked` is what it holds. `StoreVersion` waits for another session's uncommitted key and
fails on a committed one. `DeactivateScan` takes the snapshot of `activate`'s bulk UPDATE,
`DeactivateRows` re-checks the rows once locked, `ActivateTarget` sets the flag, `Commit`
publishes. `Wanted` is what the next statement must lock, so `WaitsFor` and `Deadlocked` are the
waits and their cycles; `DeadlockVictim` is PostgreSQL's detector, which ends one request of a cycle
with an error. `solo` is history: the sessions whose request overlapped nothing. `History` reads
the log of each plan's documents and its active versions off the committed table; `KeepsHistory`
says that they follow `PlanHistory`: a commit appends one document to the logs of some plans and
makes these versions current or none of them, or it makes one stored version current.

**IngestPipeline.** One worker's execution is a record whose `stage` is the next statement of
`_ingest_source_async`; the broker is a bag of messages. `Insert` waits on another execution's
uncommitted row with the same fingerprint and skips on a committed one; two inserts waiting on
each other are broken by `DeadlockVictim`. `ItemFails` rolls a savepoint back. `Commit` publishes
the rows; `Dispatch`, `PublishChord`, `Fallback` and their failures publish chains. `Crash` and
`VisibilityTimeout` deliver the message again, `Retry` publishes a new one. `Lives` reads the
stored rows and the publications as the state of `EventLives`, and `EventsLiveOnce` says that they
follow it: a step stores events of new items that no chain is out for, or publishes chains of
events that have none, perhaps with the `match_leads` of exactly these events.

**LeadPipeline.** Matchers, analyzers, reporters and operators each hold a copy of what they
read and write the columns they assign at commit. Timestamps are abstracted to their order: the
clock advances when one is taken and 0 is NULL. `Written` shows `_update_lead`'s
`set_committed_value` as what it does (nothing is written to `event_ids`). `Retried`, `Defer` and
`GenerationsUsed` are the shared retry counter of the report task. A request keeps the statuses
it read (`read`) until `StoreDecision` writes its target, whatever the rows say by then; `Contested`
names the leads whose copy in some session another commit has overtaken. `matched`, `shown` and
`had` are history: what a lead was matched with, what reports showed of it, and the statuses it has
had.

**JobRecords.** A request is its stage between look-up, dispatch and store; an execution looks its
row up and writes it in separate steps. A flushed row (`holds`) makes others with its key wait.

**Notifications.** A notice is one `send_notification` message from its publication to its end:
what it is about, what its caller passed, and its channels. `RejectPayload`, `BelowThreshold` and
`StartSending` are the head of the task; `Dispatched`, `Skipped`, `Unreachable`, `AnswerLost` and
`TemplateBreaks` are the turns of its loop, by what the kind of channel can answer; `EndSending`
retries only when `MayRetry`. `heard` counts what each channel took and `lost` how often of those
its answer was lost, which the task takes for a failure. `EventDigests` and
`EventAlerts` extend the module and publish with `Announce`.

**EventDigests.** An event's row keeps its time, its NLP columns and the metadata object.
`NlpRead` and `Select` copy the metadata, `NlpStore` and `StoreDigest` write the whole object
back, as SQLAlchemy does with a JSON column, and nothing locks the row in between.
`AnnounceDigest` comes after the commit. `noisy` is history: events whose metadata two executions
held at once.

**EventAlerts.** `ScoreEvent` computes and commits the severity from one of the `Readings`:
relevance, bonus and recency in hundredths, then the promotions in the plan's order. `LookUp`
finds the open alert with the fingerprint or raises when there are two; `Repeat` and `Open`
commit; `NotifyAlert` publishes. Any failure runs all of it again. `RescoreBatch` pages through
the ids (`Pages` is the one page after a cursor); `TriageRead` and `TriageWrite` are an operator's request, single or in bulk. `calm` is
history: events without overlapping score tasks and without an alert reopened by an operator.

**EventStores.** The purge goes class by class and batch by batch, each batch its own commit, and
removes the vectors at the end from the ids it has kept; a retry starts with none. A vector is put
after the session that read the row is closed. Entities are looked up and inserted without a
unique key, indicators with one. `adrift`, `met` and `crowded` are history: what the properties
excuse.

**FrameStream, RealtimeStream.** `FrameStream` is the promise: a transport accepts frames, and a
reader hears accepted ones, in order, perhaps with gaps. `RealtimeStream` has the two transports,
the cool-down of a process, queues that drop their oldest frame, replies that are lost, connections
that break and come back. `Promise == INSTANCE FrameStream WITH heard <- ...` reads what was written
to each reader off the detailed state, and `FramesKeepOrder` is `Promise!StreamSpec`.

**SourceFetch.** `feed` is the source, which gains and changes posts. An execution asks for a
target, `Reaction` is what the connector does with each answer, and the `...Items` operators are
what an answer holds for each connector, with its order, window and cap. The policy portals take
an index and then each document: `TakePolicy` compares and stores the hash, and archives;
`PolicyBreaks` is a document whose parser raises after that. `StoreItems` is the cap, the filter of
items without a text, the savepoint of each item, which may fail for up to half of them, and the
commit of the ingest task, the rest of which is `IngestPipeline`. `AfterError` ends the task on a
ValueError or KeyError and retries it on any other exception. `dropped` is history: versions that
an execution found and lost.

**DeepAnalysis.** The texts of a document are kept as far as the gates tell them apart. What the
analyzer can return for a lead (`ResultsFor`) is computed from what its helpers do: requests to
public addresses only, archived document or page, extraction with its second reader, gates in
their order, screening, one question for each section, precedents with their verification. An
analysis loads the pending leads and writes them one by one (`Analyse`); a matching takes the events
of its batch, looks each lead up and merges a severity and a source into it (`MatchEvent`). Both are
`sessions`: each `Flush` takes a row lock, and `Commits` writes the columns whose value differs from
the loaded one (`Updated`), on top of what the row holds by then. `stale` is history: leads that a
commit wrote from a copy that was out of date.

**EventServices, EdgeServices.** The compositions: every service may take its next step at any time,
as Celery and the API processes run them. The services around an event share the queue of notices,
the edges share nothing.

**MCEventServices, MCServices.** Because so little is shared, a behaviour of the runs has one service
that moves, its `part`, and the rest keep their initial state. Every behaviour of
each part is checked, and the states add up instead of multiplying. Where two parts do meet, the
alerts and the task that sends their notices, `MCAlertSpec` runs both.

## 3. Runs

| Run | Instance and bounds | Shows |
|---|---|---|
| `plan_versions` | 1 plan, 2 contents, 2 sessions, 4 versions | the store implements `PlanHistory`, versions gap-free, plan never left inactive, an undisturbed activation is exclusive, an undisturbed sync publishes the files |
| `plan_two_plans` | 2 plans, 1 content, 2 sessions, 4 and 2 versions, fair | a PATCH changes only its plan; every request ends, and only a cycle of waits with a PATCH in it needs the deadlock detector |
| `plan_race` | as the first, 3 versions | refuted: two overlapping activations leave two active versions |
| `ingest` | 1 task, 2 workers, 2 items in opposite orders, 1 retry, 1 redelivery, fair | the task implements `EventLives`, one row per item, no chain before the commit, a retry starts clean, chords are complete, the task ends |
| `ingest_success` | no retry | refuted: a job succeeds while stored events have no chain |
| `leads` | 1 lead, 2 batches, 1 analyzer, 2 operators (symmetric) with 2 decisions, 2 report cycles | statuses move along the transitions, and off them only by a session that was overtaken; reports carry news |
| `leads_guard` | 1 lead, 2 batches with 1 retry, 1 report with 1 deferral, 1 retry, 2 mails, 1 crash, fair | a lead keeps the event it was made from, all generations are tried, the report ends |
| `leads_evidence` | 2 report cycles | refuted: evidence is never reported |
| `jobs` | 3 requests, 1 key or none, 2 executions | one key one job, outcomes recorded, final statuses final |
| `event_services` | 1 notice of up to 2 channels; 2 events, 2 digest tasks, 1 NLP task; 1 scored event, 2 score messages, 1 crash, 1 triage, 1 rescore; 2 purges in batches of 1, 1 vectorizer; 2 extractors, 2 feeders | a channel hears a notice again only for a lost answer of its own or a crash, undisturbed events are digested once and keep what is known of them, one open alert for a calm event, matched events are announced, the highest promotion wins, purges end clean, orphaned vectors and inexact upserts have a cause |
| `alert_notices` | the alerts with the sender of their notices | refuted: every notice of an alert is rejected |
| `services` | stream: 4 publications in 2 processes, 1 reader, queue of 2, 4 accepted frames; fetch: 20 kinds of connector (the policy portals plain and behind a bot check), 3 posts of which one changes, pages of 1, a cap of 2, 1 run, 1 retry, 1 crash; analysis: 2 leads, 2 analyses and 1 matching of which two have been delivered at a time, 2 sections, 1 retry, 1 crash or error | the stream implements its promise, a silenced change has a cause, every fetch ends, status and analysis of a lead agree, and all its columns unless a commit wrote from an outdated copy |

*Why the bounds suffice.* All hazards here are between two actors over one row, or between two
executions of one message; two of each, with one retry and one repeated delivery, make every
pair of them meet at every step. Two items are the least with a lock cycle and with a batch that
half fails; two versions beyond the active one are the least for rollback. Two versions of a plan
are the least for two activations to want each other's rows, two plans without versions the least
for two syncs to insert into both; `plan_two_plans` has both cases. The bound of a plan's versions
counts what open requests can still add, so it never stops a request half-way. Two report cycles
are the least for a lead to be reported again. `AttemptBound` in `ingest` is what one redelivery and
one retry of each copy can use up, so it never cuts a behaviour short. Notices are independent of
each other, so one at a time is enough; two channels are the least for a partial success. Two
purges with batches of one are the least for one to delete what the other has selected. Readers
of the stream do not see each other, so one is enough; four frames overflow a queue of two twice.
Three posts, of which one changes, are the least for a page of one or a cap of two to leave
something out, and for one of two items to fail while the other is committed; a time of 2 with a
look-back of 0 lets a post leave the window. The hash of a document outlives the execution, so the
retry and the repeated delivery of one run meet it as a second run would. Two leads, one from a
policy and one from an incident, taken in either order, are the least for two analyses to wait
for each other. `OneWaits` keeps one of the two analyses and the matching undelivered: every pair of
them runs with every order of their steps, and the properties of a lead are about pairs of copies.
`MaxCases` is 0 here: cases are cited behind the sections and turn no column, and `EdgeProofs` proves
the same for any number of them. `MaxDeliveries`, `MaxCrashes`, `MaxFetchCrashes` and `MaxFaults` bound
failures only; `MaxTasks` and `MaxNotices` bound what is published; `MaxClock`, `MaxAge` and
`MaxTime` bound time. Deadlock checking is off
because every one of these systems may stop when its requests, tasks and cycles are used up.

*Fairness.* A worker that has a task carries on and an idle one takes a message (weak fairness of
its steps, as Celery's prefetch loop and the event loop do). A PostgreSQL lock that keeps becoming
free is granted in queue order (strong fairness of the statements that wait). The deadlock detector is counted on only where a PATCH is on the cycle (weak fairness of that victim):
creations and syncs must do without it. A fetch that waits in the queue is delivered and a running
one takes its next step (weak fairness of `FetchBegins` and `FetchWorks`): its code is sequential and
each request has a timeout. No request, failure, crash, time-out, deployment or operator is ever
assumed to happen.

## 4. What documents say and the code does not do

Four are runs with a finding (`plan_race`, `ingest_success`, `leads_evidence`, `alert_notices`). The
others are kept as formulas; adding one to the named configuration shows its counterexample.

| Formula | Configuration | Document | Code |
|---|---|---|---|
| `TerminalIsTerminal` | `MCLeads.cfg` | `docs/api-reference.md:460-461`: retained and declined are terminal | `prospecting_report.py:625` sets every lead that was new when read to reviewing, also one declined while the report was rendered |
| `EventsAttached` | `MCLeads.cfg` | prospecting design, line 86: events are appended to `event_ids` | `lead_matcher.py:309` uses `set_committed_value`, so nothing is written |
| `ReportedMeansEmailed` | `MCLeadGuard.cfg` | prospecting design, line 82: `reported_at` is "When emailed to CAL" | `prospecting_report.py:623` sets it before the first mail, and nothing resets it |
| `OneRowPerTask` | `MCJobs.cfg` | `ingest.py:382`: the row is updated or inserted | `jobs.py:69` sends the task before storing its row: two rows |
| `OneTaskPerKey` | `MCJobs.cfg` | `docs/data-model.md:366`: the key deduplicates jobs | `jobs.py:49` looks the key up without a lock: both tasks run |
| `EventsDigestedOnce` | `MCEventServices.cfg` | `digest.py:191`: "Mark events as digested to prevent re-inclusion" | an enrichment that read the event before the mark writes the metadata back without it (`nlp_enrich.py:375`); two digests may select at once |
| `DigestsAreAnnounced` | `MCEventServices.cfg` | `docs/architecture.md:129`: a digest chains an e-mail notification | the marks are committed before the notice (`digest.py:197`): a retry finds nothing and announces nothing |
| `ChannelsHearOnce` | `MCEventServices.cfg` | `notify.py:660`: "partial success is still success", so a retry repeats to nobody | a channel that took the message, whose answer is lost (a time-out, an error of SMTP after DATA), counts as a failure, and the retry sends to every channel again |
| `OneOpenAlert` | `MCEventServices.cfg` | `score.py:335`: "Check for an existing open alert with the same fingerprint" | the check and the insert are not one step; an operator can reopen a second one |
| `OccurrencesNeverFall` | `MCEventServices.cfg` | `docs/data-model.md:211`: count of matching firings | the count that was read is written back plus one, and may have grown meanwhile |
| `VectorsFollowEvents` | `MCEventServices.cfg` | `retention.py:8`: vectors are cleaned up alongside deleted events | a run that ends between its batches and the vectors forgets the ids; a failure of Qdrant is logged; a vector is put after its row has gone |
| `EntitiesUnique` | `MCEventServices.cfg` | `k8s_dispatch.py:83`: deduplicating by name and type | look-up, then insert, without a unique key; the look-up raises ever after |
| `NothingIsMissed` | `MCServices.cfg` | none: what `FrameStream` leaves open | a full queue drops, and a reader of one transport misses the other's frames |
| `ChangesReachIngest` | `MCServices.cfg` | `docs/connectors.md:474`: an item for every new or changed document | the hash is stored before the document is capped and committed |
| `OneEventPerKey` | `MCServices.cfg` | `docs/connectors.md:28`: `dedupe_key` deduplicates across fetches | ingest never calls it and fingerprints `raw_data`, which changes |
| `ProcessedUpdatesAreGone` | `MCServices.cfg` | `docs/connectors.md:435`: the offset avoids processed messages | it is kept in a connector that lives for one task |
| `StoriesAgree` | `MCServices.cfg` | `docs/data-model.md:420-421`: the columns describe one analysis | two executions load one pending lead; the second writes only the columns that it changed itself, on top of the first |

Further hazards, seen while reading and outside the list of `PROJECT.json`: a rollback activates the
second newest version it picked before another session committed a newer one
(`plan_store.py:215`); the status check of an alert is stale when its transition is written
(`alerts.py:355`), as with leads; the body of a chord is never called when one chain fails
(`ingest.py:264`); a job whose retries are used up stays queued (`ingest.py:97`); a batch delivered
again after its commit stamps its leads again (`prospecting.py:151`); a commit that fails after a
job's task was sent leaves a task without a job (`jobs.py:169`); a `rescore` job's row is never
updated; two PATCH requests, or one and a sync, can wait for each other (the flags of rows are set in the
order of the requests, `plan_store.py:182-191`), and the one that PostgreSQL picks ends with an
error that no route catches.

## 5. Proofs

Eight modules prove every safety and action property that a passing run checks, for any values of
the constants, and the refinements of `PlanHistory`, `EventLives` and `FrameStream`. In each module the argument is the same: an
inductive invariant that contains the property, one lemma per action (or group of actions) that
keeps it, and one temporal step. TLC checks every one of these invariants on the runs' instances.

| Module | Theorem | States | Invariant |
|---|---|---|---|
| `PlanVersionsProofs` | `TypeCorrect`, `VersionsAreGapFree`, `StoredVersionsStay`, `ActivePlansStayActive` | `TypeOK`, `VersionsGapFree`, `StoredImmutable`, `NeverLeftInactive` | `FullInv` |
| | `LoneActivationsAreExclusive`, `PatchesStayInTheirPlan`, `LoneSyncsPublishEveryFile` | `SoloActivationIsExclusive`, `PatchStaysInPlan`, `SyncPublishesDisk` | `CommitInv` |
| | `SyncsDoNotDeadlock` | `SyncsNeverDeadlock` | `LockInv` |
| | `StoreKeepsHistory` | `KeepsHistory` | `HistInv` |
| `IngestPipelineProofs` | `TypeCorrect`, `ItemsAreStoredOnce`, `ChainsArePublishedOnce`, `ChainsWaitForCommit`, `RetriesStartClean`, `PublishedChordsAreComplete` | `TypeOK`, `NoDuplicateEvents`, `EnrichedAtMostOnce`, `ChainsFollowCommit`, `RetryStartsClean`, `ChordsAreComplete` | `IngestInv` |
| | `IngestKeepsItsPromise` | `EventsLiveOnce` | `IngestInv` |
| `LeadPipelineProofs` | `TypeCorrect`, `FailedReportsUsedEveryGeneration` | `TypeOK`, `AllGenerationsTried` | `LeadInv` |
| | `StatusesFollowTransitions`, `FirstEventsStay` | `StatusMovesLegal`, `LeadsKeepTheirFirstEvent` | `StatusInv` |
| | `ReportsBringNews` | `ReportsSayNews` | `NewsInv` |
| `JobRecordsProofs` | `TypeCorrect`, `OneJobPerKey`, `OutcomesAreRecorded`, `EndedJobsStayEnded` | `TypeOK`, `SameKeySameJob`, `OutcomeIsRecorded`, `FinalStaysFinal` | `JobInv` |
| `EventServicesProofs` | `NoticesRepeatForOwnLoss` | `RepeatsAreOwn` | `NoticeInv` |
| | `QuietEventsAreDigestedOnce`, `FactsOfQuietEventsStay` | `QuietEventsDigestedOnce`, `QuietFactsStay` | `DigestInv` |
| | `AlertsKeepTheirTypes`, `CalmEventsKeepOneAlert`, `MatchesAreAlerted`, `StoredSeverityIsHighest` | `AlertTypeOK`, `CalmEventsHaveOneAlert`, `MatchedMeansAlerted`, `HighestPromotionWins` | `AlertInv` |
| | `ServicesKeepTheirTypes`, `ServicesKeepTheirPromises`, `FactsStayInCompany` | `EventServicesTypeOK`, the invariants of the four services at once, `QuietFactsStay` | those of the services |
| `EventStoresProofs` | `TypeCorrect`, `PurgesLeaveNothing`, `VectorsAreAccountedFor`, `LoneUpsertsAreExact` | `StoreTypeOK`, `PurgeEndsClean`, `OrphansAreExplained`, `UncrowdedUpsertsAreExact` | `StoreInv` |
| `RealtimeStreamProofs` | `QueuesStayBounded`, `StreamKeepsItsPromise` | `StreamTypeOK`, `FramesKeepOrder` | `StreamInv` |
| `EdgeProofs` | `AttemptsAreBounded`, `SilenceHasAReason` | `FetchTypeOK`, `SilenceIsExplained` | `FetchInv` |
| | `ColumnsKeepTheirTypes`, `SettledLeadsAgree` | `AnalysisTypeOK`, `VerdictsStand` | `AnalysisInv` |
| | `EdgesKeepTheirTypes`, `EdgesKeepTheirPromises` | `ServicesTypeOK`, `SilenceIsExplained`, `VerdictsStand` and `FramesKeepOrder` at once | those of the services |

**Why the invariants are needed, and the step that matters.**

- *Plan versions.* A session's uncommitted rows may be committed, so `NumberingInv` says that every
  session *sees* gap-free versions, that uncommitted rows are new and nobody else's, and that a
  number about to be inserted follows a row its session can see; in `StoreVersion` the wait and
  the unique key make the new row the successor. `ActivationInv`: a row a session has deactivated
  is made up for by one of the same plan that it has activated or is about to.
- *Plan commits.* What a commit does to the flags is decided statements before. `StaysInPlan`: a
  PATCH has touched rows of one plan, which for a rollback is the plan of the URL and for a version
  id is what the commit compares. `Exclusive`: of a session that runs alone, each activated row is
  the only active one of its plan and the sync does not come back to that plan. `Publishing`: each
  file is still to do, in work, or says what the newest version says. Each statement is a lemma
  about a request and a table, without state.
- *Plan locks.* `InOrder`: a creation or a sync locks a row of a plan only after it has inserted one
  there, and it goes through the plans upwards. Two sessions never have uncommitted rows of one
  plan (`OneWriterPerPlan`: both would hold the number after the newest). So whoever waits for a
  writer waits at its insert, and a writer that is waited for has inserted there and waits in a
  later plan (`WaitsAscend`). In a cycle the session that waits in the last plan would have to wait
  for one in a later plan still; plans are numbers below a bound, so there is a last one.
- *Plan history.* `Writes` says what a request is about to publish: a PATCH has inserted nothing and
  activates its target, which is stored (`TargetInv`); a creation or a sync has one row per plan, has
  activated all of them but the one in work, or none, and has deactivated only rows of these plans.
  With gap-free numbers on both sides of the commit, the row is the next of its log.
- *Ingest.* `Consistent` ties what an execution holds in memory to its stage; `Numbered` says that
  executions are numbered in the order of their start, so that a row tells whose it is;
  `OneRowEach` that an item has one row, committed or not; `Unpublished` that what is still to be
  published has no chain, that an execution that reads or will be retried has stored nothing, and
  that one that publishes has the ids of all its rows. Chord, fallback and their failures then
  publish each chain once. Every step is then a step of `EventLives` or a stutter: a commit stores rows
  that `Unpublished` says have no chain and `OneRowEach` says are new.
- *Leads.* `RetriesAreExplained` splits the report's shared retry counter into deferrals and
  failures. `StatusInv`: an open request's target follows the statuses that it read (`RequestsReadRows`),
  what is rendered as new was new (`RendersReadRows`), and a row has had its own status
  (`RowsAreKept`); so a write follows a status of the lead's past, and its present one unless
  the writer was overtaken. `BatchesOpenLeads`, a part of `LeadInv`: a batch opens each lead that it
  found absent with exactly one event. `NewsInv`: a lead whose stamp is later than its last report was matched
  with something not shown; the events of a batch are not matched before it commits; and what is
  matched while a report is rendered will be new to the next one, although the report's time is
  taken before its rows are read and written long after.
- *Jobs.* `KeysAreUnique` over stored and flushed rows (the index makes others wait),
  `RowsHaveWriters` and `FoundRowsMatch`: a row that was looked up belongs to the task.
- *Notices.* `NoticeFits`: beyond the attempts whose answer was lost, a channel has heard one per
  delivery, and while the message waits, or has not come to the channel, or no answer says that
  anybody was reached, the attempt under way is not among them. A retry needs that no answer does.
- *Digests.* `QuietFits`, of an event that no two executions held at once: a copy of its metadata is
  the row, and it is in one digest at most and marked when it is in one. The whole object may be
  written back then.
- *Alerts.* `CalmFits`: one task at most acts on a calm event, and what its look-up found is still
  true when it writes. The severity is a fold over the promotions: a lemma by the least
  counterexample shows for every prefix that it is the maximum.
- *Stores.* `RunFits`: a purge that has gone past a class left nothing of it that was past its time
  when the purge began (an event born later is not), and its ids cover the vectors it cut loose.
  `EntityInv` and `IndicatorInv`: who alone handles a name or a value holds what is stored.
- *Services together.* The services of an event share the queue of notices only, and each leaves the
  notices of the others alone or adds to them, so the invariant of each survives their steps. The edges
  share nothing: a step of one is a stutter of the others, also for the refinement of `FrameStream`.
- *Stream.* `Ordered`: what a reader was written, followed by its queue, ascends and stays within
  the accepted frames. Each step is then a step of `FrameStream` or a stutter.
- *Fetch.* A silenced version is an event, dropped, or held by the execution that emitted it: the
  three places move in `TakePolicy`, `StoreItems`, which may fail some items and commit the rest, and
  every way an execution ends. Only portals
  have hashes.
- *Analysis.* `WorkFits`: what a session writes keeps the story of the row that it loaded, be it an
  analysis of a pending row or a matching of any row, so the story of a lead survives every commit
  from a copy that is up to date. `Turns`: it changes the status together with the analysis, or
  neither, so those two go together whatever copy a commit was made from; `Spoken` is what that
  leaves of every row. `LeadFits` and `RunFits` put both together for rows and sessions. The
  analyzer's answer is computed by folds over sections and cases; `ResultsSettle` shows, by
  induction over finite sets of positions, that it tells one story for every answer of the model.

**Assumptions.** Those the modules state for their constants (plans and budgets are natural
numbers, the numbers of the plans have a bound because one directory holds their files
(`PlansAreBounded`), sets of leads, sections and executions of one task are finite, feeds and routes
are sequences, "none" values are not values), which TLC evaluates on every run. One theorem assumes more
in its statement. `ReportsBringNews` assumes `OneReport` (two
reports that overlap show the same), `BatchesAreDisjoint` (ingest puts an event into one batch) and
is about behaviours with `NoRematch`: a batch whose worker dies between its commit and the next task
is matched again and stamps its leads again (section 4). The run `leads` is such an instance: one
reporter, disjoint batches, no crash.

**What the proofs changed.** `RequestsEnd` had been checked with plans so short that two PATCH requests
never overlapped: the attempt to prove that nobody deadlocks failed on them. The model now has
the detector, the bound is one for each plan, and the claim about creations and syncs is a
property of its own. `StatusMovesLegal` had excused only what a report does to the leads it is
rendering. That is not inductive: a report may put a lead back under review after an operator has
decided on it, while a request still holds a transition from the decided status. What is true of
any number of sessions is that the writer was overtaken, and that its target follows a status the
lead has had: the history `had` says which. The assumptions of `EventStores`, `EventDigests` and `DeepAnalysis` and the types of `EventStores` now
say all that their operators rely on.

**What stays with TLC.** Liveness (`RequestsEnd`, `TasksEnd`, `ReportsEnd`, `FetchEnds`): the provers
handle neither fairness nor ENABLED. That waiting requests get on without the detector is the safety
half of `RequestsEnd`, and `SyncsDoNotDeadlock` proves it for any number of plans and sessions.
What the code does not keep (section 4) is refuted by TLC and no theorem.

## 6. Plan

The plans, ingest, leads and jobs were modelled first, then the services around an event (alerts,
digests, notifications, stores), then the edges (stream, connectors, deep analysis). All safety and
action properties of the runs are proved, of the composed services too. What is left, most
important first:

1. *Proofs*: further promises worth a theorem, such as which vectors a purge that ends normally has
   taken; an abstract
   specification of the jobs, with its refinement.
2. *Model*: correlation and geocoding of events, the collection task of the leads, the deletion of
   watches and their links.

The modules are written for this: parameters with assumptions, one action per operation, no
RECURSIVE operator.

## 7. Not modelled

*Left out because no two steps can interleave or fail apart:* rate limiting (one INCR and EXPIRE of
a window per request), the load of the beat schedule (read once when beat starts), the plan engine
(a schema and a function), CRUD of watches and preferences (single rows of one owner), read-only
routes, metrics and audit output, the web application.

*Abstracted:* text, PDF and mail layout, prompts and what a model answers beyond its shape, the
fields a connector parses from an entry, how a document is split into sections, the exponential of
the recency (an input, in hundredths), authentication. Data is kept as far as the properties
distinguish it: an event is its fingerprint, a document its hash, a time its order. `services/alerting.py`
is called by nothing and is not modelled.

*External:* PostgreSQL, Celery's broker, Redis, Qdrant, MinIO, the language models and the sources.
What the code relies on (READ COMMITTED, unique indexes, row locks, at-least-once delivery, the
answers each can give) is in the models, marked external in the map.
