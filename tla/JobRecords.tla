----------------------------- MODULE JobRecords -----------------------------
(***************************************************************************)
(* The rows of osint.jobs: written by POST /api/v1/jobs (api/routes/       *)
(* jobs.py), which sends the Celery task before it stores the job, and by  *)
(* the ingest task itself when it ends (workers/ingest.py).                *)
(*                                                                         *)
(* A request is named by the task it may send, and a row by the request or *)
(* the execution that inserted it.  Requests refused with 422 change       *)
(* nothing and are left out.                                               *)
(***************************************************************************)
EXTENDS Integers, FiniteSets

CONSTANTS
    Requests,     \* POST /jobs requests, and the task ids they send
    Executions,   \* executions of ingest tasks, first deliveries or not
    Keys,         \* idempotency keys
    NoKey, NoRow, NoTask

ASSUME NoKeyIsNone == NoKey \notin Keys
ASSUME NamesAreDistinct ==
    /\ Requests \cap Executions = {}
    /\ NoRow \notin Requests \union Executions
    /\ NoTask \notin Requests

VARIABLES
    rows,   \* committed job rows
    req,    \* per request: how far create_job is
    sent,   \* tasks the broker has accepted
    exec    \* per execution: how far it is

vars == <<rows, req, sent, exec>>

RowIds == Requests \union Executions
Kinds == {"ingest", "rescore", "brief_generate"}
Final == {"succeeded", "failed", "partial_success"}
Statuses == {"queued"} \union Final

NotStored == [task |-> NoTask, key |-> NoKey, status |-> "none"]
Stored == {i \in RowIds : rows[i].status # "none"}

RowType ==
    [task : Requests \union {NoTask}, key : Keys \union {NoKey}, status : Statuses \union {"none"}]
ReqType ==
    [stage : {"idle", "lookup", "dispatch", "generate", "store", "answered"}, kind : Kinds,
     key : Keys \union {NoKey}, holds : BOOLEAN, status : Statuses,
     code : {0, 200, 202, 500, 503}, row : RowIds \union {NoRow}]
ExecType ==
    [stage : {"idle", "working", "found", "done"}, task : Requests \union {NoTask},
     row : RowIds \union {NoRow}, status : Final]

NoRequest == [stage |-> "idle", kind |-> "ingest", key |-> NoKey, holds |-> FALSE,
              status |-> "queued", code |-> 0, row |-> NoRow]
NoExecution == [stage |-> "idle", task |-> NoTask, row |-> NoRow, status |-> "failed"]

TypeOK ==
    /\ rows \in [RowIds -> RowType]
    /\ req \in [Requests -> ReqType]
    /\ sent \subseteq Requests
    /\ exec \in [Executions -> ExecType]

Init ==
    /\ rows = [i \in RowIds |-> NotStored]
    /\ req = [r \in Requests |-> NoRequest]
    /\ sent = {}
    /\ exec = [x \in Executions |-> NoExecution]

-----------------------------------------------------------------------------
(* POST /api/v1/jobs *)

ReqMoves(r, next) ==
    /\ req' = [req EXCEPT ![r] = next]
    /\ UNCHANGED <<rows, sent, exec>>

Answer(r, code, row) == [req[r] EXCEPT !.stage = "answered", !.code = code, !.row = row]

Post(r, kind, key) ==
    /\ req[r].stage = "idle"
    /\ ReqMoves(r, [NoRequest EXCEPT !.stage = "lookup", !.kind = kind, !.key = key])

WithKey(key) == {i \in Stored : rows[i].key = key}

(* The look-up by idempotency key answers 200 with the job it finds. *)
Lookup(r) ==
    /\ req[r].stage = "lookup"
    /\ LET known == IF req[r].key = NoKey THEN {} ELSE WithKey(req[r].key)
       IN  IF known # {}
           THEN \E i \in known : ReqMoves(r, Answer(r, 200, i))
           ELSE ReqMoves(r, [req[r] EXCEPT !.stage =
                    IF req[r].kind = "brief_generate" THEN "generate" ELSE "dispatch"])

(* ingest_source.delay / rescore_all_events_task.delay, before the row exists. *)
Dispatch(r) ==
    /\ req[r].stage = "dispatch"
    /\ sent' = sent \union {r}
    /\ req' = [req EXCEPT ![r].stage = "store"]
    /\ UNCHANGED <<rows, exec>>

DispatchFails(r) ==
    /\ req[r].stage = "dispatch"
    /\ ReqMoves(r, Answer(r, 500, NoRow))

Unindexed(r) == FALSE

(* ix_jobs_idempotency_key: the key is in a committed row. *)
Conflicts(r) == req[r].key # NoKey /\ WithKey(req[r].key) # {}

(* An insert waits for another transaction's uncommitted row with its key. *)
MustWait(r) ==
    req[r].key # NoKey /\ \E q \in Requests \ {r} : req[q].holds /\ req[q].key = req[r].key

(* A brief's row is flushed, uncommitted, before the text is generated. *)
FlushBrief(r) ==
    /\ req[r].stage = "generate"
    /\ ~req[r].holds
    /\ ~MustWait(r)
    /\ ReqMoves(r, IF Conflicts(r) THEN Answer(r, 500, NoRow)
                   ELSE [req[r] EXCEPT !.holds = TRUE])

GenerateUnfinished(r) ==
    /\ req[r].stage = "generate"
    /\ req[r].holds
    /\ ReqMoves(r, [req[r] EXCEPT !.stage = "store", !.status = "running"])

(* The row becomes "succeeded" with its brief, or "failed". *)
Generate(r) ==
    /\ req[r].stage = "generate"
    /\ req[r].holds
    /\ \E status \in {"succeeded", "failed"} :
         ReqMoves(r, [req[r] EXCEPT !.stage = "store", !.status = status])

RowOf(r) == [task |-> IF r \in sent THEN r ELSE NoTask, key |-> req[r].key,
             status |-> req[r].status]

CodeOf(r) == IF req[r].status = "failed" THEN 503 ELSE 202

UpsertJob(r) ==
    /\ req[r].stage = "store"
    /\ ~MustWait(r)
    /\ LET mine == {i \in Stored : rows[i].task = r}
           i == IF mine = {} THEN r ELSE CHOOSE j \in mine : TRUE
       IN  IF ~req[r].holds /\ Conflicts(r)
           THEN ReqMoves(r, Answer(r, 500, NoRow))
           ELSE /\ rows' = [rows EXCEPT ![i] = RowOf(r)]
                /\ req' = [req EXCEPT ![r] = [Answer(r, CodeOf(r), i) EXCEPT !.holds = FALSE]]
                /\ UNCHANGED <<sent, exec>>

(* The insert and its commit.  An IntegrityError is not handled: the request *)
(* fails, although its task has been sent.                                   *)
StoreJob(r) ==
    /\ req[r].stage = "store"
    /\ ~MustWait(r)
    /\ IF ~req[r].holds /\ Conflicts(r)
       THEN ReqMoves(r, Answer(r, 500, NoRow))
       ELSE /\ rows' = [rows EXCEPT ![r] = RowOf(r)]
            /\ req' = [req EXCEPT ![r] = [Answer(r, CodeOf(r), r) EXCEPT !.holds = FALSE]]
            /\ UNCHANGED <<sent, exec>>

(* The connection or the server is lost before the commit. *)
RequestLost(r) ==
    /\ req[r].stage \notin {"idle", "answered"}
    /\ ReqMoves(r, [Answer(r, 500, NoRow) EXCEPT !.holds = FALSE])

-----------------------------------------------------------------------------
(* The ingest task *)

(* A worker takes the message, again after a retry or a redelivery. *)
Start(x, t) ==
    /\ exec[x].stage = "idle"
    /\ t \in sent
    /\ req[t].kind = "ingest"
    /\ \E status \in Final :
         exec' = [exec EXCEPT ![x] = [NoExecution EXCEPT !.stage = "working", !.task = t,
                                                         !.status = status]]
    /\ UNCHANGED <<rows, req, sent>>

RowsOf(t) == {i \in Stored : rows[i].task = t}

(* _record_job, _record_failed_job: select by celery_task_id, limit 1. *)
FindJob(x) ==
    /\ exec[x].stage = "working"
    /\ \E i \in IF RowsOf(exec[x].task) = {} THEN {NoRow} ELSE RowsOf(exec[x].task) :
         exec' = [exec EXCEPT ![x].stage = "found", ![x].row = i]
    /\ UNCHANGED <<rows, req, sent>>

UpdateOnly(x) ==
    /\ exec[x].stage = "found"
    /\ LET i == exec[x].row
       IN  rows' = IF i = NoRow THEN rows ELSE [rows EXCEPT ![i].status = exec[x].status]
    /\ exec' = [exec EXCEPT ![x].stage = "done"]
    /\ UNCHANGED <<req, sent>>

(* The row found is updated, or a new one inserted, and committed. *)
RecordJob(x) ==
    /\ exec[x].stage = "found"
    /\ LET i == exec[x].row
       IN  rows' = IF i = NoRow
                   THEN [rows EXCEPT ![x] = [task |-> exec[x].task, key |-> NoKey,
                                             status |-> exec[x].status]]
                   ELSE [rows EXCEPT ![i].status = exec[x].status]
    /\ exec' = [exec EXCEPT ![x].stage = "done"]
    /\ UNCHANGED <<req, sent>>

(* A crash, a retry, the last retry's failure or a failed write: no record. *)
ExecutionLost(x) ==
    /\ exec[x].stage \in {"working", "found"}
    /\ exec' = [exec EXCEPT ![x] = [NoExecution EXCEPT !.stage = "done"]]
    /\ UNCHANGED <<rows, req, sent>>

Next ==
    \/ \E r \in Requests :
         \/ \E kind \in Kinds, key \in Keys \union {NoKey} : Post(r, kind, key)
         \/ Lookup(r) \/ Dispatch(r) \/ DispatchFails(r) \/ FlushBrief(r) \/ Generate(r)
         \/ StoreJob(r) \/ RequestLost(r)
    \/ \E x \in Executions :
         \/ \E t \in Requests : Start(x, t)
         \/ FindJob(x) \/ RecordJob(x) \/ ExecutionLost(x)

Spec == Init /\ [][Next]_vars

-----------------------------------------------------------------------------
(* Properties *)

(* docs/api-reference.md:350: a request whose idempotency key "matches an      *)
(* existing job" gets that job: all requests with one key that were answered   *)
(* with a job were answered with the same one, also when they overlapped.      *)
SameKeySameJob ==
    \A r, q \in Requests :
        req[r].row # NoRow /\ req[q].row # NoRow /\ req[r].key = req[q].key /\ req[r].key # NoKey
            => req[r].row = req[q].row

(* A job that has ended is never shown as queued again, whichever of the API   *)
(* and the worker writes last.                                                 *)
FinalStaysFinal ==
    [][\A i \in RowIds : rows[i].status \in Final => rows'[i].status \in Final]_vars

(* An execution that recorded its outcome did so in a row the task id leads to,*)
(* also when it ended before the API stored the job.                           *)
OutcomeIsRecorded ==
    \A x \in Executions : exec[x].stage = "done" /\ exec[x].task # NoTask =>
        \E i \in RowsOf(exec[x].task) : rows[i].status \in Final

-----------------------------------------------------------------------------
(* What documents say and the code does not keep: TLC refutes both formulas on *)
(* the instance of MCJobRecords.                                               *)

(* ingest.py:382, docstring of _record_job: "Update the existing Job row       *)
(* (created by the API) or insert a new one": one row for each task.           *)
OneRowPerTask ==
    \A i, j \in Stored : rows[i].task = rows[j].task /\ rows[i].task # NoTask => i = j

(* docs/data-model.md:366: idempotency_key is the "Unique per-job              *)
(* deduplication key": one key starts one task.                                *)
OneTaskPerKey ==
    \A r, q \in sent : req[r].key = req[q].key /\ req[r].key # NoKey => r = q
=============================================================================
