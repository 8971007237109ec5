-------------------------- MODULE JobRecordsProofs --------------------------
(***************************************************************************)
(* Proofs about JobRecords, for every set of requests, executions and keys. *)
(***************************************************************************)
EXTENDS JobRecords, TLAPS

(* A row is written first by its namesake, and only when that one ends. *)
RowsHaveWriters ==
    /\ \A r \in Requests : r \in Stored => req[r].stage = "answered"
    /\ \A x \in Executions :
          /\ x \in Stored => exec[x].stage = "done"
          /\ rows[x].key = NoKey

(* The keys: what an answer names has its request's key, a stored key has one  *)
(* row, and a flushed row excludes any other with its key.                     *)
KeysAreUnique ==
    /\ \A r \in Requests : req[r].row # NoRow =>
          /\ req[r].row \in Stored
          /\ req[r].key # NoKey => rows[req[r].row].key = req[r].key
    /\ \A i, j \in Stored : rows[i].key = rows[j].key /\ rows[i].key # NoKey => i = j
    /\ \A r \in Requests : req[r].holds =>
          /\ req[r].stage \in {"generate", "store"}
          /\ req[r].key # NoKey =>
                /\ WithKey(req[r].key) = {}
                /\ \A q \in Requests : req[q].holds /\ req[q].key = req[r].key => q = r

(* An execution that has found a row found one of its task. *)
FoundRowsMatch ==
    \A x \in Executions :
        /\ exec[x].stage \in {"working", "found"} => exec[x].task \in Requests
        /\ exec[x].stage = "found" /\ exec[x].row # NoRow => exec[x].row \in RowsOf(exec[x].task)

JobInv == TypeOK /\ RowsHaveWriters /\ KeysAreUnique /\ FoundRowsMatch /\ OutcomeIsRecorded

-----------------------------------------------------------------------------
(* The records of requests and executions *)

Stages == {"idle", "lookup", "dispatch", "generate", "store", "answered"}
Codes == {0, 200, 202, 500, 503}

LEMMA CodesUsed == 200 \in Codes /\ 202 \in Codes /\ 500 \in Codes /\ 503 \in Codes
  BY DEF Codes

LEMMA RequestEdit ==
    ASSUME NEW q \in ReqType
    PROVE  /\ \A s \in Stages : [q EXCEPT !.stage = s] \in ReqType
           /\ \A t \in Statuses : [q EXCEPT !.status = t] \in ReqType
           /\ \A h \in BOOLEAN : [q EXCEPT !.holds = h] \in ReqType
           /\ \A c \in Codes : [q EXCEPT !.code = c] \in ReqType
           /\ \A i \in RowIds \union {NoRow} : [q EXCEPT !.row = i] \in ReqType
  <1>1. \A s \in Stages : [q EXCEPT !.stage = s] \in ReqType
    BY DEF ReqType, Stages
  <1>2. \A t \in Statuses : [q EXCEPT !.status = t] \in ReqType
    BY DEF ReqType
  <1>3. \A h \in BOOLEAN : [q EXCEPT !.holds = h] \in ReqType
    BY DEF ReqType
  <1>4. \A c \in Codes : [q EXCEPT !.code = c] \in ReqType
    BY DEF ReqType, Codes
  <1>5. \A i \in RowIds \union {NoRow} : [q EXCEPT !.row = i] \in ReqType
    BY DEF ReqType
  <1> QED
    BY <1>1, <1>2, <1>3, <1>4, <1>5

LEMMA RequestEdits ==
    ASSUME NEW q \in ReqType
    PROVE  /\ \A s \in Stages, t \in Statuses : [q EXCEPT !.stage = s, !.status = t] \in ReqType
           /\ \A c \in Codes, i \in RowIds \union {NoRow} :
                 [q EXCEPT !.stage = "answered", !.code = c, !.row = i] \in ReqType
  <1>1. ASSUME NEW s \in Stages, NEW t \in Statuses
        PROVE  [q EXCEPT !.stage = s, !.status = t] \in ReqType
    BY RequestEdit
  <1>2. ASSUME NEW c \in Codes, NEW i \in RowIds \union {NoRow}
        PROVE  [q EXCEPT !.stage = "answered", !.code = c, !.row = i] \in ReqType
    <2>1. [q EXCEPT !.stage = "answered"] \in ReqType
      BY RequestEdit DEF Stages
    <2>2. [[q EXCEPT !.stage = "answered"] EXCEPT !.code = c] \in ReqType
      BY <2>1, RequestEdit
    <2> QED
      BY <2>2, RequestEdit
  <1> QED
    BY <1>1, <1>2

LEMMA NoRequestType ==
    /\ NoRequest \in ReqType
    /\ \A kind \in Kinds, key \in Keys \union {NoKey} :
          [NoRequest EXCEPT !.stage = "lookup", !.kind = kind, !.key = key] \in ReqType
  BY ZenonT(30) DEF NoRequest, ReqType, Kinds, Statuses, Final

LEMMA ExecutionEdits ==
    ASSUME NEW e \in ExecType
    PROVE  /\ [e EXCEPT !.stage = "done"] \in ExecType
           /\ \A i \in RowIds \union {NoRow} : [e EXCEPT !.stage = "found", !.row = i] \in ExecType
  BY DEF ExecType

LEMMA NoExecutionType ==
    /\ NoExecution \in ExecType
    /\ [NoExecution EXCEPT !.stage = "done"] \in ExecType
    /\ \A t \in Requests, s \in Final :
          [NoExecution EXCEPT !.stage = "working", !.task = t, !.status = s] \in ExecType
  BY DEF NoExecution, ExecType, Final

(* What is read of a record is of the type its field declares. *)
LEMMA RequestFields ==
    ASSUME NEW q \in ReqType
    PROVE  /\ q.stage \in Stages /\ q.kind \in Kinds /\ q.key \in Keys \union {NoKey}
           /\ q.holds \in BOOLEAN /\ q.status \in Statuses /\ q.row \in RowIds \union {NoRow}
  BY DEF ReqType, Stages

LEMMA ExecutionFields ==
    ASSUME NEW e \in ExecType
    PROVE  /\ e.task \in Requests \union {NoTask} /\ e.status \in Final
           /\ e.row \in RowIds \union {NoRow}
           /\ e.stage \in {"idle", "working", "found", "done"}
  BY DEF ExecType

(* Rows are written whole or in their status. *)
LEMMA RowEdits ==
    ASSUME NEW w \in RowType, NEW s \in Statuses
    PROVE  /\ [w EXCEPT !.status = s] \in RowType
           /\ \A t \in Requests \union {NoTask}, key \in Keys \union {NoKey} :
                 [task |-> t, key |-> key, status |-> s] \in RowType
  BY DEF RowType

-----------------------------------------------------------------------------
(* Type correctness *)

LEMMA InitTypeOK == Init => TypeOK
  <1> SUFFICES ASSUME Init PROVE TypeOK
    OBVIOUS
  <1>1. NotStored \in RowType
    BY DEF NotStored, RowType
  <1> QED
    BY <1>1, NoRequestType, NoExecutionType DEF Init, TypeOK

(* A step of a request, of an execution, and a write of a row. *)
LEMMA RequestStepTypeOK ==
    ASSUME TypeOK, NEW r \in Requests, NEW next \in ReqType,
           req' = [req EXCEPT ![r] = next], rows' \in [RowIds -> RowType],
           sent' \subseteq Requests, exec' = exec
    PROVE  TypeOK'
  BY DEF TypeOK

LEMMA ExecutionStepTypeOK ==
    ASSUME TypeOK, NEW x \in Executions, NEW next \in ExecType,
           exec' = [exec EXCEPT ![x] = next], rows' \in [RowIds -> RowType],
           sent' = sent, req' = req
    PROVE  TypeOK'
  BY DEF TypeOK

LEMMA PostTypeOK ==
    ASSUME TypeOK, NEW r \in Requests, NEW kind \in Kinds, NEW key \in Keys \union {NoKey},
           Post(r, kind, key)
    PROVE  TypeOK'
  BY NoRequestType, RequestStepTypeOK DEF Post, ReqMoves, TypeOK

LEMMA AnswerType ==
    ASSUME TypeOK, NEW r \in Requests, NEW c \in Codes, NEW i \in RowIds \union {NoRow}
    PROVE  Answer(r, c, i) \in ReqType /\ [Answer(r, c, i) EXCEPT !.holds = FALSE] \in ReqType
  <1>1. req[r] \in ReqType
    BY DEF TypeOK
  <1>2. Answer(r, c, i) \in ReqType
    BY <1>1, RequestEdits DEF Answer
  <1> QED
    BY <1>2, RequestEdit

LEMMA MoveTypeOK ==
    ASSUME TypeOK, NEW r \in Requests, NEW next \in ReqType, ReqMoves(r, next)
    PROVE  TypeOK'
  BY RequestStepTypeOK DEF ReqMoves, TypeOK

LEMMA LookupTypeOK ==
    ASSUME TypeOK, NEW r \in Requests, Lookup(r)
    PROVE  TypeOK'
  <1> DEFINE known == IF req[r].key = NoKey THEN {} ELSE WithKey(req[r].key)
  <1>1. known \subseteq RowIds
    BY DEF WithKey, Stored
  <1>2. CASE known # {}
    <2>1. PICK i \in known : ReqMoves(r, Answer(r, 200, i))
      BY <1>2 DEF Lookup
    <2>2. Answer(r, 200, i) \in ReqType
      BY <1>1, AnswerType, CodesUsed
    <2> QED
      BY <2>1, <2>2, MoveTypeOK
  <1>3. CASE known = {}
    <2> DEFINE s == IF req[r].kind = "brief_generate" THEN "generate" ELSE "dispatch"
    <2>1. ReqMoves(r, [req[r] EXCEPT !.stage = s])
      BY <1>3 DEF Lookup
    <2>2. s \in Stages /\ req[r] \in ReqType
      BY DEF Stages, TypeOK
    <2> QED
      BY <2>1, <2>2, RequestEdit, MoveTypeOK
  <1> QED
    BY <1>2, <1>3

LEMMA StoreJobTypeOK ==
    ASSUME TypeOK, NEW r \in Requests, StoreJob(r)
    PROVE  TypeOK'
  <1>1. req[r] \in ReqType
    BY DEF TypeOK
  <1>2. CASE ~req[r].holds /\ Conflicts(r)
    <2>1. ReqMoves(r, Answer(r, 500, NoRow))
      BY <1>2 DEF StoreJob
    <2> QED
      BY ZenonT(30), <2>1, AnswerType, MoveTypeOK, CodesUsed
  <1>3. CASE ~(~req[r].holds /\ Conflicts(r))
    <2> DEFINE next == [Answer(r, CodeOf(r), r) EXCEPT !.holds = FALSE]
    <2>1. /\ rows' = [rows EXCEPT ![r] = RowOf(r)] /\ req' = [req EXCEPT ![r] = next]
          /\ sent' = sent /\ exec' = exec
      BY <1>3 DEF StoreJob
    <2>2. RowOf(r) \in RowType
      BY <1>1, RequestFields DEF RowOf, RowType
    <2>3. rows' \in [RowIds -> RowType]
      BY <2>1, <2>2 DEF TypeOK, RowIds
    <2>4. CodeOf(r) \in Codes /\ r \in RowIds
      BY CodesUsed DEF CodeOf, RowIds
    <2>5. next \in ReqType
      BY <2>4, AnswerType
    <2> HIDE DEF next
    <2> QED
      BY <2>1, <2>3, <2>5, RequestStepTypeOK DEF TypeOK
  <1> QED
    BY <1>2, <1>3

LEMMA RecordJobTypeOK ==
    ASSUME TypeOK, NEW x \in Executions, RecordJob(x)
    PROVE  TypeOK'
  <1> DEFINE i == exec[x].row
  <1>1. exec[x] \in ExecType /\ Final \subseteq Statuses /\ x \in RowIds
    BY DEF TypeOK, Statuses, RowIds
  <1>2. rows' \in [RowIds -> RowType]
    <2>1. CASE i = NoRow
      <3> DEFINE w == [task |-> exec[x].task, key |-> NoKey, status |-> exec[x].status]
      <3>1. w \in RowType
        BY <1>1, ExecutionFields DEF RowType
      <3>2. rows' = [rows EXCEPT ![x] = w]
        BY <2>1 DEF RecordJob
      <3> HIDE DEF w
      <3> QED
        BY <1>1, <3>1, <3>2 DEF TypeOK
    <2>2. CASE i # NoRow
      <3> DEFINE w == [rows[i] EXCEPT !.status = exec[x].status]
      <3>1. i \in RowIds
        BY <1>1, <2>2, ExecutionFields
      <3>2. w \in RowType
        BY <1>1, <3>1, ExecutionFields, RowEdits DEF TypeOK
      <3>3. rows' = [rows EXCEPT ![i] = w]
        BY <2>2 DEF RecordJob
      <3> HIDE DEF w
      <3> QED
        BY <3>1, <3>2, <3>3 DEF TypeOK
    <2> QED
      BY <2>1, <2>2
  <1> DEFINE next == [exec[x] EXCEPT !.stage = "done"]
  <1>3. next \in ExecType
    BY <1>1, ExecutionEdits
  <1>4. exec' = [exec EXCEPT ![x] = next] /\ req' = req /\ sent' = sent
    BY DEF RecordJob
  <1> HIDE DEF next
  <1> QED
    BY <1>2, <1>3, <1>4, ExecutionStepTypeOK

LEMMA NextTypeOK == TypeOK /\ [Next]_vars => TypeOK'
  <1> SUFFICES ASSUME TypeOK, [Next]_vars PROVE TypeOK'
    OBVIOUS
  <1>1. \A r \in Requests : req[r] \in ReqType
    BY DEF TypeOK
  <1>2. ASSUME NEW r \in Requests, Dispatch(r) PROVE TypeOK'
    <2>1. [req[r] EXCEPT !.stage = "store"] \in ReqType
      BY <1>1, RequestEdit DEF Stages
    <2> QED
      BY <1>2, <2>1, RequestStepTypeOK DEF Dispatch, TypeOK
  <1>3. ASSUME NEW r \in Requests, DispatchFails(r) PROVE TypeOK'
    BY ZenonT(30), <1>3, AnswerType, MoveTypeOK, CodesUsed DEF DispatchFails
  <1>4. ASSUME NEW r \in Requests, FlushBrief(r) PROVE TypeOK'
    <2>1. Answer(r, 500, NoRow) \in ReqType /\ [req[r] EXCEPT !.holds = TRUE] \in ReqType
      BY ZenonT(30), <1>1, AnswerType, RequestEdit, CodesUsed
    <2> QED
      BY <1>4, <2>1, MoveTypeOK DEF FlushBrief
  <1>5. ASSUME NEW r \in Requests, Generate(r) PROVE TypeOK'
    <2>1. PICK status \in {"succeeded", "failed"} :
              ReqMoves(r, [req[r] EXCEPT !.stage = "store", !.status = status])
      BY <1>5 DEF Generate
    <2>2. [req[r] EXCEPT !.stage = "store", !.status = status] \in ReqType
      BY <1>1, RequestEdits DEF Stages, Statuses, Final
    <2> QED
      BY <2>1, <2>2, MoveTypeOK
  <1>6. ASSUME NEW r \in Requests, RequestLost(r) PROVE TypeOK'
    BY <1>6, AnswerType, MoveTypeOK, CodesUsed DEF RequestLost
  <1>7. ASSUME NEW x \in Executions, NEW t \in Requests, Start(x, t) PROVE TypeOK'
    <2>1. PICK status \in Final :
              exec' = [exec EXCEPT ![x] = [NoExecution EXCEPT !.stage = "working", !.task = t,
                                                              !.status = status]]
      BY <1>7 DEF Start
    <2> QED
      BY <1>7, <2>1, NoExecutionType, ExecutionStepTypeOK DEF Start, TypeOK
  <1>8. ASSUME NEW x \in Executions, FindJob(x) PROVE TypeOK'
    <2>1. PICK i \in RowIds \union {NoRow} :
              exec' = [exec EXCEPT ![x].stage = "found", ![x].row = i]
      BY <1>8 DEF FindJob, RowsOf, Stored
    <2>2. exec' = [exec EXCEPT ![x] = [exec[x] EXCEPT !.stage = "found", !.row = i]]
      BY <2>1 DEF TypeOK
    <2>3. [exec[x] EXCEPT !.stage = "found", !.row = i] \in ExecType
      BY ExecutionEdits DEF TypeOK
    <2> QED
      BY <1>8, <2>2, <2>3, ExecutionStepTypeOK DEF FindJob, TypeOK
  <1>9. ASSUME NEW x \in Executions, ExecutionLost(x) PROVE TypeOK'
    BY <1>9, NoExecutionType, ExecutionStepTypeOK DEF ExecutionLost, TypeOK
  <1>10. CASE UNCHANGED vars
    BY <1>10 DEF vars, TypeOK
  <1> QED
    BY <1>2, <1>3, <1>4, <1>5, <1>6, <1>7, <1>8, <1>9, <1>10, PostTypeOK, LookupTypeOK,
       StoreJobTypeOK, RecordJobTypeOK DEF Next

(* Rows, requests and executions stay within their types. *)
THEOREM TypeCorrect == Spec => []TypeOK
  BY InitTypeOK, NextTypeOK, PTL DEF Spec

-----------------------------------------------------------------------------
(* The invariant *)

LEMMA InitInv == Init => JobInv
  <1> SUFFICES ASSUME Init PROVE JobInv
    OBVIOUS
  <1>1. Stored = {}
    BY DEF Init, Stored, NotStored
  <1>2. \A r \in Requests : req[r].row = NoRow /\ req[r].holds = FALSE
    BY DEF Init, NoRequest
  <1>3. \A x \in Executions : exec[x].stage = "idle" /\ rows[x].key = NoKey
    BY DEF Init, NoExecution, NotStored, RowIds
  <1> QED
    BY <1>1, <1>2, <1>3, InitTypeOK
       DEF JobInv, RowsHaveWriters, KeysAreUnique, FoundRowsMatch, OutcomeIsRecorded

(* The row that an answer names, and the key that a flushed row reserves. *)
NamesItsRow(q) ==
    q.row # NoRow => q.row \in Stored /\ (q.key # NoKey => rows[q.row].key = q.key)

ReservesItsKey(r, q) ==
    q.holds =>
        /\ q.stage \in {"generate", "store"}
        /\ q.key # NoKey =>
              /\ WithKey(q.key) = {}
              /\ \A p \in Requests \ {r} : ~(req[p].holds /\ req[p].key = q.key)

LEMMA OldRecords ==
    ASSUME JobInv, NEW r \in Requests
    PROVE  NamesItsRow(req[r]) /\ ReservesItsKey(r, req[r])
  BY DEF JobInv, KeysAreUnique, NamesItsRow, ReservesItsKey

(* A request that stores nothing keeps the invariant when its new record names *)
(* its row and reserves its key.                                               *)
LEMMA RequestStepInv ==
    ASSUME JobInv, TypeOK', NEW r \in Requests, NEW next, req[r].stage # "answered",
           req' = [req EXCEPT ![r] = next], rows' = rows, exec' = exec,
           NamesItsRow(next), ReservesItsKey(r, next)
    PROVE  JobInv'
  <1>1. /\ Stored' = Stored
        /\ \A k : WithKey(k)' = WithKey(k)
        /\ \A t : RowsOf(t)' = RowsOf(t)
    BY DEF Stored, WithKey, RowsOf
  <1>2. req'[r] = next /\ \A q \in Requests \ {r} : req'[q] = req[q]
    BY DEF JobInv, TypeOK
  <1>3. RowsHaveWriters'
    BY <1>1, <1>2 DEF JobInv, RowsHaveWriters
  <1>4. KeysAreUnique'
    <2>1. ASSUME NEW q \in Requests, req'[q].row # NoRow
          PROVE  /\ req'[q].row \in Stored
                 /\ req'[q].key # NoKey => rows[req'[q].row].key = req'[q].key
      BY <1>2, <2>1 DEF JobInv, KeysAreUnique, NamesItsRow
    <2>2. ASSUME NEW q \in Requests, req'[q].holds
          PROVE  /\ req'[q].stage \in {"generate", "store"}
                 /\ req'[q].key # NoKey =>
                       /\ WithKey(req'[q].key) = {}
                       /\ \A p \in Requests : req'[p].holds /\ req'[p].key = req'[q].key => p = q
      <3>1. CASE q = r
        BY <1>2, <2>2, <3>1 DEF ReservesItsKey
      <3>2. CASE q # r
        BY <1>2, <2>2, <3>2 DEF JobInv, KeysAreUnique, ReservesItsKey
      <3> QED
        BY <3>1, <3>2
    <2> QED
      BY SMTT(30), <1>1, <2>1, <2>2 DEF JobInv, KeysAreUnique
  <1>5. FoundRowsMatch' /\ OutcomeIsRecorded'
    BY <1>1 DEF JobInv, FoundRowsMatch, OutcomeIsRecorded
  <1> QED
    BY <1>3, <1>4, <1>5 DEF JobInv

(* An execution that stores nothing: it goes on with a row of its task or ends *)
(* without an outcome.                                                         *)
LEMMA ExecutionStepInv ==
    ASSUME JobInv, TypeOK', NEW x \in Executions, NEW next, exec[x].stage # "done",
           exec' = [exec EXCEPT ![x] = next], rows' = rows, req' = req,
           next.stage \in {"working", "found"} => next.task \in Requests,
           next.stage = "found" /\ next.row # NoRow => next.row \in RowsOf(next.task),
           next.stage = "done" => next.task = NoTask
    PROVE  JobInv'
  <1>1. /\ Stored' = Stored
        /\ \A k : WithKey(k)' = WithKey(k)
        /\ \A t : RowsOf(t)' = RowsOf(t)
    BY DEF Stored, WithKey, RowsOf
  <1>2. exec'[x] = next /\ \A y \in Executions \ {x} : exec'[y] = exec[y]
    BY DEF JobInv, TypeOK
  <1>3. RowsHaveWriters'
    BY <1>1, <1>2 DEF JobInv, RowsHaveWriters
  <1>4. KeysAreUnique'
    BY <1>1 DEF JobInv, KeysAreUnique
  <1>5. FoundRowsMatch' /\ OutcomeIsRecorded'
    BY <1>1, <1>2 DEF JobInv, FoundRowsMatch, OutcomeIsRecorded
  <1> QED
    BY <1>3, <1>4, <1>5 DEF JobInv

(* What an edit leaves alone. *)
LEMMA EditsOfRequests ==
    ASSUME JobInv, NEW r \in Requests, NEW s \in Stages
    PROVE  /\ LET q == [req[r] EXCEPT !.stage = s]
              IN  q.stage = s /\ q.key = req[r].key /\ q.holds = req[r].holds /\ q.row = req[r].row
           /\ \A t : LET q == [req[r] EXCEPT !.stage = s, !.status = t]
                     IN  /\ q.stage = s /\ q.key = req[r].key
                         /\ q.holds = req[r].holds /\ q.row = req[r].row
           /\ \A h : LET q == [req[r] EXCEPT !.holds = h]
                     IN  /\ q.stage = req[r].stage /\ q.key = req[r].key
                         /\ q.holds = h /\ q.row = req[r].row
           /\ \A c, i : LET q == Answer(r, c, i)
                        IN  /\ q.stage = "answered" /\ q.key = req[r].key
                            /\ q.holds = req[r].holds /\ q.row = i
           /\ \A c, i : LET q == [Answer(r, c, i) EXCEPT !.holds = FALSE]
                        IN  /\ q.stage = "answered" /\ q.key = req[r].key
                            /\ q.holds = FALSE /\ q.row = i
  <1> req[r] \in ReqType
    BY DEF JobInv, TypeOK
  <1> QED
    BY DEF ReqType, Answer

LEMMA PostInv ==
    ASSUME JobInv, TypeOK', NEW r \in Requests, NEW kind \in Kinds,
           NEW key \in Keys \union {NoKey}, Post(r, kind, key)
    PROVE  JobInv'
  <1> DEFINE next == [NoRequest EXCEPT !.stage = "lookup", !.kind = kind, !.key = key]
  <1>1. next.row = NoRow /\ next.holds = FALSE
    BY DEF NoRequest
  <1>2. /\ req' = [req EXCEPT ![r] = next] /\ rows' = rows /\ exec' = exec
        /\ req[r].stage # "answered"
    BY DEF Post, ReqMoves
  <1> HIDE DEF next
  <1> QED
    BY <1>1, <1>2, RequestStepInv DEF NamesItsRow, ReservesItsKey

(* A request before its row is flushed reserves no key; one that fails answers *)
(* with no row.                                                                *)
LEMMA EarlyStageHoldsNothing ==
    ASSUME JobInv, NEW r \in Requests, req[r].stage \notin {"generate", "store"}
    PROVE  ~req[r].holds
  BY DEF JobInv, KeysAreUnique

LEMMA FailureInv ==
    ASSUME JobInv, TypeOK', NEW r \in Requests, req[r].stage # "answered", ~req[r].holds,
           ReqMoves(r, Answer(r, 500, NoRow))
    PROVE  JobInv'
  <1> DEFINE next == Answer(r, 500, NoRow)
  <1>1. next.row = NoRow /\ ~next.holds
    BY EditsOfRequests DEF Stages
  <1>2. req' = [req EXCEPT ![r] = next] /\ rows' = rows /\ exec' = exec
    BY DEF ReqMoves
  <1> HIDE DEF next
  <1> QED
    BY <1>1, <1>2, RequestStepInv DEF NamesItsRow, ReservesItsKey

LEMMA LookupInv ==
    ASSUME JobInv, TypeOK', NEW r \in Requests, Lookup(r)
    PROVE  JobInv'
  <1> DEFINE known == IF req[r].key = NoKey THEN {} ELSE WithKey(req[r].key)
  <1>1. req[r].stage # "answered" /\ ~req[r].holds
    BY EarlyStageHoldsNothing DEF Lookup
  <1>2. CASE known # {}
    <2>1. PICK i \in known : ReqMoves(r, Answer(r, 200, i))
      BY <1>2 DEF Lookup
    <2> DEFINE next == Answer(r, 200, i)
    <2>2. next.row = i /\ next.key = req[r].key /\ ~next.holds
      BY <1>1, EditsOfRequests DEF Stages
    <2>3. i \in Stored /\ rows[i].key = req[r].key
      BY <1>2 DEF WithKey
    <2>4. req' = [req EXCEPT ![r] = next] /\ rows' = rows /\ exec' = exec
      BY <2>1 DEF ReqMoves
    <2> HIDE DEF next
    <2> QED
      BY <1>1, <2>2, <2>3, <2>4, RequestStepInv DEF NamesItsRow, ReservesItsKey
  <1>3. CASE known = {}
    <2> DEFINE s == IF req[r].kind = "brief_generate" THEN "generate" ELSE "dispatch"
               next == [req[r] EXCEPT !.stage = s]
    <2>1. req' = [req EXCEPT ![r] = next] /\ rows' = rows /\ exec' = exec
      BY <1>3 DEF Lookup, ReqMoves
    <2>2. s \in Stages
      BY DEF Stages
    <2>3. next.row = req[r].row /\ next.key = req[r].key /\ ~next.holds
      BY <1>1, <2>2, EditsOfRequests
    <2> HIDE DEF next
    <2> QED
      BY <1>1, <2>1, <2>3, OldRecords, RequestStepInv DEF NamesItsRow, ReservesItsKey
  <1> QED
    BY <1>2, <1>3

LEMMA DispatchInv ==
    ASSUME JobInv, TypeOK', NEW r \in Requests, Dispatch(r)
    PROVE  JobInv'
  <1> DEFINE next == [req[r] EXCEPT !.stage = "store"]
  <1>1. req[r].stage # "answered" /\ ~req[r].holds
    BY EarlyStageHoldsNothing DEF Dispatch
  <1>2. req' = [req EXCEPT ![r] = next] /\ rows' = rows /\ exec' = exec
    BY DEF Dispatch
  <1>3. next.row = req[r].row /\ next.key = req[r].key /\ ~next.holds
    BY <1>1, EditsOfRequests DEF Stages
  <1> HIDE DEF next
  <1> QED
    BY <1>1, <1>2, <1>3, OldRecords, RequestStepInv DEF NamesItsRow, ReservesItsKey

(* A flushed row: no committed row and no other flushed one has its key. *)
LEMMA FlushBriefInv ==
    ASSUME JobInv, TypeOK', NEW r \in Requests, FlushBrief(r)
    PROVE  JobInv'
  <1>1. /\ req[r].stage = "generate" /\ ~req[r].holds /\ ~MustWait(r)
        /\ ReqMoves(r, IF Conflicts(r) THEN Answer(r, 500, NoRow)
                       ELSE [req[r] EXCEPT !.holds = TRUE])
    BY DEF FlushBrief
  <1>2. CASE Conflicts(r)
    BY <1>1, <1>2, FailureInv
  <1>3. CASE ~Conflicts(r)
    <2> DEFINE next == [req[r] EXCEPT !.holds = TRUE]
    <2>1. req' = [req EXCEPT ![r] = next] /\ rows' = rows /\ exec' = exec
      BY <1>1, <1>3 DEF ReqMoves
    <2>2. next.row = req[r].row /\ next.key = req[r].key /\ next.stage = "generate"
      BY <1>1, EditsOfRequests DEF Stages
    <2>3. NamesItsRow(next)
      BY <2>2, OldRecords DEF NamesItsRow
    <2>4. ReservesItsKey(r, next)
      BY <1>1, <1>3, <2>2 DEF ReservesItsKey, MustWait, Conflicts
    <2> HIDE DEF next
    <2> QED
      BY <1>1, <2>1, <2>3, <2>4, RequestStepInv
  <1> QED
    BY <1>2, <1>3

LEMMA GenerateInv ==
    ASSUME JobInv, TypeOK', NEW r \in Requests, Generate(r)
    PROVE  JobInv'
  <1>1. PICK status \in {"succeeded", "failed"} :
            ReqMoves(r, [req[r] EXCEPT !.stage = "store", !.status = status])
    BY DEF Generate
  <1> DEFINE next == [req[r] EXCEPT !.stage = "store", !.status = status]
  <1>2. req' = [req EXCEPT ![r] = next] /\ rows' = rows /\ exec' = exec
    BY <1>1 DEF ReqMoves
  <1>3. /\ next.row = req[r].row /\ next.key = req[r].key /\ next.holds = req[r].holds
        /\ next.stage = "store"
    BY EditsOfRequests DEF Stages
  <1>4. req[r].stage = "generate"
    BY DEF Generate
  <1> HIDE DEF next
  <1>5. NamesItsRow(next) /\ ReservesItsKey(r, next)
    BY <1>3, OldRecords DEF NamesItsRow, ReservesItsKey
  <1> QED
    BY <1>2, <1>4, <1>5, RequestStepInv

LEMMA RequestLostInv ==
    ASSUME JobInv, TypeOK', NEW r \in Requests, RequestLost(r)
    PROVE  JobInv'
  <1> DEFINE next == [Answer(r, 500, NoRow) EXCEPT !.holds = FALSE]
  <1>1. next.row = NoRow /\ ~next.holds
    BY EditsOfRequests DEF Stages
  <1>2. /\ req' = [req EXCEPT ![r] = next] /\ rows' = rows /\ exec' = exec
        /\ req[r].stage # "answered"
    BY DEF RequestLost, ReqMoves
  <1> HIDE DEF next
  <1> QED
    BY <1>1, <1>2, RequestStepInv DEF NamesItsRow, ReservesItsKey

-----------------------------------------------------------------------------
(* The steps that write a row *)

(* The row a request commits: its key is in no other row and is reserved by no *)
(* other request.                                                              *)
LEMMA StoreJobInv ==
    ASSUME JobInv, TypeOK', NEW r \in Requests, StoreJob(r)
    PROVE  JobInv'
  <1>1. req[r].stage = "store" /\ ~MustWait(r)
    BY DEF StoreJob
  <1>2. CASE ~req[r].holds /\ Conflicts(r)
    BY <1>1, <1>2, FailureInv DEF StoreJob
  <1>3. CASE ~(~req[r].holds /\ Conflicts(r))
    <2> DEFINE w == RowOf(r)
               next == [Answer(r, CodeOf(r), r) EXCEPT !.holds = FALSE]
    <2>1. rows' = [rows EXCEPT ![r] = w] /\ req' = [req EXCEPT ![r] = next] /\ exec' = exec
      BY <1>3 DEF StoreJob
    <2>2. w.key = req[r].key /\ w.status = req[r].status
      BY DEF RowOf
    <2>3. next.row = r /\ next.key = req[r].key /\ ~next.holds /\ next.stage = "answered"
      BY EditsOfRequests DEF Stages
    <2>4. w.status # "none"
      BY <2>2, RequestFields DEF JobInv, TypeOK, Statuses, Final
    <2> HIDE DEF w, next
    <2>5. r \notin Stored /\ r \in RowIds /\ r # NoRow
      BY <1>1, NamesAreDistinct DEF JobInv, RowsHaveWriters, RowIds
    <2>6. /\ rows'[r] = w /\ \A i \in RowIds \ {r} : rows'[i] = rows[i]
          /\ req'[r] = next /\ \A q \in Requests \ {r} : req'[q] = req[q]
      BY <2>1, <2>5 DEF JobInv, TypeOK
    <2>7. Stored' = Stored \union {r}
      BY <2>4, <2>5, <2>6 DEF Stored
    <2>8. req[r].key # NoKey => WithKey(req[r].key) = {}
      BY <1>3, OldRecords DEF Conflicts, ReservesItsKey
    <2>9. RowsHaveWriters'
      <3>1. \A x \in Executions : x # r /\ x \in RowIds
        BY NamesAreDistinct DEF RowIds
      <3> QED
        BY <2>1, <2>3, <2>6, <2>7, <3>1 DEF JobInv, RowsHaveWriters
    <2>10. KeysAreUnique'
      <3>1. ASSUME NEW q \in Requests, req'[q].row # NoRow
            PROVE  /\ req'[q].row \in Stored'
                   /\ req'[q].key # NoKey => rows'[req'[q].row].key = req'[q].key
        <4>1. CASE q = r
          BY <2>2, <2>3, <2>6, <2>7, <4>1
        <4>2. CASE q # r
          <5>1. req[q].row \in Stored /\ req'[q] = req[q]
            BY <2>6, <3>1, <4>2 DEF JobInv, KeysAreUnique
          <5>2. req[q].row # r /\ req[q].row \in RowIds
            BY <2>5, <5>1 DEF Stored
          <5> QED
            BY <2>6, <2>7, <3>1, <5>1, <5>2 DEF JobInv, KeysAreUnique
        <4> QED
          BY <4>1, <4>2
      <3>2. ASSUME NEW i \in Stored', NEW j \in Stored', rows'[i].key = rows'[j].key,
                   rows'[i].key # NoKey
            PROVE  i = j
        <4>1. \A k \in Stored : k \in RowIds \ {r} /\ rows'[k] = rows[k]
          BY <2>5, <2>6 DEF Stored
        <4>2. \A k \in Stored : rows'[k].key = req[r].key => req[r].key = NoKey
          BY <2>8, <4>1 DEF WithKey
        <4> QED
          BY <2>2, <2>6, <2>7, <3>2, <4>1, <4>2 DEF JobInv, KeysAreUnique
      <3>3. ASSUME NEW q \in Requests, req'[q].holds
            PROVE  /\ req'[q].stage \in {"generate", "store"}
                   /\ req'[q].key # NoKey =>
                         /\ WithKey(req[q].key)' = {}
                         /\ \A p \in Requests :
                               req'[p].holds /\ req'[p].key = req'[q].key => p = q
        <4>1. q # r /\ req'[q] = req[q]
          BY <2>3, <2>6, <3>3
        <4>2. req[q].key # NoKey => req[q].key # req[r].key
          BY <1>1, <3>3, <4>1 DEF MustWait
        <4>3. \A k \in Stored' : rows'[k].key = req[q].key => k \in WithKey(req[q].key) \/ req[q].key = NoKey
          BY <2>2, <2>5, <2>6, <2>7, <4>2 DEF WithKey, Stored
        <4>4. req[q].key # NoKey => WithKey(req[q].key) = {}
          BY <3>3, <4>1 DEF JobInv, KeysAreUnique
        <4>5. req[q].key # NoKey => WithKey(req[q].key)' = {}
          BY <4>1, <4>3, <4>4 DEF WithKey, Stored
        <4>6. \A p \in Requests : req'[p].holds => p # r /\ req'[p] = req[p]
          BY <2>3, <2>6
        <4> QED
          BY <3>3, <4>1, <4>5, <4>6 DEF JobInv, KeysAreUnique
      <3> QED
        BY <3>1, <3>2, <3>3 DEF KeysAreUnique
    <2>11. \A t : RowsOf(t) \subseteq RowsOf(t)'
      BY <2>5, <2>6, <2>7 DEF RowsOf, Stored
    <2>12. FoundRowsMatch'
      BY <2>1, <2>11 DEF JobInv, FoundRowsMatch
    <2>13. OutcomeIsRecorded'
      <3>1. ASSUME NEW x \in Executions, exec[x].stage = "done", exec[x].task # NoTask
            PROVE  \E i \in RowsOf(exec[x].task)' : rows'[i].status \in Final
        <4>1. PICK i \in RowsOf(exec[x].task) : rows[i].status \in Final
          BY <3>1 DEF JobInv, OutcomeIsRecorded
        <4>2. rows'[i] = rows[i]
          BY <2>5, <2>6, <4>1 DEF RowsOf, Stored
        <4> QED
          BY <2>1, <2>11, <4>1, <4>2
      <3> QED
        BY <2>1, <3>1 DEF OutcomeIsRecorded
    <2> QED
      BY <2>9, <2>10, <2>12, <2>13 DEF JobInv
  <1> QED
    BY <1>2, <1>3

(* The row an execution commits: the one it found, ended, or its own, which    *)
(* nobody else writes and which has no key.                                    *)
LEMMA RecordJobInv ==
    ASSUME JobInv, TypeOK', NEW x \in Executions, RecordJob(x)
    PROVE  JobInv'
  <1> DEFINE i == exec[x].row
             t == exec[x].task
             next == [exec[x] EXCEPT !.stage = "done"]
  <1>1. /\ exec[x].stage = "found" /\ exec' = [exec EXCEPT ![x] = next] /\ req' = req
        /\ i = NoRow => rows' = [rows EXCEPT ![x] = [task |-> t, key |-> NoKey,
                                                     status |-> exec[x].status]]
        /\ i # NoRow => rows' = [rows EXCEPT ![i] = [rows[i] EXCEPT !.status = exec[x].status]]
    BY DEF RecordJob
  <1>2. /\ next.stage = "done" /\ next.task = t /\ next.row = i
        /\ exec[x].status \in Final /\ i \in RowIds \union {NoRow}
    BY DEF JobInv, TypeOK, ExecType
  <1>3. exec'[x] = next /\ \A y \in Executions \ {x} : exec'[y] = exec[y]
    BY <1>1 DEF JobInv, TypeOK
  <1>4. t \in Requests /\ t # NoTask
    BY <1>1, NamesAreDistinct DEF JobInv, FoundRowsMatch
  <1>5. x \in RowIds /\ x \notin Requests /\ x \notin Stored /\ x # NoRow
    BY <1>1, NamesAreDistinct DEF JobInv, RowsHaveWriters, RowIds
  <1> DEFINE k == IF i = NoRow THEN x ELSE i
  <1>6. /\ k \in RowIds /\ rows'[k].task = t /\ rows'[k].status = exec[x].status
        /\ rows'[k].key = IF i = NoRow THEN NoKey ELSE rows[k].key
        /\ \A j \in RowIds \ {k} : rows'[j] = rows[j]
    <2>1. CASE i = NoRow
      BY <1>1, <1>2, <1>5, <2>1 DEF JobInv, TypeOK
    <2>2. CASE i # NoRow
      <3>1. i \in RowIds /\ rows[i].task = t
        BY <1>1, <1>2, <2>2 DEF JobInv, FoundRowsMatch, RowsOf
      <3>2. rows[i] \in RowType
        BY <3>1 DEF JobInv, TypeOK
      <3> DEFINE w == [rows[i] EXCEPT !.status = exec[x].status]
      <3>3. w.task = t /\ w.status = exec[x].status /\ w.key = rows[i].key
        BY <3>1, <3>2 DEF RowType
      <3>4. rows' = [rows EXCEPT ![i] = w]
        BY <1>1, <2>2
      <3> HIDE DEF w
      <3> QED
        BY <2>2, <3>1, <3>3, <3>4 DEF JobInv, TypeOK
    <2> QED
      BY <2>1, <2>2
  <1>7. i # NoRow => k \in Stored
    BY <1>1 DEF JobInv, FoundRowsMatch, RowsOf
  <1>8. Stored' = Stored \union {k}
    <2>1. rows'[k].status # "none"
      BY <1>2, <1>6 DEF Final
    <2> HIDE DEF k
    <2> QED
      BY <1>6, <2>1 DEF Stored
  <1>9. \A j \in RowIds : rows'[j].key = rows[j].key
    BY <1>5, <1>6 DEF JobInv, RowsHaveWriters
  <1>10. \A u : RowsOf(u)' = IF u = t THEN RowsOf(u) \union {k} ELSE RowsOf(u)
    <2>1. k \in Stored => rows[k].task = t
      BY <1>1, <1>5 DEF JobInv, FoundRowsMatch, RowsOf
    <2> HIDE DEF k
    <2> QED
      BY <1>6, <1>8, <2>1 DEF RowsOf, Stored
  <1> HIDE DEF next
  <1>11. RowsHaveWriters'
    <2>1. \A r \in Requests : r # x
      BY <1>5
    <2>2. k = x \/ k \in Stored
      BY <1>7
    <2> HIDE DEF k
    <2>3. \A r \in Requests : r \in Stored' => req[r].stage = "answered"
      BY <1>8, <2>1, <2>2 DEF JobInv, RowsHaveWriters
    <2>4. \A y \in Executions : y \in Stored' => exec'[y].stage = "done"
      BY <1>2, <1>3, <1>8, <2>2 DEF JobInv, RowsHaveWriters
    <2>5. \A y \in Executions : rows'[y].key = NoKey
      BY <1>9 DEF JobInv, RowsHaveWriters, RowIds
    <2> QED
      BY <1>1, <2>3, <2>4, <2>5 DEF RowsHaveWriters
  <1>12. KeysAreUnique'
    <2>1. k \in Stored \/ rows[k].key = NoKey
      BY <1>5, <1>7 DEF JobInv, RowsHaveWriters
    <2> HIDE DEF k
    <2>2. \A j \in Stored : j \in RowIds
      BY DEF Stored
    <2>3. \A key : key # NoKey => WithKey(key)' = WithKey(key)
      BY <1>6, <1>8, <1>9, <2>1, <2>2 DEF WithKey
    <2>4. ASSUME NEW r \in Requests, req[r].row # NoRow
          PROVE  /\ req[r].row \in Stored'
                 /\ req[r].key # NoKey => rows'[req[r].row].key = req[r].key
      BY <1>8, <1>9, <2>2, <2>4 DEF JobInv, KeysAreUnique
    <2>5. ASSUME NEW a \in Stored', NEW b \in Stored', rows'[a].key = rows'[b].key,
                 rows'[a].key # NoKey
          PROVE  a = b
      BY <1>6, <1>8, <1>9, <2>1, <2>2, <2>5 DEF JobInv, KeysAreUnique
    <2> QED
      BY SMTT(30), <1>1, <2>3, <2>4, <2>5 DEF JobInv, KeysAreUnique
  <1>13. FoundRowsMatch'
    BY <1>2, <1>3, <1>10 DEF JobInv, FoundRowsMatch
  <1>14. OutcomeIsRecorded'
    <2> SUFFICES ASSUME NEW y \in Executions, exec'[y].stage = "done", exec'[y].task # NoTask
                 PROVE  \E j \in Stored' : /\ rows'[j].task = exec'[y].task
                                           /\ rows'[j].status \in Final
      BY DEF OutcomeIsRecorded, RowsOf
    <2>1. CASE y = x
      BY <1>2, <1>3, <1>6, <1>8, <2>1
    <2>2. CASE y # x
      <3>1. PICK j \in Stored : rows[j].task = exec[y].task /\ rows[j].status \in Final
        BY <1>3, <2>2 DEF JobInv, OutcomeIsRecorded, RowsOf
      <3>2. k \in Stored => rows[k].task = t
        BY <1>1, <1>5 DEF JobInv, FoundRowsMatch, RowsOf
      <3> HIDE DEF k
      <3>3. j \in RowIds /\ rows'[j].task = rows[j].task /\ rows'[j].status \in Final
        BY <1>2, <1>6, <3>1, <3>2 DEF Stored
      <3> QED
        BY <1>3, <1>8, <2>2, <3>1, <3>3
    <2> QED
      BY <2>1, <2>2
  <1> QED
    BY <1>11, <1>12, <1>13, <1>14 DEF JobInv

LEMMA StartInv ==
    ASSUME JobInv, TypeOK', NEW x \in Executions, NEW t \in Requests, Start(x, t)
    PROVE  JobInv'
  <1>1. PICK status \in Final :
            exec' = [exec EXCEPT ![x] = [NoExecution EXCEPT !.stage = "working", !.task = t,
                                                            !.status = status]]
    BY DEF Start
  <1> DEFINE next == [NoExecution EXCEPT !.stage = "working", !.task = t, !.status = status]
  <1>2. next.stage = "working" /\ next.task = t
    BY DEF NoExecution
  <1>3. exec[x].stage # "done" /\ rows' = rows /\ req' = req
    BY DEF Start
  <1> HIDE DEF next
  <1> QED
    BY <1>1, <1>2, <1>3, ExecutionStepInv DEF next

LEMMA FindJobInv ==
    ASSUME JobInv, TypeOK', NEW x \in Executions, FindJob(x)
    PROVE  JobInv'
  <1>1. PICK i \in RowsOf(exec[x].task) \union {NoRow} :
            exec' = [exec EXCEPT ![x].stage = "found", ![x].row = i]
    BY DEF FindJob
  <1> DEFINE next == [exec[x] EXCEPT !.stage = "found", !.row = i]
  <1>2. exec' = [exec EXCEPT ![x] = next]
    BY <1>1 DEF JobInv, TypeOK
  <1>3. next.stage = "found" /\ next.task = exec[x].task /\ next.row = i
    BY DEF JobInv, TypeOK, ExecType
  <1>4. exec[x].stage = "working" /\ rows' = rows /\ req' = req
    BY DEF FindJob
  <1>5. exec[x].task \in Requests
    BY <1>4 DEF JobInv, FoundRowsMatch
  <1> HIDE DEF next
  <1> QED
    BY <1>2, <1>3, <1>4, <1>5, ExecutionStepInv

LEMMA ExecutionLostInv ==
    ASSUME JobInv, TypeOK', NEW x \in Executions, ExecutionLost(x)
    PROVE  JobInv'
  <1> DEFINE next == [NoExecution EXCEPT !.stage = "done"]
  <1>1. next.stage = "done" /\ next.task = NoTask
    BY DEF NoExecution
  <1>2. /\ exec' = [exec EXCEPT ![x] = next] /\ rows' = rows /\ req' = req
        /\ exec[x].stage # "done"
    BY DEF ExecutionLost
  <1> HIDE DEF next
  <1> QED
    BY <1>1, <1>2, ExecutionStepInv

LEMMA NextInv == JobInv /\ [Next]_vars => JobInv'
  <1> SUFFICES ASSUME JobInv, [Next]_vars PROVE JobInv'
    OBVIOUS
  <1>1. TypeOK'
    BY NextTypeOK DEF JobInv
  <1>2. ASSUME NEW r \in Requests, DispatchFails(r) PROVE JobInv'
    BY <1>1, <1>2, EarlyStageHoldsNothing, FailureInv DEF DispatchFails
  <1>3. CASE UNCHANGED vars
    BY <1>3 DEF vars, JobInv, TypeOK, RowsHaveWriters, KeysAreUnique, FoundRowsMatch,
                OutcomeIsRecorded, WithKey, RowsOf, Stored
  <1> QED
    BY <1>1, <1>2, <1>3, PostInv, LookupInv, DispatchInv, FlushBriefInv, GenerateInv,
       StoreJobInv, RequestLostInv, StartInv, FindJobInv, RecordJobInv, ExecutionLostInv
       DEF Next

LEMMA InvAlways == Spec => []JobInv
  BY InitInv, NextInv, PTL DEF Spec

-----------------------------------------------------------------------------
(* The theorems *)

(* All requests of one idempotency key that were answered with a job were      *)
(* answered with the same one, for any number of overlapping requests.         *)
THEOREM OneJobPerKey == Spec => []SameKeySameJob
  <1>1. JobInv => SameKeySameJob
    BY DEF JobInv, KeysAreUnique, SameKeySameJob
  <1> QED
    BY <1>1, InvAlways, PTL

(* An execution that recorded its outcome did so in a row of its task, whether *)
(* the API stored the job before, after or not at all.                         *)
THEOREM OutcomesAreRecorded == Spec => []OutcomeIsRecorded
  <1>1. JobInv => OutcomeIsRecorded
    BY DEF JobInv
  <1> QED
    BY <1>1, InvAlways, PTL

(* A job that has ended is never shown as queued or absent again, whichever of *)
(* the API and the worker writes last.                                         *)
THEOREM EndedJobsStayEnded == Spec => FinalStaysFinal
  <1> DEFINE A == \A i \in RowIds : rows[i].status \in Final => rows'[i].status \in Final
  <1>1. JobInv /\ [Next]_vars => A
    <2> SUFFICES ASSUME JobInv, [Next]_vars, NEW i \in RowIds, rows[i].status \in Final
                 PROVE  rows'[i].status \in Final
      OBVIOUS
    <2>1. CASE rows' = rows
      BY <2>1
    <2>2. ASSUME NEW r \in Requests, StoreJob(r), rows' # rows PROVE rows'[i].status \in Final
      <3>1. rows' = [rows EXCEPT ![r] = RowOf(r)]
        BY <2>2 DEF StoreJob, ReqMoves
      <3>2. r \notin Stored /\ r \in RowIds
        BY <2>2 DEF StoreJob, JobInv, RowsHaveWriters, RowIds
      <3>3. i # r
        BY <3>2 DEF Stored, Final
      <3> QED
        BY <3>1, <3>3 DEF JobInv, TypeOK
    <2>3. ASSUME NEW x \in Executions, RecordJob(x) PROVE rows'[i].status \in Final
      <3>1. exec[x].status \in Final
        BY DEF JobInv, TypeOK, ExecType
      <3>2. rows[i] \in RowType
        BY DEF JobInv, TypeOK
      <3> QED
        BY <2>3, <3>1, <3>2 DEF RecordJob, JobInv, TypeOK, RowType
    <2> QED
      BY <2>1, <2>2, <2>3 DEF Next, vars, Post, Lookup, Dispatch, DispatchFails, FlushBrief,
         Generate, RequestLost, ReqMoves, Start, FindJob, ExecutionLost
  <1> HIDE DEF A
  <1>2. Spec => [][A]_vars
    BY <1>1, InvAlways, PTL DEF Spec
  <1> QED
    BY <1>2 DEF FinalStaysFinal, A
=============================================================================
