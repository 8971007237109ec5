---------------------------- MODULE PlanVersions ----------------------------
(***************************************************************************)
(* The versioned plan store: PlanStore (services/plan_store.py) as driven  *)
(* by the routes of api/routes/plan.py, over PostgreSQL at READ COMMITTED. *)
(*                                                                         *)
(* One action is one SQL statement of a request (or the commit that ends   *)
(* it); a request's uncommitted writes live in its session until Commit    *)
(* publishes them.  A row of plan_versions is identified by its            *)
(* (plan_id, version) pair, which the table's unique constraint makes a    *)
(* key; what the content of a version says is one member of Contents.      *)
(***************************************************************************)
EXTENDS Integers, FiniteSets, FiniteSetsExt

CONSTANTS
    Plans,         \* plan_id values; their order is the order of the file names
    Contents,      \* what a plan's YAML can say (told apart by content_hash)
    NoContent,     \* "no file on disk for this plan"
    Sessions,      \* concurrent API requests, one database session each
    VersionBound   \* per plan: requests are made only while it stays below this

ASSUME PlansAreNumbers == Plans \subseteq Nat
ASSUME PlansAreBounded == \E n \in {0} \union Plans : \A p \in Plans : p <= n   \* one directory
ASSUME NoContentIsNone == NoContent \notin Contents

VARIABLES
    content,   \* committed rows: a function from stored rows to their content
    active,    \* committed rows with is_active
    disk,      \* plan files: what plan_dir holds for each plan
    ses,       \* per session: the request being served, its locks and flag updates
    new,       \* per session: rows it inserted and has not committed
    solo       \* history only: sessions whose request overlapped no other
               \* request and no deployment

vars == <<content, active, disk, ses, new, solo>>

Rows == Plans \X (Nat \ {0})
PlanOf(r) == r[1]
VersionOf(r) == r[2]

Stored == DOMAIN content
VersionsIn(p, R) == {VersionOf(r) : r \in {q \in R : PlanOf(q) = p}}
Newest(p, R) == Max({0} \union VersionsIn(p, R))
ActiveOf(p, A) == {r \in A : PlanOf(r) = p}

Kinds == {"create", "activate", "rollback", "sync"}
Patches == {"activate", "rollback"}
Stages == {"idle",     \* no request
           "files",    \* sync: about to look at the next plan file
           "number",   \* about to run get_next_version
           "insert",   \* about to insert the new row
           "scan",     \* about to start the bulk deactivation
           "lock",     \* bulk deactivation waiting for its rows
           "flip",     \* about to set is_active on the target
           "finish"}   \* only the commit, or the 409, is left

NoPlan == 0
NoRow == <<0, 0>>
NoRows == [r \in {} |-> NoContent]

Idle == [stage |-> "idle", kind |-> "create", plan |-> NoPlan, wants |-> NoContent,
         activates |-> FALSE, version |-> 0, target |-> NoRow, todo |-> {},
         cand |-> {}, on |-> {}, off |-> {}, held |-> {}]

(* The rows of f laid over those of g. *)
Over(f, g) == [r \in DOMAIN f \union DOMAIN g |-> IF r \in DOMAIN f THEN f[r] ELSE g[r]]

(* What session s sees: the committed state with its own writes on top. *)
SeenRows(s) == Stored \union DOMAIN new[s]
SeenActive(s) == (active \ ses[s].off) \union ses[s].on

(* Row locks and uncommitted unique keys, held until the session ends. *)
Locked(s) == ses[s].held \union DOMAIN new[s]
FreeOfOthers(s, R) == \A t \in Sessions \ {s} : R \cap Locked(t) = {}

SessionType ==
    [stage : Stages, kind : Kinds, plan : Plans \union {NoPlan},
     wants : Contents \union {NoContent}, activates : BOOLEAN, version : Nat,
     target : Rows \union {NoRow}, todo : SUBSET Plans, cand : SUBSET Rows,
     on : SUBSET Rows, off : SUBSET Rows, held : SUBSET Rows]

TypeOK ==
    /\ DOMAIN content \subseteq Rows
    /\ content \in [DOMAIN content -> Contents]
    /\ active \subseteq Rows
    /\ disk \in [Plans -> Contents \union {NoContent}]
    /\ ses \in [Sessions -> SessionType]
    /\ DOMAIN new = Sessions
    /\ solo \subseteq Sessions
    /\ \A s \in Sessions :
         /\ DOMAIN new[s] \subseteq Rows
         /\ new[s] \in [DOMAIN new[s] -> Contents]
         /\ ses[s].stage \in {"number", "insert"} =>
                ses[s].plan \in Plans /\ ses[s].wants \in Contents
         /\ ses[s].stage \in {"scan", "lock", "flip"} => ses[s].target \in Rows

Init ==
    /\ content = NoRows
    /\ active = {}
    /\ disk \in [Plans -> Contents \union {NoContent}]
    /\ ses = [s \in Sessions |-> Idle]
    /\ new = [s \in Sessions |-> NoRows]
    /\ solo = {}

-----------------------------------------------------------------------------
(* Requests arriving *)

(* The bound: every open session can still add one version to each plan. *)
WithinBound ==
    \A p \in Plans :
        Newest(p, Stored) + Cardinality({s \in Sessions : ses[s].stage # "idle"})
            < VersionBound[p]

Others(s) == {t \in Sessions \ {s} : ses[t].stage # "idle"}

Begin(s, req) ==
    /\ ses[s].stage = "idle"
    /\ WithinBound
    /\ ses' = [ses EXCEPT ![s] = req]
    /\ solo' = IF Others(s) = {} THEN {s} ELSE {}
    /\ UNCHANGED <<content, active, disk, new>>

(* POST /plans with a valid document. *)
CreateRequest(s, p, c, activates) ==
    Begin(s, [Idle EXCEPT !.stage = "number", !.kind = "create", !.plan = p,
                          !.wants = c, !.activates = activates])

(* PATCH /plans/{p}/active-version with a version_id: the URL's plan is kept in    *)
(* "plan", the version may be any stored row.  An unknown id is a 404, no effect.  *)
ActivateRequest(s, p, r) ==
    /\ r \in Stored
    /\ Begin(s, [Idle EXCEPT !.stage = "scan", !.kind = "activate", !.plan = p, !.target = r])

(* The row PlanStore.rollback picks among rows R: the second newest version. *)
Previous(p, R) ==
    <<p, Max(VersionsIn(p, R) \ {Newest(p, R)})>>

(* PATCH with rollback=true; with fewer than two versions it is a 404, no effect. *)
RollbackRequest(s, p) ==
    /\ Cardinality(VersionsIn(p, Stored)) >= 2
    /\ Begin(s, [Idle EXCEPT !.stage = "scan", !.kind = "rollback", !.plan = p,
                             !.target = Previous(p, Stored)])

(* POST /plans:sync-from-disk over the plan files present now. *)
SyncRequest(s) ==
    Begin(s, [Idle EXCEPT !.stage = "files", !.kind = "sync",
                          !.todo = {p \in Plans : disk[p] # NoContent}])

-----------------------------------------------------------------------------
(* Statements of an open request *)

Moved(s, req) ==
    /\ ses' = [ses EXCEPT ![s] = req]
    /\ UNCHANGED <<content, active, disk, new, solo>>

(* The session is closed without a commit. *)
RolledBack(s) ==
    /\ ses' = [ses EXCEPT ![s] = Idle]
    /\ new' = [new EXCEPT ![s] = NoRows]
    /\ UNCHANGED <<content, active, disk, solo>>

UnsortedFiles(todo) == todo

(* sorted(plan_dir.glob(...)): files are taken in the order of their names. *)
NextFiles(todo) == {p \in todo : \A q \in todo : p <= q}

AnyStoredUpToDate(p, c, s) ==
    \E r \in SeenRows(s) : PlanOf(r) = p /\ Over(new[s], content)[r] = c

(* The newest version of p already says c. *)
UpToDate(p, c, s) ==
    LET newest == <<p, Newest(p, SeenRows(s))>>
    IN  newest \in SeenRows(s) /\ Over(new[s], content)[newest] = c

(* One round of the sync loop: read the file, compare it with the newest version.  *)
(* A file removed since the directory was listed makes read_text raise.            *)
SyncFile(s) ==
    /\ ses[s].stage = "files"
    /\ \E p \in NextFiles(ses[s].todo) :
         LET rest == [ses[s] EXCEPT !.todo = @ \ {p}]
         IN  IF disk[p] = NoContent THEN RolledBack(s)
             ELSE IF UpToDate(p, disk[p], s) THEN Moved(s, rest)
             ELSE Moved(s, [rest EXCEPT !.stage = "number", !.plan = p, !.wants = disk[p],
                                        !.activates = TRUE])

SyncDone(s) ==
    /\ ses[s].stage = "files"
    /\ ses[s].todo = {}
    /\ Moved(s, [ses[s] EXCEPT !.stage = "finish"])

SkippingVersion(p, R) == IF Newest(p, R) = 0 THEN 2 ELSE Newest(p, R) + 1

CurrentVersion(p, R) == Newest(p, R)

NextVersion(p, R) == Newest(p, R) + 1

GetNextVersion(s) ==
    /\ ses[s].stage = "number"
    /\ Moved(s, [ses[s] EXCEPT !.stage = "insert",
                               !.version = NextVersion(ses[s].plan, SeenRows(s))])

Unconstrained(s, r) == FALSE

(* UniqueConstraint("plan_id", "version"): the key is committed already. *)
Conflicts(s, r) == r \in Stored

(* store_version: the insert waits for another session's uncommitted row with  *)
(* the same key; a committed one raises IntegrityError, which ends the request *)
(* (409 from create_plan, unhandled in sync) with the transaction rolled back. *)
StoreVersion(s) ==
    /\ ses[s].stage = "insert"
    /\ LET r == <<ses[s].plan, ses[s].version>> IN
       /\ FreeOfOthers(s, {r})
       /\ IF Conflicts(s, r)
          THEN RolledBack(s)
          ELSE /\ new' = [new EXCEPT ![s] = Over([q \in {r} |-> ses[s].wants], @)]
               /\ ses' = [ses EXCEPT ![s].target = r,
                                     ![s].stage = IF ses[s].activates THEN "scan" ELSE "finish"]
               /\ UNCHANGED <<content, active, disk, solo>>

OneToDeactivate(s) ==
    LET A == ActiveOf(PlanOf(ses[s].target), SeenActive(s))
    IN  IF A = {} THEN {} ELSE {CHOOSE r \in A : TRUE}

(* The rows matched by activate's bulk UPDATE, in the statement's snapshot. *)
ToDeactivate(s) == ActiveOf(PlanOf(ses[s].target), SeenActive(s))

DeactivateScan(s) ==
    /\ ses[s].stage = "scan"
    /\ Moved(s, [ses[s] EXCEPT !.stage = "lock", !.cand = ToDeactivate(s)])

DeactivateAndCommit(s) ==
    /\ ses[s].stage = "lock"
    /\ FreeOfOthers(s, ses[s].cand)
    /\ active' = SeenActive(s) \ ses[s].cand
    /\ ses' = [ses EXCEPT ![s].stage = "flip", ![s].cand = {}]
    /\ UNCHANGED <<content, disk, new, solo>>

(* The UPDATE gets its row locks, one statement at a time; a row that another  *)
(* session deactivated meanwhile is locked but no longer matches.  A row that  *)
(* became active after the scan is not in the snapshot and is left alone.      *)
DeactivateRows(s) ==
    /\ ses[s].stage = "lock"
    /\ FreeOfOthers(s, ses[s].cand)
    /\ LET hit == ses[s].cand \cap SeenActive(s)
       IN  Moved(s, [ses[s] EXCEPT !.stage = "flip", !.cand = {},
                                   !.held = @ \union ses[s].cand,
                                   !.off = @ \union hit, !.on = @ \ hit])

(* target.is_active = True; flush *)
ActivateTarget(s) ==
    /\ ses[s].stage = "flip"
    /\ FreeOfOthers(s, {ses[s].target})
    /\ Moved(s, [ses[s] EXCEPT !.on = @ \union {ses[s].target},
                               !.off = @ \ {ses[s].target},
                               !.held = @ \union {ses[s].target},
                               !.stage = IF ses[s].kind = "sync" THEN "files" ELSE "finish"])

NeverMismatched(s) == FALSE

(* update_active_plan: the activated version belongs to another plan than the URL's. *)
Mismatched(s) ==
    ses[s].kind = "activate" /\ PlanOf(ses[s].target) # ses[s].plan

Commit(s) ==
    /\ ses[s].stage = "finish"
    /\ ~Mismatched(s)
    /\ content' = Over(new[s], content)
    /\ active' = SeenActive(s)
    /\ ses' = [ses EXCEPT ![s] = Idle]
    /\ new' = [new EXCEPT ![s] = NoRows]
    /\ UNCHANGED <<disk, solo>>

(* The 409 answer returns without a commit; closing the session rolls back. *)
MismatchAnswer(s) ==
    /\ ses[s].stage = "finish"
    /\ Mismatched(s)
    /\ RolledBack(s)

-----------------------------------------------------------------------------
(* The environment *)

(* The rows the next statement of session s must lock, or whose key it must own. *)
Wanted(s) ==
    CASE ses[s].stage = "insert" -> {<<ses[s].plan, ses[s].version>>}
      [] ses[s].stage = "lock"   -> ses[s].cand
      [] ses[s].stage = "flip"   -> {ses[s].target}
      [] OTHER                   -> {}

WaitsFor(s, t) == s # t /\ Wanted(s) \cap Locked(t) # {}

(* Each of the sessions C waits for another of them. *)
Deadlocked(C) == C # {} /\ \A s \in C : \E t \in C : WaitsFor(s, t)

(* PostgreSQL's deadlock detector: a session on a cycle of waits gets an error, *)
(* which no route catches, and its transaction is rolled back.                  *)
DeadlockVictim(s) ==
    /\ \E C \in SUBSET Sessions :
         /\ s \in C
         /\ Deadlocked(C)
         /\ \A D \in SUBSET C : Deadlocked(D) => D = C
    /\ RolledBack(s)

(* The connection or the API process is lost: the transaction is rolled back. *)
Abort(s) ==
    /\ ses[s].stage # "idle"
    /\ RolledBack(s)

(* A deployment changes, adds or removes a plan file. *)
DeployFile(p, c) ==
    /\ disk[p] # c
    /\ disk' = [disk EXCEPT ![p] = c]
    /\ solo' = {}
    /\ UNCHANGED <<content, active, ses, new>>

Step(s) ==
    \/ SyncFile(s) \/ SyncDone(s) \/ GetNextVersion(s) \/ StoreVersion(s)
    \/ DeactivateScan(s) \/ DeactivateRows(s) \/ ActivateTarget(s)
    \/ Commit(s) \/ MismatchAnswer(s)

Request(s) ==
    \/ \E p \in Plans, c \in Contents, a \in BOOLEAN : CreateRequest(s, p, c, a)
    \/ \E p \in Plans, r \in Stored : ActivateRequest(s, p, r)
    \/ \E p \in Plans : RollbackRequest(s, p)
    \/ SyncRequest(s)

Next ==
    \/ \E s \in Sessions : Request(s) \/ Step(s) \/ DeadlockVictim(s) \/ Abort(s)
    \/ \E p \in Plans, c \in Contents \union {NoContent} : DeployFile(p, c)

Spec == Init /\ [][Next]_vars

(* A request the server accepted is carried on: the event loop schedules its  *)
(* coroutine, and PostgreSQL queues the waiters of a lock, so a lock that     *)
(* keeps becoming free is granted (strong fairness).  The deadlock detector   *)
(* is counted on only where a PATCH is part of the cycle of waits: creations  *)
(* and syncs must not need it.  Nobody must make a request, lose a connection *)
(* or deploy a file.                                                          *)
Fairness ==
    \A s \in Sessions :
        /\ SF_vars(Step(s))
        /\ WF_vars(ses[s].kind \in Patches /\ DeadlockVictim(s))

FairSpec == Spec /\ Fairness

-----------------------------------------------------------------------------
(* Properties *)

(* Concurrent creations, syncs, conflicts and rolled-back transactions never     *)
(* leave a hole in, or a duplicate of, a plan's version numbers, although        *)
(* get_next_version is a read that is not protected until the insert.            *)
GapFreeIn(p, R) ==
    Newest(p, R) \in Nat /\ VersionsIn(p, R) = 1 .. Newest(p, R)

VersionsGapFree == \A p \in Plans : GapFreeIn(p, Stored)

(* What makes it inductive: every session sees gap-free versions, uncommitted   *)
(* rows are new and nobody else's, and a number about to be inserted follows a  *)
(* row the session can see.                                                     *)
NumberingInv ==
    /\ VersionsGapFree
    /\ \A s \in Sessions :
         /\ \A p \in Plans : GapFreeIn(p, SeenRows(s))
         /\ DOMAIN new[s] \cap Stored = {}
         /\ \A t \in Sessions \ {s} : DOMAIN new[s] \cap DOMAIN new[t] = {}
         /\ ses[s].stage = "insert" =>
              LET p == ses[s].plan
                  v == ses[s].version
              IN  /\ v >= 1
                  /\ <<p, v>> \notin DOMAIN new[s]
                  /\ v = 1 \/ <<p, v - 1>> \in SeenRows(s)

(* Creations and syncs, however many overlap, never wait for each other in a     *)
(* cycle: no deadlock error ends one of them unless a PATCH is part of it.       *)
Writers == {s \in Sessions : ses[s].kind \notin Patches}

SyncsNeverDeadlock == \A C \in SUBSET Writers : ~Deadlocked(C)

(* What makes NeverLeftInactive hold: a row a session has deactivated is made up *)
(* for by a row of the same plan it has activated, or is about to activate.      *)
Replaces(req) ==
    /\ req.stage = "lock" => \A r \in req.cand : PlanOf(r) = PlanOf(req.target)
    /\ \A r \in req.off :
         \/ \E q \in req.on : PlanOf(q) = PlanOf(r)
         \/ req.stage = "flip" /\ PlanOf(r) = PlanOf(req.target)

ActivationInv == \A s \in Sessions : Replaces(ses[s])

(* A stored version is never lost nor rewritten by a request that computed the   *)
(* same number (create_plan's 201 stays true).                                   *)
StoredImmutable ==
    [][\A r \in Stored : r \in Stored' /\ content'[r] = content[r]]_vars

(* What other sessions see: the documents of each plan, the oldest first, and    *)
(* its active versions.                                                          *)
Documents(p) == [v \in 1 .. Newest(p, Stored) |-> content[<<p, v>>]]

History == INSTANCE PlanHistory
    WITH log <- [p \in Plans |-> Documents(p)],
         current <- [p \in Plans |-> VersionsIn(p, active)]

(* The store implements PlanHistory: whatever requests overlap, conflict, wait   *)
(* or fail, a commit appends one document to the logs of some plans and makes    *)
(* these versions active, or makes one stored version active, and nothing else   *)
(* is ever seen to change (plan_store.py:131-190).                               *)
KeepsHistory == History!HistorySpec

(* Once a plan has an active version no step leaves it without one: readers that *)
(* look for the active plan (ingest, scoring) never find a gap between activate's*)
(* deactivation and activation, whoever crashes or races in between.             *)
NeverLeftInactive ==
    [][\A p \in Plans : ActiveOf(p, active) # {} => ActiveOf(p, active)' # {}]_vars

(* activate's docstring, plan_store.py:171: "Activate a specific plan version    *)
(* and deactivate all others for the same plan."  Races break it.                *)
AtMostOneActive ==
    \A p \in Plans : Cardinality(ActiveOf(p, active)) <= 1

(* An activation that overlaps nothing leaves its version as the only active one *)
(* of the plan, also when an earlier race had left several.                      *)
SoloActivationIsExclusive ==
    [][\A s \in solo : Commit(s) =>
           \A r \in ses[s].on : ActiveOf(PlanOf(r), active') = {r}]_vars

(* PATCH on a plan's active version changes no other plan, whichever version id  *)
(* the body names: the 409 for a foreign version leaves no trace.                *)
PatchStaysInPlan ==
    [][\A s \in Sessions :
           Commit(s) /\ ses[s].kind \in Patches =>
               \A p \in Plans \ {ses[s].plan} :
                   ActiveOf(p, active') = ActiveOf(p, active)]_vars

(* After a sync that overlapped nothing, the newest version of every plan with a *)
(* file says what the file says, also when the file went back to older content.  *)
SyncPublishesDisk ==
    [][\A s \in solo : Commit(s) /\ ses[s].kind = "sync" =>
           \A p \in Plans : disk[p] # NoContent =>
               content'[<<p, Newest(p, DOMAIN content')>>] = disk[p]]_vars

(* Every request ends: creations and syncs never wait for each other in a cycle, *)
(* because a sync takes the plans in the order of their file names, and a cycle  *)
(* of waits that a PATCH is part of is broken by the deadlock detector.          *)
RequestsEnd ==
    \A s \in Sessions : ses[s].stage # "idle" ~> ses[s].stage = "idle"
=============================================================================
