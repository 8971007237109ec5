---------------------------- MODULE LeadPipeline ----------------------------
(***************************************************************************)
(* The prospecting leads: events are matched to leads (match_leads), the   *)
(* leads are analysed (analyze_leads), reported and mailed                 *)
(* (generate_prospecting_report, workers/prospecting.py) and moved through *)
(* their lifecycle by operators (api/routes/leads.py).                     *)
(*                                                                         *)
(* Each of them reads rows into its session, works on that copy (awaiting  *)
(* the LLM, the archive or the operator's request) and writes the columns  *)
(* it assigned when it commits; at READ COMMITTED a later commit waits for *)
(* an earlier one and then overwrites its columns.  Only the order of the  *)
(* timestamps matters: the clock advances when one is taken, and 0 is NULL.*)
(***************************************************************************)
EXTENDS Integers, FiniteSets

CONSTANTS
    Leads,            \* dedupe fingerprints of leads
    Events,           \* enriched events
    LeadOf,           \* the fingerprint match_event_to_lead computes
    Matchers,         \* osint.match_leads tasks
    BatchOf,          \* their event_ids
    Analyzers,        \* osint.analyze_leads executions at a time
    Reporters,        \* osint.generate_prospecting_report tasks at a time
    Operators,        \* open PATCH or bulk-update requests
    MaxMatchRetries,  \* max_retries of match_leads
    MaxDeferrals,     \* _GUARD_MAX_DEFERRALS
    MaxGenRetries,    \* _GENERATION_MAX_RETRIES
    MaxMails,         \* _EMAIL_MAX_RETRIES
    InspectMayFail,   \* celery inspect may get no answer
    CycleBound,       \* bound: reports started by beat
    DecisionBound,    \* bound: operator requests
    CrashBudget       \* bound: messages delivered again

ASSUME EveryEventHasALead == LeadOf \in [Events -> Leads]
ASSUME BatchesAreEvents == BatchOf \in [Matchers -> SUBSET Events]
ASSUME BudgetsAreNat ==
    /\ MaxMatchRetries \in Nat /\ MaxDeferrals \in Nat
    /\ MaxGenRetries \in Nat /\ MaxMails \in Nat \ {0}
ASSUME BoundsAreNat == CycleBound \in Nat /\ DecisionBound \in Nat /\ CrashBudget \in Nat
ASSUME InspectIsBoolean == InspectMayFail \in BOOLEAN

VARIABLES
    lead,       \* committed lead rows
    clock,      \* the last timestamp taken
    match,      \* per matcher: its task and session
    analyses,   \* analyze_leads messages waiting
    analysis,   \* per analyzer: the leads it is working on
    rep,        \* per reporter: its task and session
    reports,    \* committed Report rows
    mails,      \* reports of which a mail was delivered
    op,         \* per operator: the request being served
    cycles, decisions, crashes,  \* what the bounds count
    matched,    \* history: events whose match was committed, per lead
    shown,      \* history: events the committed reports have shown, per lead
    had         \* history: the statuses each lead has had

tasks == <<match, analyses, analysis, rep, op>>
counts == <<cycles, decisions, crashes>>
history == <<matched, shown, had>>
vars == <<lead, clock, tasks, reports, mails, counts, history>>

Statuses == {"new", "reviewing", "qualified", "contacted", "retained", "declined", "stale"}
Terminal == {"retained", "declined"}
Analyses == {"pending", "completed", "not_actionable", "unusable"}

(* _STATUS_TRANSITIONS *)
Transitions(status) ==
    CASE status = "new"       -> {"reviewing", "declined", "stale"}
      [] status = "reviewing" -> {"qualified", "declined", "stale"}
      [] status = "qualified" -> {"contacted", "declined", "stale"}
      [] status = "contacted" -> {"retained", "declined", "stale"}
      [] status = "stale"     -> {"reviewing"}
      [] OTHER                -> {}

NoLead == [status |-> "none", updated |-> 0, reported |-> 0, report |-> 0,
           analysis |-> "pending", events |-> {}]
Exists(l) == lead[l].status # "none"

(* max_retries of the report task *)
MaxRetries == MaxGenRetries + MaxDeferrals

Times == Nat
LeadType ==
    [status : Statuses \union {"none"}, updated : Times, reported : Times,
     report : Nat, analysis : Analyses, events : SUBSET Events]
MatchType ==
    [stage : {"queued", "matching", "dispatch", "done", "failed"}, retries : 0 .. MaxMatchRetries,
     todo : SUBSET Events, creates : SUBSET Leads, stamp : [Leads -> Times],
     got : SUBSET Events, first : SUBSET Events]
RepType ==
    [stage : {"idle", "guard", "select", "render", "recipients", "mail", "failed"},
     retries : 0 .. MaxRetries, deferrals : 0 .. MaxDeferrals, failures : Nat,
     picks : SUBSET Leads, wasNew : SUBSET Leads, seen : [Leads -> SUBSET Events],
     now : Times, report : Nat, tries : 0 .. MaxMails - 1]
OpType == [read : [Leads -> Statuses \union {"none"}], target : Statuses]

NoMatch == [stage |-> "queued", retries |-> 0, todo |-> {}, creates |-> {},
            stamp |-> [l \in Leads |-> 0], got |-> {}, first |-> {}]
NoReport == [stage |-> "idle", retries |-> 0, deferrals |-> 0, failures |-> 0,
             picks |-> {}, wasNew |-> {}, seen |-> [l \in Leads |-> {}], now |-> 0,
             report |-> 0, tries |-> 0]
NoRequest == [read |-> [l \in Leads |-> "none"], target |-> "new"]

TypeOK ==
    /\ lead \in [Leads -> LeadType]
    /\ clock \in Times
    /\ match \in [Matchers -> MatchType]
    /\ analyses \in Nat
    /\ analysis \in [Analyzers -> SUBSET Leads]
    /\ rep \in [Reporters -> RepType]
    /\ reports \in Nat
    /\ mails \subseteq 1 .. reports
    /\ op \in [Operators -> OpType]
    /\ cycles \in Nat /\ decisions \in Nat /\ crashes \in Nat
    /\ matched \in [Leads -> SUBSET Events]
    /\ shown \in [Leads -> SUBSET Events]
    /\ had \in [Leads -> SUBSET Statuses]

Init ==
    /\ lead = [l \in Leads |-> NoLead]
    /\ clock = 0
    /\ match = [m \in Matchers |-> NoMatch]
    /\ analyses = 0
    /\ analysis = [a \in Analyzers |-> {}]
    /\ rep = [r \in Reporters |-> NoReport]
    /\ reports = 0
    /\ mails = {}
    /\ op = [o \in Operators |-> NoRequest]
    /\ cycles = 0 /\ decisions = 0 /\ crashes = 0
    /\ matched = [l \in Leads |-> {}]
    /\ shown = [l \in Leads |-> {}]
    /\ had = [l \in Leads |-> {}]

-----------------------------------------------------------------------------
(* Matching *)

MatcherMoves(m, r) ==
    /\ match' = [match EXCEPT ![m] = r]
    /\ UNCHANGED <<lead, analyses, analysis, rep, reports, mails, op, counts, history>>

MatchStart(m) ==
    /\ match[m].stage = "queued"
    /\ MatcherMoves(m, [NoMatch EXCEPT !.stage = "matching", !.retries = match[m].retries,
                                       !.todo = BatchOf[m]])
    /\ UNCHANGED clock

(* match_event_to_lead: the session sees the lead or creates it; either way *)
(* it stamps last_updated_at now, long before the batch commits.            *)
MatchEvent(m) ==
    /\ match[m].stage = "matching"
    /\ \E e \in match[m].todo :
         LET l == LeadOf[e]
             absent == ~Exists(l) /\ l \notin match[m].creates
         IN  MatcherMoves(m, [match[m] EXCEPT
                 !.todo = @ \ {e}, !.got = @ \union {e}, !.stamp[l] = clock + 1,
                 !.creates = IF absent THEN @ \union {l} ELSE @,
                 !.first = IF absent THEN @ \union {e} ELSE @])
    /\ clock' = clock + 1

(* Irrelevant, below the confidence threshold, or an error that is logged. *)
MatchSkips(m) ==
    /\ match[m].stage = "matching"
    /\ \E e \in match[m].todo : MatcherMoves(m, [match[m] EXCEPT !.todo = @ \ {e}])
    /\ UNCHANGED clock

NoConflicts(m) == FALSE   \* a mutant of Conflicts: no unique index

(* Another batch has created the lead meanwhile: the unique index on          *)
(* dedupe_fingerprint fails the flush, and with it the whole transaction.     *)
Conflicts(m) == \E l \in match[m].creates : Exists(l)

EventsOf(m, l) == {e \in match[m].got : LeadOf[e] = l}

WrittenReopening(m, l) ==
    LET stamped == [lead[l] EXCEPT !.updated = match[m].stamp[l]]
    IN  IF l \in match[m].creates
        THEN [stamped EXCEPT !.status = "new", !.events = EventsOf(m, l) \cap match[m].first]
        ELSE [stamped EXCEPT !.status = "new"]

(* The columns written for lead l.  _update_lead sets event_ids with            *)
(* set_committed_value, which leaves no change to write: only the event that    *)
(* created the lead is in the row.                                              *)
Written(m, l) ==
    LET stamped == [lead[l] EXCEPT !.updated = match[m].stamp[l]]
    IN  IF l \in match[m].creates
        THEN [stamped EXCEPT !.status = "new", !.events = EventsOf(m, l) \cap match[m].first]
        ELSE stamped

Remember == had' = [l \in Leads |-> had[l] \union ({lead'[l].status} \ {"none"})]

MatchCommit(m) ==
    /\ match[m].stage = "matching"
    /\ match[m].todo = {}
    /\ ~Conflicts(m)
    /\ lead' = [l \in Leads |-> IF EventsOf(m, l) = {} THEN lead[l] ELSE Written(m, l)]
    /\ matched' = [l \in Leads |-> matched[l] \union EventsOf(m, l)]
    /\ match' = [match EXCEPT ![m].stage = "dispatch"]
    /\ Remember
    /\ UNCHANGED <<clock, analyses, analysis, rep, reports, mails, op, counts, shown>>

(* The flush or the commit fails: self.retry, up to max_retries. *)
MatchFails(m) ==
    /\ match[m].stage = "matching"
    /\ MatcherMoves(m, IF match[m].retries < MaxMatchRetries
                       THEN [NoMatch EXCEPT !.retries = match[m].retries + 1]
                       ELSE [NoMatch EXCEPT !.stage = "failed"])
    /\ UNCHANGED clock

(* analyze_leads_task.delay(plan_id) *)
MatchDone(m) ==
    /\ match[m].stage = "dispatch"
    /\ match' = [match EXCEPT ![m].stage = "done"]
    /\ analyses' = analyses + 1
    /\ UNCHANGED <<lead, clock, analysis, rep, reports, mails, op, counts, history>>

-----------------------------------------------------------------------------
(* Deep analysis *)

(* The pending leads are read; with deep analysis disabled none is. *)
AnalyzeStart(a) ==
    /\ analysis[a] = {}
    /\ analyses > 0
    /\ analyses' = analyses - 1
    /\ \E picks \in {{}, {l \in Leads : Exists(l) /\ lead[l].analysis = "pending"}} :
         analysis' = [analysis EXCEPT ![a] = picks]
    /\ UNCHANGED <<lead, clock, match, rep, reports, mails, op, counts, history>>

(* One commit for all the leads, after all their LLM calls. *)
AnalyzeCommit(a) ==
    /\ analysis[a] # {}
    /\ \E outcome \in [analysis[a] -> Analyses \ {"pending"}] :
         lead' = [l \in Leads |-> IF l \in analysis[a]
                                  THEN [lead[l] EXCEPT !.analysis = outcome[l]]
                                  ELSE lead[l]]
    /\ analysis' = [analysis EXCEPT ![a] = {}]
    /\ UNCHANGED <<clock, match, analyses, rep, reports, mails, op, counts, history>>

(* The task raises: nothing is written, and it is retried or given up. *)
AnalyzeFails(a) ==
    /\ analysis[a] # {}
    /\ analysis' = [analysis EXCEPT ![a] = {}]
    /\ analyses' \in {analyses, analyses + 1}
    /\ UNCHANGED <<lead, clock, match, rep, reports, mails, op, counts, history>>

-----------------------------------------------------------------------------
(* Reports *)

ReporterMoves(r, next) ==
    /\ rep' = [rep EXCEPT ![r] = next]
    /\ UNCHANGED <<lead, match, analyses, analysis, op, decisions, crashes, matched, had>>

Beat(r) ==
    /\ rep[r].stage \in {"idle", "failed"}
    /\ cycles < CycleBound
    /\ cycles' = cycles + 1
    /\ ReporterMoves(r, [NoReport EXCEPT !.stage = "guard"])
    /\ UNCHANGED <<clock, reports, mails, shown>>

(* _has_pending_match_leads_tasks sees the tasks workers execute, and of those *)
(* in the queue the ones a worker has reserved.                                *)
Active ==
    \/ \E m \in Matchers : match[m].stage \in {"matching", "dispatch"}
    \/ \E a \in Analyzers : analysis[a] # {}
MayBeReserved == analyses > 0 \/ \E m \in Matchers : match[m].stage = "queued"

(* self.retry: past max_retries it raises instead of publishing. *)
Retried(r, next) ==
    IF rep[r].retries < MaxRetries
    THEN [next EXCEPT !.stage = "guard", !.retries = @ + 1]
    ELSE [next EXCEPT !.stage = "failed"]

Defer(r) ==
    /\ rep[r].stage = "guard"
    /\ Active \/ MayBeReserved
    /\ rep[r].deferrals < MaxDeferrals
    /\ ReporterMoves(r, Retried(r, [rep[r] EXCEPT !.deferrals = @ + 1]))
    /\ UNCHANGED <<clock, reports, mails, cycles, shown>>

PassGuard(r) ==
    /\ rep[r].stage = "guard"
    /\ Active => rep[r].deferrals >= MaxDeferrals \/ InspectMayFail
    /\ ReporterMoves(r, [rep[r] EXCEPT !.stage = "select"])
    /\ UNCHANGED <<clock, reports, mails, cycles, shown>>

(* _select_reportable_leads; a comparison with NULL selects nothing. *)
Reportable(l) ==
    \/ lead[l].status = "new"
    \/ /\ lead[l].status = "reviewing"
       /\ lead[l].reported # 0
       /\ lead[l].updated > lead[l].reported

(* Leads that deep analysis found not actionable, or could not read, are     *)
(* left out of the body; a pending one gets the shallow narrative.           *)
Rendered(l) == lead[l].analysis \in {"pending", "completed"}

(* The rows are read, then "now" is taken.  Without a lead to render the task ends. *)
Select(r) ==
    /\ rep[r].stage = "select"
    /\ LET picks == {l \in Leads : Reportable(l) /\ Rendered(l)}
       IN  ReporterMoves(r,
             IF picks = {} THEN NoReport
             ELSE [rep[r] EXCEPT !.stage = "render", !.picks = picks,
                      !.wasNew = {l \in picks : lead[l].status = "new"},
                      !.seen = [l \in Leads |-> IF l \in picks THEN matched[l] ELSE {}],
                      !.now = clock + 1])
    /\ clock' = clock + 1
    /\ UNCHANGED <<reports, mails, cycles, shown>>

Exhausted(r) == rep[r].retries >= MaxGenRetries

(* retries_used >= _GENERATION_MAX_RETRIES *)
GenerationsUsed(r) == rep[r].retries - rep[r].deferrals >= MaxGenRetries

(* An exception: from rendering or archiving, when the session is closed      *)
(* without a commit, or from loading the plan for its recipients, after it.   *)
GenerationFails(r) ==
    /\ rep[r].stage \in {"select", "render", "recipients"}
    /\ LET next == [NoReport EXCEPT !.stage = "failed", !.retries = rep[r].retries,
                                    !.deferrals = rep[r].deferrals,
                                    !.failures = rep[r].failures + 1]
       IN  ReporterMoves(r, IF GenerationsUsed(r) THEN next ELSE Retried(r, next))
    /\ UNCHANGED <<clock, reports, mails, cycles, shown>>

MarkedUnmoved(r, l) ==
    [lead[l] EXCEPT !.reported = rep[r].now, !.report = reports + 1]

(* The session's copy of a lead that was new when it was read is set to      *)
(* reviewing, whatever the row says by now.                                  *)
Marked(r, l) ==
    [lead[l] EXCEPT !.reported = rep[r].now, !.report = reports + 1,
                    !.status = IF l \in rep[r].wasNew THEN "reviewing" ELSE @]

ReportCommit(r) ==
    /\ rep[r].stage = "render"
    /\ lead' = [l \in Leads |-> IF l \in rep[r].picks THEN Marked(r, l) ELSE lead[l]]
    /\ reports' = reports + 1
    /\ shown' = [l \in Leads |-> shown[l] \union rep[r].seen[l]]
    /\ Remember
    /\ rep' = [rep EXCEPT ![r].stage = "recipients", ![r].report = reports + 1]
    /\ UNCHANGED <<clock, match, analyses, analysis, mails, op, counts, matched>>

(* The plan's recipients; without any the task ends. *)
LoadRecipients(r) ==
    /\ rep[r].stage = "recipients"
    /\ \E next \in {[rep[r] EXCEPT !.stage = "mail"], NoReport} : ReporterMoves(r, next)
    /\ UNCHANGED <<clock, reports, mails, cycles, shown>>

EndlessTries(r) == [rep[r] EXCEPT !.tries = (@ + 1) % MaxMails]

OneTryMore(r) ==
    IF rep[r].tries + 1 <= MaxMails THEN [rep[r] EXCEPT !.tries = @ + 1] ELSE NoReport

(* A failed attempt, after which the next one is made or the task completes. *)
NextTry(r) ==
    IF rep[r].tries + 1 < MaxMails THEN [rep[r] EXCEPT !.tries = @ + 1] ELSE NoReport

(* send_report; a timeout may hide a mail that was accepted. *)
Mail(r) ==
    /\ rep[r].stage = "mail"
    /\ \E delivered \in BOOLEAN, answered \in BOOLEAN :
         /\ mails' = IF delivered THEN mails \union {rep[r].report} ELSE mails
         /\ ReporterMoves(r, IF delivered /\ answered THEN NoReport ELSE NextTry(r))
    /\ UNCHANGED <<clock, reports, cycles, shown>>

-----------------------------------------------------------------------------
(* Operators and crashes *)

(* The leads whose status a request is about to change. *)
Held(o) == {l \in Leads : op[o].read[l] # "none"}

(* PATCH, or bulk-update for several leads: the transition is checked against *)
(* the rows read, of which the session keeps its copies.                      *)
Decide(o, asked, target) ==
    /\ Held(o) = {}
    /\ decisions < DecisionBound
    /\ LET picks == {l \in asked : target \in Transitions(lead[l].status)}
       IN  /\ picks # {}
           /\ op' = [op EXCEPT ![o] =
                  [read |-> [l \in Leads |-> IF l \in picks THEN lead[l].status ELSE "none"],
                   target |-> target]]
    /\ decisions' = decisions + 1
    /\ UNCHANGED <<lead, clock, match, analyses, analysis, rep, reports, mails, cycles,
                   crashes, history>>

(* The commit writes the status column of the leads picked, whatever the rows *)
(* say by now.                                                                *)
StoreDecision(o) ==
    /\ Held(o) # {}
    /\ lead' = [l \in Leads |-> IF l \in Held(o)
                                THEN [lead[l] EXCEPT !.status = op[o].target]
                                ELSE lead[l]]
    /\ op' = [op EXCEPT ![o] = NoRequest]
    /\ Remember
    /\ UNCHANGED <<clock, match, analyses, analysis, rep, reports, mails, counts, matched, shown>>

(* The worker dies: the transaction is lost and the message delivered again. *)
MatcherCrash(m) ==
    /\ match[m].stage \in {"matching", "dispatch"}
    /\ crashes < CrashBudget
    /\ crashes' = crashes + 1
    /\ match' = [match EXCEPT ![m] = [NoMatch EXCEPT !.retries = match[m].retries]]
    /\ UNCHANGED <<lead, clock, analyses, analysis, rep, reports, mails, op, cycles,
                   decisions, history>>

ReporterCrash(r) ==
    /\ rep[r].stage \in {"guard", "select", "render", "recipients", "mail"}
    /\ crashes < CrashBudget
    /\ crashes' = crashes + 1
    /\ rep' = [rep EXCEPT ![r] = [NoReport EXCEPT !.stage = "guard",
                                     !.retries = rep[r].retries,
                                     !.deferrals = rep[r].deferrals,
                                     !.failures = rep[r].failures]]
    /\ UNCHANGED <<lead, clock, match, analyses, analysis, reports, mails, op, cycles,
                   decisions, history>>

MatchStep(m) ==
    \/ MatchStart(m) \/ MatchEvent(m) \/ MatchSkips(m) \/ MatchCommit(m)
    \/ MatchFails(m) \/ MatchDone(m)

AnalyzeStep(a) == AnalyzeStart(a) \/ AnalyzeCommit(a) \/ AnalyzeFails(a)

ReportStep(r) ==
    \/ Defer(r) \/ PassGuard(r) \/ Select(r) \/ GenerationFails(r) \/ ReportCommit(r)
    \/ LoadRecipients(r) \/ Mail(r)

Next ==
    \/ \E m \in Matchers : MatchStep(m) \/ MatcherCrash(m)
    \/ \E a \in Analyzers : AnalyzeStep(a)
    \/ \E r \in Reporters : Beat(r) \/ ReportStep(r) \/ ReporterCrash(r)
    \/ \E o \in Operators :
         \/ \E asked \in SUBSET Leads, target \in Statuses : Decide(o, asked, target)
         \/ StoreDecision(o)

Spec == Init /\ [][Next]_vars

(* Workers go on with the task they have; operators, beat and crashes are free. *)
FairSpec ==
    /\ Spec
    /\ \A m \in Matchers : WF_vars(MatchStep(m))
    /\ \A r \in Reporters : WF_vars(ReportStep(r))

-----------------------------------------------------------------------------
(* Properties *)

(* event_ids, whose first entry is the source that deep analysis reads          *)
(* (prospecting.py:240), names the one event with which the lead's batch created *)
(* the row: of two batches that both find no lead one fails as a whole, and no   *)
(* later batch, report, analysis or operator adds, removes or replaces an event. *)
LeadsKeepTheirFirstEvent ==
    [][\A l \in Leads :
           /\ Exists(l) => lead'[l].events = lead[l].events
           /\ ~Exists(l) /\ lead'[l].status # "none" =>
                 \E e \in Events : LeadOf[e] = l /\ lead'[l].events = {e}]_vars

(* A lead comes back in a later report only with evidence no report has shown: *)
(* readers are not sent the same thing twice, although last_updated_at is      *)
(* stamped well before it is committed and reported_at well before the report  *)
(* is.  (One report at a time, and no batch matched twice.)                    *)
ReportsSayNews ==
    [][\A r \in Reporters : ReportCommit(r) =>
           \A l \in rep[r].picks : ~(rep[r].seen[l] \subseteq shown[l])]_vars

(* The report task gives up only after one generation and all its retries have *)
(* failed, however many times the guard deferred it in between: the two share  *)
(* Celery's retry counter.                                                     *)
AllGenerationsTried ==
    \A r \in Reporters : rep[r].stage = "failed" => rep[r].failures = MaxGenRetries + 1

(* A report that beat started ends: deferrals, retries and mail attempts are   *)
(* all bounded.                                                                *)
ReportsEnd ==
    \A r \in Reporters : rep[r].stage # "idle" ~> rep[r].stage \in {"idle", "failed"}

(* A session that is about to write the status of lead l holds a copy of the row *)
(* that another commit has overtaken.                                            *)
Contested(l) ==
    \/ \E o \in Operators : op[o].read[l] \notin {"none", lead[l].status}
    \/ \E r \in Reporters :
          rep[r].stage = "render" /\ l \in rep[r].wasNew /\ lead[l].status # "new"

(* The status of a lead moves along _STATUS_TRANSITIONS for any number of open   *)
(* requests, with matching, analysis and reports under way. Only a session that  *)
(* was overtaken after its read can move it elsewhere (the race of two requests, *)
(* or of a request and a report, at leads.py:414), and even that one only to     *)
(* where the transitions lead from a status that the lead has had.               *)
StatusMovesLegal ==
    [][\A l \in Leads : Exists(l) /\ lead'[l].status # lead[l].status =>
           \/ lead'[l].status \in Transitions(lead[l].status)
           \/ Contested(l) /\ \E seen \in had[l] : lead'[l].status \in Transitions(seen)]_vars

(* docs/superpowers/specs/2026-03-27-cal-prospecting-design.md:86: evidence that *)
(* arrives "after a Lead has been reported" makes it re-enter "the next report   *)
(* cycle": a reported lead under review has been shown with all its evidence, or *)
(* the next report will select it.                                               *)
EvidenceIsReported ==
    \A l \in Leads : lead[l].status = "reviewing" /\ lead[l].reported # 0 =>
        matched[l] \subseteq shown[l] \/ Reportable(l)

-----------------------------------------------------------------------------
(* What documents say and the code does not keep, besides EvidenceIsReported:  *)
(* TLC refutes each of the three on the instances of MCLeadPipeline.           *)

(* docs/api-reference.md:460-461: retained and declined are "(terminal)". *)
TerminalIsTerminal ==
    [][\A l \in Leads : lead[l].status \in Terminal => lead'[l].status = lead[l].status]_vars

(* docs/superpowers/specs/2026-03-27-cal-prospecting-design.md:86: new events  *)
(* are "appended to event_ids" of the existing lead. *)
EventsAttached == \A l \in Leads : matched[l] \subseteq lead[l].events

(* The same document, line 82: reported_at is "When emailed to CAL". *)
ReportedMeansEmailed ==
    \A l \in Leads : lead[l].report # 0 =>
        \/ lead[l].report \in mails
        \/ \E r \in Reporters : rep[r].stage \in {"recipients", "mail"} /\ rep[r].report = lead[l].report
=============================================================================
