------------------------------- MODULE EventAlerts -------------------------------
(* Scoring and alerts (workers/score.py, services/scoring.py, services/alert_rules.py,   *)
(* api/routes/alerts.py). A score task stores the severity of its event, looks for an    *)
(* open alert with the fingerprint of event and severity, opens or repeats it, and       *)
(* publishes its notice. Operators move alerts along their statuses. All of them read    *)
(* first and write later. Severities are numbers, 0 for info to 4 for critical.          *)
EXTENDS Notifications, SequencesExt

CONSTANTS
    ScoredEvents,    \* numbers: their order is the order of the ids
    Readings,        \* what an execution may find: the event's facts and the active plan
    Operators,
    BatchSize,       \* _RESCORE_BATCH_SIZE
    MaxScoreTries,   \* max_retries of score_event
    MaxTasks,        \* bound: score messages, MaxCrashes: workers that die
    MaxCrashes,
    MaxTriages,      \* bound: requests of operators, MaxRescores: rescore tasks
    MaxRescores

Statuses == {"open", "acked", "escalated", "resolved"}
Severities == 0..4

ASSUME AlertAssumption ==
    /\ ScoredEvents \subseteq Nat \ {0}
    /\ DOMAIN Readings \subseteq Nat \ {0}
    /\ \A i \in DOMAIN Readings :
          Readings[i].promotions \in Seq([when : SUBSET Severities, to : Int])
    /\ BatchSize \in Nat \ {0}
    /\ {MaxScoreTries, MaxTasks, MaxCrashes, MaxTriages, MaxRescores} \subseteq Nat

VARIABLES
    known,       \* events stored so far
    tasks,       \* score messages in the order of their publication
    severityOf,  \* events.severity
    alerts,      \* rows of alerts in the order of their insertion
    rescore,     \* the rescore task and its cursor
    triage,      \* requests of operators between their read and their write
    calm,        \* history: events with no overlapping score tasks and no reopened alert
    budget       \* crashes, triages and rescores left

alertVars == <<known, tasks, severityOf, alerts, rescore, triage, calm, budget>>

Unscored == -1

AlertInit ==
    /\ known = {}
    /\ tasks = <<>>
    /\ severityOf = [e \in ScoredEvents |-> Unscored]
    /\ alerts = <<>>
    /\ rescore = [running |-> FALSE, last |-> 0]
    /\ triage = [o \in Operators |-> [ids |-> {}, to |-> "open"]]
    /\ calm = ScoredEvents
    /\ budget = [crashes |-> MaxCrashes, triages |-> MaxTriages, rescores |-> MaxRescores]

(* ------------------------------------------------------------------------------------- *)
(* Severity and rules. A reading is a record of hundredths: keywords (matched, total), the*)
(* LLM's relevance, where the event lies, the trust in its source, its corroborations and *)
(* its recency, and the plan's promotions and rules.                                      *)

KeywordRelevance(r) ==
    CASE r.relevance = "relevant"   -> 100
      [] r.relevance = "tangential" -> 40
      [] r.relevance = "irrelevant" -> 5
      [] OTHER -> IF r.total = 0 THEN 100 ELSE IF r.matched = 0 THEN r.penalty
                  ELSE (100 * r.matched) \div r.total

(* near, close: within one or two radii of the target. home, abroad: by country.          *)
GeographicRelevance(r) ==
    CASE r.place \in {"untargeted", "near", "home"} -> 100
      [] r.place \in {"close", "unknown"}           -> 70
      [] r.place = "farHome"                        -> 50
      [] OTHER                                      -> 20

LeastOf(a, b) == IF a <= b THEN a ELSE b
LargestOf(a, b) == IF a >= b THEN a ELSE b

Score(r) ==
    LET relevance == (KeywordRelevance(r) * GeographicRelevance(r) * r.trust) \div 10000
        bonus     == LeastOf(150, 100 + 20 * r.corroborations)
        recency   == LargestOf(10, r.recency)
    IN LeastOf(100, (relevance * bonus * recency) \div 10000)

SeverityOfScore(s) == IF s >= 75 THEN 3 ELSE IF s >= 50 THEN 2 ELSE IF s >= 20 THEN 1 ELSE 0

(* A promotion applies when its condition holds and its target is a known severity not    *)
(* below the best so far.                                                                 *)
AtLeast(a, b) == a \in Severities /\ b \in Severities /\ a >= b
LastPromotion(r) ==     \* a mutant of Promoted
    LET base == SeverityOfScore(Score(r)) IN
    FoldLeft(LAMBDA best, p : IF base \in p.when THEN p.to ELSE best, base, r.promotions)
KnownPromotion(r) ==    \* another: the last known target wins
    LET base == SeverityOfScore(Score(r)) IN
    FoldLeft(LAMBDA best, p : IF base \in p.when /\ p.to \in Severities THEN p.to ELSE best,
             base, r.promotions)
Promoted(r) ==
    LET base == SeverityOfScore(Score(r)) IN
    FoldLeft(LAMBDA best, p : IF base \in p.when /\ AtLeast(p.to, best) THEN p.to ELSE best,
             base, r.promotions)

Matches(r, severity) == \E i \in DOMAIN r.rules : severity \in r.rules[i]

(* ------------------------------------------------------------------------------------- *)
(* Messages                                                                              *)

Task(e) == [event |-> e, stage |-> "queued", severity |-> 0, rule |-> FALSE,
            found |-> {}, count |-> 0, alert |-> 0, tries |-> 0, reading |-> 0]

Publish(es) == tasks' = tasks \o [i \in DOMAIN es |-> Task(es[i])]

(* The enrichment chain of a new event ends with its first score message.                 *)
EventStored(e) ==
    /\ e \notin known /\ Len(tasks) < MaxTasks
    /\ known' = known \cup {e}
    /\ Publish(<<e>>)
    /\ UNCHANGED <<severityOf, alerts, rescore, triage, calm, budget, notices>>

RescoreStarts ==
    /\ ~rescore.running /\ budget.rescores > 0
    /\ rescore' = [running |-> TRUE, last |-> 0]
    /\ budget' = [budget EXCEPT !.rescores = @ - 1]
    /\ UNCHANGED <<known, tasks, severityOf, alerts, triage, calm, notices>>

(* The ids after the cursor, in order, at most a batch: the smaller ones of each are      *)
(* those that stand before it. There is one such page.                                    *)
Pages(last) ==
    LET after == {e \in known : e > last}
        size  == LeastOf(BatchSize, Cardinality(after)) IN
    {page \in [1 .. size -> after] :
        \A i \in 1 .. size, e \in after : e < page[i] <=> \E j \in 1 .. i - 1 : page[j] = e}

(* One batch in one session: its events get a message each. A short batch is the last.    *)
RescoreBatch ==
    /\ rescore.running
    /\ \E page \in Pages(rescore.last) :
          /\ Publish(page)
          /\ rescore' = IF Len(page) < BatchSize THEN [rescore EXCEPT !.running = FALSE]
                        ELSE [rescore EXCEPT !.last = page[Len(page)]]
    /\ UNCHANGED <<known, severityOf, alerts, triage, calm, budget, notices>>

(* ------------------------------------------------------------------------------------- *)
(* score_event                                                                           *)

(* Between its look-up and its write a task acts on what it found.                        *)
Firing(e) == {x \in DOMAIN tasks : tasks[x].event = e /\ tasks[x].stage = "firing"}

(* The severity is computed from what the execution finds, and committed.                 *)
ScoreEvent(x) ==
    LET e == tasks[x].event IN
    /\ tasks[x].stage = "queued"
    /\ \E i \in DOMAIN Readings :
         LET s == Promoted(Readings[i]) IN
         /\ severityOf' = [severityOf EXCEPT ![e] = s]
         /\ tasks' = [tasks EXCEPT ![x].severity = s, ![x].reading = i,
                        ![x].stage = IF Matches(Readings[i], s) THEN "matched" ELSE "done",
                        ![x].rule = Matches(Readings[i], s)]
    /\ UNCHANGED <<known, alerts, rescore, triage, calm, budget, notices>>

OpenAlerts(e, s) ==
    {a \in DOMAIN alerts : alerts[a].event = e /\ alerts[a].severity = s /\ alerts[a].status = "open"}

(* A mutant of Found: the fingerprint uses the severity that the event had before.        *)
FoundByEvent(x) == OpenAlerts(tasks[x].event, Unscored)
Found(x) == OpenAlerts(tasks[x].event, tasks[x].severity)

(* _create_alert looks for an open alert with the same fingerprint. Two of them raise.    *)
LookUp(x) ==
    LET e     == tasks[x].event
        found == Found(x) IN
    /\ tasks[x].stage = "matched" /\ Cardinality(found) <= 1
    /\ tasks' = [tasks EXCEPT ![x].stage = "firing", ![x].found = found,
                   ![x].count = IF found = {} THEN 0 ELSE alerts[CHOOSE a \in found : TRUE].occurrences]
    /\ calm' = IF Firing(e) # {} THEN calm \ {e} ELSE calm
    /\ UNCHANGED <<known, severityOf, alerts, rescore, triage, budget, notices>>

(* The session ends, and with it the row it read.                                         *)
Forget(x) == [tasks EXCEPT ![x].found = {}, ![x].count = 0]

(* The open alert gets the count that was read, plus one.                                 *)
Repeat(x) ==
    LET a == CHOOSE b \in tasks[x].found : TRUE IN
    /\ tasks[x].stage = "firing" /\ tasks[x].found # {}
    /\ alerts' = [alerts EXCEPT ![a].occurrences = tasks[x].count + 1]
    /\ tasks' = [Forget(x) EXCEPT ![x].stage = "fired", ![x].alert = a]
    /\ UNCHANGED <<known, severityOf, rescore, triage, calm, budget, notices>>

Open(x) ==
    /\ tasks[x].stage = "firing" /\ tasks[x].found = {}
    /\ alerts' = Append(alerts, [event |-> tasks[x].event, severity |-> tasks[x].severity,
                                 status |-> "open", occurrences |-> 1])
    /\ tasks' = [Forget(x) EXCEPT ![x].stage = "fired", ![x].alert = Len(alerts) + 1]
    /\ UNCHANGED <<known, severityOf, rescore, triage, calm, budget, notices>>

(* A mutant of NotifyAlert: a broker that does not answer is only logged.                 *)
NotifyOrForget(x) ==
    /\ tasks[x].stage = "fired"
    /\ Announce(tasks[x].alert, "rules", TRUE, EnvChannels) \/ UNCHANGED notices
    /\ tasks' = [tasks EXCEPT ![x].stage = "done"]
    /\ UNCHANGED <<known, severityOf, alerts, rescore, triage, calm, budget>>

(* The notice carries the list of matched rules where the task expects the event's data.  *)
NotifyAlert(x) ==
    /\ tasks[x].stage = "fired"
    /\ Announce(tasks[x].alert, "rules", TRUE, EnvChannels)
    /\ tasks' = [tasks EXCEPT ![x].stage = "done"]
    /\ UNCHANGED <<known, severityOf, alerts, rescore, triage, calm, budget>>

(* Any exception retries the whole task, the look-up that finds two open alerts too.      *)
ScoreFails(x) ==
    /\ tasks[x].stage \in {"matched", "firing", "fired"}
    /\ IF tasks[x].tries < MaxScoreTries
       THEN tasks' = [Forget(x) EXCEPT ![x].tries = @ + 1, ![x].stage = "queued"]
       ELSE tasks' = [Forget(x) EXCEPT ![x].stage = "failed"]
    /\ UNCHANGED <<known, severityOf, alerts, rescore, triage, calm, budget, notices>>

ScoreCrash(x) ==
    /\ tasks[x].stage \in {"matched", "firing", "fired"} /\ budget.crashes > 0
    /\ tasks' = [Forget(x) EXCEPT ![x].stage = "queued"]
    /\ budget' = [budget EXCEPT !.crashes = @ - 1]
    /\ UNCHANGED <<known, severityOf, alerts, rescore, triage, calm, notices>>

(* ------------------------------------------------------------------------------------- *)
(* Operators: PATCH of one alert, and the bulk update                                    *)

Allowed(from, to) == from # to /\ ~(from = "open" /\ to = "resolved")

(* The rows are read and each transition is judged. An alert that may not move is skipped,*)
(* or refused with 409. A dry run and a request with nothing to change end here.          *)
TriageRead(o, ids, to, dry) ==
    LET moving == {a \in ids : Allowed(alerts[a].status, to)} IN
    /\ triage[o].ids = {} /\ budget.triages > 0
    /\ triage' = [triage EXCEPT ![o] = [ids |-> IF dry THEN {} ELSE moving, to |-> to]]
    /\ budget' = [budget EXCEPT !.triages = @ - 1]
    /\ UNCHANGED <<known, tasks, severityOf, alerts, rescore, calm, notices>>

TriageWrite(o) ==
    LET t == triage[o] IN
    /\ t.ids # {}
    /\ alerts' = [a \in DOMAIN alerts |->
          IF a \in t.ids THEN [alerts[a] EXCEPT !.status = t.to] ELSE alerts[a]]
    /\ triage' = [triage EXCEPT ![o].ids = {}]
    /\ calm' = IF t.to = "open" THEN calm \ {alerts[a].event : a \in t.ids} ELSE calm
    /\ UNCHANGED <<known, tasks, severityOf, rescore, budget, notices>>

AlertNext ==
    \/ \E e \in ScoredEvents : EventStored(e)
    \/ RescoreStarts \/ RescoreBatch
    \/ \E x \in DOMAIN tasks :
          \/ ScoreEvent(x) \/ LookUp(x) \/ Repeat(x) \/ Open(x) \/ NotifyAlert(x)
          \/ ScoreFails(x) \/ ScoreCrash(x)
    \/ \E o \in Operators :
          \/ \E ids \in SUBSET DOMAIN alerts, to \in Statuses, dry \in BOOLEAN :
                ids # {} /\ TriageRead(o, ids, to, dry)
          \/ TriageWrite(o)

(* The notices that score tasks publish are sent by the task of Notifications.            *)
AlertSpec ==
    /\ NoticeInit /\ AlertInit
    /\ [][AlertNext \/ (NoticeNext /\ UNCHANGED alertVars)]_<<notices, alertVars>>

ScoreTasks ==
    [event : ScoredEvents, stage : {"queued", "matched", "firing", "fired", "done", "failed"},
     severity : Severities, rule : BOOLEAN, found : SUBSET Nat, count : Nat, alert : Nat,
     tries : Nat, reading : DOMAIN Readings \cup {0}]
AlertRows == [event : ScoredEvents, severity : Severities, status : Statuses, occurrences : Nat]

AlertTypeOK ==
    /\ known \subseteq ScoredEvents
    /\ severityOf \in [ScoredEvents -> Severities \cup {Unscored}]
    /\ tasks \in Seq(ScoreTasks)
    /\ \A x \in DOMAIN tasks : tasks[x].event \in known /\ tasks[x].found \subseteq DOMAIN alerts
    /\ alerts \in Seq(AlertRows)
    /\ \A a \in DOMAIN alerts : alerts[a].event \in known
    /\ rescore \in [running : BOOLEAN, last : Nat]
    /\ triage \in [Operators -> [ids : SUBSET DOMAIN alerts, to : Statuses]]
    /\ calm \subseteq ScoredEvents
    /\ budget \in [crashes : Nat, triages : Nat, rescores : Nat]

(* Without overlapping score tasks of an event, and without an operator reopening an alert*)
(* of it, there is at most one open alert per fingerprint, through every retry, crash     *)
(* and rescore (score.py:335-345).                                                        *)
CalmEventsHaveOneAlert ==
    \A e \in calm, s \in Severities : Cardinality(OpenAlerts(e, s)) <= 1

(* A score task that ends well and matched a rule leaves an alert of its event at its     *)
(* severity, and that alert's notice was published (score.py:219-237).                    *)
MatchedMeansAlerted ==
    \A x \in DOMAIN tasks : tasks[x].stage = "done" /\ tasks[x].rule =>
        /\ \E a \in DOMAIN alerts : a = tasks[x].alert
              /\ alerts[a].event = tasks[x].event /\ alerts[a].severity = tasks[x].severity
        /\ \E n \in DOMAIN notices : notices[n].about = tasks[x].alert

(* A promotion never lowers a severity, and the severity stored is the highest one that   *)
(* any promotion whose condition holds allows (score.py:246-260).                         *)
HighestPromotionWins ==
    \A x \in DOMAIN tasks : tasks[x].reading # 0 =>
        LET r    == Readings[tasks[x].reading]
            base == SeverityOfScore(Score(r))
            all  == {base} \cup {r.promotions[i].to : i \in
                       {j \in DOMAIN r.promotions : base \in r.promotions[j].when}} IN
        tasks[x].severity \in all /\ \A s \in all \cap Severities : s <= tasks[x].severity

(* NOT properties of this code (see README). *)
OneOpenAlert == \A e \in ScoredEvents, s \in Severities : Cardinality(OpenAlerts(e, s)) <= 1
OccurrencesNeverFall ==
    [][\A a \in DOMAIN alerts : alerts[a].occurrences <= alerts'[a].occurrences]_alertVars
==================================================================================
