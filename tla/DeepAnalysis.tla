------------------------------ MODULE DeepAnalysis -------------------------------
(* osint.analyze_leads (workers/prospecting.py) with the analyzer of one lead             *)
(* (services/deep_analyzer.py and its helpers), and osint.match_leads where it writes the *)
(* same rows. An analysis loads the pending leads, asks a language model about each for   *)
(* minutes and commits once; a matching merges the events of a batch into leads that are  *)
(* there. The queries of both loops flush the lead before, so that its row stays locked   *)
(* until the commit. Texts are kept only as far as the gates tell them apart.             *)
EXTENDS Integers, FiniteSets, Sequences, SequencesExt

CONSTANTS
    AnalysedLeads,
    FromPolicy,          \* leads whose event has a univ_ source or an archived document
    FirstSeverity,       \* FirstSeverity[l]: 0 info .. 4 critical, as the matcher left it
    Sections,            \* flagged_sections of a document
    SectionAnswers,      \* answers about a section: a provision, NoAnswer or Malformed
    CasesOf,             \* CasesOf[s]: the cases of precedent_map for the issue in a section
    MaxCases,            \* matched[:3]
    MaxHops,             \* _MAX_REDIRECTS
    Analyses,            \* messages of osint.analyze_leads for the plan
    Matchings,           \* messages of osint.match_leads for it
    Brings,              \* Brings[m][l]: the highest severity that the events of m have for l
    MaxAnalysisTries,    \* max_retries of both tasks
    MaxFaults            \* bound: crashes and errors of the database

NoAnswer == [section |-> "none", severity |-> 0]
Malformed == [section |-> "malformed", severity |-> 0]   \* JSON of another shape than asked for
Unhashable == 5                                           \* a severity that is a list

ASSUME AnalysisAssumption ==
    /\ IsFiniteSet(AnalysedLeads) /\ IsFiniteSet(Analyses) /\ FromPolicy \subseteq AnalysedLeads
    /\ \A l \in AnalysedLeads : FirstSeverity[l] \in 0 .. 4
    /\ IsFiniteSet(Matchings) /\ Analyses \cap Matchings = {}
    /\ \A m \in Matchings : DOMAIN Brings[m] \subseteq AnalysedLeads
                             /\ \A l \in DOMAIN Brings[m] : Brings[m][l] \in 0 .. 4
    /\ IsFiniteSet(Sections) /\ CasesOf \in [Sections -> Seq(STRING)]
    /\ SectionAnswers \subseteq {NoAnswer, Malformed} \cup [section : Sections, severity : 0 .. Unhashable]
    /\ {MaxCases, MaxHops, MaxAnalysisTries, MaxFaults} \subseteq Nat

VARIABLES
    rows,       \* columns of leads: analysis_status, severity, deep_analysis, citations
    sessions,   \* the executions, each with a session of the database
    stale,      \* history: leads that a commit wrote from a copy that was out of date
    faults      \* crashes and errors of the database so far

analysisVars == <<rows, sessions, stale, faults>>

Sessions == Analyses \cup Matchings

NoAnalysis == [status |-> "none", provisions |-> <<>>]
(* The dict of citations: the sources that matchings added, and what an analysis wrote.   *)
NoCitations == [sources |-> {}, analysed |-> FALSE, list |-> <<>>]
FirstRow(l) == [status |-> "pending", severity |-> FirstSeverity[l], analysis |-> NoAnalysis, citations |-> NoCitations]
Waiting(tries) ==
    [tries |-> tries, stage |-> "queued", todo |-> <<>>, loaded |-> <<>>, work |-> <<>>, held |-> {}]
Ended(tries, stage) == [Waiting(tries) EXCEPT !.stage = stage]

AnalysisInit ==
    /\ rows = [l \in AnalysedLeads |-> FirstRow(l)]
    /\ sessions = [s \in Sessions |-> Waiting(0)]
    /\ stale = {}
    /\ faults = 0

(* ------------------------------------------------------------------------------------- *)
(* One lead                                                                              *)

(* Groq, or vLLM where Groq is not configured or answers 429 or 5xx.                      *)
Completion(groq, vllm) == IF groq \in {"unset", "limited"} THEN vllm ELSE groq
Completions == {Completion(groq, vllm) : groq \in {"unset", "limited", "refused", "json"}, vllm \in {"refused", "json"}}

(* A request: no address of the host may be private, the body stays below a limit.        *)
Addresses == {"public", "private", "unresolved"}
Bodies == {"document", "oversized", "refused"}
Fetched(address, body) == IF address = "public" THEN body ELSE "refused"

(* The page of an .edu or .gov host, without a redirect.                                  *)
Pages == {"refused"} \cup {Fetched(address, body) : address \in Addresses, body \in Bodies}

(* The archived document, else the page.                                                  *)
Retrieved(archived, page) == archived = "document" \/ page = "document"

(* An article: every hop is resolved again.                                               *)
Article(hops, body) ==
    IF Len(hops) <= MaxHops + 1 /\ ToSet(hops) = {"public"} THEN body ELSE "refused"
Articles == {Article(hops, body) : hops \in UNION {[1 .. n -> Addresses] : n \in 1 .. MaxHops + 2},
                                   body \in Bodies \cup {"blank"}}

(* A blank article does not turn to the summary of the event.                             *)
Material(article, summary) == IF article \in {"document", "blank"} THEN article ELSE summary

(* What PyMuPDF garbles is read again by pdfplumber.                                      *)
PdfText(first, second) == IF first = "garbled" /\ second # "garbled" THEN second ELSE first
HtmlTexts == {"blank", "garbled", "foreign", "english"}
Texts == HtmlTexts \cup {PdfText(first, second) : first, second \in HtmlTexts \cup {"unreadable"}}

(* check_content, validate_encoding, detect_language, in this order.                      *)
GateOf == [blank |-> "no_content", garbled |-> "extraction_failed", foreign |-> "non_english"]

Result(kind, status, provisions, cases) ==
    [kind |-> kind, status |-> status, provisions |-> provisions, cases |-> cases]
NoSource == Result("none", "", <<>>, <<>>)
Failed == Result("raised", "", <<>>, <<>>)
TaskError == Result("error", "", <<>>, <<>>)
Gate(status) == Result("gate", status, <<>>, <<>>)
Verdict(provisions, cases) ==
    Result("verdict", IF provisions = <<>> THEN "not_actionable" ELSE "completed", provisions, cases)

(* The first provision about each section. A section without an answer is left out.       *)
FirstOfEach(answers) ==
    FoldLeft(LAMBDA kept, p : IF p = NoAnswer \/ \E i \in 1 .. Len(kept) : kept[i].section = p.section
                              THEN kept ELSE Append(kept, p), <<>>, answers)

(* match_precedent and lookup_precedent: the first cases of the issue, which stay when     *)
(* CourtListener cannot be asked, has another answer or does not know the case.           *)
Matched(section) == SubSeq(CasesOf[section], 1, IF Len(CasesOf[section]) < MaxCases THEN Len(CasesOf[section]) ELSE MaxCases)
Verified(answer, case) == answer = "all" \/ answer = case
Precedent(section, answer) ==
    [i \in 1 .. Len(Matched(section)) |-> <<Matched(section)[i], Verified(answer, Matched(section)[i])>>]
Lookups == {"none", "all"} \cup UNION {ToSet(CasesOf[s]) : s \in Sections}

(* Pass 2: one question for each flagged section. An answer of another shape fails the    *)
(* lead.                                                                                  *)
Provisions(answers, lookup) ==
    LET unique == FirstOfEach(answers)
    IN  IF Malformed \in ToSet(answers) THEN Failed
        ELSE Verdict(unique, [i \in 1 .. Len(unique) |-> Precedent(unique[i].section, lookup)])

FlaggedSections == 0 .. Cardinality(Sections)   \* how many the screening may flag

(* Pass 1: a screening that failed or cannot be parsed counts as no source.               *)
Screened ==
    (IF "refused" \in Completions THEN {NoSource} ELSE {})
    \cup {Failed, Gate("non_english"), Verdict(<<>>, <<>>)}
    \cup UNION {{Provisions(answers, lookup) :
                    answers \in [1 .. flagged -> SectionAnswers], lookup \in Lookups} :
                flagged \in FlaggedSections}

PolicyResults ==
    UNION {IF ~Retrieved(archived, page) THEN {NoSource}
           ELSE IF text = "unreadable" THEN {Failed}
           ELSE IF text \in DOMAIN GateOf THEN {Gate(GateOf[text])}
           ELSE Screened : archived \in {"absent", "missing", "document"}, page \in Pages, text \in Texts}

(* The answer about an incident names no provisions. One that is no object breaks the loop *)
(* of the task.                                                                           *)
IncidentAnswers ==
    {TaskError, Verdict(<<>>, <<>>), [Verdict(<<>>, <<>>) EXCEPT !.status = "completed"]}
    \cup (IF "refused" \in Completions THEN {NoSource} ELSE {})

IncidentResults ==
    UNION {IF Material(article, summary) = "blank" THEN {NoSource} ELSE IncidentAnswers :
              article \in Articles, summary \in {"blank", "document"}}

(* No event, an irrelevant one behind the relevance gate, or the answer of the analyzer.  *)
ResultsFor == [l \in AnalysedLeads |-> {NoSource} \cup (IF l \in FromPolicy THEN PolicyResults ELSE IncidentResults)]

LastSeverity(provisions) == provisions[Len(provisions)].severity   \* a mutant
MaxSeverity(provisions) ==
    CHOOSE s \in 0 .. 4 : /\ \E i \in 1 .. Len(provisions) : provisions[i].severity = s
                          /\ \A i \in 1 .. Len(provisions) : provisions[i].severity <= s

(* build_citations numbers the sections, then the cases.                                  *)
Citations(result) ==
    [i \in 1 .. Len(result.provisions) |-> <<result.provisions[i].section, TRUE>>] \o FlattenSeq(result.cases)

Breaks(result) == result.kind = "error" \/ \E i \in 1 .. Len(result.provisions) :
                                               result.provisions[i].severity = Unhashable

(* What the loop assigns to the lead. The dict of citations replaces the one that is there. *)
Written(row, result) ==
    CASE result.kind = "none" -> [row EXCEPT !.status = "no_source_material"]
      [] result.kind = "raised" -> [row EXCEPT !.status = "failed"]
      [] result.kind = "gate" -> [row EXCEPT !.status = result.status,
                                             !.analysis = [status |-> result.status, provisions |-> <<>>]]
      [] result.kind = "verdict" ->
            [status |-> result.status,
             severity |-> IF result.status = "not_actionable" THEN 0
                          ELSE IF result.provisions = <<>> THEN row.severity ELSE MaxSeverity(result.provisions),
             analysis |-> [status |-> result.status, provisions |-> result.provisions],
             citations |-> [sources |-> {}, analysed |-> TRUE, list |-> Citations(result)]]

(* What an event of a matching m assigns to a lead l that is there: a severity is only    *)
(* raised, a source is added to those of the dict.                                        *)
Merged(row, m, l, sourced) ==
    [row EXCEPT !.severity = IF Brings[m][l] > @ THEN Brings[m][l] ELSE @,
                !.citations.sources = IF sourced THEN @ \cup {m} ELSE @]

(* ------------------------------------------------------------------------------------- *)
(* The tasks                                                                             *)

Sets(s, run) == /\ sessions' = [sessions EXCEPT ![s] = run]
                /\ UNCHANGED <<rows, stale>>

Pending == {l \in AnalysedLeads : rows[l].status = "pending"}

AnalysisStarts(a) ==
    /\ sessions[a].stage = "queued"
    /\ \E order \in SetToSeqs(Pending) :
          Sets(a, [sessions[a] EXCEPT !.stage = IF Pending = {} THEN "done" ELSE "asking", !.todo = order,
                                      !.loaded = [l \in Pending |-> rows[l]]])
    /\ UNCHANGED faults

(* No active plan, or deep_analysis_enabled is off. No event of the batch is there.       *)
Skips(s) ==
    /\ sessions[s].stage = "queued"
    /\ Sets(s, [sessions[s] EXCEPT !.stage = "done"])
    /\ UNCHANGED faults

Retried(run) ==
    IF run.tries < MaxAnalysisTries THEN Waiting(run.tries + 1) ELSE Ended(run.tries, "lost")

Unflushed(s) == DOMAIN sessions[s].work \ sessions[s].held

With(work, l, row) == [m \in DOMAIN work \cup {l} |-> IF m = l THEN row ELSE work[m]]

Analyse(a) ==
    LET run == sessions[a]
        l == Head(run.todo)
    IN  /\ run.stage = "asking" /\ run.todo # <<>> /\ Unflushed(a) = {}
        /\ \E result \in ResultsFor[l] :
              Sets(a, IF Breaks(result) THEN Retried(run)
                      ELSE [run EXCEPT !.todo = Tail(run.todo),
                                       !.work = With(run.work, l, Written(run.loaded[l], result))])
        /\ UNCHANGED faults

(* The events of a batch come in any order.                                               *)
MatchStarts(m) ==
    /\ sessions[m].stage = "queued"
    /\ \E order \in SetToSeqs(DOMAIN Brings[m]) :
          Sets(m, [sessions[m] EXCEPT !.stage = "asking", !.todo = order])
    /\ UNCHANGED faults

(* The lead is looked up and merged into, also one that was analysed before.              *)
MatchEvent(m) ==
    LET run == sessions[m]
        l == Head(run.todo)
    IN  /\ run.stage = "asking" /\ run.todo # <<>> /\ Unflushed(m) = {}
        /\ \E sourced \in BOOLEAN :
              Sets(m, [run EXCEPT !.todo = Tail(run.todo), !.loaded = With(run.loaded, l, rows[l]),
                                  !.work = With(run.work, l, Merged(rows[l], m, l, sourced))])
        /\ UNCHANGED faults

(* An irrelevant event, or one whose own processing raises.                               *)
MatchPasses(m) ==
    /\ sessions[m].stage = "asking" /\ sessions[m].todo # <<>>
    /\ Sets(m, [sessions[m] EXCEPT !.todo = Tail(sessions[m].todo)])
    /\ UNCHANGED faults

(* A query fails: the error is caught, and the COMMIT of the aborted transaction rolls    *)
(* it back.                                                                               *)
MatchBreaks(m) ==
    /\ sessions[m].stage = "asking" /\ faults < MaxFaults
    /\ faults' = faults + 1
    /\ Sets(m, Ended(sessions[m].tries, "done"))

Holds(s, l) == l \in sessions[s].held

(* The UPDATE that the next query or the commit sends waits for the lock on the row.      *)
Flush(s) ==
    /\ sessions[s].stage = "asking"
    /\ \E l \in Unflushed(s) :
          /\ \A t \in Sessions \ {s} : ~Holds(t, l)
          /\ Sets(s, [sessions[s] EXCEPT !.held = @ \cup {l}])
    /\ UNCHANGED faults

(* Two executions that read the leads in different orders: PostgreSQL ends one of them.   *)
Victim(s) ==
    /\ \E t \in Sessions \ {s} : /\ \E l \in Unflushed(s) : Holds(t, l)
                                 /\ \E l \in Unflushed(t) : Holds(s, l)
    /\ Sets(s, Retried(sessions[s]))
    /\ UNCHANGED faults

Fails(s) ==   \* an error of the database
    /\ sessions[s].stage = "asking" /\ faults < MaxFaults
    /\ faults' = faults + 1
    /\ Sets(s, Retried(sessions[s]))

(* An UPDATE sets the columns whose value differs from the one that was loaded.           *)
Updated(row, loaded, work) == [c \in DOMAIN row |-> IF work[c] # loaded[c] THEN work[c] ELSE row[c]]

Commits(s) ==
    LET run == sessions[s] IN
    /\ run.stage = "asking" /\ run.todo = <<>> /\ Unflushed(s) = {}
    /\ rows' = [l \in AnalysedLeads |->
          IF l \in DOMAIN run.work THEN Updated(rows[l], run.loaded[l], run.work[l]) ELSE rows[l]]
    /\ stale' = stale \cup {l \in DOMAIN run.work : rows[l] # run.loaded[l]}
    /\ sessions' = [sessions EXCEPT ![s] = Ended(run.tries, "done")]
    /\ UNCHANGED faults

Crash(s) ==
    /\ sessions[s].stage = "asking" /\ faults < MaxFaults
    /\ faults' = faults + 1
    /\ Sets(s, Waiting(sessions[s].tries))

AnalysisNext ==
    \/ \E a \in Analyses : AnalysisStarts(a) \/ Analyse(a)
    \/ \E m \in Matchings : MatchStarts(m) \/ MatchEvent(m) \/ MatchPasses(m) \/ MatchBreaks(m)
    \/ \E s \in Sessions : Skips(s) \/ Flush(s) \/ Victim(s) \/ Fails(s) \/ Commits(s) \/ Crash(s)

AnalysisSpec == AnalysisInit /\ [][AnalysisNext]_analysisVars

AnalysisTypeOK ==
    /\ \A l \in AnalysedLeads :
          /\ rows[l].status \in {"pending", "completed", "no_source_material", "failed",
                                 "not_actionable", "extraction_failed", "non_english", "no_content"}
          /\ rows[l].severity \in 0 .. 4
          /\ rows[l].citations.sources \subseteq Matchings
    /\ \A s \in Sessions :
          /\ sessions[s].stage \in {"queued", "asking", "done", "lost"}
          /\ sessions[s].tries \in 0 .. MaxAnalysisTries
          /\ sessions[s].held \subseteq DOMAIN sessions[s].work
    /\ stale \subseteq AnalysedLeads
    /\ faults \in 0 .. MaxFaults

Analysed == {"completed", "not_actionable"}
Gated == {"no_content", "extraction_failed", "non_english"}

(* A severity that is s, or what an event raised it to.                                   *)
RaisedFrom(l, s, severity) ==
    \/ severity = s
    \/ severity > s /\ \E m \in Matchings : l \in DOMAIN Brings[m] /\ severity = Brings[m][l]

(* The columns of one row tell one story.                                                 *)
OneStory(l, row) ==
    LET sections == {row.analysis.provisions[i].section : i \in 1 .. Len(row.analysis.provisions)}
        severities == {row.analysis.provisions[i].severity : i \in 1 .. Len(row.analysis.provisions)}
    IN  /\ row.citations.analysed = (row.status \in Analysed)
        /\ sections = {} => row.citations.list = <<>>
        /\ \A s \in sections : \E i \in 1 .. Len(row.citations.list) : row.citations.list[i][1] = s
        /\ \E base \in IF row.status = "not_actionable" THEN {0}
                       ELSE IF severities = {} THEN {FirstSeverity[l]} ELSE severities :
              (\A s \in severities : s <= base) /\ RaisedFrom(l, base, row.severity)
        /\ row.status = "not_actionable" => sections = {}
        /\ row.status \notin Analysed => sections = {}

(* Analyses and matchings load, ask, wait for each other's rows, fail, crash and run      *)
(* again in any order. A lead with a verdict, or one that a gate stopped, has the         *)
(* analysis that says so, also when a later commit wrote over an earlier one. And a lead  *)
(* that no commit wrote from an outdated copy tells one story: its provisions are cited,  *)
(* its severity is the highest of them, 0 where it is not actionable and what the matcher *)
(* gave it without a verdict, unless an event raised it.                                  *)
VerdictsStand ==
    \A l \in AnalysedLeads :
        /\ rows[l].status \in Analysed \cup Gated => rows[l].analysis.status = rows[l].status
        /\ l \notin stale => OneStory(l, rows[l])

(* Refuted, without the condition: of two executions that loaded one lead, the second     *)
(* commits only the columns that it changed itself, on top of the first.                  *)
StoriesAgree == \A l \in AnalysedLeads : OneStory(l, rows[l])
===================================================================================
