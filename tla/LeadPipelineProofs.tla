------------------------- MODULE LeadPipelineProofs -------------------------
(***************************************************************************)
(* Proofs about LeadPipeline, for every set of leads, batches, executions  *)
(* and operators and every limit of retries, deferrals and mails.          *)
(***************************************************************************)
EXTENDS LeadPipeline, TLAPS

(* The counters that Celery's one retry counter stands for, and the report a *)
(* task mails.                                                               *)
Explained(p, n) ==
    /\ p.stage # "failed" => p.retries = p.deferrals + p.failures /\ p.failures <= MaxGenRetries
    /\ p.stage = "failed" => p.failures = MaxGenRetries + 1
    /\ p.stage \in {"recipients", "mail"} => p.report \in 1 .. n
RetriesAreExplained == \A r \in Reporters : Explained(rep[r], reports)

(* A batch opens each lead that it found absent with one event of that lead. *)
FirstOf(b, l) == {e \in b.got : LeadOf[e] = l} \cap b.first
Opens(b) ==
    /\ b.first \subseteq b.got
    /\ \A e \in b.first : LeadOf[e] \in b.creates
    /\ \A l \in b.creates : \E e \in Events : LeadOf[e] = l /\ FirstOf(b, l) = {e}
BatchesOpenLeads == \A m \in Matchers : Opens(match[m])

LeadInv == TypeOK /\ RetriesAreExplained /\ BatchesOpenLeads

-----------------------------------------------------------------------------
(* The records of leads, batches and reports *)

MatchStages == {"queued", "matching", "dispatch", "done", "failed"}
RepStages == {"idle", "guard", "select", "render", "recipients", "mail", "failed"}

LEMMA LeadEdit ==
    ASSUME NEW d \in LeadType
    PROVE  /\ \A s \in Statuses : [d EXCEPT !.status = s] \in LeadType
           /\ \A t \in Times : [d EXCEPT !.updated = t] \in LeadType
           /\ \A t \in Times : [d EXCEPT !.reported = t] \in LeadType
           /\ \A n \in Nat : [d EXCEPT !.report = n] \in LeadType
           /\ \A a \in Analyses : [d EXCEPT !.analysis = a] \in LeadType
           /\ \A E \in SUBSET Events : [d EXCEPT !.events = E] \in LeadType
  <1>1. \A s \in Statuses : [d EXCEPT !.status = s] \in LeadType
    BY DEF LeadType
  <1>2. \A t \in Times : [d EXCEPT !.updated = t] \in LeadType
    BY DEF LeadType
  <1>3. \A t \in Times : [d EXCEPT !.reported = t] \in LeadType
    BY DEF LeadType
  <1>4. \A n \in Nat : [d EXCEPT !.report = n] \in LeadType
    BY DEF LeadType
  <1>5. \A a \in Analyses : [d EXCEPT !.analysis = a] \in LeadType
    BY DEF LeadType
  <1>6. \A E \in SUBSET Events : [d EXCEPT !.events = E] \in LeadType
    BY DEF LeadType
  <1> QED
    BY <1>1, <1>2, <1>3, <1>4, <1>5, <1>6

LEMMA MatchEdit ==
    ASSUME NEW b \in MatchType
    PROVE  /\ \A s \in MatchStages : [b EXCEPT !.stage = s] \in MatchType
           /\ \A n \in 0 .. MaxMatchRetries : [b EXCEPT !.retries = n] \in MatchType
           /\ \A E \in SUBSET Events : [b EXCEPT !.todo = E] \in MatchType
           /\ \A E \in SUBSET Events : [b EXCEPT !.got = E] \in MatchType
           /\ \A E \in SUBSET Events : [b EXCEPT !.first = E] \in MatchType
           /\ \A L \in SUBSET Leads : [b EXCEPT !.creates = L] \in MatchType
           /\ \A l \in Leads, t \in Times : [b EXCEPT !.stamp[l] = t] \in MatchType
  <1>1. \A s \in MatchStages : [b EXCEPT !.stage = s] \in MatchType
    BY DEF MatchType, MatchStages
  <1>2. \A n \in 0 .. MaxMatchRetries : [b EXCEPT !.retries = n] \in MatchType
    BY DEF MatchType
  <1>3. \A E \in SUBSET Events : [b EXCEPT !.todo = E] \in MatchType
    BY DEF MatchType
  <1>4. \A E \in SUBSET Events : [b EXCEPT !.got = E] \in MatchType
    BY DEF MatchType
  <1>5. \A E \in SUBSET Events : [b EXCEPT !.first = E] \in MatchType
    BY DEF MatchType
  <1>6. \A L \in SUBSET Leads : [b EXCEPT !.creates = L] \in MatchType
    BY DEF MatchType
  <1>7. \A l \in Leads, t \in Times : [b EXCEPT !.stamp[l] = t] \in MatchType
    BY DEF MatchType
  <1> QED
    BY <1>1, <1>2, <1>3, <1>4, <1>5, <1>6, <1>7

LEMMA ReportEdit ==
    ASSUME NEW p \in RepType
    PROVE  /\ \A s \in RepStages : [p EXCEPT !.stage = s] \in RepType
           /\ \A n \in 0 .. MaxRetries : [p EXCEPT !.retries = n] \in RepType
           /\ \A n \in 0 .. MaxDeferrals : [p EXCEPT !.deferrals = n] \in RepType
           /\ \A n \in Nat : [p EXCEPT !.failures = n] \in RepType
           /\ \A L \in SUBSET Leads : [p EXCEPT !.picks = L] \in RepType
           /\ \A L \in SUBSET Leads : [p EXCEPT !.wasNew = L] \in RepType
           /\ \A f \in [Leads -> SUBSET Events] : [p EXCEPT !.seen = f] \in RepType
           /\ \A t \in Times : [p EXCEPT !.now = t] \in RepType
           /\ \A n \in Nat : [p EXCEPT !.report = n] \in RepType
           /\ \A n \in 0 .. MaxMails - 1 : [p EXCEPT !.tries = n] \in RepType
  <1>1. \A s \in RepStages : [p EXCEPT !.stage = s] \in RepType
    BY DEF RepType, RepStages
  <1>2. \A n \in 0 .. MaxRetries : [p EXCEPT !.retries = n] \in RepType
    BY DEF RepType
  <1>3. \A n \in 0 .. MaxDeferrals : [p EXCEPT !.deferrals = n] \in RepType
    BY DEF RepType
  <1>4. \A n \in Nat : [p EXCEPT !.failures = n] \in RepType
    BY DEF RepType
  <1>5. \A L \in SUBSET Leads : [p EXCEPT !.picks = L] \in RepType
    BY DEF RepType
  <1>6. \A L \in SUBSET Leads : [p EXCEPT !.wasNew = L] \in RepType
    BY DEF RepType
  <1>7. \A f \in [Leads -> SUBSET Events] : [p EXCEPT !.seen = f] \in RepType
    BY DEF RepType
  <1>8. \A t \in Times : [p EXCEPT !.now = t] \in RepType
    BY DEF RepType
  <1>9. \A n \in Nat : [p EXCEPT !.report = n] \in RepType
    BY DEF RepType
  <1>10. \A n \in 0 .. MaxMails - 1 : [p EXCEPT !.tries = n] \in RepType
    BY DEF RepType
  <1> QED
    BY <1>1, <1>2, <1>3, <1>4, <1>5, <1>6, <1>7, <1>8, <1>9, <1>10

(* What is read of a record is of the type its field declares. *)
LEMMA LeadFields ==
    ASSUME NEW d \in LeadType
    PROVE  /\ d.status \in Statuses \union {"none"} /\ d.updated \in Nat /\ d.reported \in Nat
           /\ d.report \in Nat /\ d.analysis \in Analyses /\ d.events \in SUBSET Events
  BY DEF LeadType, Times

LEMMA MatchFields ==
    ASSUME NEW b \in MatchType
    PROVE  /\ b.stage \in MatchStages /\ b.retries \in 0 .. MaxMatchRetries
           /\ b.todo \in SUBSET Events /\ b.got \in SUBSET Events /\ b.first \in SUBSET Events
           /\ b.creates \in SUBSET Leads /\ b.stamp \in [Leads -> Nat]
  BY DEF MatchType, MatchStages, Times

LEMMA ReportFields ==
    ASSUME NEW p \in RepType
    PROVE  /\ p.stage \in RepStages /\ p.retries \in 0 .. MaxRetries
           /\ p.deferrals \in 0 .. MaxDeferrals /\ p.failures \in Nat
           /\ p.picks \in SUBSET Leads /\ p.wasNew \in SUBSET Leads
           /\ p.seen \in [Leads -> SUBSET Events] /\ p.now \in Nat
           /\ p.report \in Nat /\ p.tries \in 0 .. MaxMails - 1
  BY DEF RepType, RepStages, Times

LEMMA NoRecordsType ==
    /\ NoLead \in LeadType
    /\ NoMatch \in MatchType
    /\ NoReport \in RepType
    /\ NoRequest \in OpType
  <1>1. NoLead \in LeadType
    BY DEF NoLead, LeadType, Times, Analyses
  <1>2. NoMatch \in MatchType
    BY BudgetsAreNat DEF NoMatch, MatchType, Times
  <1>3. NoReport \in RepType
    BY BudgetsAreNat DEF NoReport, RepType, Times, MaxRetries
  <1>4. NoRequest \in OpType
    BY DEF NoRequest, OpType, Statuses
  <1> QED
    BY <1>1, <1>2, <1>3, <1>4

LEMMA BudgetFacts ==
    /\ MaxRetries \in Nat /\ MaxRetries = MaxGenRetries + MaxDeferrals
    /\ MaxGenRetries \in Nat /\ MaxDeferrals \in Nat /\ MaxMatchRetries \in Nat
    /\ MaxMails \in Nat /\ MaxMails > 0
  BY BudgetsAreNat DEF MaxRetries

-----------------------------------------------------------------------------
(* The invariant holds initially and every step keeps it *)

LEMMA EmptyOpens ==
    ASSUME NEW b, b.first = {}, b.creates = {}
    PROVE  Opens(b)
  BY DEF Opens

LEMMA SameOpens ==
    ASSUME NEW b, Opens(b), NEW d,
           d.got = b.got, d.first = b.first, d.creates = b.creates
    PROVE  Opens(d)
  BY DEF Opens, FirstOf

(* One more event of a batch: an absent lead is opened with it, and the others *)
(* keep the event that opened them.                                            *)
LEMMA EventOpens ==
    ASSUME NEW b, Opens(b), NEW e \in Events, NEW d, d.got = b.got \union {e},
           \/ d.creates = b.creates /\ d.first = b.first
           \/ /\ LeadOf[e] \notin b.creates
              /\ d.creates = b.creates \union {LeadOf[e]} /\ d.first = b.first \union {e}
    PROVE  Opens(d)
  <1>1. /\ b.first \subseteq b.got
        /\ \A f \in b.first : LeadOf[f] \in b.creates
        /\ \A l \in b.creates : \E f \in Events : LeadOf[f] = l /\ FirstOf(b, l) = {f}
    BY DEF Opens
  <1>2. d.first \subseteq d.got /\ \A f \in d.first : LeadOf[f] \in d.creates
    BY <1>1
  <1>3. \A l : (d.first = b.first \/ l # LeadOf[e]) => FirstOf(d, l) = FirstOf(b, l)
    BY <1>1 DEF FirstOf
  <1>4. LeadOf[e] \notin b.creates /\ d.first = b.first \union {e} => FirstOf(d, LeadOf[e]) = {e}
    BY <1>1 DEF FirstOf
  <1>5. ASSUME NEW l \in d.creates
        PROVE  \E f \in Events : LeadOf[f] = l /\ FirstOf(d, l) = {f}
    <2>1. CASE d.creates = b.creates /\ d.first = b.first
      BY <1>1, <1>3, <1>5, <2>1
    <2>2. CASE LeadOf[e] \notin b.creates /\ d.creates = b.creates \union {LeadOf[e]}
                 /\ d.first = b.first \union {e}
      <3>1. CASE l = LeadOf[e]
        BY <1>4, <2>2, <3>1
      <3>2. CASE l # LeadOf[e]
        BY <1>1, <1>3, <1>5, <2>2, <3>2
      <3> QED
        BY <3>1, <3>2
    <2> QED
      BY <2>1, <2>2
  <1> QED
    BY <1>2, <1>5 DEF Opens

LEMMA InitInv == Init => LeadInv
  <1> SUFFICES ASSUME Init PROVE LeadInv
    OBVIOUS
  <1>1. TypeOK
    BY NoRecordsType DEF Init, TypeOK, Times
  <1>2. RetriesAreExplained
    BY BudgetFacts DEF Init, RetriesAreExplained, Explained, NoReport
  <1>3. BatchesOpenLeads
    BY EmptyOpens DEF Init, BatchesOpenLeads, NoMatch
  <1> QED
    BY <1>1, <1>2, <1>3 DEF LeadInv

(* The statuses the rows have had are statuses. *)
LEMMA RememberType ==
    ASSUME TypeOK, lead' \in [Leads -> LeadType], Remember
    PROVE  had' \in [Leads -> SUBSET Statuses]
  <1>1. \A l \in Leads : lead'[l].status \in Statuses \union {"none"}
    BY LeadFields
  <1>2. \A l \in Leads : had[l] \union ({lead'[l].status} \ {"none"}) \in SUBSET Statuses
    BY <1>1 DEF TypeOK
  <1> QED
    BY <1>2 DEF Remember

(* A batch moves and nothing it shares with the others changes. *)
LEMMA BatchStep ==
    ASSUME LeadInv, NEW m \in Matchers, NEW b \in MatchType, Opens(b),
           match' = [match EXCEPT ![m] = b],
           clock' \in Nat, analyses' \in Nat, crashes' \in Nat,
           UNCHANGED <<lead, analysis, rep, reports, mails, op, cycles, decisions, history>>
    PROVE  LeadInv'
  <1>1. TypeOK'
    BY DEF LeadInv, TypeOK, history, Times
  <1>2. RetriesAreExplained'
    BY DEF LeadInv, RetriesAreExplained, Explained
  <1>3. BatchesOpenLeads'
    BY DEF LeadInv, TypeOK, BatchesOpenLeads
  <1> QED
    BY <1>1, <1>2, <1>3 DEF LeadInv

(* A report task moves without committing a report. *)
LEMMA TaskStep ==
    ASSUME LeadInv, NEW r \in Reporters, NEW p \in RepType, Explained(p, reports),
           rep' = [rep EXCEPT ![r] = p],
           clock' \in Nat, cycles' \in Nat, crashes' \in Nat, mails' \subseteq 1 .. reports,
           UNCHANGED <<lead, match, analyses, analysis, reports, op, decisions, history>>
    PROVE  LeadInv'
  <1>1. TypeOK'
    BY DEF LeadInv, TypeOK, history, Times
  <1>2. RetriesAreExplained'
    BY DEF LeadInv, TypeOK, RetriesAreExplained, Explained
  <1>3. BatchesOpenLeads'
    BY DEF LeadInv, BatchesOpenLeads
  <1> QED
    BY <1>1, <1>2, <1>3 DEF LeadInv

LEMMA MatchStartInv ==
    ASSUME LeadInv, NEW m \in Matchers, MatchStart(m)
    PROVE  LeadInv'
  <1> DEFINE b == [NoMatch EXCEPT !.stage = "matching", !.retries = match[m].retries,
                                  !.todo = BatchOf[m]]
  <1>1. b \in MatchType
    <2>1. match[m].retries \in 0 .. MaxMatchRetries /\ BatchOf[m] \in SUBSET Events
      BY BatchesAreEvents, MatchFields DEF LeadInv, TypeOK
    <2>2. [NoMatch EXCEPT !.stage = "matching"] \in MatchType
      BY NoRecordsType, MatchEdit DEF MatchStages
    <2>3. [[NoMatch EXCEPT !.stage = "matching"] EXCEPT !.retries = match[m].retries] \in MatchType
      BY <2>1, <2>2, MatchEdit
    <2> QED
      BY <2>1, <2>3, MatchEdit
  <1>2. Opens(b)
    BY EmptyOpens DEF NoMatch
  <1> HIDE DEF b
  <1>3. /\ match' = [match EXCEPT ![m] = b]
        /\ UNCHANGED <<lead, analysis, rep, reports, mails, op, cycles, decisions, history>>
        /\ clock' \in Nat /\ analyses' \in Nat /\ crashes' \in Nat
    BY DEF MatchStart, MatcherMoves, b, LeadInv, TypeOK, Times, counts
  <1> QED
    BY <1>1, <1>2, <1>3, BatchStep

LEMMA MatchEventInv ==
    ASSUME LeadInv, NEW m \in Matchers, MatchEvent(m)
    PROVE  LeadInv'
  <1>1. PICK e \in match[m].todo :
            MatcherMoves(m, [match[m] EXCEPT
                !.todo = @ \ {e}, !.got = @ \union {e}, !.stamp[LeadOf[e]] = clock + 1,
                !.creates = IF ~Exists(LeadOf[e]) /\ LeadOf[e] \notin match[m].creates
                            THEN @ \union {LeadOf[e]} ELSE @,
                !.first = IF ~Exists(LeadOf[e]) /\ LeadOf[e] \notin match[m].creates
                          THEN @ \union {e} ELSE @])
    BY DEF MatchEvent
  <1> DEFINE l == LeadOf[e]
             c == IF ~Exists(l) /\ l \notin match[m].creates
                  THEN match[m].creates \union {l} ELSE match[m].creates
             f == IF ~Exists(l) /\ l \notin match[m].creates
                  THEN match[m].first \union {e} ELSE match[m].first
             b1 == [match[m] EXCEPT !.todo = match[m].todo \ {e}]
             b2 == [b1 EXCEPT !.got = match[m].got \union {e}]
             b3 == [b2 EXCEPT !.stamp[l] = clock + 1]
             b4 == [b3 EXCEPT !.creates = c]
             b == [b4 EXCEPT !.first = f]
  <1>2. match[m] \in MatchType /\ clock \in Nat
    BY DEF LeadInv, TypeOK, Times
  <1>3. e \in Events /\ l \in Leads /\ c \in SUBSET Leads /\ f \in SUBSET Events
    BY <1>1, <1>2, MatchFields, EveryEventHasALead
  <1>4. b1 \in MatchType
    BY <1>2, MatchEdit, MatchFields
  <1>5. b2 \in MatchType
    BY <1>2, <1>3, <1>4, MatchEdit, MatchFields
  <1>6. b3 \in MatchType
    <2> HIDE DEF b2, l
    <2>1. clock + 1 \in Times
      BY <1>2 DEF Times
    <2> QED
      BY <1>3, <1>5, <2>1, MatchEdit
  <1>7. b4 \in MatchType
    BY <1>3, <1>6, MatchEdit
  <1>8. b \in MatchType
    BY <1>3, <1>7, MatchEdit
  <1>9. b.stage = "matching" /\ MatcherMoves(m, b)
    BY <1>1, <1>2 DEF MatchType, MatchEvent
  <1>10. Opens(b)
    <2>1. b.got = match[m].got \union {e} /\ b.creates = c /\ b.first = f
      BY <1>2 DEF MatchType
    <2>2. \/ c = match[m].creates /\ f = match[m].first
          \/ /\ l \notin match[m].creates
             /\ c = match[m].creates \union {l} /\ f = match[m].first \union {e}
      OBVIOUS
    <2>3. Opens(match[m])
      BY DEF LeadInv, BatchesOpenLeads
    <2> HIDE DEF b, c, f
    <2> QED
      BY <1>3, <2>1, <2>2, <2>3, EventOpens
  <1> HIDE DEF b
  <1>11. clock' \in Nat
    BY <1>2 DEF MatchEvent
  <1>12. /\ match' = [match EXCEPT ![m] = b]
         /\ UNCHANGED <<lead, analysis, rep, reports, mails, op, cycles, decisions, history>>
         /\ analyses' \in Nat /\ crashes' \in Nat
    BY <1>9 DEF MatcherMoves, LeadInv, TypeOK, counts
  <1> QED
    BY <1>8, <1>10, <1>11, <1>12, BatchStep

LEMMA MatchSkipsInv ==
    ASSUME LeadInv, NEW m \in Matchers, MatchSkips(m)
    PROVE  LeadInv'
  <1>1. PICK e \in match[m].todo : MatcherMoves(m, [match[m] EXCEPT !.todo = @ \ {e}])
    BY DEF MatchSkips
  <1> DEFINE b == [match[m] EXCEPT !.todo = match[m].todo \ {e}]
  <1>2. match[m] \in MatchType
    BY DEF LeadInv, TypeOK
  <1>3. b \in MatchType
    BY <1>2, MatchEdit, MatchFields
  <1>4. b.stage = "matching" /\ MatcherMoves(m, b)
    BY <1>1, <1>2 DEF MatchType, MatchSkips
  <1>5. Opens(b)
    <2>1. /\ b.got = match[m].got /\ b.first = match[m].first /\ b.creates = match[m].creates
          /\ Opens(match[m])
      BY <1>2 DEF MatchType, LeadInv, BatchesOpenLeads
    <2> QED
      BY <2>1, SameOpens
  <1> HIDE DEF b
  <1>6. /\ match' = [match EXCEPT ![m] = b]
        /\ UNCHANGED <<lead, analysis, rep, reports, mails, op, cycles, decisions, history>>
        /\ clock' \in Nat /\ analyses' \in Nat /\ crashes' \in Nat
    BY <1>4 DEF MatchSkips, MatcherMoves, LeadInv, TypeOK, Times, counts
  <1> QED
    BY <1>3, <1>5, <1>6, BatchStep

LEMMA MatchFailsInv ==
    ASSUME LeadInv, NEW m \in Matchers, MatchFails(m)
    PROVE  LeadInv'
  <1> DEFINE b == IF match[m].retries < MaxMatchRetries
                  THEN [NoMatch EXCEPT !.retries = match[m].retries + 1]
                  ELSE [NoMatch EXCEPT !.stage = "failed"]
  <1>1. b \in MatchType
    <2>1. CASE match[m].retries < MaxMatchRetries
      <3>1. match[m].retries + 1 \in 0 .. MaxMatchRetries
        BY <2>1, BudgetFacts, MatchFields DEF LeadInv, TypeOK
      <3> QED
        BY <2>1, <3>1, NoRecordsType, MatchEdit
    <2>2. CASE ~(match[m].retries < MaxMatchRetries)
      BY <2>2, NoRecordsType, MatchEdit DEF MatchStages
    <2> QED
      BY <2>1, <2>2
  <1>2. Opens(b)
    BY EmptyOpens DEF NoMatch
  <1> HIDE DEF b
  <1>3. MatcherMoves(m, b) /\ UNCHANGED clock
    BY DEF MatchFails, b
  <1>4. /\ match' = [match EXCEPT ![m] = b]
        /\ UNCHANGED <<lead, analysis, rep, reports, mails, op, cycles, decisions, history>>
        /\ clock' \in Nat /\ analyses' \in Nat /\ crashes' \in Nat
    BY <1>3 DEF MatcherMoves, LeadInv, TypeOK, Times, counts
  <1> QED
    BY <1>1, <1>2, <1>4, BatchStep

LEMMA MatchDoneInv ==
    ASSUME LeadInv, NEW m \in Matchers, MatchDone(m)
    PROVE  LeadInv'
  <1> DEFINE b == [match[m] EXCEPT !.stage = "done"]
  <1>1. match[m] \in MatchType
    BY DEF LeadInv, TypeOK
  <1>2. b \in MatchType
    BY <1>1, MatchEdit DEF MatchStages
  <1>3. Opens(b)
    <2>1. /\ b.got = match[m].got /\ b.first = match[m].first /\ b.creates = match[m].creates
          /\ Opens(match[m])
      BY <1>1 DEF MatchType, LeadInv, BatchesOpenLeads
    <2> QED
      BY <2>1, SameOpens
  <1> HIDE DEF b
  <1>4. match' = [match EXCEPT ![m] = b]
    BY <1>1 DEF MatchDone, b
  <1>5. /\ UNCHANGED <<lead, analysis, rep, reports, mails, op, cycles, decisions, history>>
        /\ clock' \in Nat /\ analyses' \in Nat /\ crashes' \in Nat
    BY DEF MatchDone, LeadInv, TypeOK, Times, counts
  <1> QED
    BY <1>2, <1>3, <1>4, <1>5, BatchStep

LEMMA MatcherCrashInv ==
    ASSUME LeadInv, NEW m \in Matchers, MatcherCrash(m)
    PROVE  LeadInv'
  <1> DEFINE b == [NoMatch EXCEPT !.retries = match[m].retries]
  <1>1. b \in MatchType
    BY NoRecordsType, MatchEdit, MatchFields DEF LeadInv, TypeOK
  <1>2. Opens(b)
    BY EmptyOpens DEF NoMatch
  <1> HIDE DEF b
  <1>3. match' = [match EXCEPT ![m] = b]
    BY DEF MatcherCrash, b
  <1>4. /\ UNCHANGED <<lead, analysis, rep, reports, mails, op, cycles, decisions, history>>
        /\ clock' \in Nat /\ analyses' \in Nat /\ crashes' \in Nat
    BY DEF MatcherCrash, LeadInv, TypeOK, Times
  <1> QED
    BY <1>1, <1>2, <1>3, <1>4, BatchStep

(* The rows a batch writes are rows. *)
LEMMA WrittenType ==
    ASSUME LeadInv, NEW m \in Matchers, NEW l \in Leads
    PROVE  Written(m, l) \in LeadType
  <1> DEFINE w == [lead[l] EXCEPT !.updated = match[m].stamp[l]]
             E == EventsOf(m, l) \cap match[m].first
  <1>1. lead[l] \in LeadType /\ match[m].stamp[l] \in Times /\ E \in SUBSET Events
    BY MatchFields DEF LeadInv, TypeOK, Times
  <1>2. w \in LeadType
    BY <1>1, LeadEdit
  <1>3. Written(m, l) = IF l \in match[m].creates
                        THEN [[w EXCEPT !.status = "new"] EXCEPT !.events = E]
                        ELSE w
    BY DEF Written
  <1> HIDE DEF w, E
  <1>4. "new" \in Statuses
    BY DEF Statuses
  <1>5. [w EXCEPT !.status = "new"] \in LeadType
    BY <1>2, <1>4, LeadEdit
  <1>6. [[w EXCEPT !.status = "new"] EXCEPT !.events = E] \in LeadType
    BY <1>1, <1>5, LeadEdit
  <1> QED
    BY <1>2, <1>3, <1>6

LEMMA MatchCommitInv ==
    ASSUME LeadInv, NEW m \in Matchers, MatchCommit(m)
    PROVE  LeadInv'
  <1> DEFINE b == [match[m] EXCEPT !.stage = "dispatch"]
  <1>1. match[m] \in MatchType
    BY DEF LeadInv, TypeOK
  <1>2. b \in MatchType /\ Opens(b)
    <2>1. b \in MatchType
      BY <1>1, MatchEdit DEF MatchStages
    <2>2. /\ b.got = match[m].got /\ b.first = match[m].first /\ b.creates = match[m].creates
          /\ Opens(match[m])
      BY <1>1 DEF MatchType, LeadInv, BatchesOpenLeads
    <2> QED
      BY <2>1, <2>2, SameOpens
  <1> HIDE DEF b
  <1>3. match' = [match EXCEPT ![m] = b]
    BY <1>1 DEF MatchCommit, b
  <1>4. matched' = [l \in Leads |-> matched[l] \union EventsOf(m, l)]
    BY DEF MatchCommit
  <1>5. \A l \in Leads : EventsOf(m, l) \in SUBSET Events
    BY <1>1, MatchFields DEF EventsOf
  <1>6. TypeOK'
    <2>1. lead' \in [Leads -> LeadType]
      BY WrittenType DEF MatchCommit, LeadInv, TypeOK
    <2>2. matched' \in [Leads -> SUBSET Events]
      BY <1>4, <1>5 DEF LeadInv, TypeOK
    <2>3. match' \in [Matchers -> MatchType]
      BY <1>2, <1>3 DEF LeadInv, TypeOK
    <2> QED
      BY <2>1, <2>2, <2>3, RememberType DEF MatchCommit, LeadInv, TypeOK, counts
  <1>7. RetriesAreExplained'
    BY DEF LeadInv, RetriesAreExplained, Explained, MatchCommit
  <1>8. BatchesOpenLeads'
    BY <1>2, <1>3 DEF LeadInv, TypeOK, BatchesOpenLeads
  <1> QED
    BY <1>6, <1>7, <1>8 DEF LeadInv

(* Leads are written without touching a batch, a task or what was matched. *)
LEMMA LeadsStep ==
    ASSUME LeadInv, lead' \in [Leads -> LeadType], analysis' \in [Analyzers -> SUBSET Leads],
           op' \in [Operators -> OpType], analyses' \in Nat, decisions' \in Nat,
           had' \in [Leads -> SUBSET Statuses],
           UNCHANGED <<clock, match, rep, reports, mails, cycles, crashes, matched, shown>>
    PROVE  LeadInv'
  <1>1. TypeOK'
    BY DEF LeadInv, TypeOK
  <1>2. RetriesAreExplained'
    BY DEF LeadInv, RetriesAreExplained, Explained
  <1>3. BatchesOpenLeads'
    BY DEF LeadInv, BatchesOpenLeads
  <1> QED
    BY <1>1, <1>2, <1>3 DEF LeadInv

LEMMA AnalyzeStepInv ==
    ASSUME LeadInv, NEW a \in Analyzers, AnalyzeStep(a)
    PROVE  LeadInv'
  <1>1. CASE AnalyzeStart(a)
    <2>1. analysis' \in [Analyzers -> SUBSET Leads]
      BY <1>1 DEF AnalyzeStart, LeadInv, TypeOK
    <2>2. analyses' \in Nat
      BY <1>1 DEF AnalyzeStart, LeadInv, TypeOK
    <2> QED
      BY <1>1, <2>1, <2>2, LeadsStep DEF AnalyzeStart, LeadInv, TypeOK, counts, history
  <1>2. CASE AnalyzeCommit(a)
    <2>1. PICK outcome \in [analysis[a] -> Analyses \ {"pending"}] :
             lead' = [l \in Leads |-> IF l \in analysis[a]
                                      THEN [lead[l] EXCEPT !.analysis = outcome[l]]
                                      ELSE lead[l]]
      BY <1>2 DEF AnalyzeCommit
    <2>2. lead' \in [Leads -> LeadType]
      <3>1. ASSUME NEW l \in Leads, l \in analysis[a]
            PROVE  [lead[l] EXCEPT !.analysis = outcome[l]] \in LeadType
        BY <3>1, LeadEdit DEF LeadInv, TypeOK
      <3> QED
        BY <2>1, <3>1 DEF LeadInv, TypeOK
    <2>3. analysis' \in [Analyzers -> SUBSET Leads]
      BY <1>2 DEF AnalyzeCommit, LeadInv, TypeOK
    <2> QED
      BY <1>2, <2>2, <2>3, LeadsStep DEF AnalyzeCommit, LeadInv, TypeOK, counts, history
  <1>3. CASE AnalyzeFails(a)
    <2>1. analysis' \in [Analyzers -> SUBSET Leads]
      BY <1>3 DEF AnalyzeFails, LeadInv, TypeOK
    <2>2. analyses' \in Nat
      BY <1>3 DEF AnalyzeFails, LeadInv, TypeOK
    <2> QED
      BY <1>3, <2>1, <2>2, LeadsStep DEF AnalyzeFails, LeadInv, TypeOK, counts, history
  <1> QED
    BY <1>1, <1>2, <1>3 DEF AnalyzeStep

LEMMA DecideInv ==
    ASSUME LeadInv, NEW o \in Operators, NEW asked \in SUBSET Leads, NEW target \in Statuses,
           Decide(o, asked, target)
    PROVE  LeadInv'
  <1> DEFINE picks == {l \in asked : target \in Transitions(lead[l].status)}
             f == [l \in Leads |-> IF l \in picks THEN lead[l].status ELSE "none"]
             q == [read |-> f, target |-> target]
  <1>1. f \in [Leads -> Statuses \union {"none"}]
    <2>1. \A l \in Leads : lead[l].status \in Statuses \union {"none"}
      BY LeadFields DEF LeadInv, TypeOK
    <2> HIDE DEF picks
    <2> QED
      BY <2>1
  <1>2. op' = [op EXCEPT ![o] = q]
    BY DEF Decide
  <1> HIDE DEF f
  <1>3. op' \in [Operators -> OpType]
    BY <1>1, <1>2 DEF LeadInv, TypeOK, OpType
  <1>4. decisions' \in Nat
    BY DEF Decide, LeadInv, TypeOK
  <1>5. UNCHANGED <<lead, analysis, analyses, clock, match, rep, reports, mails, cycles, crashes,
                    matched, shown, had>>
    BY DEF Decide, history
  <1> QED
    BY <1>3, <1>4, <1>5, LeadsStep DEF LeadInv, TypeOK

LEMMA StoreDecisionInv ==
    ASSUME LeadInv, NEW o \in Operators, StoreDecision(o)
    PROVE  LeadInv'
  <1>1. op[o] \in OpType /\ op[o].target \in Statuses
    BY DEF LeadInv, TypeOK, OpType
  <1>2. lead' \in [Leads -> LeadType]
    <2>1. \A l \in Leads : [lead[l] EXCEPT !.status = op[o].target] \in LeadType
      BY <1>1, LeadEdit DEF LeadInv, TypeOK
    <2> QED
      BY <2>1 DEF StoreDecision, LeadInv, TypeOK
  <1>3. op' \in [Operators -> OpType]
    BY NoRecordsType DEF StoreDecision, LeadInv, TypeOK
  <1>4. had' \in [Leads -> SUBSET Statuses]
    BY <1>2, RememberType DEF StoreDecision, LeadInv
  <1> QED
    BY <1>2, <1>3, <1>4, LeadsStep DEF StoreDecision, LeadInv, TypeOK, counts

-----------------------------------------------------------------------------
(* The report tasks *)

LEMMA NoReportExplained == Explained(NoReport, reports)
  BY BudgetFacts DEF Explained, NoReport

(* What TaskStep asks of the variables that a ReporterMoves leaves alone. *)
LEMMA MovesStep ==
    ASSUME LeadInv, NEW r \in Reporters, NEW p \in RepType, Explained(p, reports),
           ReporterMoves(r, p), clock' \in Nat, cycles' \in Nat, mails' \subseteq 1 .. reports,
           UNCHANGED <<reports, shown>>
    PROVE  LeadInv'
  <1>1. /\ rep' = [rep EXCEPT ![r] = p]
        /\ crashes' \in Nat
        /\ UNCHANGED <<lead, match, analyses, analysis, reports, op, decisions, history>>
    BY DEF ReporterMoves, LeadInv, TypeOK, history
  <1> QED
    BY <1>1, TaskStep

LEMMA BeatInv ==
    ASSUME LeadInv, NEW r \in Reporters, Beat(r)
    PROVE  LeadInv'
  <1> DEFINE p == [NoReport EXCEPT !.stage = "guard"]
  <1>1. p \in RepType
    BY NoRecordsType, ReportEdit DEF RepStages
  <1>2. Explained(p, reports)
    BY BudgetFacts DEF Explained, NoReport
  <1> HIDE DEF p
  <1>3. ReporterMoves(r, p) /\ UNCHANGED <<clock, reports, mails, shown>> /\ cycles' = cycles + 1
    BY DEF Beat, p
  <1> QED
    BY <1>1, <1>2, <1>3, MovesStep DEF LeadInv, TypeOK, Times

(* A retry keeps the counters in step as long as the counter is not used up. *)
LEMMA RetriedFacts ==
    ASSUME LeadInv, NEW r \in Reporters, NEW p \in RepType,
           p.retries = rep[r].retries, rep[r].retries < MaxRetries,
           rep[r].retries + 1 = p.deferrals + p.failures, p.failures <= MaxGenRetries
    PROVE  Retried(r, p) \in RepType /\ Explained(Retried(r, p), reports)
  <1> DEFINE s == [p EXCEPT !.stage = "guard"]
             q == [s EXCEPT !.retries = p.retries + 1]
  <1>1. Retried(r, p) = q
    BY DEF Retried
  <1>2. s \in RepType /\ p.retries + 1 \in 0 .. MaxRetries
    <2>1. s \in RepType
      BY ReportEdit DEF RepStages
    <2>2. p.retries \in 0 .. MaxRetries
      BY ReportFields
    <2>3. p.retries + 1 \in 0 .. MaxRetries
      BY <2>2, BudgetFacts
    <2> QED
      BY <2>1, <2>3
  <1>3. q \in RepType
    BY <1>2, ReportEdit
  <1>4. q.stage = "guard" /\ q.retries = p.retries + 1 /\ q.deferrals = p.deferrals
        /\ q.failures = p.failures
    BY DEF RepType
  <1> HIDE DEF q
  <1>5. Explained(q, reports)
    BY <1>4 DEF Explained
  <1> QED
    BY <1>1, <1>3, <1>5

LEMMA DeferInv ==
    ASSUME LeadInv, NEW r \in Reporters, Defer(r)
    PROVE  LeadInv'
  <1> DEFINE p == [rep[r] EXCEPT !.deferrals = rep[r].deferrals + 1]
  <1>1. rep[r] \in RepType /\ Explained(rep[r], reports)
    BY DEF LeadInv, TypeOK, RetriesAreExplained
  <1>2. rep[r].stage = "guard" /\ rep[r].deferrals < MaxDeferrals
    BY DEF Defer
  <1>3. rep[r].deferrals + 1 \in 0 .. MaxDeferrals
    BY <1>1, <1>2, BudgetFacts, ReportFields
  <1>4. p \in RepType
    BY <1>1, <1>3, ReportEdit
  <1>5. p.retries = rep[r].retries /\ p.failures = rep[r].failures
        /\ p.deferrals = rep[r].deferrals + 1
    BY <1>1 DEF RepType
  <1>6. ReporterMoves(r, Retried(r, p)) /\ UNCHANGED <<clock, reports, mails, cycles, shown>>
    BY DEF Defer
  <1> HIDE DEF p
  <1>7. /\ rep[r].retries = rep[r].deferrals + rep[r].failures
        /\ rep[r].failures <= MaxGenRetries
    BY <1>1, <1>2 DEF Explained
  <1>8. rep[r].retries < MaxRetries /\ rep[r].retries + 1 = p.deferrals + p.failures
    BY <1>1, <1>2, <1>5, <1>7, BudgetFacts, ReportFields
  <1>9. Retried(r, p) \in RepType /\ Explained(Retried(r, p), reports)
    BY <1>4, <1>5, <1>7, <1>8, RetriedFacts
  <1> QED
    BY <1>6, <1>9, MovesStep DEF LeadInv, TypeOK, Times

LEMMA PassGuardInv ==
    ASSUME LeadInv, NEW r \in Reporters, PassGuard(r)
    PROVE  LeadInv'
  <1> DEFINE p == [rep[r] EXCEPT !.stage = "select"]
  <1>1. rep[r] \in RepType /\ Explained(rep[r], reports) /\ rep[r].stage = "guard"
    BY DEF LeadInv, TypeOK, RetriesAreExplained, PassGuard
  <1>2. p \in RepType
    BY <1>1, ReportEdit DEF RepStages
  <1>3. p.stage = "select" /\ p.retries = rep[r].retries /\ p.deferrals = rep[r].deferrals
        /\ p.failures = rep[r].failures
    BY <1>1 DEF RepType
  <1>4. ReporterMoves(r, p) /\ UNCHANGED <<clock, reports, mails, cycles, shown>>
    BY DEF PassGuard
  <1> HIDE DEF p
  <1>5. Explained(p, reports)
    BY <1>1, <1>3 DEF Explained
  <1> QED
    BY <1>2, <1>4, <1>5, MovesStep DEF LeadInv, TypeOK, Times

LEMMA SelectInv ==
    ASSUME LeadInv, NEW r \in Reporters, Select(r)
    PROVE  LeadInv'
  <1> DEFINE L == {l \in Leads : Reportable(l) /\ Rendered(l)}
             N == {l \in L : lead[l].status = "new"}
             S == [l \in Leads |-> IF l \in L THEN matched[l] ELSE {}]
             p1 == [rep[r] EXCEPT !.stage = "render"]
             p2 == [p1 EXCEPT !.picks = L]
             p3 == [p2 EXCEPT !.wasNew = N]
             p4 == [p3 EXCEPT !.seen = S]
             p5 == [p4 EXCEPT !.now = clock + 1]
             p == IF L = {} THEN NoReport ELSE p5
  <1>1. rep[r] \in RepType /\ Explained(rep[r], reports) /\ rep[r].stage = "select"
    BY DEF LeadInv, TypeOK, RetriesAreExplained, Select
  <1>2. ReporterMoves(r, p) /\ clock' = clock + 1 /\ UNCHANGED <<reports, mails, cycles, shown>>
    BY DEF Select
  <1>3. clock + 1 \in Times
    BY DEF LeadInv, TypeOK, Times
  <1>4. L \in SUBSET Leads /\ N \in SUBSET Leads
    OBVIOUS
  <1>5. S \in [Leads -> SUBSET Events]
    BY DEF LeadInv, TypeOK
  <1>6. /\ p5.stage = "render" /\ p5.retries = rep[r].retries
        /\ p5.deferrals = rep[r].deferrals /\ p5.failures = rep[r].failures
    BY <1>1 DEF RepType
  <1> HIDE DEF L, N, S
  <1>7. p1 \in RepType
    BY <1>1, ReportEdit DEF RepStages
  <1>8. p2 \in RepType
    BY <1>4, <1>7, ReportEdit
  <1>9. p3 \in RepType
    BY <1>4, <1>8, ReportEdit
  <1>10. p4 \in RepType
    BY <1>5, <1>9, ReportEdit
  <1>11. p5 \in RepType
    BY <1>3, <1>10, ReportEdit
  <1> HIDE DEF p5
  <1>12. Explained(p5, reports)
    BY <1>1, <1>6 DEF Explained
  <1>13. p \in RepType /\ Explained(p, reports)
    BY <1>11, <1>12, NoRecordsType, NoReportExplained
  <1> HIDE DEF p
  <1> QED
    BY <1>2, <1>3, <1>13, MovesStep DEF LeadInv, TypeOK, Times

LEMMA GenerationFailsInv ==
    ASSUME LeadInv, NEW r \in Reporters, GenerationFails(r)
    PROVE  LeadInv'
  <1> DEFINE p1 == [NoReport EXCEPT !.stage = "failed"]
             p2 == [p1 EXCEPT !.retries = rep[r].retries]
             p3 == [p2 EXCEPT !.deferrals = rep[r].deferrals]
             p == [p3 EXCEPT !.failures = rep[r].failures + 1]
             q == IF GenerationsUsed(r) THEN p ELSE Retried(r, p)
  <1>1. rep[r] \in RepType /\ Explained(rep[r], reports) /\ rep[r].stage # "failed"
    BY DEF LeadInv, TypeOK, RetriesAreExplained, GenerationFails
  <1>2. ReporterMoves(r, q) /\ UNCHANGED <<clock, reports, mails, cycles, shown>>
    BY DEF GenerationFails
  <1>3. /\ rep[r].retries \in 0 .. MaxRetries /\ rep[r].deferrals \in 0 .. MaxDeferrals
        /\ rep[r].failures \in Nat
    BY <1>1, ReportFields
  <1>4. rep[r].retries = rep[r].deferrals + rep[r].failures /\ rep[r].failures <= MaxGenRetries
    BY <1>1 DEF Explained
  <1>5. p1 \in RepType
    BY NoRecordsType, ReportEdit DEF RepStages
  <1>6. p2 \in RepType
    BY <1>3, <1>5, ReportEdit
  <1>7. p3 \in RepType
    BY <1>3, <1>6, ReportEdit
  <1>8. p \in RepType
    <2>1. rep[r].failures + 1 \in Nat
      BY <1>3
    <2> HIDE DEF p3
    <2> QED
      BY <1>7, <2>1, ReportEdit
  <1>9. /\ p.stage = "failed" /\ p.retries = rep[r].retries
        /\ p.deferrals = rep[r].deferrals /\ p.failures = rep[r].failures + 1
    BY DEF NoReport
  <1> HIDE DEF p
  <1>10. q \in RepType /\ Explained(q, reports)
    <2>1. CASE GenerationsUsed(r)
      <3>1. rep[r].failures = MaxGenRetries
        BY <1>3, <1>4, <2>1, BudgetFacts DEF GenerationsUsed
      <3>2. Explained(p, reports)
        BY <1>9, <3>1 DEF Explained
      <3> QED
        BY <1>8, <2>1, <3>2
    <2>2. CASE ~GenerationsUsed(r)
      <3>1. rep[r].failures + 1 <= MaxGenRetries /\ rep[r].retries < MaxRetries
        BY <1>3, <1>4, <2>2, BudgetFacts DEF GenerationsUsed
      <3>2. rep[r].retries + 1 = p.deferrals + p.failures
        BY <1>3, <1>4, <1>9
      <3> QED
        BY <1>8, <1>9, <2>2, <3>1, <3>2, RetriedFacts
    <2> QED
      BY <2>1, <2>2
  <1> HIDE DEF q
  <1> QED
    BY <1>2, <1>10, MovesStep DEF LeadInv, TypeOK, Times

(* The rows a report writes are rows. *)
LEMMA MarkedType ==
    ASSUME LeadInv, NEW r \in Reporters, NEW l \in Leads
    PROVE  Marked(r, l) \in LeadType
  <1> DEFINE d1 == [lead[l] EXCEPT !.reported = rep[r].now]
             d2 == [d1 EXCEPT !.report = reports + 1]
             s == IF l \in rep[r].wasNew THEN "reviewing" ELSE lead[l].status
  <1>1. lead[l] \in LeadType /\ rep[r].now \in Times /\ reports + 1 \in Nat
    BY ReportFields DEF LeadInv, TypeOK, Times
  <1>2. d1 \in LeadType
    BY <1>1, LeadEdit
  <1>3. d2 \in LeadType
    BY <1>1, <1>2, LeadEdit
  <1>4. Marked(r, l) = [d2 EXCEPT !.status = s]
    BY <1>1 DEF Marked, LeadType
  <1>5. [d2 EXCEPT !.status = s] \in LeadType
    <2>1. s \in Statuses \union {"none"}
      BY <1>1, LeadFields DEF Statuses
    <2> HIDE DEF s
    <2> QED
      BY <1>3, <2>1 DEF LeadType
  <1> QED
    BY <1>4, <1>5

LEMMA ReportCommitInv ==
    ASSUME LeadInv, NEW r \in Reporters, ReportCommit(r)
    PROVE  LeadInv'
  <1> DEFINE p1 == [rep[r] EXCEPT !.stage = "recipients"]
             p == [p1 EXCEPT !.report = reports + 1]
  <1>1. rep[r] \in RepType /\ Explained(rep[r], reports) /\ rep[r].stage = "render" /\ reports \in Nat
    BY DEF LeadInv, TypeOK, RetriesAreExplained, ReportCommit
  <1>2. p1 \in RepType
    BY <1>1, ReportEdit DEF RepStages
  <1>3. p \in RepType
    <2>1. reports + 1 \in Nat
      BY <1>1
    <2> HIDE DEF p1
    <2> QED
      BY <1>2, <2>1, ReportEdit
  <1>4. rep' = [rep EXCEPT ![r] = p]
    BY <1>1 DEF ReportCommit, LeadInv, TypeOK
  <1>5. /\ p.stage = "recipients" /\ p.report = reports + 1 /\ p.retries = rep[r].retries
        /\ p.deferrals = rep[r].deferrals /\ p.failures = rep[r].failures
    BY <1>1 DEF RepType
  <1> HIDE DEF p
  <1>6. reports' = reports + 1 /\ mails' = mails /\ match' = match /\ matched' = matched
    BY DEF ReportCommit
  <1>7. TypeOK'
    <2>1. lead' \in [Leads -> LeadType]
      BY MarkedType DEF ReportCommit, LeadInv, TypeOK
    <2>2. rep' \in [Reporters -> RepType]
      BY <1>3, <1>4 DEF LeadInv, TypeOK
    <2>3. shown' \in [Leads -> SUBSET Events]
      <3>1. rep[r].seen \in [Leads -> SUBSET Events]
        BY <1>1, ReportFields
      <3> QED
        BY <3>1 DEF ReportCommit, LeadInv, TypeOK
    <2>4. mails' \subseteq 1 .. reports' /\ reports' \in Nat
      BY <1>1, <1>6 DEF LeadInv, TypeOK
    <2> QED
      BY <2>1, <2>2, <2>3, <2>4, RememberType DEF ReportCommit, LeadInv, TypeOK, counts
  <1>8. RetriesAreExplained'
    <2> SUFFICES ASSUME NEW q \in Reporters PROVE Explained(rep'[q], reports')
      BY DEF RetriesAreExplained
    <2>1. CASE q = r
      <3>1. rep'[q] = p
        BY <1>4, <2>1 DEF LeadInv, TypeOK
      <3>2. Explained(p, reports')
        BY <1>1, <1>5, <1>6 DEF Explained
      <3> QED
        BY <3>1, <3>2
    <2>2. CASE q # r
      <3>1. rep'[q] = rep[q] /\ Explained(rep[q], reports)
        BY <1>4, <2>2 DEF LeadInv, TypeOK, RetriesAreExplained
      <3> QED
        BY <1>1, <1>6, <3>1 DEF Explained
    <2> QED
      BY <2>1, <2>2
  <1>9. BatchesOpenLeads'
    BY <1>6 DEF LeadInv, BatchesOpenLeads
  <1> QED
    BY <1>7, <1>8, <1>9 DEF LeadInv

LEMMA LoadRecipientsInv ==
    ASSUME LeadInv, NEW r \in Reporters, LoadRecipients(r)
    PROVE  LeadInv'
  <1> DEFINE p == [rep[r] EXCEPT !.stage = "mail"]
  <1>1. rep[r] \in RepType /\ Explained(rep[r], reports) /\ rep[r].stage = "recipients"
    BY DEF LeadInv, TypeOK, RetriesAreExplained, LoadRecipients
  <1>2. p \in RepType
    BY <1>1, ReportEdit DEF RepStages
  <1>3. /\ p.stage = "mail" /\ p.retries = rep[r].retries /\ p.deferrals = rep[r].deferrals
        /\ p.failures = rep[r].failures /\ p.report = rep[r].report
    BY <1>1 DEF RepType
  <1>4. PICK q \in {p, NoReport} : ReporterMoves(r, q)
    BY DEF LoadRecipients
  <1>5. UNCHANGED <<clock, reports, mails, cycles, shown>>
    BY DEF LoadRecipients
  <1> HIDE DEF p
  <1>6. Explained(p, reports)
    BY <1>1, <1>3 DEF Explained
  <1>7. q \in RepType /\ Explained(q, reports)
    BY <1>2, <1>6, NoRecordsType, NoReportExplained
  <1> QED
    BY <1>4, <1>5, <1>7, MovesStep DEF LeadInv, TypeOK, Times

LEMMA MailInv ==
    ASSUME LeadInv, NEW r \in Reporters, Mail(r)
    PROVE  LeadInv'
  <1> DEFINE p == [rep[r] EXCEPT !.tries = rep[r].tries + 1]
  <1>1. rep[r] \in RepType /\ Explained(rep[r], reports) /\ rep[r].stage = "mail"
    BY DEF LeadInv, TypeOK, RetriesAreExplained, Mail
  <1>2. PICK delivered \in BOOLEAN, answered \in BOOLEAN :
           /\ mails' = IF delivered THEN mails \union {rep[r].report} ELSE mails
           /\ ReporterMoves(r, IF delivered /\ answered THEN NoReport ELSE NextTry(r))
    BY DEF Mail
  <1>3. UNCHANGED <<clock, reports, cycles, shown>>
    BY DEF Mail
  <1>4. mails' \subseteq 1 .. reports
    BY <1>1, <1>2 DEF Explained, LeadInv, TypeOK
  <1>5. NextTry(r) \in RepType /\ Explained(NextTry(r), reports)
    <2>1. CASE rep[r].tries + 1 < MaxMails
      <3>1. rep[r].tries + 1 \in 0 .. MaxMails - 1
        BY <1>1, <2>1, BudgetFacts, ReportFields
      <3>2. p \in RepType
        BY <1>1, <3>1, ReportEdit
      <3>3. /\ p.stage = "mail" /\ p.retries = rep[r].retries
            /\ p.deferrals = rep[r].deferrals /\ p.failures = rep[r].failures
            /\ p.report = rep[r].report
        BY <1>1 DEF RepType
      <3>4. NextTry(r) = p
        BY <2>1 DEF NextTry
      <3> HIDE DEF p
      <3>5. Explained(p, reports)
        BY <1>1, <3>3 DEF Explained
      <3> QED
        BY <3>2, <3>4, <3>5
    <2>2. CASE ~(rep[r].tries + 1 < MaxMails)
      BY <2>2, NoRecordsType, NoReportExplained DEF NextTry
    <2> QED
      BY <2>1, <2>2
  <1> DEFINE q == IF delivered /\ answered THEN NoReport ELSE NextTry(r)
  <1>6. q \in RepType /\ Explained(q, reports)
    BY <1>5, NoRecordsType, NoReportExplained
  <1>7. ReporterMoves(r, q)
    BY <1>2
  <1> HIDE DEF q
  <1> QED
    BY <1>3, <1>4, <1>6, <1>7, MovesStep DEF LeadInv, TypeOK, Times

LEMMA ReporterCrashInv ==
    ASSUME LeadInv, NEW r \in Reporters, ReporterCrash(r)
    PROVE  LeadInv'
  <1> DEFINE p1 == [NoReport EXCEPT !.stage = "guard"]
             p2 == [p1 EXCEPT !.retries = rep[r].retries]
             p3 == [p2 EXCEPT !.deferrals = rep[r].deferrals]
             p == [p3 EXCEPT !.failures = rep[r].failures]
  <1>1. rep[r] \in RepType /\ Explained(rep[r], reports) /\ rep[r].stage # "failed"
    BY DEF LeadInv, TypeOK, RetriesAreExplained, ReporterCrash
  <1>2. p1 \in RepType
    BY NoRecordsType, ReportEdit DEF RepStages
  <1>3. p2 \in RepType
    BY <1>1, <1>2, ReportEdit, ReportFields
  <1>4. p3 \in RepType
    BY <1>1, <1>3, ReportEdit, ReportFields
  <1>5. p \in RepType
    BY <1>1, <1>4, ReportEdit, ReportFields
  <1>6. /\ p.stage = "guard" /\ p.retries = rep[r].retries
        /\ p.deferrals = rep[r].deferrals /\ p.failures = rep[r].failures
    BY DEF NoReport
  <1>7. rep' = [rep EXCEPT ![r] = p]
    BY DEF ReporterCrash
  <1> HIDE DEF p
  <1>8. Explained(p, reports)
    BY <1>1, <1>6 DEF Explained
  <1>9. /\ clock' \in Nat /\ cycles' \in Nat /\ crashes' \in Nat /\ mails' \subseteq 1 .. reports
        /\ UNCHANGED <<lead, match, analyses, analysis, reports, op, decisions, history>>
    BY DEF ReporterCrash, LeadInv, TypeOK, Times
  <1> QED
    BY <1>5, <1>7, <1>8, <1>9, TaskStep

-----------------------------------------------------------------------------
(* What follows from the invariant alone *)

LEMMA NextInv == LeadInv /\ [Next]_vars => LeadInv'
  <1> SUFFICES ASSUME LeadInv, [Next]_vars PROVE LeadInv'
    OBVIOUS
  <1>1. CASE \E m \in Matchers : MatchStep(m) \/ MatcherCrash(m)
    BY <1>1, MatchStartInv, MatchEventInv, MatchSkipsInv, MatchCommitInv, MatchFailsInv,
       MatchDoneInv, MatcherCrashInv DEF MatchStep
  <1>2. CASE \E a \in Analyzers : AnalyzeStep(a)
    BY <1>2, AnalyzeStepInv
  <1>3. CASE \E r \in Reporters : Beat(r) \/ ReportStep(r) \/ ReporterCrash(r)
    BY <1>3, BeatInv, DeferInv, PassGuardInv, SelectInv, GenerationFailsInv, ReportCommitInv,
       LoadRecipientsInv, MailInv, ReporterCrashInv DEF ReportStep
  <1>4. CASE \E o \in Operators :
                \/ \E asked \in SUBSET Leads, target \in Statuses : Decide(o, asked, target)
                \/ StoreDecision(o)
    BY <1>4, DecideInv, StoreDecisionInv
  <1>5. CASE UNCHANGED vars
    <2>1. TypeOK'
      BY <1>5 DEF LeadInv, TypeOK, vars, tasks, counts, history
    <2>2. RetriesAreExplained'
      BY <1>5 DEF LeadInv, RetriesAreExplained, Explained, vars, tasks
    <2>3. BatchesOpenLeads'
      BY <1>5 DEF LeadInv, BatchesOpenLeads, vars, tasks
    <2> QED
      BY <2>1, <2>2, <2>3 DEF LeadInv
  <1> QED
    BY <1>1, <1>2, <1>3, <1>4, <1>5 DEF Next

LEMMA InvAlways == Spec => []LeadInv
  BY InitInv, NextInv, PTL DEF Spec

(* Every variable keeps the type it is declared with: the counters of a report *)
(* task stay within Celery's limits, and only committed reports are mailed.    *)
THEOREM TypeCorrect == Spec => []TypeOK
  <1>1. LeadInv => TypeOK
    BY DEF LeadInv
  <1> QED
    BY <1>1, InvAlways, PTL

(* The report task gives up only after a generation and all its retries have  *)
(* failed, although deferrals and crashes use the same Celery retry counter.   *)
THEOREM FailedReportsUsedEveryGeneration == Spec => []AllGenerationsTried
  <1>1. LeadInv => AllGenerationsTried
    BY DEF LeadInv, RetriesAreExplained, Explained, AllGenerationsTried
  <1> QED
    BY <1>1, InvAlways, PTL

-----------------------------------------------------------------------------
(* The steps that touch the rows of leads, requests or what was shown *)

LEMMA StepCases ==
    ASSUME [Next]_vars
    PROVE  \/ UNCHANGED <<lead, op, history>>
           \/ \E m \in Matchers : MatchCommit(m)
           \/ \E a \in Analyzers : AnalyzeCommit(a)
           \/ \E r \in Reporters : ReportCommit(r)
           \/ \E o \in Operators, asked \in SUBSET Leads, target \in Statuses :
                 Decide(o, asked, target)
           \/ \E o \in Operators : StoreDecision(o)
  <1>1. ASSUME NEW m \in Matchers, MatchStep(m) \/ MatcherCrash(m)
        PROVE  MatchCommit(m) \/ UNCHANGED <<lead, op, history>>
    BY <1>1 DEF MatchStep, MatchStart, MatchEvent, MatchSkips, MatchFails, MatchDone, MatcherCrash,
                MatcherMoves
  <1>2. ASSUME NEW a \in Analyzers, AnalyzeStep(a)
        PROVE  AnalyzeCommit(a) \/ UNCHANGED <<lead, op, history>>
    BY <1>2 DEF AnalyzeStep, AnalyzeStart, AnalyzeFails
  <1>3. ASSUME NEW r \in Reporters, Beat(r) \/ ReportStep(r) \/ ReporterCrash(r)
        PROVE  ReportCommit(r) \/ UNCHANGED <<lead, op, history>>
    BY <1>3 DEF ReportStep, Beat, Defer, PassGuard, Select, GenerationFails, LoadRecipients, Mail,
                ReporterCrash, ReporterMoves, history
  <1>4. CASE UNCHANGED vars
    BY <1>4 DEF vars, tasks
  <1> QED
    BY <1>1, <1>2, <1>3, <1>4 DEF Next

(* A commit of a batch creates leads and leaves the status of the others. *)
LEMMA CommitKeepsStatus ==
    ASSUME LeadInv, NEW m \in Matchers, MatchCommit(m), NEW l \in Leads
    PROVE  /\ Exists(l) => lead'[l].status = lead[l].status
           /\ EventsOf(m, l) = {} => lead'[l] = lead[l]
           /\ EventsOf(m, l) # {} => /\ lead'[l].updated = match[m].stamp[l]
                                     /\ l \in match[m].creates => lead'[l].status = "new"
                                     /\ l \notin match[m].creates =>
                                           /\ lead'[l].status = lead[l].status
                                           /\ lead'[l].events = lead[l].events
                                     /\ l \in match[m].creates =>
                                           lead'[l].events = FirstOf(match[m], l)
  <1>1. lead[l] \in LeadType
    BY DEF LeadInv, TypeOK
  <1>2. lead'[l] = IF EventsOf(m, l) = {} THEN lead[l] ELSE Written(m, l)
    BY DEF MatchCommit
  <1>3. Exists(l) => l \notin match[m].creates
    BY DEF MatchCommit, Conflicts
  <1>4. /\ Written(m, l).updated = match[m].stamp[l]
        /\ l \in match[m].creates => Written(m, l).status = "new"
        /\ l \notin match[m].creates => /\ Written(m, l).status = lead[l].status
                                         /\ Written(m, l).events = lead[l].events
        /\ l \in match[m].creates => Written(m, l).events = FirstOf(match[m], l)
    BY <1>1 DEF Written, LeadType, EventsOf, FirstOf
  <1> QED
    BY <1>2, <1>3, <1>4

(* An analysis writes the verdict and nothing else. *)
LEMMA AnalysisKeepsRest ==
    ASSUME LeadInv, NEW a \in Analyzers, AnalyzeCommit(a), NEW l \in Leads
    PROVE  /\ lead'[l].status = lead[l].status
           /\ lead'[l].updated = lead[l].updated
           /\ lead'[l].reported = lead[l].reported
           /\ lead'[l].events = lead[l].events
  <1>1. lead[l] \in LeadType
    BY DEF LeadInv, TypeOK
  <1>2. PICK outcome \in [analysis[a] -> Analyses \ {"pending"}] :
           lead' = [k \in Leads |-> IF k \in analysis[a]
                                    THEN [lead[k] EXCEPT !.analysis = outcome[k]]
                                    ELSE lead[k]]
    BY DEF AnalyzeCommit
  <1>3. lead'[l] = lead[l] \/ lead'[l] = [lead[l] EXCEPT !.analysis = outcome[l]]
    BY <1>2
  <1> QED
    BY <1>1, <1>3 DEF LeadType

(* A report stamps the leads it picked and puts back under review those it has *)
(* read as new.                                                                *)
LEMMA ReportMarks ==
    ASSUME LeadInv, NEW r \in Reporters, ReportCommit(r), NEW l \in Leads
    PROVE  /\ l \notin rep[r].picks => lead'[l] = lead[l]
           /\ lead'[l].events = lead[l].events
           /\ l \in rep[r].picks =>
                 /\ lead'[l].reported = rep[r].now
                 /\ lead'[l].updated = lead[l].updated
                 /\ lead'[l].status = IF l \in rep[r].wasNew THEN "reviewing" ELSE lead[l].status
  <1>1. lead[l] \in LeadType
    BY DEF LeadInv, TypeOK
  <1>2. lead'[l] = IF l \in rep[r].picks THEN Marked(r, l) ELSE lead[l]
    BY DEF ReportCommit
  <1>3. /\ Marked(r, l).reported = rep[r].now
        /\ Marked(r, l).updated = lead[l].updated
        /\ Marked(r, l).events = lead[l].events
        /\ Marked(r, l).status = IF l \in rep[r].wasNew THEN "reviewing" ELSE lead[l].status
    BY <1>1 DEF Marked, LeadType
  <1> QED
    BY <1>2, <1>3

(* A decision writes the status and nothing else. *)
LEMMA DecisionKeepsRest ==
    ASSUME LeadInv, NEW o \in Operators, StoreDecision(o), NEW l \in Leads
    PROVE  /\ l \notin Held(o) => lead'[l] = lead[l]
           /\ l \in Held(o) => lead'[l].status = op[o].target
           /\ lead'[l].updated = lead[l].updated
           /\ lead'[l].reported = lead[l].reported
           /\ lead'[l].events = lead[l].events
  <1>1. lead[l] \in LeadType
    BY DEF LeadInv, TypeOK
  <1>2. lead'[l] = IF l \in Held(o) THEN [lead[l] EXCEPT !.status = op[o].target] ELSE lead[l]
    BY DEF StoreDecision
  <1> QED
    BY <1>1, <1>2 DEF LeadType

-----------------------------------------------------------------------------
(* The copies that sessions hold, and where a status may go *)

(* No request makes a lead new again. *)
RequestsDecide == \A o \in Operators : Held(o) # {} => op[o].target # "new"

(* The rows, the requests and the reports being rendered hold statuses that    *)
(* the leads have had, and a request holds a transition from the one it read.   *)
RowsAreKept ==
    \A l \in Leads : (Exists(l) => lead[l].status \in had[l]) /\ (~Exists(l) => had[l] = {})
RequestsReadRows ==
    \A o \in Operators : \A l \in Held(o) :
        op[o].read[l] \in had[l] /\ op[o].target \in Transitions(op[o].read[l])
RendersReadRows ==
    \A r \in Reporters : rep[r].stage = "render" => \A l \in rep[r].wasNew : "new" \in had[l]

StatusInv == LeadInv /\ RowsAreKept /\ RequestsReadRows /\ RendersReadRows

LEMMA TransitionFacts ==
    /\ \A s \in Statuses \union {"none"} : "new" \notin Transitions(s)
    /\ Transitions("none") = {}
    /\ "reviewing" \in Transitions("new")
  <1>1. Transitions("none") = {} /\ "reviewing" \in Transitions("new")
    BY DEF Transitions
  <1>2. \A s \in Statuses \union {"none"} : "new" \notin Transitions(s)
    BY DEF Transitions, Statuses
  <1> QED
    BY <1>1, <1>2

(* What a request is after a step: what it was, what it has read now, or over. *)
LEMMA RequestCases ==
    ASSUME LeadInv, [Next]_vars, NEW o \in Operators
    PROVE  \/ op'[o] = op[o]
           \/ \E asked \in SUBSET Leads, target \in Statuses : Decide(o, asked, target)
           \/ StoreDecision(o)
  <1>1. op \in [Operators -> OpType]
    BY DEF LeadInv, TypeOK
  <1>2. ASSUME NEW p \in Operators, NEW asked \in SUBSET Leads, NEW target \in Statuses,
               Decide(p, asked, target), p # o
        PROVE  op'[o] = op[o]
    BY <1>1, <1>2 DEF Decide
  <1>3. ASSUME NEW p \in Operators, StoreDecision(p), p # o PROVE op'[o] = op[o]
    BY <1>1, <1>3 DEF StoreDecision
  <1> QED
    BY <1>2, <1>3, StepCases DEF MatchCommit, AnalyzeCommit, ReportCommit

(* What a request holds when it has checked its transition. *)
LEMMA DecisionFacts ==
    ASSUME LeadInv, NEW o \in Operators, NEW asked \in SUBSET Leads, NEW target \in Statuses,
           Decide(o, asked, target)
    PROVE  /\ op'[o].target = target /\ target # "new"
           /\ \A l \in Leads : op'[o].read[l] # "none" =>
                 /\ op'[o].read[l] = lead[l].status
                 /\ target \in Transitions(lead[l].status)
  <1> DEFINE picks == {l \in asked : target \in Transitions(lead[l].status)}
             f == [l \in Leads |-> IF l \in picks THEN lead[l].status ELSE "none"]
  <1>1. picks # {} /\ op' = [op EXCEPT ![o] = [read |-> f, target |-> target]]
    BY DEF Decide
  <1>2. target # "new"
    <2>1. PICK l \in Leads : target \in Transitions(lead[l].status)
      BY <1>1
    <2>2. lead[l].status \in Statuses \union {"none"}
      BY LeadFields DEF LeadInv, TypeOK
    <2> QED
      BY <2>1, <2>2, TransitionFacts
  <1>3. \A l \in Leads : f[l] # "none" => f[l] = lead[l].status /\ target \in Transitions(lead[l].status)
    OBVIOUS
  <1> HIDE DEF f
  <1>4. op'[o].read = f /\ op'[o].target = target
    BY <1>1 DEF LeadInv, TypeOK
  <1> QED
    BY <1>2, <1>3, <1>4

LEMMA RequestsDecideNext ==
    ASSUME LeadInv, RequestsDecide, [Next]_vars
    PROVE  RequestsDecide'
  <1> SUFFICES ASSUME NEW o \in Operators, Held(o)' # {} PROVE op'[o].target # "new"
    BY DEF RequestsDecide
  <1>1. CASE op'[o] = op[o]
    BY <1>1 DEF RequestsDecide, Held
  <1>2. ASSUME NEW asked \in SUBSET Leads, NEW target \in Statuses, Decide(o, asked, target)
        PROVE  op'[o].target # "new"
    BY <1>2, DecisionFacts
  <1>3. CASE StoreDecision(o)
    BY <1>3 DEF StoreDecision, NoRequest, Held, LeadInv, TypeOK
  <1> QED
    BY <1>1, <1>2, <1>3, RequestCases

LEMMA LeadsStay ==
    ASSUME LeadInv, [Next]_vars, NEW l \in Leads, Exists(l)
    PROVE  Exists(l)'
  <1>1. ASSUME NEW m \in Matchers, MatchCommit(m) PROVE Exists(l)'
    BY <1>1, CommitKeepsStatus DEF Exists
  <1>2. ASSUME NEW a \in Analyzers, AnalyzeCommit(a) PROVE Exists(l)'
    BY <1>2, AnalysisKeepsRest DEF Exists
  <1>3. ASSUME NEW r \in Reporters, ReportCommit(r) PROVE Exists(l)'
    BY <1>3, ReportMarks DEF Exists
  <1>4. ASSUME NEW o \in Operators, StoreDecision(o) PROVE Exists(l)'
    <2>1. op[o].target \in Statuses /\ "none" \notin Statuses
      BY DEF LeadInv, TypeOK, OpType, Statuses
    <2> QED
      BY <1>4, <2>1, DecisionKeepsRest DEF Exists
  <1> QED
    BY <1>1, <1>2, <1>3, <1>4, StepCases DEF Exists, Decide

(* No step forgets a status a lead has had, and each writes down the new ones. *)
LEMMA RowsStayKept ==
    ASSUME LeadInv, RowsAreKept, [Next]_vars, NEW l \in Leads
    PROVE  /\ had[l] \subseteq had'[l]
           /\ Exists(l)' => lead'[l].status \in had'[l]
           /\ ~Exists(l)' => had'[l] = {}
  <1>1. Exists(l) => Exists(l)'
    BY LeadsStay
  <1>2. \/ had'[l] = had[l] /\ lead'[l].status = lead[l].status
        \/ had'[l] = had[l] \union ({lead'[l].status} \ {"none"})
    <2>1. ASSUME NEW m \in Matchers, MatchCommit(m)
          PROVE  had'[l] = had[l] \union ({lead'[l].status} \ {"none"})
      BY <2>1 DEF MatchCommit, Remember
    <2>2. ASSUME NEW a \in Analyzers, AnalyzeCommit(a)
          PROVE  had'[l] = had[l] /\ lead'[l].status = lead[l].status
      BY <2>2, AnalysisKeepsRest DEF AnalyzeCommit, history
    <2>3. ASSUME NEW r \in Reporters, ReportCommit(r)
          PROVE  had'[l] = had[l] \union ({lead'[l].status} \ {"none"})
      BY <2>3 DEF ReportCommit, Remember
    <2>4. ASSUME NEW o \in Operators, NEW asked \in SUBSET Leads, NEW target \in Statuses,
                 Decide(o, asked, target)
          PROVE  had'[l] = had[l] /\ lead'[l].status = lead[l].status
      BY <2>4 DEF Decide, history
    <2>5. ASSUME NEW o \in Operators, StoreDecision(o)
          PROVE  had'[l] = had[l] \union ({lead'[l].status} \ {"none"})
      BY <2>5 DEF StoreDecision, Remember
    <2>6. CASE UNCHANGED <<lead, op, history>>
      BY <2>6 DEF history
    <2> QED
      BY <2>1, <2>2, <2>3, <2>4, <2>5, <2>6, StepCases
  <1>3. (Exists(l) => lead[l].status \in had[l]) /\ (~Exists(l) => had[l] = {})
    BY DEF RowsAreKept
  <1> QED
    BY <1>1, <1>2, <1>3 DEF Exists

LEMMA RequestsReadNext ==
    ASSUME StatusInv, [Next]_vars
    PROVE  RequestsReadRows'
  <1> SUFFICES ASSUME NEW o \in Operators, NEW l \in Leads, op'[o].read[l] # "none"
               PROVE  op'[o].read[l] \in had'[l] /\ op'[o].target \in Transitions(op'[o].read[l])
    BY DEF RequestsReadRows, Held
  <1>1. had[l] \subseteq had'[l] /\ LeadInv
    BY RowsStayKept DEF StatusInv
  <1>2. CASE op'[o] = op[o]
    BY <1>1, <1>2 DEF StatusInv, RequestsReadRows, Held
  <1>3. ASSUME NEW asked \in SUBSET Leads, NEW target \in Statuses, Decide(o, asked, target)
        PROVE  op'[o].read[l] \in had'[l] /\ op'[o].target \in Transitions(op'[o].read[l])
    <2>1. /\ op'[o].read[l] = lead[l].status /\ op'[o].target \in Transitions(lead[l].status)
      BY <1>1, <1>3, DecisionFacts
    <2>2. lead[l].status \in had[l]
      BY <2>1, TransitionFacts DEF StatusInv, RowsAreKept, Exists
    <2> QED
      BY <1>1, <2>1, <2>2
  <1>4. CASE StoreDecision(o)
    BY <1>1, <1>4 DEF StoreDecision, NoRequest, LeadInv, TypeOK
  <1> QED
    BY <1>1, <1>2, <1>3, <1>4, RequestCases

(* What is rendered was read by the last Select. *)
LEMMA OnlySelectRenders ==
    ASSUME LeadInv, NEW r \in Reporters, Beat(r) \/ ReportStep(r) \/ ReporterCrash(r)
    PROVE  Select(r) \/ rep'[r].stage # "render"
  <1>1. rep[r] \in RepType /\ rep \in [Reporters -> RepType]
    BY DEF LeadInv, TypeOK
  <1>2. CASE Beat(r) \/ ReporterCrash(r)
    BY <1>1, <1>2 DEF Beat, ReporterCrash, ReporterMoves, NoReport
  <1>3. CASE Defer(r) \/ GenerationFails(r)
    <2>2. CASE Defer(r)
      <3> DEFINE p == [rep[r] EXCEPT !.deferrals = @ + 1]
      <3>1. Retried(r, p).stage \in {"guard", "failed"}
        BY <1>1 DEF Retried, RepType
      <3>2. rep' = [rep EXCEPT ![r] = Retried(r, p)]
        BY <2>2 DEF Defer, ReporterMoves
      <3> DEFINE q == Retried(r, p)
      <3> HIDE DEF q
      <3>3. rep'[r] = q
        BY <1>1, <3>2 DEF q
      <3>4. q.stage \in {"guard", "failed"}
        BY <3>1 DEF q
      <3> QED
        BY <3>3, <3>4
    <2>3. CASE GenerationFails(r)
      <3> DEFINE p == [NoReport EXCEPT !.stage = "failed", !.retries = rep[r].retries,
                                       !.deferrals = rep[r].deferrals,
                                       !.failures = rep[r].failures + 1]
      <3>1. Retried(r, p).stage \in {"guard", "failed"} /\ p.stage = "failed"
        BY DEF Retried, NoReport
      <3>2. \/ rep' = [rep EXCEPT ![r] = Retried(r, p)]
            \/ rep' = [rep EXCEPT ![r] = p]
        BY <2>3 DEF GenerationFails, ReporterMoves
      <3> QED
        BY <1>1, <3>1, <3>2
    <2> QED
      BY <1>3, <2>2, <2>3
  <1>4. CASE PassGuard(r) \/ ReportCommit(r)
    BY <1>1, <1>4 DEF PassGuard, ReportCommit, ReporterMoves, RepType
  <1>5. CASE LoadRecipients(r)
    <2>1. PICK q \in {[rep[r] EXCEPT !.stage = "mail"], NoReport} : ReporterMoves(r, q)
      BY <1>5 DEF LoadRecipients
    <2>2. q.stage \in {"mail", "idle"}
      BY <1>1, <2>1 DEF NoReport, RepType
    <2> QED
      BY <1>1, <2>1, <2>2 DEF ReporterMoves
  <1>6. CASE Mail(r)
    <2>1. NextTry(r).stage # "render"
      BY <1>1, <1>6 DEF NextTry, Mail, NoReport, RepType
    <2>2. PICK q : q \in {NextTry(r), NoReport} /\ ReporterMoves(r, q)
      BY <1>6 DEF Mail
    <2> QED
      BY <1>1, <2>1, <2>2 DEF ReporterMoves, NoReport
  <1> QED
    BY <1>2, <1>3, <1>4, <1>5, <1>6 DEF ReportStep

(* A report being rendered was being rendered, or has just selected. *)
LEMMA RenderCases ==
    ASSUME LeadInv, [Next]_vars, NEW r \in Reporters, rep'[r].stage = "render"
    PROVE  rep'[r] = rep[r] \/ Select(r)
  <1>1. rep \in [Reporters -> RepType]
    BY DEF LeadInv, TypeOK
  <1>2. ASSUME NEW q \in Reporters, Beat(q) \/ ReportStep(q) \/ ReporterCrash(q), q # r
        PROVE  rep'[r] = rep[r]
    BY <1>1, <1>2 DEF ReportStep, Beat, Defer, PassGuard, Select, GenerationFails, ReportCommit,
                      LoadRecipients, Mail, ReporterCrash, ReporterMoves
  <1>3. ASSUME NEW m \in Matchers, MatchStep(m) \/ MatcherCrash(m) PROVE rep' = rep
    BY <1>3 DEF MatchStep, MatchStart, MatchEvent, MatchSkips, MatchCommit, MatchFails, MatchDone,
                MatcherCrash, MatcherMoves
  <1>4. ASSUME NEW a \in Analyzers, AnalyzeStep(a) PROVE rep' = rep
    BY <1>4 DEF AnalyzeStep, AnalyzeStart, AnalyzeCommit, AnalyzeFails
  <1>5. CASE UNCHANGED vars
    BY <1>5 DEF vars, tasks
  <1> QED
    BY <1>2, <1>3, <1>4, <1>5, OnlySelectRenders DEF Next, Decide, StoreDecision

LEMMA RendersReadNext ==
    ASSUME StatusInv, [Next]_vars
    PROVE  RendersReadRows'
  <1> SUFFICES ASSUME NEW r \in Reporters, rep'[r].stage = "render", NEW l \in rep'[r].wasNew
               PROVE  "new" \in had'[l]
    BY DEF RendersReadRows
  <1>1. LeadInv /\ rep[r] \in RepType /\ rep \in [Reporters -> RepType]
    BY DEF StatusInv, LeadInv, TypeOK
  <1>2. CASE rep'[r] = rep[r]
    <2>1. "new" \in had[l] /\ l \in Leads
      BY <1>1, <1>2, ReportFields DEF StatusInv, RendersReadRows
    <2> QED
      BY <2>1, RowsStayKept DEF StatusInv
  <1>3. CASE Select(r)
    <2> DEFINE picks == {k \in Leads : Reportable(k) /\ Rendered(k)}
               f == [k \in Leads |-> IF k \in picks THEN matched[k] ELSE {}]
    <2>1. rep'[r] = IF picks = {} THEN NoReport
                    ELSE [rep[r] EXCEPT !.stage = "render", !.picks = picks,
                            !.wasNew = {k \in picks : lead[k].status = "new"},
                            !.seen = f, !.now = clock + 1]
      BY <1>1, <1>3 DEF Select, ReporterMoves
    <2> HIDE DEF f
    <2>2. rep'[r].wasNew \in {{}, {k \in picks : lead[k].status = "new"}}
      BY <1>1, <2>1 DEF NoReport, RepType
    <2>3. l \in Leads /\ lead[l].status = "new"
      BY <2>2
    <2>4. "new" \in had[l]
      BY <2>3 DEF StatusInv, RowsAreKept, Exists
    <2> QED
      BY <2>3, <2>4, RowsStayKept DEF StatusInv
  <1> QED
    BY <1>1, <1>2, <1>3, RenderCases

LEMMA StatusInvInit == Init => StatusInv
  <1>1. Init => RowsAreKept
    BY DEF Init, RowsAreKept, Exists, NoLead
  <1>2. Init => RequestsReadRows
    BY DEF Init, RequestsReadRows, Held, NoRequest
  <1>3. Init => RendersReadRows
    BY DEF Init, RendersReadRows, NoReport
  <1> QED
    BY <1>1, <1>2, <1>3, InitInv DEF StatusInv

LEMMA StatusInvNext == StatusInv /\ [Next]_vars => StatusInv'
  <1> SUFFICES ASSUME StatusInv, [Next]_vars PROVE StatusInv'
    OBVIOUS
  <1>1. RowsAreKept'
    BY RowsStayKept DEF StatusInv, RowsAreKept
  <1>2. LeadInv'
    BY NextInv DEF StatusInv
  <1> QED
    BY <1>1, <1>2, RequestsReadNext, RendersReadNext DEF StatusInv

LEMMA StatusStep ==
    ASSUME StatusInv, [Next]_vars, NEW l \in Leads, Exists(l), lead'[l].status # lead[l].status
    PROVE  \/ lead'[l].status \in Transitions(lead[l].status)
           \/ Contested(l) /\ \E seen \in had[l] : lead'[l].status \in Transitions(seen)
  <1>1. LeadInv
    BY DEF StatusInv
  <1>2. ~\E m \in Matchers : MatchCommit(m)
    BY <1>1, CommitKeepsStatus
  <1>3. ~\E a \in Analyzers : AnalyzeCommit(a)
    BY <1>1, AnalysisKeepsRest
  <1>4. ASSUME NEW r \in Reporters, ReportCommit(r)
        PROVE  \/ lead'[l].status \in Transitions(lead[l].status)
               \/ Contested(l) /\ \E seen \in had[l] : lead'[l].status \in Transitions(seen)
    <2>1. l \in rep[r].wasNew /\ lead'[l].status = "reviewing" /\ rep[r].stage = "render"
      BY <1>1, <1>4, ReportMarks DEF ReportCommit
    <2>2. "new" \in had[l] /\ "reviewing" \in Transitions("new")
      BY <2>1, TransitionFacts DEF StatusInv, RendersReadRows
    <2>3. lead[l].status = "new" \/ Contested(l)
      BY <2>1 DEF Contested
    <2> QED
      BY <2>1, <2>2, <2>3
  <1>5. ASSUME NEW o \in Operators, StoreDecision(o)
        PROVE  \/ lead'[l].status \in Transitions(lead[l].status)
               \/ Contested(l) /\ \E seen \in had[l] : lead'[l].status \in Transitions(seen)
    <2>1. l \in Held(o) /\ lead'[l].status = op[o].target
      BY <1>1, <1>5, DecisionKeepsRest
    <2>2. op[o].read[l] \in had[l] /\ op[o].target \in Transitions(op[o].read[l])
      BY <2>1 DEF StatusInv, RequestsReadRows
    <2>3. lead[l].status = op[o].read[l] \/ Contested(l)
      BY <2>1 DEF Contested, Held
    <2> QED
      BY <2>1, <2>2, <2>3
  <1> QED
    BY <1>2, <1>3, <1>4, <1>5, StepCases DEF Decide

LEMMA EventsStep ==
    ASSUME StatusInv, [Next]_vars, NEW l \in Leads
    PROVE  /\ Exists(l) => lead'[l].events = lead[l].events
           /\ ~Exists(l) /\ lead'[l].status # "none" =>
                 \E e \in Events : LeadOf[e] = l /\ lead'[l].events = {e}
  <1>1. LeadInv /\ (~Exists(l) => had[l] = {})
    BY DEF StatusInv, RowsAreKept
  <1>2. ASSUME lead'[l].events = lead[l].events, ~Exists(l) => lead'[l].status = lead[l].status
        PROVE  /\ Exists(l) => lead'[l].events = lead[l].events
               /\ ~Exists(l) /\ lead'[l].status # "none" =>
                     \E e \in Events : LeadOf[e] = l /\ lead'[l].events = {e}
    BY <1>2 DEF Exists
  <1>3. ASSUME NEW m \in Matchers, MatchCommit(m)
        PROVE  /\ Exists(l) => lead'[l].events = lead[l].events
               /\ ~Exists(l) /\ lead'[l].status # "none" =>
                     \E e \in Events : LeadOf[e] = l /\ lead'[l].events = {e}
    <2>1. CASE EventsOf(m, l) = {} \/ l \notin match[m].creates
      BY <1>1, <1>2, <1>3, <2>1, CommitKeepsStatus
    <2>2. CASE EventsOf(m, l) # {} /\ l \in match[m].creates
      <3>1. ~Exists(l)
        BY <1>3, <2>2 DEF MatchCommit, Conflicts
      <3>2. lead'[l].events = FirstOf(match[m], l)
        BY <1>1, <1>3, <2>2, CommitKeepsStatus
      <3>3. \E e \in Events : LeadOf[e] = l /\ FirstOf(match[m], l) = {e}
        BY <1>1, <2>2 DEF LeadInv, BatchesOpenLeads, Opens
      <3> QED
        BY <3>1, <3>2, <3>3
    <2> QED
      BY <2>1, <2>2
  <1>4. ASSUME NEW a \in Analyzers, AnalyzeCommit(a)
        PROVE  lead'[l].events = lead[l].events /\ lead'[l].status = lead[l].status
    BY <1>1, <1>4, AnalysisKeepsRest
  <1>5. ASSUME NEW r \in Reporters, ReportCommit(r)
        PROVE  lead'[l].events = lead[l].events /\ (~Exists(l) => lead'[l].status = lead[l].status)
    <2>1. ~Exists(l) => l \notin rep[r].wasNew
      BY <1>1, <1>5 DEF StatusInv, RendersReadRows, ReportCommit
    <2> QED
      BY <1>1, <1>5, <2>1, ReportMarks
  <1>6. ASSUME NEW o \in Operators, StoreDecision(o)
        PROVE  lead'[l].events = lead[l].events /\ (~Exists(l) => lead'[l].status = lead[l].status)
    <2>1. ~Exists(l) => l \notin Held(o)
      BY <1>1 DEF StatusInv, RequestsReadRows
    <2> QED
      BY <1>1, <1>6, <2>1, DecisionKeepsRest
  <1>7. lead' = lead => lead'[l].events = lead[l].events /\ lead'[l].status = lead[l].status
    OBVIOUS
  <1> QED
    BY <1>2, <1>3, <1>4, <1>5, <1>6, <1>7, StepCases DEF Decide

(* For any number of operators: the status of a lead moves along               *)
(* _STATUS_TRANSITIONS, or a session that another commit has overtaken moves   *)
(* it to where they lead from a status the lead has had.                       *)
THEOREM StatusesFollowTransitions == Spec => StatusMovesLegal
  <1> DEFINE A == \A l \in Leads : Exists(l) /\ lead'[l].status # lead[l].status =>
                     \/ lead'[l].status \in Transitions(lead[l].status)
                     \/ Contested(l) /\ \E seen \in had[l] : lead'[l].status \in Transitions(seen)
  <1>1. StatusInv /\ [Next]_vars => A
    BY StatusStep
  <1> HIDE DEF A
  <1>2. Spec => [][A]_vars
    BY <1>1, StatusInvInit, StatusInvNext, PTL DEF Spec
  <1> QED
    BY <1>2 DEF StatusMovesLegal, A

(* Of any number of batches that race to create a lead one writes its event,   *)
(* and event_ids never changes again.                                          *)
THEOREM FirstEventsStay == Spec => LeadsKeepTheirFirstEvent
  <1> DEFINE A == \A l \in Leads :
                     /\ Exists(l) => lead'[l].events = lead[l].events
                     /\ ~Exists(l) /\ lead'[l].status # "none" =>
                           \E e \in Events : LeadOf[e] = l /\ lead'[l].events = {e}
  <1>1. StatusInv /\ [Next]_vars => A
    BY EventsStep
  <1> HIDE DEF A
  <1>2. Spec => [][A]_vars
    BY <1>1, StatusInvInit, StatusInvNext, PTL DEF Spec
  <1> QED
    BY <1>2 DEF LeadsKeepTheirFirstEvent, A

-----------------------------------------------------------------------------
(* What a report shows, with one report at a time and no event matched twice *)

OneReport == \A r, q \in Reporters : r = q
BatchesAreDisjoint == \A m, n \in Matchers : m # n => BatchOf[m] \cap BatchOf[n] = {}

(* A batch whose worker dies after its commit, before the next task is sent,  *)
(* is matched again: its events are not new any more.                         *)
NoRematch == [][\A m \in Matchers : MatcherCrash(m) => match[m].stage = "matching"]_vars

(* What has been shown was matched; a lead has new evidence while it is new    *)
(* and whenever its stamp is later than its last report.                       *)
HasEvidence(l) ==
    /\ shown[l] \subseteq matched[l]
    /\ ~Exists(l) => matched[l] = {}
    /\ lead[l].status = "new" => shown[l] = {} /\ matched[l] # {}
    /\ lead[l].updated <= clock
    /\ lead[l].reported # 0 /\ lead[l].updated > lead[l].reported => ~(matched[l] \subseteq shown[l])
LeadsHaveEvidence == \A l \in Leads : HasEvidence(l)

(* The events of a batch are not matched before it commits. *)
NewBatch(m) ==
    /\ match[m].got \subseteq BatchOf[m] /\ match[m].todo \subseteq BatchOf[m]
    /\ \A l \in Leads : match[m].stamp[l] <= clock
    /\ match[m].stage \in {"queued", "matching"} => \A l \in Leads : matched[l] \cap BatchOf[m] = {}
    /\ match[m].stage = "matching" =>
          \A e \in match[m].got : Exists(LeadOf[e]) \/ LeadOf[e] \in match[m].creates
BatchesAreNew == \A m \in Matchers : NewBatch(m)

(* A report being rendered shows each lead with evidence that was not shown,   *)
(* and what is matched meanwhile will be new to the next one.                  *)
NewsOf(r, l) ==
    /\ rep[r].seen[l] \subseteq matched[l]
    /\ l \notin rep[r].picks => rep[r].seen[l] = {}
    /\ l \in rep[r].picks =>
          /\ ~(rep[r].seen[l] \subseteq shown[l])
          /\ Exists(l)
          /\ l \notin rep[r].wasNew => lead[l].status # "new"
          /\ lead[l].updated > rep[r].now => ~(matched[l] \subseteq shown[l] \union rep[r].seen[l])
RendersAreNews == \A r \in Reporters : rep[r].stage = "render" => \A l \in Leads : NewsOf(r, l)

NewsInv == LeadInv /\ RequestsDecide /\ LeadsHaveEvidence /\ BatchesAreNew /\ RendersAreNews

LEMMA NewsInit == Init => NewsInv
  <1> SUFFICES ASSUME Init PROVE NewsInv
    OBVIOUS
  <1>1. LeadInv /\ RequestsDecide
    BY InitInv DEF Init, RequestsDecide, Held, NoRequest
  <1>2. LeadsHaveEvidence
    BY DEF Init, LeadsHaveEvidence, HasEvidence, NoLead, Exists
  <1>3. BatchesAreNew
    BY DEF Init, BatchesAreNew, NewBatch, NoMatch
  <1>4. RendersAreNews
    BY DEF Init, RendersAreNews, NoReport
  <1> QED
    BY <1>1, <1>2, <1>3, <1>4 DEF NewsInv

(* Time goes on. *)
LEMMA ClockGoesOn ==
    ASSUME LeadInv, [Next]_vars
    PROVE  clock \in Nat /\ clock' \in Nat /\ clock <= clock'
  <1>1. clock \in Nat /\ clock' \in Nat
    BY NextInv DEF LeadInv, TypeOK, Times
  <1>2. clock' = clock \/ clock' = clock + 1
    <2>1. ASSUME NEW m \in Matchers, MatchStep(m) \/ MatcherCrash(m)
          PROVE  clock' = clock \/ clock' = clock + 1
      BY <2>1 DEF MatchStep, MatchStart, MatchEvent, MatchSkips, MatchCommit, MatchFails, MatchDone,
                  MatcherCrash
    <2>2. ASSUME NEW a \in Analyzers, AnalyzeStep(a)
          PROVE  clock' = clock \/ clock' = clock + 1
      BY <2>2 DEF AnalyzeStep, AnalyzeStart, AnalyzeCommit, AnalyzeFails
    <2>3. ASSUME NEW r \in Reporters, Beat(r) \/ ReportStep(r) \/ ReporterCrash(r)
          PROVE  clock' = clock \/ clock' = clock + 1
      BY <2>3 DEF ReportStep, Beat, Defer, PassGuard, Select, GenerationFails, ReportCommit,
                  LoadRecipients, Mail, ReporterCrash
    <2>4. CASE UNCHANGED vars
      BY <2>4 DEF vars
    <2> QED
      BY <2>1, <2>2, <2>3, <2>4 DEF Next, Decide, StoreDecision
  <1> QED
    BY <1>1, <1>2

(* The events a commit attaches are its batch's, and new. *)
LEMMA CommitIsNew ==
    ASSUME NewsInv, NEW m \in Matchers, MatchCommit(m), NEW l \in Leads
    PROVE  /\ matched'[l] = matched[l] \union EventsOf(m, l)
           /\ EventsOf(m, l) \subseteq BatchOf[m]
           /\ EventsOf(m, l) \cap matched[l] = {}
           /\ shown'[l] = shown[l]
  <1>1. match[m].got \subseteq BatchOf[m] /\ matched[l] \cap BatchOf[m] = {}
    BY DEF NewsInv, BatchesAreNew, NewBatch, MatchCommit
  <1>2. EventsOf(m, l) \subseteq match[m].got
    BY DEF EventsOf
  <1> QED
    BY <1>1, <1>2 DEF MatchCommit

-----------------------------------------------------------------------------
(* Batches stay new *)

(* A batch that does not move stays new. *)
LEMMA OtherBatch ==
    ASSUME NewsInv, [Next]_vars, NEW m \in Matchers, match'[m] = match[m],
           match[m].stage \in {"queued", "matching"} => \A l \in Leads : matched'[l] \cap BatchOf[m] = {}
    PROVE  NewBatch(m)'
  <1>1. NewBatch(m) /\ LeadInv
    BY DEF NewsInv, BatchesAreNew
  <1>2. match[m].got \subseteq Events /\ match[m].stamp \in [Leads -> Nat]
    BY <1>1, MatchFields DEF LeadInv, TypeOK
  <1>3. \A e \in match[m].got : Exists(LeadOf[e]) => Exists(LeadOf[e])'
    BY <1>1, <1>2, LeadsStay, EveryEventHasALead
  <1>4. \A l \in Leads : match[m].stamp[l] <= clock'
    BY <1>1, <1>2, ClockGoesOn DEF NewBatch
  <1> QED
    BY <1>1, <1>3, <1>4 DEF NewBatch

LEMMA OwnBatch ==
    ASSUME NewsInv, [Next]_vars, NEW m \in Matchers, MatchStep(m) \/ MatcherCrash(m),
           MatcherCrash(m) => match[m].stage = "matching"
    PROVE  NewBatch(m)'
  <1>1. NewBatch(m) /\ LeadInv /\ match[m] \in MatchType
    BY DEF NewsInv, BatchesAreNew, LeadInv, TypeOK
  <1>2. CASE MatchStart(m)
    <2>1. /\ match'[m].got = {} /\ match'[m].todo = BatchOf[m]
          /\ match'[m].stage = "matching"
          /\ \A l \in Leads : match'[m].stamp[l] = 0
      BY <1>1, <1>2 DEF MatchStart, MatcherMoves, NoMatch, LeadInv, TypeOK
    <2>2. match[m].stage = "queued" /\ matched' = matched
      BY <1>2 DEF MatchStart, MatcherMoves, history
    <2>3. \A l \in Leads : match'[m].stamp[l] <= clock'
      BY <1>1, <2>1, ClockGoesOn
    <2> QED
      BY <1>1, <2>1, <2>2, <2>3 DEF NewBatch
  <1>3. CASE MatchEvent(m)
    <2>1. PICK e \in match[m].todo :
            MatcherMoves(m, [match[m] EXCEPT
                !.todo = @ \ {e}, !.got = @ \union {e}, !.stamp[LeadOf[e]] = clock + 1,
                !.creates = IF ~Exists(LeadOf[e]) /\ LeadOf[e] \notin match[m].creates
                            THEN @ \union {LeadOf[e]} ELSE @,
                !.first = IF ~Exists(LeadOf[e]) /\ LeadOf[e] \notin match[m].creates
                          THEN @ \union {e} ELSE @])
      BY <1>3 DEF MatchEvent
    <2>2. /\ match'[m].todo = match[m].todo \ {e}
          /\ match'[m].got = match[m].got \union {e}
          /\ match'[m].stage = match[m].stage
          /\ match'[m].stamp = [match[m].stamp EXCEPT ![LeadOf[e]] = clock + 1]
          /\ match'[m].creates = IF ~Exists(LeadOf[e]) /\ LeadOf[e] \notin match[m].creates
                                 THEN match[m].creates \union {LeadOf[e]} ELSE match[m].creates
      BY <1>1, <2>1 DEF MatcherMoves, MatchType, LeadInv, TypeOK
    <2>3. matched' = matched /\ lead' = lead /\ clock' = clock + 1 /\ match[m].stage = "matching"
      BY <1>3, <2>1 DEF MatchEvent, MatcherMoves, history
    <2>4. \A l \in Leads : match'[m].stamp[l] <= clock'
      BY <1>1, <2>2, <2>3, MatchFields, ClockGoesOn DEF NewBatch
    <2>5. \A f \in match'[m].got : Exists(LeadOf[f])' \/ LeadOf[f] \in match'[m].creates
      BY <1>1, <2>2, <2>3 DEF NewBatch, Exists
    <2>6. match'[m].got \subseteq BatchOf[m] /\ match'[m].todo \subseteq BatchOf[m]
      BY <1>1, <2>1, <2>2 DEF NewBatch
    <2> QED
      BY <1>1, <2>2, <2>3, <2>4, <2>5, <2>6 DEF NewBatch
  <1>4. CASE MatchSkips(m)
    <2>1. PICK e \in match[m].todo : MatcherMoves(m, [match[m] EXCEPT !.todo = @ \ {e}])
      BY <1>4 DEF MatchSkips
    <2>2. /\ match'[m].todo = match[m].todo \ {e} /\ match'[m].got = match[m].got
          /\ match'[m].stage = match[m].stage /\ match'[m].stamp = match[m].stamp
          /\ match'[m].creates = match[m].creates
      BY <1>1, <2>1 DEF MatcherMoves, MatchType, LeadInv, TypeOK
    <2>3. matched' = matched /\ lead' = lead /\ clock' = clock
      BY <1>4, <2>1 DEF MatchSkips, MatcherMoves, history
    <2> QED
      BY <1>1, <2>2, <2>3 DEF NewBatch, Exists
  <1>5. CASE MatchCommit(m)
    <2>1. /\ match'[m].todo = match[m].todo /\ match'[m].got = match[m].got
          /\ match'[m].stage = "dispatch" /\ match'[m].stamp = match[m].stamp
      BY <1>1, <1>5 DEF MatchCommit, MatchType, LeadInv, TypeOK
    <2>2. clock' = clock
      BY <1>5 DEF MatchCommit
    <2> QED
      BY <1>1, <2>1, <2>2 DEF NewBatch
  <1>6. CASE MatchFails(m) \/ MatcherCrash(m)
    <2>1. /\ match'[m].todo = {} /\ match'[m].got = {}
          /\ match'[m].stage # "matching"
          /\ \A l \in Leads : match'[m].stamp[l] = 0
      BY <1>1, <1>6 DEF MatchFails, MatcherCrash, MatcherMoves, NoMatch, LeadInv, TypeOK
    <2>2. match[m].stage = "matching" /\ matched' = matched
      BY <1>6 DEF MatchFails, MatcherCrash, MatcherMoves, history
    <2>3. \A l \in Leads : match'[m].stamp[l] <= clock'
      BY <1>1, <2>1, ClockGoesOn
    <2> QED
      BY <1>1, <2>1, <2>2, <2>3 DEF NewBatch
  <1>7. CASE MatchDone(m)
    <2>1. /\ match'[m].todo = match[m].todo /\ match'[m].got = match[m].got
          /\ match'[m].stage = "done" /\ match'[m].stamp = match[m].stamp
      BY <1>1, <1>7 DEF MatchDone, MatchType, LeadInv, TypeOK
    <2>2. clock' = clock
      BY <1>7 DEF MatchDone
    <2> QED
      BY <1>1, <2>1, <2>2 DEF NewBatch
  <1> QED
    BY <1>2, <1>3, <1>4, <1>5, <1>6, <1>7 DEF MatchStep

(* What only a batch's own steps change. *)
LEMMA OtherSteps ==
    ASSUME [Next]_vars, ~\E m \in Matchers : MatchStep(m) \/ MatcherCrash(m)
    PROVE  match' = match /\ matched' = matched
  <1>1. ASSUME NEW a \in Analyzers, AnalyzeStep(a) PROVE match' = match /\ matched' = matched
    BY <1>1 DEF AnalyzeStep, AnalyzeStart, AnalyzeCommit, AnalyzeFails, history
  <1>2. ASSUME NEW r \in Reporters, Beat(r) \/ ReportStep(r) \/ ReporterCrash(r)
        PROVE  match' = match /\ matched' = matched
    BY <1>2 DEF ReportStep, Beat, Defer, PassGuard, Select, GenerationFails, ReportCommit,
                LoadRecipients, Mail, ReporterCrash, ReporterMoves, history
  <1>3. CASE UNCHANGED vars
    BY <1>3 DEF vars, tasks, history
  <1> QED
    BY <1>1, <1>2, <1>3 DEF Next, Decide, StoreDecision, history

LEMMA BatchesStayNew ==
    ASSUME BatchesAreDisjoint, NewsInv, [Next]_vars,
           \A m \in Matchers : MatcherCrash(m) => match[m].stage = "matching"
    PROVE  BatchesAreNew'
  <1> SUFFICES ASSUME NEW n \in Matchers PROVE NewBatch(n)'
    BY DEF BatchesAreNew
  <1>1. NewBatch(n) /\ match \in [Matchers -> MatchType] /\ matched \in [Leads -> SUBSET Events]
    BY DEF NewsInv, BatchesAreNew, LeadInv, TypeOK
  <1>2. ASSUME NEW m \in Matchers, m # n, MatchStep(m) \/ MatcherCrash(m)
        PROVE  NewBatch(n)'
    <2>1. match'[n] = match[n]
      BY <1>1, <1>2 DEF MatchStep, MatchStart, MatchEvent, MatchSkips, MatchCommit, MatchFails,
                        MatchDone, MatcherCrash, MatcherMoves
    <2>2. CASE MatchCommit(m)
      <3>1. \A l \in Leads : EventsOf(m, l) \cap BatchOf[n] = {}
        BY <1>2, <2>2, CommitIsNew DEF BatchesAreDisjoint
      <3>2. \A l \in Leads : matched'[l] = matched[l] \union EventsOf(m, l)
        BY <2>2, CommitIsNew
      <3> QED
        BY <1>1, <2>1, <3>1, <3>2, OtherBatch DEF NewBatch
    <2>3. CASE ~MatchCommit(m)
      <3>1. matched' = matched
        BY <1>2, <2>3 DEF MatchStep, MatchStart, MatchEvent, MatchSkips, MatchFails, MatchDone,
                          MatcherCrash, MatcherMoves, history
      <3> QED
        BY <1>1, <2>1, <3>1, OtherBatch DEF NewBatch
    <2> QED
      BY <2>2, <2>3
  <1>3. CASE MatchStep(n) \/ MatcherCrash(n)
    BY <1>3, OwnBatch
  <1>4. CASE ~\E m \in Matchers : MatchStep(m) \/ MatcherCrash(m)
    <2>1. match' = match /\ matched' = matched
      BY <1>4, OtherSteps
    <2> QED
      BY <1>1, <2>1, OtherBatch DEF NewBatch
  <1> QED
    BY <1>2, <1>3, <1>4

-----------------------------------------------------------------------------
(* Leads keep their evidence *)

LEMMA EvidenceAfterMatch ==
    ASSUME NewsInv, [Next]_vars, NEW m \in Matchers, MatchCommit(m), NEW l \in Leads
    PROVE  HasEvidence(l)'
  <1>1. HasEvidence(l) /\ LeadInv /\ NewBatch(m) /\ match[m] \in MatchType
        /\ match[m].stage = "matching"
    BY DEF NewsInv, LeadsHaveEvidence, BatchesAreNew, LeadInv, TypeOK, MatchCommit
  <1>2. clock' = clock /\ shown'[l] = shown[l]
    BY DEF MatchCommit
  <1>3. CASE EventsOf(m, l) = {}
    <2>1. lead'[l] = lead[l]
      BY <1>1, <1>3, CommitKeepsStatus
    <2>2. matched'[l] = matched[l]
      BY <1>3, CommitIsNew
    <2> QED
      BY <1>1, <1>2, <2>1, <2>2 DEF HasEvidence, Exists
  <1>4. CASE EventsOf(m, l) # {}
    <2>1. matched'[l] = matched[l] \union EventsOf(m, l) /\ EventsOf(m, l) \cap matched[l] = {}
      BY CommitIsNew
    <2>2. shown'[l] \subseteq matched'[l] /\ ~(matched'[l] \subseteq shown'[l])
      BY <1>1, <1>2, <1>4, <2>1 DEF HasEvidence
    <2>3. Exists(l)'
      <3>1. PICK e \in match[m].got : LeadOf[e] = l
        BY <1>4 DEF EventsOf
      <3>2. Exists(l) \/ l \in match[m].creates
        BY <1>1, <3>1 DEF NewBatch
      <3>3. CASE l \in match[m].creates
        BY <1>1, <1>4, <3>3, CommitKeepsStatus DEF Exists
      <3>4. CASE Exists(l)
        BY <1>1, <3>4, LeadsStay
      <3> QED
        BY <3>2, <3>3, <3>4
    <2>4. lead'[l].status = "new" => shown'[l] = {}
      <3>1. CASE Exists(l)
        BY <1>1, <1>2, <3>1, CommitKeepsStatus DEF HasEvidence
      <3>2. CASE ~Exists(l)
        BY <1>1, <1>2, <3>2 DEF HasEvidence
      <3> QED
        BY <3>1, <3>2
    <2>5. lead'[l].updated <= clock'
      BY <1>1, <1>2, <1>4, CommitKeepsStatus DEF NewBatch
    <2> QED
      BY <2>2, <2>3, <2>4, <2>5 DEF HasEvidence
  <1> QED
    BY <1>3, <1>4

LEMMA EvidenceAfterReport ==
    ASSUME NewsInv, NEW r \in Reporters, ReportCommit(r), NEW l \in Leads
    PROVE  HasEvidence(l)'
  <1>1. HasEvidence(l) /\ NewsOf(r, l) /\ LeadInv
    BY DEF NewsInv, LeadsHaveEvidence, RendersAreNews, ReportCommit
  <1>2. /\ clock' = clock /\ matched' = matched
        /\ shown'[l] = shown[l] \union rep[r].seen[l]
    BY DEF ReportCommit
  <1>3. CASE l \notin rep[r].picks
    <2>1. lead'[l] = lead[l]
      BY <1>1, <1>3, ReportMarks
    <2> QED
      BY <1>1, <1>2, <1>3, <2>1 DEF HasEvidence, NewsOf, Exists
  <1>4. CASE l \in rep[r].picks
    <2>1. /\ lead'[l].reported = rep[r].now /\ lead'[l].updated = lead[l].updated
          /\ lead'[l].status = IF l \in rep[r].wasNew THEN "reviewing" ELSE lead[l].status
      BY <1>1, <1>4, ReportMarks
    <2> QED
      BY <1>1, <1>2, <1>4, <2>1 DEF HasEvidence, NewsOf, Exists
  <1> QED
    BY <1>3, <1>4

LEMMA EvidenceStays ==
    ASSUME NewsInv, [Next]_vars
    PROVE  LeadsHaveEvidence'
  <1> SUFFICES ASSUME NEW l \in Leads PROVE HasEvidence(l)'
    BY DEF LeadsHaveEvidence
  <1>1. HasEvidence(l) /\ LeadInv /\ lead[l] \in LeadType
    BY DEF NewsInv, LeadsHaveEvidence, LeadInv, TypeOK
  <1>2. /\ lead[l].updated \in Nat /\ lead[l].updated <= clock'
    BY <1>1, LeadFields, ClockGoesOn DEF HasEvidence
  <1>3. ASSUME UNCHANGED <<lead, history>> PROVE HasEvidence(l)'
    BY <1>1, <1>2, <1>3 DEF HasEvidence, Exists, history
  <1>4. ASSUME NEW a \in Analyzers, AnalyzeCommit(a) PROVE HasEvidence(l)'
    <2>1. lead'[l].status = lead[l].status /\ lead'[l].updated = lead[l].updated
          /\ lead'[l].reported = lead[l].reported
      BY <1>1, <1>4, AnalysisKeepsRest
    <2>2. UNCHANGED history
      BY <1>4 DEF AnalyzeCommit
    <2> QED
      BY <1>1, <1>2, <2>1, <2>2 DEF HasEvidence, Exists, history
  <1>5. ASSUME NEW o \in Operators, StoreDecision(o) PROVE HasEvidence(l)'
    <2>1. lead'[l].updated = lead[l].updated /\ lead'[l].reported = lead[l].reported
      BY <1>1, <1>5, DecisionKeepsRest
    <2>2. UNCHANGED <<matched, shown>>
      BY <1>5 DEF StoreDecision
    <2>3. lead'[l].status = lead[l].status \/ lead'[l].status \notin {"new", "none"}
      <3>1. CASE l \in Held(o)
        <4>1. op[o].target \in Statuses /\ op[o].target # "new" /\ "none" \notin Statuses
          BY <3>1 DEF NewsInv, RequestsDecide, LeadInv, TypeOK, OpType, Statuses
        <4> QED
          BY <1>1, <1>5, <3>1, <4>1, DecisionKeepsRest
      <3>2. CASE l \notin Held(o)
        BY <1>1, <1>5, <3>2, DecisionKeepsRest
      <3> QED
        BY <3>1, <3>2
    <2> QED
      BY <1>1, <1>2, <2>1, <2>2, <2>3 DEF HasEvidence, Exists, history
  <1> QED
    BY <1>3, <1>4, <1>5, EvidenceAfterMatch, EvidenceAfterReport, StepCases DEF Decide

-----------------------------------------------------------------------------
(* Reports being rendered keep their news *)

LEMMA SelectionIsNews ==
    ASSUME NewsInv, NEW r \in Reporters, Select(r), rep'[r].stage = "render", NEW l \in Leads
    PROVE  NewsOf(r, l)'
  <1> DEFINE picks == {k \in Leads : Reportable(k) /\ Rendered(k)}
             next == [rep[r] EXCEPT !.stage = "render", !.picks = picks,
                      !.wasNew = {k \in picks : lead[k].status = "new"},
                      !.seen = [k \in Leads |-> IF k \in picks THEN matched[k] ELSE {}],
                      !.now = clock + 1]
  <1>1. rep[r] \in RepType /\ rep \in [Reporters -> RepType] /\ HasEvidence(l)
        /\ lead[l] \in LeadType /\ clock \in Nat
    BY DEF NewsInv, LeadsHaveEvidence, LeadInv, TypeOK, Times
  <1>2. rep'[r] = IF picks = {} THEN NoReport ELSE next
    BY <1>1 DEF Select, ReporterMoves
  <1>3. rep'[r] = next
    BY <1>2 DEF NoReport
  <1>4. /\ next.picks = picks
        /\ next.wasNew = {k \in picks : lead[k].status = "new"}
        /\ next.seen[l] = IF l \in picks THEN matched[l] ELSE {}
        /\ next.now = clock + 1
    BY <1>1 DEF RepType
  <1>5. UNCHANGED <<lead, matched, shown>>
    BY DEF Select, ReporterMoves
  <1>6. CASE l \notin picks
    BY <1>3, <1>4, <1>5, <1>6 DEF NewsOf
  <1>7. CASE l \in picks
    <2>1. Reportable(l)
      BY <1>7
    <2>2. Exists(l) /\ ~(matched[l] \subseteq shown[l])
      BY <1>1, <2>1 DEF Reportable, HasEvidence, Exists
    <2>3. ~(lead[l].updated > clock + 1)
      BY <1>1, LeadFields DEF HasEvidence
    <2>4. l \notin next.wasNew => lead[l].status # "new"
      BY <1>4, <1>7
    <2> HIDE DEF next, picks
    <2> QED
      BY <1>3, <1>4, <1>5, <1>7, <2>2, <2>3, <2>4 DEF NewsOf, Exists
  <1> QED
    BY <1>6, <1>7

LEMMA RendersStayNews ==
    ASSUME OneReport, NewsInv, [Next]_vars
    PROVE  RendersAreNews'
  <1> SUFFICES ASSUME NEW r \in Reporters, rep'[r].stage = "render", NEW l \in Leads
               PROVE  NewsOf(r, l)'
    BY DEF RendersAreNews
  <1>1. LeadInv /\ lead[l] \in LeadType
    BY DEF NewsInv, LeadInv, TypeOK
  <1>2. ASSUME NEW q \in Reporters, Beat(q) \/ ReportStep(q) \/ ReporterCrash(q)
        PROVE  NewsOf(r, l)'
    <2>1. q = r
      BY DEF OneReport
    <2>2. Select(r)
      BY <1>1, <1>2, <2>1, OnlySelectRenders
    <2> QED
      BY <2>2, SelectionIsNews
  <1>3. ASSUME rep' = rep PROVE NewsOf(r, l)'
    <2>1. NewsOf(r, l) /\ rep'[r] = rep[r]
      BY <1>3 DEF NewsInv, RendersAreNews
    <2>2. CASE UNCHANGED <<lead, history>>
      BY <2>1, <2>2 DEF NewsOf, Exists, history
    <2>3. ASSUME NEW m \in Matchers, MatchCommit(m) PROVE NewsOf(r, l)'
      <3>1. /\ matched'[l] = matched[l] \union EventsOf(m, l)
            /\ EventsOf(m, l) \cap matched[l] = {} /\ shown'[l] = shown[l]
        BY <2>3, CommitIsNew
      <3>2. l \in rep[r].picks => Exists(l)'
        BY <1>1, <2>1, LeadsStay DEF NewsOf
      <3>3. l \in rep[r].picks => lead'[l].status = lead[l].status
        BY <1>1, <2>1, <2>3, CommitKeepsStatus DEF NewsOf
      <3>4. shown[l] \subseteq matched[l]
        BY DEF NewsInv, LeadsHaveEvidence, HasEvidence
      <3>5. EventsOf(m, l) = {} => lead'[l] = lead[l]
        BY <1>1, <2>3, CommitKeepsStatus
      <3>6. l \in rep[r].picks /\ lead'[l].updated > rep[r].now =>
               ~(matched'[l] \subseteq shown[l] \union rep[r].seen[l])
        BY <2>1, <3>1, <3>4, <3>5 DEF NewsOf
      <3> QED
        BY <2>1, <3>1, <3>2, <3>3, <3>6 DEF NewsOf
    <2>4. ASSUME NEW a \in Analyzers, AnalyzeCommit(a) PROVE NewsOf(r, l)'
      <3>1. lead'[l].status = lead[l].status /\ lead'[l].updated = lead[l].updated
        BY <1>1, <2>4, AnalysisKeepsRest
      <3>2. UNCHANGED history
        BY <2>4 DEF AnalyzeCommit
      <3> QED
        BY <2>1, <3>1, <3>2 DEF NewsOf, Exists, history
    <2>5. ASSUME NEW q \in Reporters, ReportCommit(q) PROVE NewsOf(r, l)'
      BY <1>2, <2>5 DEF ReportStep
    <2>6. ASSUME NEW o \in Operators, StoreDecision(o) PROVE NewsOf(r, l)'
      <3>1. lead'[l].updated = lead[l].updated
        BY <1>1, <2>6, DecisionKeepsRest
      <3>2. l \notin Held(o) => lead'[l] = lead[l]
        BY <1>1, <2>6, DecisionKeepsRest
      <3>3. l \in Held(o) => lead'[l].status \notin {"new", "none"}
        <4>1. l \in Held(o) => op[o].target \in Statuses /\ op[o].target # "new"
          BY DEF NewsInv, RequestsDecide, LeadInv, TypeOK, OpType
        <4>2. "none" \notin Statuses
          BY DEF Statuses
        <4> QED
          BY <1>1, <2>6, <4>1, <4>2, DecisionKeepsRest
      <3>4. UNCHANGED <<matched, shown>>
        BY <2>6 DEF StoreDecision
      <3> QED
        BY <2>1, <3>1, <3>2, <3>3, <3>4 DEF NewsOf, Exists, history
    <2> QED
      BY <2>2, <2>3, <2>4, <2>5, <2>6, StepCases DEF Decide
  <1>4. rep' = rep \/ \E q \in Reporters : Beat(q) \/ ReportStep(q) \/ ReporterCrash(q)
    <2>1. ASSUME NEW m \in Matchers, MatchStep(m) \/ MatcherCrash(m) PROVE rep' = rep
      BY <2>1 DEF MatchStep, MatchStart, MatchEvent, MatchSkips, MatchCommit, MatchFails, MatchDone,
                  MatcherCrash, MatcherMoves
    <2>2. ASSUME NEW a \in Analyzers, AnalyzeStep(a) PROVE rep' = rep
      BY <2>2 DEF AnalyzeStep, AnalyzeStart, AnalyzeCommit, AnalyzeFails
    <2>3. CASE UNCHANGED vars
      BY <2>3 DEF vars, tasks
    <2> QED
      BY <2>1, <2>2, <2>3 DEF Next, Decide, StoreDecision
  <1> QED
    BY <1>2, <1>3, <1>4

(* With one report at a time, disjoint batches and no batch matched again      *)
(* after its commit, a lead enters a report only with evidence no report has   *)
(* shown: the stamp taken before a batch commits and the one taken before the  *)
(* report commits never bring back a lead for what was already read.           *)
THEOREM ReportsBringNews ==
    OneReport /\ BatchesAreDisjoint => (Spec /\ NoRematch => ReportsSayNews)
  <1> SUFFICES ASSUME OneReport, BatchesAreDisjoint PROVE Spec /\ NoRematch => ReportsSayNews
    OBVIOUS
  <1> DEFINE Once == \A m \in Matchers : MatcherCrash(m) => match[m].stage = "matching"
             News == \A r \in Reporters : ReportCommit(r) =>
                       \A l \in rep[r].picks : ~(rep[r].seen[l] \subseteq shown[l])
  <1>1. NewsInv /\ [Next]_vars /\ [Once]_vars => NewsInv'
    <2> SUFFICES ASSUME NewsInv, [Next]_vars, [Once]_vars PROVE NewsInv'
      OBVIOUS
    <2>1. CASE Once
      <3>1. BatchesAreNew'
        BY <2>1, BatchesStayNew
      <3>2. LeadInv' /\ RequestsDecide'
        BY NextInv, RequestsDecideNext DEF NewsInv
      <3> QED
        BY <3>1, <3>2, EvidenceStays, RendersStayNews DEF NewsInv
    <2>2. CASE UNCHANGED vars
      <3>1. LeadInv' /\ RequestsDecide' /\ LeadsHaveEvidence' /\ RendersAreNews'
        BY NextInv, RequestsDecideNext, EvidenceStays, RendersStayNews DEF NewsInv
      <3>2. BatchesAreNew'
        BY <2>2 DEF NewsInv, BatchesAreNew, NewBatch, Exists, vars, tasks, history
      <3> QED
        BY <3>1, <3>2 DEF NewsInv
    <2> QED
      BY <2>1, <2>2
  <1>2. NewsInv => News
    <2> SUFFICES ASSUME NewsInv, NEW r \in Reporters, ReportCommit(r), NEW l \in rep[r].picks
                 PROVE  ~(rep[r].seen[l] \subseteq shown[l])
      OBVIOUS
    <2>1. l \in Leads
      BY ReportFields DEF NewsInv, LeadInv, TypeOK
    <2> QED
      BY <2>1 DEF NewsInv, RendersAreNews, NewsOf, ReportCommit
  <1> HIDE DEF Once, News
  <1>3. Spec /\ [][Once]_vars => [][News]_vars
    BY NewsInit, <1>1, <1>2, PTL DEF Spec
  <1> QED
    BY <1>3 DEF ReportsSayNews, NoRematch, Once, News
=============================================================================
