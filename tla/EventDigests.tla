------------------------------ MODULE EventDigests ------------------------------
(* Enrichment by the LLM (workers/nlp_enrich.py) and digests (workers/digest.py). Both   *)
(* read an event's metadata, work, and write the whole metadata column back. Nothing     *)
(* locks the row between. A digest then publishes a notice to the e-mail channels of the *)
(* active plan, outside its transaction.                                                 *)
EXTENDS Notifications, SequencesExt

CONSTANTS
    Events,
    Flavour,          \* Flavour[e]: what the plan version of the event asks of the LLM:
                      \* "off", "attack" (the default) or "cal"
    Compilers,        \* compile_digest messages, NlpTasks: nlp_enrich_event messages
    NlpTasks,
    Windows,          \* lengths of a digest's window that callers ask for
    SevereEvents,     \* events at or above the notification threshold
    Routes,           \* possible channel lists of the active plan's routes
    BareEmail,        \* the channel without recipients used when a plan has no e-mail route
    MaxClock,         \* bound: units of time
    MaxDigestTries,   \* max_retries of compile_digest, MaxNlpTries: of nlp_enrich_event
    MaxNlpTries

ASSUME DigestAssumption ==
    /\ Flavour \in [Events -> {"off", "attack", "cal"}] /\ Events # {}
    /\ Windows \subseteq Nat \ {0} /\ Windows # {}
    /\ Routes \subseteq Seq(Channels)
    /\ BareEmail \in Channels
    /\ MaxClock \in Nat \ {0} /\ MaxDigestTries \in Nat /\ MaxNlpTries \in Nat

VARIABLES
    clock,       \* time in units of a window
    events,      \* the row of an event
    nlp,         \* executions of nlp_enrich_event
    digest,      \* executions of compile_digest
    briefs,      \* the sets of events of the committed digest briefs
    noisy        \* history: events whose metadata two executions handled at the same time

digestVars == <<clock, events, nlp, digest, briefs, noisy>>

(* at = 0: not stored yet. classes: which classification keys the metadata holds.         *)
(* named: nlp_summary and nlp_relevance are both set.                                     *)
Meta == [digested: BOOLEAN, classes: {"none", "attack", "cal"}]
EventRow == [at: 0..MaxClock, named: BOOLEAN, meta: Meta]

NlpRow == [stage: {"idle", "queued", "asked", "done"}, event: Events, copy: Meta, tries: Nat]
DigestRow ==
    [stage: {"idle", "queued", "read", "stored", "done", "failed"}, hours: Windows,
     notify: BOOLEAN, copy: UNION {[E -> Meta] : E \in SUBSET Events}, brief: Nat, tries: Nat]

NoMeta == [digested |-> FALSE, classes |-> "none"]
NoCopy == [e \in {} |-> NoMeta]

DigestInit ==
    /\ clock = 1
    /\ events = [e \in Events |-> [at |-> 0, named |-> FALSE, meta |-> NoMeta]]
    /\ nlp = [x \in NlpTasks |->
          [stage |-> "idle", event |-> CHOOSE e \in Events : TRUE, copy |-> NoMeta, tries |-> 0]]
    /\ digest = [d \in Compilers |->
          [stage |-> "idle", hours |-> CHOOSE h \in Windows : TRUE, notify |-> TRUE,
           copy |-> NoCopy, brief |-> 0, tries |-> 0]]
    /\ briefs = <<>>
    /\ noisy = {}

(* ------------------------------------------------------------------------------------- *)
(* Time and ingestion                                                                    *)

Tick ==
    /\ clock < MaxClock
    /\ clock' = clock + 1
    /\ UNCHANGED <<events, nlp, digest, briefs, noisy, notices>>

(* ingested_at is the start of the ingest transaction, which may be a while ago when it   *)
(* commits.                                                                               *)
Ingested(e) ==
    /\ events[e].at = 0
    /\ \E t \in {clock - 1, clock} \ {0} : events' = [events EXCEPT ![e].at = t]
    /\ UNCHANGED <<clock, nlp, digest, briefs, noisy, notices>>

(* ------------------------------------------------------------------------------------- *)
(* nlp_enrich_event                                                                      *)

NlpQueued(x, e) ==
    /\ nlp[x].stage = "idle" /\ events[e].at # 0
    /\ nlp' = [nlp EXCEPT ![x].stage = "queued", ![x].event = e]
    /\ UNCHANGED <<clock, events, digest, briefs, noisy, notices>>

(* The session of the execution ends, and with it the copy it held.                       *)
NlpLeaves(x, stage) == [nlp EXCEPT ![x].stage = stage, ![x].copy = NoMeta]

Enriched(e) == events[e].named /\ events[e].meta.classes = Flavour[e]

(* The event is read. The task returns when the event is enriched already or its plan     *)
(* version does not ask for it, and else awaits the LLM with the row in hand.             *)
NlpRead(x) ==
    LET e == nlp[x].event IN
    /\ nlp[x].stage = "queued"
    /\ nlp' = IF Enriched(e) \/ Flavour[e] = "off"
              THEN NlpLeaves(x, "done")
              ELSE [nlp EXCEPT ![x].stage = "asked", ![x].copy = events[e].meta]
    /\ UNCHANGED <<clock, events, digest, briefs, noisy, notices>>

(* A time-out, an HTTP error or an answer that is no JSON: the task returns and writes    *)
(* nothing.                                                                               *)
NlpFallback(x) ==
    /\ nlp[x].stage = "asked"
    /\ nlp' = NlpLeaves(x, "done")
    /\ UNCHANGED <<clock, events, digest, briefs, noisy, notices>>

(* Executions of the two tasks that hold a copy of the event's metadata.                  *)
NlpHolders(e) == {x \in NlpTasks : nlp[x].stage = "asked" /\ nlp[x].event = e}
DigestHolders(e) == {d \in Compilers : digest[d].stage = "read" /\ e \in DOMAIN digest[d].copy}

(* A mutant of Classified: the metadata are built anew. *)
OnlyClassified(x) == [NoMeta EXCEPT !.classes = Flavour[nlp[x].event]]

(* The metadata the task writes: its copy, with the keys of the plan's flavour and        *)
(* without those of the other.                                                            *)
Classified(x) == [nlp[x].copy EXCEPT !.classes = Flavour[nlp[x].event]]

(* The columns are set and committed. The answer may lack a field. SQLAlchemy writes the  *)
(* metadata unless they equal what was read, so an answer that repeats the old            *)
(* classification leaves the column alone.                                                *)
NlpStore(x) ==
    LET e == nlp[x].event IN
    /\ nlp[x].stage = "asked"
    /\ \E full \in BOOLEAN, same \in BOOLEAN :
          /\ same => Classified(x) = nlp[x].copy
          /\ events' = [events EXCEPT ![e].named = @ \/ full,
                                      ![e].meta = IF same THEN @ ELSE Classified(x)]
    /\ nlp' = NlpLeaves(x, "done")
    /\ noisy' = IF DigestHolders(e) # {} \/ NlpHolders(e) # {x} THEN noisy \cup {e} ELSE noisy
    /\ UNCHANGED <<clock, digest, briefs, notices>>

(* A worker dies: the message is delivered again as it was.                               *)
NlpCrash(x) ==
    /\ nlp[x].stage = "asked"
    /\ nlp' = NlpLeaves(x, "queued")
    /\ UNCHANGED <<clock, events, digest, briefs, noisy, notices>>

(* Any other exception: the task is retried, once.                                        *)
NlpAgain(x) ==
    /\ nlp[x].stage = "asked"
    /\ IF nlp[x].tries < MaxNlpTries
       THEN nlp' = [NlpLeaves(x, "queued") EXCEPT ![x].tries = @ + 1]
       ELSE nlp' = NlpLeaves(x, "done")
    /\ UNCHANGED <<clock, events, digest, briefs, noisy, notices>>

(* ------------------------------------------------------------------------------------- *)
(* compile_digest                                                                        *)

Compile(d, hours, notify) ==
    /\ digest[d].stage = "idle"
    /\ digest' = [digest EXCEPT ![d].stage = "queued", ![d].hours = hours, ![d].notify = notify]
    /\ UNCHANGED <<clock, events, nlp, briefs, noisy, notices>>

CompilerLeaves(d, stage) == [digest EXCEPT ![d].stage = stage, ![d].copy = NoCopy]

(* A mutant of Candidates: the mark is not asked for. *)
WholeWindow(hours) == {e \in Events : events[e].at # 0 /\ clock - hours <= events[e].at}

(* What the query returns: stored, inside the window, not marked.                         *)
Candidates(hours) ==
    {e \in Events : /\ events[e].at # 0
                    /\ clock - hours <= events[e].at
                    /\ ~events[e].meta.digested}

Select(d) ==
    LET chosen == Candidates(digest[d].hours) IN
    /\ digest[d].stage = "queued"
    /\ digest' = IF chosen = {}
                 THEN CompilerLeaves(d, "done")
                 ELSE [digest EXCEPT ![d].stage = "read",
                                     ![d].copy = [e \in chosen |-> events[e].meta]]
    /\ UNCHANGED <<clock, events, nlp, briefs, noisy, notices>>

(* The brief and the marks are one transaction. Each mark rewrites the metadata as they   *)
(* were read.                                                                             *)
StoreDigest(d) ==
    LET chosen == DOMAIN digest[d].copy IN
    /\ digest[d].stage = "read"
    /\ briefs' = Append(briefs, chosen)
    /\ events' = [e \in Events |->
          IF e \in chosen
          THEN [events[e] EXCEPT !.meta = [digest[d].copy[e] EXCEPT !.digested = TRUE]]
          ELSE events[e]]
    /\ digest' = [(IF digest[d].notify THEN [digest EXCEPT ![d].stage = "stored"]
                                       ELSE CompilerLeaves(d, "done"))
                     EXCEPT ![d].brief = Len(briefs) + 1]
    /\ noisy' = noisy \cup {e \in chosen : NlpHolders(e) # {} \/ DigestHolders(e) # {d}}
    /\ UNCHANGED <<clock, nlp, notices>>

IsEmail(c) == KindOf[c] = "email"
EmailChannels(route) ==
    LET mails == FoldLeft(LAMBDA kept, c : IF IsEmail(c) THEN Append(kept, c) ELSE kept, <<>>, route)
    IN  IF mails = <<>> THEN <<BareEmail>> ELSE mails

(* After the PDF, whose failures are only logged, the active plan's e-mail channels are    *)
(* looked up and the notice is published. Its severity is the highest of the events.      *)
AnnounceDigest(d) ==
    /\ digest[d].stage = "stored"
    /\ \E route \in Routes :
          Announce(digest[d].brief, "full", DOMAIN digest[d].copy \cap SevereEvents # {},
                   EmailChannels(route))
    /\ digest' = CompilerLeaves(d, "done")
    /\ UNCHANGED <<clock, events, nlp, briefs, noisy>>

CompileCrash(d) ==
    /\ digest[d].stage \in {"read", "stored"}
    /\ digest' = CompilerLeaves(d, "queued")
    /\ UNCHANGED <<clock, events, nlp, briefs, noisy, notices>>

(* An exception anywhere in the task, such as two active versions of the plan or a broker *)
(* that does not answer: the task is retried from the start.                              *)
CompileAgain(d) ==
    /\ digest[d].stage \in {"read", "stored"}
    /\ IF digest[d].tries < MaxDigestTries
       THEN digest' = [CompilerLeaves(d, "queued") EXCEPT ![d].tries = @ + 1]
       ELSE digest' = CompilerLeaves(d, "failed")
    /\ UNCHANGED <<clock, events, nlp, briefs, noisy, notices>>

DigestNext ==
    \/ Tick
    \/ \E e \in Events : Ingested(e)
    \/ \E x \in NlpTasks :
          \/ \E e \in Events : NlpQueued(x, e)
          \/ NlpRead(x) \/ NlpFallback(x) \/ NlpStore(x) \/ NlpCrash(x) \/ NlpAgain(x)
    \/ \E d \in Compilers :
          \/ \E h \in Windows, notify \in BOOLEAN : Compile(d, h, notify)
          \/ Select(d) \/ StoreDigest(d) \/ AnnounceDigest(d) \/ CompileCrash(d) \/ CompileAgain(d)

(* The notices that digests publish are sent by the task of Notifications.                *)
DigestSpec ==
    /\ NoticeInit /\ DigestInit
    /\ [][DigestNext \/ (NoticeNext /\ UNCHANGED digestVars)]_<<notices, digestVars>>

DigestTypeOK ==
    /\ clock \in 1..MaxClock
    /\ events \in [Events -> EventRow]
    /\ nlp \in [NlpTasks -> NlpRow]
    /\ digest \in [Compilers -> DigestRow]
    /\ briefs \in Seq(SUBSET Events)
    /\ noisy \subseteq Events

Digests(e) == {b \in DOMAIN briefs : e \in briefs[b]}

(* An event whose metadata no two executions handled at the same time is in at most one   *)
(* digest, however often the digest is retried or asked for (digest.py:146, 191-197).      *)
QuietEventsDigestedOnce ==
    \A e \in Events \ noisy : Cardinality(Digests(e)) <= 1

(* What is known of an event stays known, unless two executions handled its metadata at   *)
(* the same time: neither the mark nor the classification is taken back.                   *)
QuietFactsStay ==
    [][\A e \in Events : e \notin noisy' =>
          /\ events[e].meta.digested => events'[e].meta.digested
          /\ events[e].meta.classes # "none" => events'[e].meta.classes # "none"]_digestVars

(* NOT properties of this code (see README). *)
EventsDigestedOnce == \A e \in Events : Cardinality(Digests(e)) <= 1
DigestsAreAnnounced ==
    \A d \in Compilers : digest[d].stage \in {"done", "failed"} /\ digest[d].notify /\ digest[d].brief # 0
        => \E n \in DOMAIN notices : notices[n].about = digest[d].brief
=================================================================================
