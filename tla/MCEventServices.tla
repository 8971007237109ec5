----------------------------- MODULE MCEventServices -----------------------------
(* The services around an event: notifications, digests, alerts, retention and stores.   *)
(* They share no state but the queue of notices, so a behaviour runs one of them, its     *)
(* part, while the others stay in their initial state. The states checked are the sum of *)
(* the parts' and not their product.                                                     *)
EXTENDS EventServices

CONSTANTS
    e1, e2,                      \* events
    hook, chat, mail, bare, odd, \* channels
    d1, d2, n1, o1, p1, p2, v1, x1, x2, f1, f2, cve, acme

MCKindOf == [c \in {hook, chat, mail, bare, odd} |->
    CASE c = hook -> "webhook" [] c = chat -> "slack" [] c = odd -> "fax" [] OTHER -> "email"]
MCEnvChannels == <<chat>>
MCRoutes == {<<hook, mail>>}
MCCalls == {<<hook, chat>>, <<odd, chat>>, <<mail, hook>>}

MCFlavour == [e \in {e1, e2} |-> IF e = e1 THEN "attack" ELSE "off"]

MCReading(relevance, corroborations, promotions, rules) ==
    [relevance |-> relevance, matched |-> 1, total |-> 3, penalty |-> 5, place |-> "home",
     trust |-> 80, corroborations |-> corroborations, recency |-> 100,
     promotions |-> promotions, rules |-> rules]

(* A relevant event, score 80. A tangential and corroborated one, score 38, that two      *)
(* promotions raise to 3 and would then lower, and one to an unknown severity.            *)
MCReadings ==
    <<MCReading("relevant", 0, <<>>, <<{3, 4}>>),
      MCReading("tangential", 1,
                <<[when |-> {1}, to |-> 3], [when |-> {1, 2}, to |-> 2], [when |-> {1}, to |-> 9]>>,
                <<{4}, {3}>>)>>

MCRetentionOf == [e \in {e1, e2} |-> "ephemeral"]
MCKeepFor == [c \in {"ephemeral", "standard"} |-> IF c = "ephemeral" THEN 1 ELSE 2]
MCClassOrder == <<"ephemeral", "standard">>

VARIABLE part   \* the services that this behaviour runs

mcVars == <<part, notices, digestVars, alertVars, storeVars>>

MCInit ==
    /\ part \in {"notices", "digests", "alerts", "retention", "knowledge"}
    /\ EventServicesInit

(* One notice at a time: executions of different notices share nothing.                   *)
MCCall == notices = <<>> /\ \E payload \in Payloads, severe \in BOOLEAN, channels \in MCCalls :
              Call(payload, severe, channels)

NoticePart ==
    /\ part = "notices"
    /\ MCCall \/ NoticeNext
    /\ UNCHANGED <<part, digestVars, alertVars, storeVars>>

DigestPart ==
    /\ part = "digests"
    /\ DigestNext
    /\ UNCHANGED <<part, alertVars, storeVars>>

AlertPart ==
    /\ part = "alerts"
    /\ AlertNext
    /\ UNCHANGED <<part, digestVars, storeVars>>

RetentionPart ==
    /\ part = "retention"
    /\ PurgeNext
    /\ UNCHANGED <<part, notices, digestVars, alertVars>>

KnowledgePart ==
    /\ part = "knowledge"
    /\ KnowledgeNext \/ \E e \in StoredEvents : Arrives(e)
    /\ UNCHANGED <<part, notices, digestVars, alertVars>>

MCSpec ==
    MCInit /\ [][NoticePart \/ DigestPart \/ AlertPart \/ RetentionPart \/ KnowledgePart]_mcVars

(* The alerts with the task that sends their notices.                                     *)
AlertNoticePart ==
    /\ part = "alerts"
    /\ AlertNext \/ (NoticeNext /\ UNCHANGED alertVars)
    /\ UNCHANGED <<part, digestVars, storeVars>>

MCAlertSpec == MCInit /\ part = "alerts" /\ [][AlertNoticePart]_mcVars
==================================================================================
