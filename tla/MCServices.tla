------------------------------- MODULE MCServices --------------------------------
(* The realtime stream, the fetch of a source and the deep analysis of leads. They share  *)
(* no state, so a behaviour runs one of them, its part, while the others stay in their    *)
(* initial state: the states checked are the sum of the parts' and not their product.     *)
EXTENDS EdgeServices

CONSTANTS
    api, worker,      \* processes
    r1, k1, k2, k3, k4,   \* a reader and publications
    policy, incident, \* leads
    a1, a2, m1, s1, s2

MCHome == [x \in {r1, k1, k2, k3, k4} |-> IF x = k4 THEN worker ELSE api]

MCBrings == [m \in {m1} |-> [l \in {policy} |-> 2]]
MCFirstSeverity == [l \in {policy, incident} |-> 1]
MCCasesOf == [s \in {s1, s2} |-> IF s = s1 THEN <<"tinker", "healy">> ELSE <<>>]
MCAnswers == {NoAnswer, Malformed, [section |-> s1, severity |-> 1], [section |-> s2, severity |-> 3],
              [section |-> s1, severity |-> Unhashable]}

VARIABLE part   \* the service that this behaviour runs

mcVars == <<part, streamVars, fetchVars, analysisVars>>

MCInit ==
    /\ part \in {"stream", "fetch", "analysis"}
    /\ EdgeServicesInit
    /\ part # "fetch" => kind = "rss"

StreamPart ==
    /\ part = "stream"
    /\ StreamNext
    /\ UNCHANGED <<part, fetchVars, analysisVars>>

FetchPart ==
    /\ part = "fetch"
    /\ FetchNext
    /\ UNCHANGED <<part, streamVars, analysisVars>>

FetchBegins == part = "fetch" /\ FetchStarts /\ UNCHANGED <<part, streamVars, analysisVars>>
FetchWorks == part = "fetch" /\ Working /\ UNCHANGED <<part, streamVars, analysisVars>>

(* Bound: of the messages about the leads, two at a time have been delivered.             *)
OneWaits == {s \in Sessions : sessions[s] = Waiting(0)} # {}

AnalysisPart ==
    /\ part = "analysis"
    /\ AnalysisNext /\ OneWaits'
    /\ UNCHANGED <<part, streamVars, fetchVars>>

(* Celery delivers a message that waits, and the code of a running task is sequential and *)
(* has a timeout on every request.                                                        *)
MCSpec ==
    /\ MCInit /\ [][StreamPart \/ FetchPart \/ AnalysisPart]_mcVars
    /\ WF_mcVars(FetchBegins) /\ WF_mcVars(FetchWorks)
==================================================================================
