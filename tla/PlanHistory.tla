------------------------------- MODULE PlanHistory -------------------------------
(* What the plan store promises its readers. Each plan has a log of documents that only   *)
(* grows, by one document at a time, and some current versions, which are positions of    *)
(* the log. A commit either publishes a document for some plans and may make these         *)
(* versions current, or makes one older version current. The version a commit makes        *)
(* current is current after it, and no other one becomes current.                          *)
EXTENDS Integers, Sequences

CONSTANTS Plans, Contents

VARIABLES
    log,       \* log[p]: the documents of a plan, the oldest first
    current    \* current[p]: its current versions

HistoryInit ==
    /\ log = [p \in Plans |-> <<>>]
    /\ current = [p \in Plans |-> {}]

(* Version v of plan p becomes current. Any of those that were may stay: two requests may  *)
(* race, and neither sees what the other makes current.                                    *)
Becomes(p, v) == v \in current'[p] /\ current'[p] \subseteq current[p] \cup {v}

Turns(P, versions) ==
    /\ DOMAIN current' = Plans
    /\ \A p \in P : Becomes(p, versions[p])
    /\ \A p \in Plans \ P : current'[p] = current[p]

Publish(documents) ==
    /\ log' = [p \in Plans |->
                  IF p \in DOMAIN documents THEN Append(log[p], documents[p]) ELSE log[p]]
    /\ \E P \in {{}, DOMAIN documents} : Turns(P, [p \in P |-> Len(log[p]) + 1])

Return(p, v) ==
    /\ v \in 1 .. Len(log[p])
    /\ Turns({p}, [q \in {p} |-> v])
    /\ UNCHANGED log

HistoryNext ==
    \/ \E P \in SUBSET Plans : \E documents \in [P -> Contents] : Publish(documents)
    \/ \E p \in Plans : \E v \in 1 .. Len(log[p]) : Return(p, v)

HistorySpec == HistoryInit /\ [][HistoryNext]_<<log, current>>
==================================================================================
