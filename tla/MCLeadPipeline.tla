--------------------------- MODULE MCLeadPipeline ---------------------------
(* One lead for which two batches bring one event each. *)
EXTENDS LeadPipeline, TLC

CONSTANTS l1, e1, e2, m1, m2, a1, r1, o1, o2

MCLeads == {l1}
MCEvents == {e1, e2}
MCLeadOf == [e \in Events |-> l1]
MCMatchers == {m1, m2}
MCBatchOf == [m \in Matchers |-> IF m = m1 THEN {e1} ELSE {e2}]
MCAnalyzers == {a1}
MCReporters == {r1}
MCOperators == {o1, o2}
MCNobody == {}
MCSymmetry == Permutations({o1, o2})
=============================================================================
