--------------------------- MODULE MCPlanVersions ---------------------------
(* Two plans whose files may hold either of two documents. *)
EXTENDS PlanVersions, TLC

CONSTANTS c1, c2, s1, s2

MCPlans == {1, 2}
MCOnePlan == {1}
MCContents == {c1, c2}
MCOneContent == {c1}
Bound3 == [p \in MCPlans |-> 3]
Bound4 == [p \in MCPlans |-> 4]
Bound4And2 == <<4, 2>>
MCSessions == {s1, s2}

Symmetry == Permutations(MCContents) \union Permutations(MCSessions)
=============================================================================
