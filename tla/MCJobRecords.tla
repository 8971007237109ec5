---------------------------- MODULE MCJobRecords ----------------------------
EXTENDS JobRecords, TLC

CONSTANTS r1, r2, r3, x1, x2, k1

MCRequests == {r1, r2, r3}
MCExecutions == {x1, x2}
MCOneKey == {k1}

Symmetry == Permutations(Requests) \union Permutations(MCExecutions)
=============================================================================
