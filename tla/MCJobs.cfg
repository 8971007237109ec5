SPECIFICATION Spec
CONSTANTS
    r1 = r1
    r2 = r2
    r3 = r3
    x1 = x1
    x2 = x2
    k1 = k1
    NoKey = NoKey
    NoRow = NoRow
    NoTask = NoTask
    Requests <- MCRequests
    Executions <- MCExecutions
    Keys <- MCOneKey
SYMMETRY Symmetry
INVARIANT TypeOK
INVARIANT SameKeySameJob
INVARIANT OutcomeIsRecorded
PROPERTY FinalStaysFinal
CHECK_DEADLOCK FALSE
