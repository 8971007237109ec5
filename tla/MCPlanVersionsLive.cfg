SPECIFICATION FairSpec
CONSTANTS
    c1 = c1
    c2 = c2
    s1 = s1
    s2 = s2
    NoContent = NoContent
    Plans <- MCPlans
    Contents <- MCOneContent
    Sessions <- MCSessions
    VersionBound <- Bound4And2
PROPERTY PatchStaysInPlan
PROPERTY RequestsEnd
CHECK_DEADLOCK FALSE
