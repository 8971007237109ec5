SPECIFICATION Spec
CONSTANTS
    c1 = c1
    c2 = c2
    s1 = s1
    s2 = s2
    NoContent = NoContent
    Plans <- MCOnePlan
    Contents <- MCContents
    Sessions <- MCSessions
    VersionBound <- Bound3
INVARIANT AtMostOneActive
CHECK_DEADLOCK FALSE
