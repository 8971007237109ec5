SPECIFICATION Spec
CONSTANTS
    c1 = c1
    c2 = c2
    s1 = s1
    s2 = s2
    NoContent = NoContent
    Plans <- MCOnePlan
    Contents <- MCContents
    Sessions <- MCSessions
    VersionBound <- Bound4
SYMMETRY Symmetry
INVARIANT TypeOK
INVARIANT VersionsGapFree
PROPERTY KeepsHistory
PROPERTY NeverLeftInactive
PROPERTY SoloActivationIsExclusive
PROPERTY SyncPublishesDisk
CHECK_DEADLOCK FALSE
