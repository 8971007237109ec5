SPECIFICATION FairSpec
CONSTANTS
    t1 = t1
    w1 = w1
    w2 = w2
    a = a
    b = b
    Tasks <- MCOneTask
    Workers <- MCWorkers
    Items <- MCItems
    Feeds <- MCFeeds
    MaxItems = 2
    MaxRetries = 1
    DeliveryBudget = 1
    AttemptBound = 4
INVARIANT TypeOK
INVARIANT NoDuplicateEvents
INVARIANT ChainsFollowCommit
INVARIANT RetryStartsClean
INVARIANT ChordsAreComplete
PROPERTY EventsLiveOnce
PROPERTY TasksEnd
CHECK_DEADLOCK FALSE
