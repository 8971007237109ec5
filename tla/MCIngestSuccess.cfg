SPECIFICATION Spec
CONSTANTS
    t1 = t1
    w1 = w1
    w2 = w2
    a = a
    b = b
    Tasks <- MCOneTask
    Workers <- MCWorkers
    Items <- MCItems
    Feeds <- MCFeeds
    MaxItems = 2
    MaxRetries = 0
    DeliveryBudget = 1
    AttemptBound = 2
INVARIANT SucceededMeansChained
CHECK_DEADLOCK FALSE
