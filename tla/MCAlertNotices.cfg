SPECIFICATION MCAlertSpec
CONSTANTS
    e1 = e1
    e2 = e2
    hook = hook
    chat = chat
    mail = mail
    bare = bare
    odd = odd
    d1 = d1
    d2 = d2
    n1 = n1
    o1 = o1
    p1 = p1
    p2 = p2
    v1 = v1
    x1 = x1
    x2 = x2
    f1 = f1
    f2 = f2
    cve = cve
    acme = acme
    Channels = {hook, chat, mail, bare, odd}
    KindOf <- MCKindOf
    EnvChannels <- MCEnvChannels
    MaxTries = 1
    MaxDeliveries = 1
    MaxNotices = 2
    Events = {e1, e2}
    Flavour <- MCFlavour
    SevereEvents = {e2}
    Compilers = {d1, d2}
    NlpTasks = {n1}
    Windows = {1}
    Routes <- MCRoutes
    BareEmail = bare
    MaxClock = 2
    MaxDigestTries = 1
    MaxNlpTries = 0
    ScoredEvents = {1}
    Readings <- MCReadings
    Operators = {o1}
    BatchSize = 1
    MaxScoreTries = 1
    MaxTasks = 2
    MaxCrashes = 1
    MaxTriages = 1
    MaxRescores = 1
    StoredEvents = {e1, e2}
    RetentionOf <- MCRetentionOf
    KeepFor <- MCKeepFor
    ClassOrder <- MCClassOrder
    PurgeBatchSize = 1
    Purges = {p1, p2}
    Vectorizers = {v1}
    Extractors = {x1, x2}
    EntityNames = {acme}
    Feeders = {f1, f2}
    IndicatorValues = {cve}
    MaxAge = 3
    MaxPurgeTries = 1
    MaxExtractTries = 1
INVARIANT AlertNoticesAreAccepted
CHECK_DEADLOCK FALSE
