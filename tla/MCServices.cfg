SPECIFICATION MCSpec
CONSTANTS
    api = api
    worker = worker
    r1 = r1
    k1 = k1
    k2 = k2
    k3 = k3
    k4 = k4
    policy = policy
    incident = incident
    a1 = a1
    a2 = a2
    m1 = m1
    s1 = s1
    s2 = s2
    Processes = {api, worker}
    Readers = {r1}
    Publications = {k1, k2, k3, k4}
    Home <- MCHome
    QueueSize = 2
    MaxAccepted = 4
    Kinds = {"policy", "walled", "rss", "reddit", "xai", "gdelt", "acled", "telegram", "pastebin", "nvd", "kev", "urlhaus", "threatfox", "shodan", "otx", "osv", "nws", "reliefweb", "bazaar", "feodo"}
    MaxAttempts = 2
    MaxRedirects = 2
    PageSize = 1
    MaxPages = 2
    MaxItems = 2
    Lookback = 0
    MaxIngestTries = 1
    MaxPosts = 3
    Changing = {1}
    MaxVersion = 2
    MaxTime = 2
    MaxRuns = 1
    MaxFetchCrashes = 1
    AnalysedLeads = {policy, incident}
    FromPolicy = {policy}
    FirstSeverity <- MCFirstSeverity
    Sections = {s1, s2}
    SectionAnswers <- MCAnswers
    CasesOf <- MCCasesOf
    MaxCases = 0
    MaxHops = 1
    Analyses = {a1, a2}
    Matchings = {m1}
    Brings <- MCBrings
    MaxAnalysisTries = 1
    MaxFaults = 1
INVARIANT ServicesTypeOK
INVARIANT SilenceIsExplained
INVARIANT VerdictsStand
PROPERTY FramesKeepOrder
PROPERTY FetchEnds
CHECK_DEADLOCK FALSE
