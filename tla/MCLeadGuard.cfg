SPECIFICATION FairSpec
CONSTANTS
    l1 = l1
    e1 = e1
    e2 = e2
    m1 = m1
    m2 = m2
    a1 = a1
    r1 = r1
    o1 = o1
    o2 = o2
    Leads <- MCLeads
    Events <- MCEvents
    LeadOf <- MCLeadOf
    Matchers <- MCMatchers
    BatchOf <- MCBatchOf
    Analyzers <- MCNobody
    Reporters <- MCReporters
    Operators <- MCNobody
    MaxMatchRetries = 1
    MaxDeferrals = 1
    MaxGenRetries = 1
    MaxMails = 2
    InspectMayFail = TRUE
    CycleBound = 1
    DecisionBound = 0
    CrashBudget = 1
INVARIANT AllGenerationsTried
 
PROPERTY ReportsEnd
CHECK_DEADLOCK FALSE
