CONSTANTS
    m1 = m1
    m2 = m2
    m3 = m3
    Candidates <- MCCandidates
    HasKey <- MCHasKey
    RetryAfters <- MCRetryAfters
    Limits <- MCLimits
    retry_after_cap = 60
    use_cache = TRUE
SPECIFICATION FairSpec
INVARIANTS
    TypeOK
    SleepWithinBudget
    RequestsBounded
    AllTriedBeforeRaise
PROPERTIES
    CallEnds
