CONSTANTS
    m1 = m1
    m2 = m2
    p1 = p1
    p2 = p2
    Models <- MCModels
    Candidates <- MCCandidates
    Prompts <- MCPrompts
    max_attempts = 2
    server_error_disable_after = 1
    allow_model_fallback = TRUE
    use_cache = TRUE
    MaxStreak = 1
SPECIFICATION FairSpec
INVARIANTS
    TypeOK
    OneRequestPerModel
PROPERTIES
    DisabledNotAsked
    LiftEnds
