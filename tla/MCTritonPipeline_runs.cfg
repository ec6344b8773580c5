CONSTANTS
    d1 = d1
    d2 = d2
    Dir <- OneDir
    Kernels <- MCKernels
    Configs <- MCConfigs
SPECIFICATION FairSpec
INVARIANTS
    TypeOK
    VerificationFollowsAgreement
    TrustedSeedAgreed
    ReplayIsLLMFree
    PassingDiffIsOfRun
    UnrepairedSeedChecked
    AcceptedEmission
PROPERTIES
    RunEnds
    PromotionInScope
    FallbackEndsLLM
