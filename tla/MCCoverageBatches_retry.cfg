CONSTANTS
    FamilyOrder <- MCFamilyOrder
    SemanticOps <- MCSemanticOps
    Options <- MCAny
    OkMeansDual = TRUE
    MaxKills = 2
SPECIFICATION FairSpec
INVARIANTS
    RecordsAgree
PROPERTIES
    RetryConverges
