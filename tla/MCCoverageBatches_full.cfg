CONSTANTS
    FamilyOrder <- MCFamilyOrder
    SemanticOps <- MCSemanticOps
    Options <- MCFull
    OkMeansDual = FALSE
    MaxKills = 1
SPECIFICATION Spec
INVARIANTS
    TypeOK
    EvidenceHolds
