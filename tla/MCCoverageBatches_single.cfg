CONSTANTS
    FamilyOrder <- MCFamilyOrder
    SemanticOps <- MCSemanticOps
    Options <- MCSingle
    OkMeansDual = FALSE
    MaxKills = 1
SPECIFICATION Spec
INVARIANTS
    FamiliesMaterialized
