CONSTANTS
    Configs <- MCConfigs
    MaxEdits = 2
SPECIFICATION Spec
INVARIANTS
    TypeOK
    PassingDiffIsOfEmitted
    ReferenceIsNamed
    BaselineIsOfSource
