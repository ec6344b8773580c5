CONSTANTS
    Levels = 2
    Elems = 5
    Warps = 3
    Lanes = 2
    Large = 8
    Panel = 2
    Addressable = 8
    Threads <- MCThreads
    Kernels <- MCOnce
    Program <- MCProgram
    LockStep <- MCLockStep
SPECIFICATION FairSpec
INVARIANTS
    TypeOK
    NoDataRace
    ReadsAgree
    TakesWhole
    LeavesOutput
PROPERTIES
    EveryThreadEnds
CHECK_DEADLOCK FALSE
