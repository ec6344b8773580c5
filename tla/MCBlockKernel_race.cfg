CONSTANTS
    Levels = 2
    Elems = 5
    Warps = 3
    Lanes = 2
    Large = 8
    Panel = 2
    Addressable = 8
    Threads <- MCThreads
    Kernels <- MCTwice
    Program <- MCProgram
    LockStep <- MCLockStep
SPECIFICATION Spec
INVARIANT TakesWhole
CHECK_DEADLOCK FALSE
