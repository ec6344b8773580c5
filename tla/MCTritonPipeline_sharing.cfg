CONSTANTS
    d1 = d1
    d2 = d2
    Dir <- TwoDirs
    Kernels <- PlainKernel
    Configs <- SharingConfigs
SPECIFICATION Spec
SYMMETRY Dirs
INVARIANTS
    AutoReplaysAgreed
PROPERTIES
    StoresOnlyCertified
