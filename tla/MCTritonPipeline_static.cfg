CONSTANTS
    d1 = d1
    d2 = d2
    Dir <- OneDir
    Kernels <- PlainKernel
    Configs <- SharingConfigs
SPECIFICATION Spec
INVARIANTS
    TrustedSeedChecked
