CONSTANTS
    Names <- MCNames
    MaxDepth = 2
    Gone = Gone
    Dots <- MCDots
    Kept <- MCKept
    n1 = n1
    n2 = n2
    TnfsDrives <- MCTnfs
    SdDrives <- MCSd
    InitialTree <- MCTree
    Given <- MCGiven
    Retries = 1
    MaxOpen = 2
    MaxEvents = 3
    MaxDelayed = 1

SYMMETRY MCSymmetry

SPECIFICATION Spec

INVARIANTS
    TypeOK
    FpathNamesFile
    CwdExists

PROPERTIES
    TakesEffectOnce

CHECK_DEADLOCK FALSE
