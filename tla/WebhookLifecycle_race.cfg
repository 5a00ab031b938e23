SPECIFICATION Spec
CONSTANTS
    d1 = d1
    d2 = d2
    d3 = d3
    DSPAs <- TwoDSPAs
    Workers = 2
    LaggingKinds = {}
    MaxUserOps = 3
    MaxFaults = 0
    MaxCrashes = 0
SYMMETRY Symmetry
INVARIANT
    SettledDSPAsAreServed
CHECK_DEADLOCK FALSE
