SPECIFICATION ResyncSpec
CONSTANTS
    d1 = d1
    d2 = d2
    d3 = d3
    DSPAs <- TwoDSPAs
    Workers = 2
    LaggingKinds = {"deployment"}
    MaxUserOps = 3
    MaxFaults = 1
    MaxCrashes = 1
INVARIANTS
    TypeOK
    ServedUnlessLate
PROPERTY
    WebhookConverges
CHECK_DEADLOCK FALSE
