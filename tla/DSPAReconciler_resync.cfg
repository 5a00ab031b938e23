SPECIFICATION ResyncSpec
CONSTANTS
    FaultyCalls <- AllCalls
    Problems <- EveryProblem
    Supported <- AnyVersion
    MaxUserOps = 2
    MaxFaults = 1
    MaxCrashes = 0
    MaxChanges = 1
PROPERTY
    StatusConverges
CHECK_DEADLOCK FALSE
