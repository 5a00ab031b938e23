SPECIFICATION FairSpec
CONSTANTS
    FaultyCalls <- AllCalls
    Problems <- ComponentProblems
    Supported <- AnyVersion
    MaxUserOps = 3
    MaxFaults = 0
    MaxCrashes = 0
    MaxChanges = 0
PROPERTY
    DeletionCompletes
CHECK_DEADLOCK FALSE
