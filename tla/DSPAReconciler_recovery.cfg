SPECIFICATION FairSpec
CONSTANTS
    FaultyCalls <- CallsButStatus
    Problems <- RetriedProblems
    Supported <- SupportedOnly
    MaxUserOps = 2
    MaxFaults = 1
    MaxCrashes = 1
    MaxChanges = 1
PROPERTIES
    DeletionCompletes
    StatusRecovers
CHECK_DEADLOCK FALSE
