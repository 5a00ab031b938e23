SPECIFICATION Spec
CONSTANTS
    FaultyCalls <- AllCalls
    Problems <- ComponentProblems
    Supported <- AnyVersion
    MaxUserOps = 3
    MaxFaults = 1
    MaxCrashes = 1
    MaxChanges = 0
INVARIANTS
    TypeOK
    NoOrphanedClusterRoleBinding
    ReadyMetricIsLive
    FinalizationClearsMetrics
    ReadyIsBackedByResources
PROPERTIES
    ReadyVerdictIsForThisDSPA
    ImplementsLifecycle
CHECK_DEADLOCK FALSE
