SPECIFICATION FairSpec
CONSTANTS
    MaxEvents = 2
    None = none
INVARIANTS
    TypeOK
    PodsAreNotBehind
    QuietIsApplied
PROPERTIES
    RolloutSettles
    ComponentsSettle
