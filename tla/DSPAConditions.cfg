SPECIFICATION FairSpec
CONSTANTS
    Components <- ThreeComponents
    Worlds <- AllWorlds
    MaxChanges = 1
    MaxFaults = 1
    MaxTime = 1
INVARIANTS
    TypeOK
    StoredReadyIsBacked
PROPERTIES
    StableSince
    TransitionsAreNew
    ConditionsConverge
