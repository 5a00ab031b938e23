SPECIFICATION FairSpec
CONSTANTS
    NKeys = 2
    u1 = u1
    u2 = u2
    x = x
    Passwords = {u1, u2, x, p1, p2, p3, p4, p5, p6, p7}
    UserCreds <- SomeUserCreds
    ExternalCred <- XCred
    Missing = missing
    None = none
    MaxUid = 2
    MaxEvents = 3
INVARIANTS
    TypeOK
    RunningStoreKeepsItsSecret
    ReadyOwnsItsStore
    NoDSPAForgotten
PROPERTIES
    StoreBecomesHealthy
    NothingIsLeftBehind
CHECK_DEADLOCK FALSE
