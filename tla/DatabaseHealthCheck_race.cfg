SPECIFICATION Spec
CONSTANTS
    DSPAs = {d1, d2}
    Workers = 2
    CAs = {"ca1", "ca2"}
    Databases <- FewDatabases
INVARIANT
    PassedUnderOwnConfig
