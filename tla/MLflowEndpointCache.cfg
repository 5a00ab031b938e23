SPECIFICATION Spec
CONSTANTS
    Threads = {t1, t2}
    Namespaces = {n1, n2}
    Endpoints = {e1}
    Missing = missing
    TTL = 2
    MaxTime = 5
SYMMETRY Symmetry
INVARIANTS
    TypeOK
    AnswersAreFresh
PROPERTY
    OnlyExpiredEntriesAreDropped
CHECK_DEADLOCK FALSE
