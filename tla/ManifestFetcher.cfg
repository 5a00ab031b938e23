SPECIFICATION FairSpec
CONSTANTS
    DSPAs = {d1, d2}
    t1 = t1
    a = a
    Tags = {t1, t2}
    Omitted = omitted
    Denied = {t2}
    Defaults = {omitted, t1}
    Names = {a}
    FirstSpecs <- AskListing
    Images <- FewImages
    ScannedImages <- SmallImages
    PushedImages <- PushImages
    None = none
    TTL = 0
    MaxTime = 1
    MaxEvents = 2
INVARIANTS
    TypeOK
    VerdictIsDeserved
    ScanFindsTheVisibleManifest
PROPERTIES
    FetchErrorsHeal
    VerdictCatchesUp
