SPECIFICATION FairSpec
CONSTANTS
    Callers = {t1, t2}
    Sessions = {s1, s2, s3}
    Lifetime = 2
    Retry = 2
    StaleAfter = 4
    None = None
INVARIANTS
    InStep
    StaleMeansStreak
    NoGhostError
    OneRenewal
    RefusalsApart
PROPERTIES
    Recovers
