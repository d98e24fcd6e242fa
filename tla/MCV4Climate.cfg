SPECIFICATION FairSpec
CONSTANTS
    c1 = c1
    c2 = c2
    Calls = {c1, c2}
    Requests <- Asked
    PendingTTL = 0
    MaxApp = 1
    None = None
INVARIANTS
    FailureRestores
    NoSilentLoss
PROPERTIES
    Converges
