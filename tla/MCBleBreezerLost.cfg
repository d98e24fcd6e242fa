SPECIFICATION Spec
CONSTANTS
    Sends = {t1, t2}
    Twice = {t1}
    Keys = {k1}
    Vals = {v1, v2}
    None = None
INVARIANTS
    NoSilentLoss
