SPECIFICATION FairSpec
CONSTANTS
    Sids = {s1}
    Conns = {c1}
    None = None
CHECK_DEADLOCK FALSE
PROPERTIES
    ImplementsLiveChannel
    StopIsFinal
