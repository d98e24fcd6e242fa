SPECIFICATION Spec
CONSTANTS
    Sids = {s1, s2}
    Conns = {c1, c2}
    None = None
SYMMETRY Symmetry
CHECK_DEADLOCK FALSE
INVARIANTS
    ConnectedIsLive
    DownIsReconnecting
    NoLeakedConnection
    SubscriptionsMatch
    NoLostWakeup
