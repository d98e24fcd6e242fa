SPECIFICATION Spec
CONSTANTS
    Devices = {d1, d2}
    Names = {n1, n2}
    Macs = {m1, m2}
    Slots = 4
    MaxApp = 1
    None = None
CHECK_DEADLOCK FALSE
INVARIANT HistoryByMac
