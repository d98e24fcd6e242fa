SPECIFICATION FairSpec
CONSTANTS
    w1 = w1
    w2 = w2
    Writers = {w1, w2}
    Fields = {"enabled", "speed_min", "speed_max"}
    Enabled = "enabled"
    Values = {0, 1}
    MaxVersion = 4
    Wishes <- Wanted
    Allowed <- Ordered
    Foreign <- Others
    Unset = Unset
    None = None
INVARIANTS
    OwnWriteShown
PROPERTIES
    FieldsKept
    Converges
