SPECIFICATION FairSpec
CONSTANTS
    MaxWire = 2
CHECK_DEADLOCK FALSE
PROPERTIES
    ImplementsNatsLink
    EndsClean
    NoticesDeath
