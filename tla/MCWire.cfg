SPECIFICATION WireSpec
CONSTANTS
    Cuts = {11, 200}
    CloudActs = 2
    Bodies <- SomeBodies
    Skews <- SomeSkews
    Drifts <- SomeDrifts
    REQUEST_TIMEOUT = 3
    MaxTime = 7
    BleActs = 3
CHECK_DEADLOCK FALSE
INVARIANTS ShownIsTold OkIsDone WholeAnswer ClockLags Genuine
