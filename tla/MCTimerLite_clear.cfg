\* 2 timers, removeTimer(void)
SPECIFICATION Spec
CONSTANTS
    h1 = h1
    h2 = h2
    h3 = h3
    End = End
    Absent = Absent
    Handles <- TwoHandles
    Intervals <- ShortAndLong
    BaseIntervals <- NoBase
    MinTick = 15
    MaxTick = 2000
    Tick = 15
    MayRemoveAll = TRUE
PROPERTIES AllRemovedNeverStart
CHECK_DEADLOCK FALSE
