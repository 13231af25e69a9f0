\* 3 timers, all calls
SPECIFICATION Spec
CONSTANTS
    h1 = h1
    h2 = h2
    h3 = h3
    End = End
    Absent = Absent
    Handles <- ThreeHandles
    Intervals <- TooShortAndShort
    BaseIntervals <- Bases
    MinTick = 15
    MaxTick = 2000
    Tick = 15
    MayRemoveAll = TRUE
INVARIANTS TypeOK
PROPERTIES ClearWaitsForCallback LastCallIsLast TimerFires TimerDestructorReturns
CHECK_DEADLOCK FALSE
