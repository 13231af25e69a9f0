\* 2 objects, 2 sequential tasks and 1 parallel one, 1 to 2 workers
SPECIFICATION Spec
CONSTANTS
    o1 = o1
    o2 = o2
    s1 = s1
    s2 = s2
    p1 = p1
    None = None
    Objs <- TwoObjs
    Tasks <- TwoSeqOnePar
    SeqTasks <- TwoSeq
    DefaultThreads = 1
    MaxThreads = 2
    ReadyBound = 3
INVARIANTS TypeOK NoLostTask SerialPerObject NoLostWakeup
PROPERTIES ImplementsSerialDispatch QueuedTaskStarts WorkersExitAfterStop
CHECK_DEADLOCK FALSE
