\* a in one process, b in another, extra areas of different names
SPECIFICATION Spec
CONSTANTS
    a = a
    b = b
    r1 = r1
    r2 = r2
    None = None
    Objs = {a, b}
    Proc <- Pids
    ShmName <- TwoNames
    Regions = {r1, r2}
    UintMax = 3
INVARIANTS TypeOK CountExact MutexOwned NothingLeft
 
CHECK_DEADLOCK FALSE
