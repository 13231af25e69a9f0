\* 1 client and 1 to 2 workers that call, 1 object, both modes (parallel posts make the pool grow), handles 1..2, 1 result kept
SPECIFICATION Spec
CONSTANTS
    c1 = c1
    o1 = o1
    None = None
    NoItem = NoItem
    Clients <- OneClient
    Objs <- OneObj
    PostModes <- SeqAndPar
    DefaultThreads = 1
    MaxThreads = 2
    ReadyBound = 2
    HandleMax = 2
    MaxTimeout = 1
    MaxResults = 1
PROPERTIES WaitReturns PostedCompletes DestructorReturns
CHECK_DEADLOCK FALSE
