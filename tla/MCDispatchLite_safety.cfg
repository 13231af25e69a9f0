\* 1 client and 1 to 2 workers that call, 1 object, handles 1..3, 2 results kept
SPECIFICATION Spec
CONSTANTS
    c1 = c1
    o1 = o1
    None = None
    NoItem = NoItem
    Clients <- OneClient
    Objs <- OneObj
    PostModes <- SeqAndPar
    DefaultThreads = 1
    MaxThreads = 2
    ReadyBound = 3
    HandleMax = 3
    MaxTimeout = 1
    MaxResults = 2
INVARIANTS TypeOK TableConsistent ResultNotLost WaitHonest MonitorNamesCurrent NoMethodAfterDestroy
CHECK_DEADLOCK FALSE
