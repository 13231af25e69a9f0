\* a in one process, b and c in another, c at the address of a; c is destroyed; one payload slot
SPECIFICATION Spec
CONSTANTS
    a = a
    b = b
    c = c
    s1 = s1
    None = None
    Msgs = {1, 2}
    Objs = {a, b, c}
    Proc <- Pids
    Addr <- AcrossProcesses
    List <- TwoLists
    ProMax = 2
    ListenMax = 2
    QueueMax = 1
    PayloadSlots = {s1}
    Closable = {c}
INVARIANTS TypeOK EntryCountsObjects SlotsOwned NotifyFindsListeners
PROPERTIES ImplementsMailbox
CHECK_DEADLOCK FALSE
