\* one object in each of two processes; a is destroyed
SPECIFICATION Spec
CONSTANTS
    a = a
    b = b
    c = c
    s1 = s1
    None = None
    Msgs = {1, 2}
    Objs = {a, b}
    Proc <- Pids
    Addr <- Distinct
    List <- Lists
    ProMax = 2
    ListenMax = 2
    QueueMax = 2
    PayloadSlots = {}
    Closable = {a}
PROPERTIES ImplementsMailbox WakeupDrains SharedDestructorReturns
CHECK_DEADLOCK FALSE
