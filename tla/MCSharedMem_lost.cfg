\* a only sends, b listens; nobody leaves
SPECIFICATION Spec
CONSTANTS
    a = a
    b = b
    c = c
    s1 = s1
    None = None
    Msgs = {1}
    Objs = {a, b}
    Proc <- Pids
    Addr <- Distinct
    List <- OnlyB
    ProMax = 2
    ListenMax = 2
    QueueMax = 1
    PayloadSlots = {}
    Closable = {}
PROPERTIES MailIsTaken
CHECK_DEADLOCK FALSE
