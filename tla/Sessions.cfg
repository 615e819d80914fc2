SPECIFICATION FairSpec
CONSTANTS
    None = None
    s1 = s1
    l1 = l1
    Servers = {s1}
    Locals = {l1}
INVARIANTS
    StoppedIsStopped
    SingleTerminalAction
PROPERTIES
    GracefulOnlyIfClean
    StopsReturn
    ExpiryEndsSession
CHECK_DEADLOCK FALSE
