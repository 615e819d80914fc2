SPECIFICATION FairSpec
CONSTANTS
    Procs = {p1, p2}
    Keys = {k1, k2, k3}
    Inodes = {n1, n2}
    None = None
    Corrupt = Corrupt
INVARIANTS
    RollbackIsOwn
    CreatedKeyStays
PROPERTIES
    KeyCellSpec
    ProvisionReturns
