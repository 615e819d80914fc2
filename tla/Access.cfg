SPECIFICATION FairAccessSpec
CONSTANTS
    None = None
    NoLease = NoLease
    r1 = r1
    i1 = i1
    i2 = i2
    x1 = x1
    x2 = x2
    k1 = k1
    Recipients = {r1}
    Invites = {i1, i2}
    Handlers = {x1, x2}
    Connectors = {x1}
    Acceptors = {x2}
    Revokers = {k1}
    LeaseTTL = 1
    InviteTTL = 1
    MaxTime = 1
    MaxEpoch = 1
    MaxRevoked = 0
    MaxFaults = 1
INVARIANTS
    BindingIsAccepted
    CacheUnderBinding
PROPERTIES
    AuthoritySpec
    AcceptCanBeCompleted
    AccessReturns
    RevokedSessionsEnd
CHECK_DEADLOCK FALSE
