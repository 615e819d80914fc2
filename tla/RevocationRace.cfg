SPECIFICATION Spec
CONSTANTS
    None = None
    r1 = r1
    i1 = i1
    i2 = i2
    x1 = x1
    k1 = k1
    k2 = k2
    Recipients = {r1}
    Invites = {i1, i2}
    Handlers = {x1}
    Revokers = {k1, k2}
    LeaseTTL = 1
    InviteTTL = 1
    MaxTime = 2
    MaxEpoch = 2
    MaxRevoked = 2
SYMMETRY Symmetry
PROPERTIES
    RevocationMakesStale
