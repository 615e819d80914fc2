SPECIFICATION Spec
CONSTANTS
    c1 = c1
    c2 = c2
    Controllers = {c1, c2}
    Res = 2
    TTL = 2
    Renew = 1
    Timeout = 1
    Cadence = 1
    RetryDelay = 1
    StoreErrors = TRUE
    MaxTime = 4
    MaxTenure = 2
SYMMETRY Symmetry
PROPERTIES
    LeaseIsItsHolders
    StaleOwnersNeverWrite
