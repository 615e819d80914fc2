SPECIFICATION PromptFairSpec
CONSTANTS
    c1 = c1
    c2 = c2
    Controllers = {c1, c2}
    Res = 1
    TTL = 4
    Renew = 1
    Timeout = 2
    Cadence = 6
    RetryDelay = 3
    StoreErrors = FALSE
    MaxTime = 8
    MaxTenure = 2
INVARIANT PromptOwnerHoldsLease
PROPERTY OrphanedLeaseIsTaken
