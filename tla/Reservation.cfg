SPECIFICATION RelayFairSpec
CONSTANTS
    Margin = 6
    MinDelay = 4
    TickEvery = 2
    Timeout = 2
    PublishTime = 7
    RecordTTL = 16
    Grants = {3, 16}
    Lifetimes = {3, 14, 16}
    MaxFaults = 2
INVARIANTS
    NoLapse
    
PROPERTY Recovers
