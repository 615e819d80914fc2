SPECIFICATION FairSpec
CONSTANTS
    Conns = {c1}
    Periodic = Periodic
    Free = Free
    AccessTTL = 5
    Margin = 3
    Setup = 2
    Cooldown = 1
    MaxSeq = 2
INVARIANTS
    PresentedLeaseLives
    RevokedPairsEnd
PROPERTIES
    EndpointFollows
    ConnectionsSettle
