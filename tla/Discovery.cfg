SPECIFICATION FairSpec
CONSTANTS
    None = None
    Pipes = {p, q}
    Own = {q}
    Fetchers = {x, y}
    Res = 3
    RecordTTL = 4
    Limit = 1
    MaxTime = 4
    MaxSeq = 2
    MaxGen = 4
INVARIANTS
    HonestSnapshotsApply
    CacheIsSnapshot
PROPERTIES
    NoOldNews
    OwnRowsStay
    Converges
