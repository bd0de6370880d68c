SPECIFICATION Spec
CONSTANTS
    Records = {r1, r2}
    LeaderReads = {l}
    WorkerReads = {}
    MaxChunk = 2
    NoBody = NoBody
    NoRecord = NoRecord
    ViewTTL = 1
    FetchTime = 1
    ReplayDelay = 3
    MaxChanges = 1
    MaxFaults = 0
INVARIANT CachedLatestComplete
CHECK_DEADLOCK FALSE
