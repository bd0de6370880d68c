SPECIFICATION MCSpec
CONSTANTS
    Records = {r1, r2}
    LeaderReads = {}
    WorkerReads = {w}
    MaxChunk = 2
    NoBody = NoBody
    NoRecord = NoRecord
    ViewTTL = 1
    FetchTime = 1
    ReplayDelay = 2
    MaxChanges = 2
    MaxFaults = 1
    ack1 = ack1
    unack1 = unack1
    unack2 = unack2
    Servers = {"a", "b"}
    Acks <- MCAcks
    Entities <- MCEntities
    NoDoc = NoDoc
    NoServer = NoServer
    CreatedAt <- MCCreatedAt
    Entity <- MCEntity
    MaxAttempts = 2
    MaxInFlight = 2
SYMMETRY Symmetry
INVARIANTS
    TypeOK LatestComplete ReplaySweeps
    AckTypeOK AckedFollows NewestReaches
CHECK_DEADLOCK FALSE
