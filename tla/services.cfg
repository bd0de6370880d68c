SPECIFICATION MCSpec
CONSTANTS
    Entities = {1, 2}
    Records = {3, 4}
    Acks = {1, 2}
    Readers = {1, 2}
    LastVersion = 2
    Bogus = {9}
    DirectProof = {1, 2}
    Signed = {1, 2, 3, 4, 5, 6, 7, 8, 9, 10, 11, 12, 13}
    SD <- SignedDocs
    SubkeyURIs = {"A/k", "B/k"}
    Answers = {1, 2, 3, 4, 11}
    KeyOwner <- SubkeyOwner
    NoDoc = 0
    Requests <- PolicyRequests
    Statements <- PolicyStatements
    Entries <- PolicyEntries
    Stacks <- PolicyStacks
    Fqdn = "here"
    Ids = {1, 2, 3, 4, 5, 6, 7}
    Doc <- TransferDoc
    Keys = {"a", "b"}
    Owners = {"A", "B"}
    PageSize = 2
    MaxRuns = 2
    Replicas = {r1}
    Nobody = Nobody
    NoView = NoView
    LeaseDuration = 15
    RenewDeadline = 10
    PollInterval = 2
    FailureGrace = 10
    FetchTimeout = 2
    ReleaseOnCancel = TRUE
    MaxTime = 28
    Timelines = {1, 2}
    Hrefs = {"x", "y"}
    NoItem = "none"
    Instants = {2, 3, 5, 7}
    ChunkSize = 2
    BodyLimit = 2
    Untils = {7}
    Limits = {1, 3}
    Removals <- QueryRemovals
    MaxPops = 5
CHECK_DEADLOCK FALSE
INVARIANTS ImportRestores MigrationPossible RegisteredLives VerifiedGiven
    StaleOnlyByRace AuthorConsents EntitledPermitted GrantedBelow
    TypeOK LeadershipBounded QueryExact
PROPERTIES NoAckLost DeletedIsSaved
