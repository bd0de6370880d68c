SPECIFICATION ElectorSpec
CONSTANTS
    Replicas = {r1, r2}
    Nobody = Nobody
    NoView = NoView
    LeaseDuration = 15
    RenewDeadline = 10
    PollInterval = 2
    FailureGrace = 10
    FetchTimeout = 2
    ReleaseOnCancel = TRUE
    MaxTime = 30
INVARIANT NoOverlap
CHECK_DEADLOCK FALSE
