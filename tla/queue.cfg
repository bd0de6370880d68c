SPECIFICATION FairSpec
CONSTANTS
    Jobs = {j1, j2}
    Garbled = {j2}
    Consumers = {c1}
    Reclaimers = {r1, r2}
    Movers = {v1}
    MsgIds = {m1, m2}
    NoCopy = NoCopy
    MaxAttempts = 2
    StreamMaxLen = 1
    MaxMishaps = 1
INVARIANTS TypeOK BudgetSpentOnFailures
PROPERTIES AtLeastOnce EventuallyDrained
CHECK_DEADLOCK FALSE
