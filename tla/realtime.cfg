SPECIFICATION MCSpec
CONSTANTS
    Prefixes = {a, b}
    Single = a
    Local = {}
    Hosts = {"h"}
    HostOf <- MCHostOf
    Peers = {w}
    Me = me
    Users = {w}
    Terms = {1, 2}
    Requests = {q}
    MaxConns = 2
    NoSub = NoSub
    LocalTicks = 2
    MaxFaults = 1
    MaxChanges = 1
INVARIANTS NoLeakedConnection
PROPERTIES EnsuredStays DemotionCloses DemandServed
CHECK_DEADLOCK FALSE
