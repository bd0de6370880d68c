SPECIFICATION MCSpec
CONSTANTS
    Prefixes = {a, b}
    Single = a
    Local = {}
    Hosts = {"h"}
    HostOf <- MCHostOf
    Peers = {}
    Me = me
    Users = {me}
    Terms = {1}
    Requests = {q}
    MaxConns = 2
    NoSub = NoSub
    LocalTicks = 2
    MaxFaults = 0
    MaxChanges = 1
PROPERTIES DemandListened
CHECK_DEADLOCK FALSE
