SPECIFICATION MCSpec
CONSTANTS
    Replicas = {"p1", "p2"}
    Events = {"e1", "e2"}
    SameURI = {"e1", "e2"}
    MaxEdits = 1
    MaxResets = 1
    MaxFaults = 1
    Keys = {1, 2, 3, 4}
    Parent <- MCParent
    Above <- MCAbove
    Docs = {1, 2, 3, 4, 5}
    Doc <- MCDoc
    Assocs = {1}
    Assoc <- MCAssoc
    Denied = {3}
    Queries <- MCQueries
    Limit = 2
    Writers = {w1, w2}
    MaxDeletes = 1
    NoRow = NoRow
CHECK_DEADLOCK FALSE
INVARIANTS BadgeClears ChildrenListed PagingComplete
PROPERTIES OnlineAgain FollowerCatchesUp EventPushed PagingEnds
