SPECIFICATION TransferSpec
CONSTANTS
    Ids = {1, 2, 3, 4, 5, 6, 7}
    Doc <- TransferDoc
    Keys = {"a", "b"}
    Owners = {"A", "B"}
    PageSize = 2
    MaxRuns = 2
INVARIANT RerunSafe
CHECK_DEADLOCK FALSE
