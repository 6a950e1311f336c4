SPECIFICATION Spec
CONSTANTS
    MaxFetches = 1
    MaxSubscribes = 0
    TopicsPerFetch = 1
    MaxUpdates = 0
    MaxDrops = 0
    Capacity = 1
    FetchVerdicts = {"granted"}
    SubscribeVerdicts = {"granted"}
    RepliesFirst = FALSE
INVARIANTS WholeResult
CHECK_DEADLOCK FALSE
