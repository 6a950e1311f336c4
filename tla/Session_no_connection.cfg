SPECIFICATION Spec
CONSTANTS
    MaxFetches = 1
    MaxSubscribes = 0
    TopicsPerFetch = 0
    MaxUpdates = 0
    MaxDrops = 1
    Capacity = 1
    FetchVerdicts = {"granted"}
    SubscribeVerdicts = {"granted"}
    RepliesFirst = TRUE
PROPERTIES FetchNeedsConnection
CHECK_DEADLOCK FALSE
