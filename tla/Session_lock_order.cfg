SPECIFICATION FairSpec
CONSTANTS
    MaxFetches = 2
    MaxSubscribes = 0
    TopicsPerFetch = 0
    MaxUpdates = 0
    MaxDrops = 1
    Capacity = 2
    FetchVerdicts = {"granted"}
    SubscribeVerdicts = {"granted"}
    RepliesFirst = TRUE
PROPERTIES DiscardingEnds
CHECK_DEADLOCK FALSE
