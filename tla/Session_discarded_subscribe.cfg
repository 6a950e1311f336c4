SPECIFICATION FairSpec
CONSTANTS
    MaxFetches = 0
    MaxSubscribes = 1
    TopicsPerFetch = 0
    MaxUpdates = 1
    MaxDrops = 1
    Capacity = 2
    FetchVerdicts = {"granted"}
    SubscribeVerdicts = {"granted"}
    RepliesFirst = TRUE
PROPERTIES FeedDelivers
CHECK_DEADLOCK FALSE
