SPECIFICATION Spec
CONSTANTS
    MaxFetches = 2
    MaxSubscribes = 1
    TopicsPerFetch = 1
    MaxUpdates = 2
    MaxDrops = 1
    Capacity = 1
    FetchVerdicts = {"granted", "refused"}
    SubscribeVerdicts = {"granted", "refused"}
    RepliesFirst = TRUE
INVARIANTS TypeOK NoOrphanSpinner SelfLockNeedsFullQueue TopicsHaveOneOwner
PROPERTIES FeedIsSafe SpinnerTakenByEarlier
CHECK_DEADLOCK FALSE
