SPECIFICATION Spec
CONSTANTS
    MaxFetches = 3
    MaxSubscribes = 1
    TopicsPerFetch = 2
    MaxUpdates = 0
    MaxDrops = 0
    Capacity = 4
    FetchVerdicts = {"granted", "refused"}
    SubscribeVerdicts = {"granted", "refused"}
    RepliesFirst = TRUE
INVARIANTS FetchHasEnding OneFetch NoOrphanSpinner WholeResult
PROPERTIES NeverOlder ResultsAreSafe
