SPECIFICATION FairSpec
CONSTANTS
    MaxFetches = 2
    MaxSubscribes = 2
    TopicsPerFetch = 0
    MaxUpdates = 1
    MaxDrops = 0
    Capacity = 3
    FetchVerdicts = {"granted", "refused"}
    SubscribeVerdicts = {"granted", "refused"}
    RepliesFirst = TRUE
PROPERTIES FetchEnds UiResponds UpdatesArrive ResultsArrive StrandedOnlyByRefusal
INVARIANTS LabelsAreDistinct UiIsNotBlocked
