SPECIFICATION Spec
CONSTANTS
    MaxRequests = 2
    MaxTopics = 3
INVARIANTS TypeOK ResultIsDrawn TextIsListed
PROPERTIES ContentFollows PlaceIsKept
