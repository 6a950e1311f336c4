SPECIFICATION FairSpec
CONSTANTS
    Signals = {fetch, subscribe}
    Stoppers = {ws, ses}
INVARIANTS TypeOK UniqueSignals NoLostWakeup PostsOnlyRegistered
PROPERTIES DestructorReturns KeepsTicking
