\* Three messages, three requests of the person or faults.
CONSTANTS
    N = 3
    Targets = {2, 3}
    PageSize = 1
    PagesPerRun = 2
    Batch = 3
    Workers = {w1, w2}
    MaxAttempts = 2
    SortBudget = 1
    Kinds <- MCKinds
    MaxCalls = 2
    MaxFaults = 1
SPECIFICATION Spec
INVARIANTS DoneMeansAll SortsBounded
PROPERTY ImportEnds
CHECK_DEADLOCK FALSE
