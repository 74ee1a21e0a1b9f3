\* Two messages, three offers of each, one row a run so that the second waits,
\* one fault anywhere and one notification.
CONSTANTS
    N = 2
    MaxAttempts = 2
    Backoff <- MCBackoff
    Horizon = 2
    Limit = 1
    MaxFaults = 1
    MaxBounces = 1
SPECIFICATION Spec
INVARIANTS RetriesAsScheduled QueuedHasWakeup
PROPERTIES DeliversAsPromised
