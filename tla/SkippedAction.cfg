\* Two runs in one generation whose activity IDs start again.
\* The runs are bounded: the last one ends and nothing follows.
CHECK_DEADLOCK FALSE
CONSTANTS
    Calls <- SingleCalls
    RunIds <- SameIds
    MaxAttempts = 2
    MaxRuns = 2
    MaxCalls = 2
    MaxSessions = 2
    MaxTimeouts = 0
    MaxCancels = 0
    MaxLosses = 0
    MaxStoreFailures = 0
    MaxCloseFailures = 0
SPECIFICATION Spec
INVARIANTS
    NothingSkipped
