\* A cancelled run's attempt works on beside the next run, whose keys collide.
\* The runs are bounded: the last one ends and nothing follows.
CHECK_DEADLOCK FALSE
CONSTANTS
    Calls <- MixedCalls
    RunIds <- SameIds
    MaxAttempts = 2
    MaxRuns = 2
    MaxCalls = 2
    MaxSessions = 2
    MaxTimeouts = 2
    MaxCancels = 1
    MaxLosses = 0
    MaxStoreFailures = 1
    MaxCloseFailures = 0
SPECIFICATION Spec
INVARIANTS
    JournalTypeOK
PROPERTIES
    KeepsTheLog
