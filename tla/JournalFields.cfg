\* Calls of several fields, retried after lost attempts and a failed write.
\* The runs are bounded: the last one ends and nothing follows.
CHECK_DEADLOCK FALSE
CONSTANTS
    Calls <- SecretCalls
    RunIds <- FreshIds
    MaxAttempts = 3
    MaxRuns = 1
    MaxCalls = 2
    MaxSessions = 1
    MaxTimeouts = 2
    MaxCancels = 0
    MaxLosses = 0
    MaxStoreFailures = 1
    MaxCloseFailures = 0
SPECIFICATION Spec
INVARIANT
    NothingSkipped
