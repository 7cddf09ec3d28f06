\* Two runs of an application, lost attempts, an expired browser, a failed write.
\* The runs are bounded: the last one ends and nothing follows.
CHECK_DEADLOCK FALSE
CONSTANTS
    Calls <- SingleCalls
    RunIds <- FreshIds
    MaxAttempts = 2
    MaxRuns = 2
    MaxCalls = 2
    MaxSessions = 2
    MaxTimeouts = 2
    MaxCancels = 0
    MaxLosses = 1
    MaxStoreFailures = 1
    MaxCloseFailures = 0
SPECIFICATION Spec
INVARIANTS
    OncePerBrowser
    AppliedWasDone
    AppliedInOrder
PROPERTIES
    RestoredBeforeActing
