\* The planner clicks what looks like a submit control.
\* The runs are bounded: the last one ends and nothing follows.
CHECK_DEADLOCK FALSE
CONSTANTS
    Calls <- SubmitCalls
    RunIds <- FreshIds
    MaxAttempts = 3
    MaxRuns = 1
    MaxCalls = 1
    MaxSessions = 1
    MaxTimeouts = 0
    MaxCancels = 0
    MaxLosses = 0
    MaxStoreFailures = 0
    MaxCloseFailures = 0
SPECIFICATION Spec
INVARIANTS
    SubmitClickedOnce
