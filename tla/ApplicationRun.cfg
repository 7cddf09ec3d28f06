SPECIFICATION Spec
CONSTANTS
    Actions = {a1}
    MaxAgentIterations = 3
    MaxSubmitFailures = 2
    ClickAttempts = 2
    MaxFaults = 1
    MaxRetries = 1
    MaxOrphans = 1
    None = None
INVARIANTS RunTypeOK SubmitsBounded BelievedWasAccepted PausedIsDurable SettledRowFinal
PROPERTY RunSettles
CHECK_DEADLOCK FALSE
