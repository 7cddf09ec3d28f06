CONSTANTS
    plain1 = plain1
    resume1 = resume1
    resume2 = resume2
    plain2 = plain2
    app1 = app1
    app2 = app2
    user1 = user1
    action1 = action1
    action2 = action2
    NoAction = NoAction
    NoItem = NoItem
    Items <- MCOneAppItems
    Apps <- MCOneAppApps
    Users <- MCUsers
    UserActions <- MCUserActions
    AppOf <- MCOneAppOf
    UserOf <- MCOneAppUserOf
    ResumeOf <- MCOneAppResumeOf
    MaxConcurrent = 2
    MaxSends <- MCOneAppMaxSends
    MaxPending = 1
    MaxRollovers = 1
    MaxCancels = 1
    CanTimeOut = TRUE
SPECIFICATION FairSystemSpec
INVARIANTS
    SystemTypeOK
PROPERTIES
    StartsOnce
    SettledRunFreed
    AcceptedResumeStarts
\* Every application of the instance may be over: the pool is then idle.
CHECK_DEADLOCK FALSE
