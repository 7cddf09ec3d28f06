CONSTANTS
    plain1 = plain1
    plain2 = plain2
    plain3 = plain3
    plain4 = plain4
    app1 = app1
    app2 = app2
    app3 = app3
    app4 = app4
    user1 = user1
    user2 = user2
    user3 = user3
    NoAction = NoAction
    NoItem = NoItem
    Items <- MCItems
    Apps <- MCApps
    Users <- MCUsers
    UserActions = {}
    AppOf <- MCAppOf
    UserOf <- MCUserOf
    ResumeOf <- MCResumeOf
    MaxConcurrent = 2
    MaxSends <- MCMaxSends
    MaxPending = 1
    MaxRollovers = 1
    MaxCancels = 0
    CanTimeOut = TRUE
SPECIFICATION FairSystemSpec
INVARIANTS
    NoMissedDispatch
    NoConcurrentRunsOfUser
    RunsWithinCapacity
PROPERTIES
    UserFIFO
    QueuedLeaves
\* Every application of the instance may be over: the pool is then idle.
CHECK_DEADLOCK FALSE
