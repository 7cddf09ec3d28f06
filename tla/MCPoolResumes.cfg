CONSTANTS
    plain1 = plain1
    resume1 = resume1
    resume2 = resume2
    plain2 = plain2
    app1 = app1
    app2 = app2
    user1 = user1
    action1 = action1
    action2 = action2
    NoAction = NoAction
    NoItem = NoItem
    Items <- MCItems
    Apps <- MCApps
    Users <- MCUsers
    UserActions <- MCUserActions
    AppOf <- MCAppOf
    UserOf <- MCUserOf
    ResumeOf <- MCResumeOf
    MaxConcurrent = 2
    MaxSends <- MCMaxSends
    MaxPending = 1
    MaxRollovers = 1
SPECIFICATION Spec
INVARIANTS
    TypeOK
    SlotAccounting
    UsersSerialized
    MembershipExact
    DeferredBehindActive
    ResumeOnce
PROPERTIES
    RolloverLossless
    SchedulesApplications
