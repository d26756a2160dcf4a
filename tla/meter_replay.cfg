SPECIFICATION FairSpec
CONSTANTS
    r1 = r1
    r2 = r2
    r3 = r3
    Req = {r1, r2, r3}
    NoEvent = NoEvent
    Keys = {"k1", "k2"}
    Types = {"api_call"}
    ApiCall = "api_call"
    MaxQty = 2
    Plan <- SmallPlans
    Subscriptions <- DowngradedSubscription
    Workloads <- ReplayWorkloads
    PoolSize = 2
    MaxInFlight = 3
    LastMonth = 2
    MayFail = FALSE
    CacheMayFail = TRUE
INVARIANTS
    AnsweredIsRecorded
    RepliesNameOneEvent
PROPERTIES
    AllAnswered
CHECK_DEADLOCK FALSE
