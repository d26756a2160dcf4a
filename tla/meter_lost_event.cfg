SPECIFICATION Spec
CONSTANTS
    r1 = r1
    r2 = r2
    r3 = r3
    Req = {r1, r2, r3}
    NoEvent = NoEvent
    Keys = {"k1", "k2", "k3"}
    Types = {"api_call", "input_tokens"}
    ApiCall = "api_call"
    MaxQty = 2
    Plan <- SmallPlans
    Subscriptions <- ActivePro
    Workloads <- RaceWorkloads
    PoolSize = 2
    MaxInFlight = 1
    LastMonth = 1
    MayFail = TRUE
    CacheMayFail = FALSE
INVARIANTS
    AnsweredIsRecorded
CHECK_DEADLOCK FALSE
