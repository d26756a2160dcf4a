SPECIFICATION FairSpec
CONSTANTS
    d1 = d1
    d2 = d2
    t1 = t1
    t2 = t2
    NoTenant = NoTenant
    NoSid = NoSid
    NoRow = NoRow
    NoWrite = NoWrite
    Tenants = {t1, t2}
    Sids = {"s1", "s2"}
    Histories <- Serial
    MaxEvents = 5
    Workers = {d1}
    InitialRows <- NoRows
    InitialTenants = {t1}
    Ordered <- InOrder
    MaxFailures = 2
INVARIANTS
    AppliedOnce
    InSync
PROPERTIES
    AllAcknowledged
    MirrorSpec
CHECK_DEADLOCK FALSE
