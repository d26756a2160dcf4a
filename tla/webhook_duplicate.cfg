SPECIFICATION Spec
CONSTANTS
    d1 = d1
    d2 = d2
    t1 = t1
    t2 = t2
    NoTenant = NoTenant
    NoSid = NoSid
    NoRow = NoRow
    NoWrite = NoWrite
    Tenants = {t1}
    Sids = {"s1"}
    Histories <- Upgrades
    MaxEvents = 2
    Workers = {d1, d2}
    InitialRows <- NoRows
    InitialTenants = {t1}
    Ordered = {}
    MaxFailures = 0
INVARIANTS
    AppliedOnce
CHECK_DEADLOCK FALSE
