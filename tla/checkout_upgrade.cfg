SPECIFICATION Spec
CONSTANTS
    d1 = d1
    d2 = d2
    t1 = t1
    t2 = t2
    NoTenant = NoTenant
    NoSid = NoSid
    NoRow = NoRow
    NoWrite = NoWrite
    Tenants = {t1}
    Sids = {"s1"}
    Histories <- Upgrades
    MaxEvents = 2
    Workers = {d1}
    InitialRows <- SeededRow
    InitialTenants = {t1}
    Ordered <- Upgrades
    MaxFailures = 0
INVARIANTS
    CheckoutAccepted
CHECK_DEADLOCK FALSE
