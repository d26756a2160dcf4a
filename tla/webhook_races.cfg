SPECIFICATION Spec
CONSTANTS
    d1 = d1
    d2 = d2
    t1 = t1
    t2 = t2
    NoTenant = NoTenant
    NoSid = NoSid
    NoRow = NoRow
    NoWrite = NoWrite
    Tenants = {t1, t2}
    Sids = {"s1", "s2", "s3"}
    Histories <- Races
    MaxEvents = 4
    Workers = {d1, d2}
    InitialRows <- NoRows
    InitialTenants = {t1}
    Ordered = {}
    MaxFailures = 1
INVARIANTS
    TypeOK
    AckedIsProcessed
    ColumnsFromEvents
PROPERTIES
    RowsMoveWithMark
CHECK_DEADLOCK FALSE
