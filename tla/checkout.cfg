SPECIFICATION FairSpec
CONSTANTS
    r1 = r1
    r2 = r2
    r3 = r3
    Absent = Absent
    Requests = {r1, r2, r3}
    MaxCustomers = 4
INVARIANTS
    TypeOK
    SessionsOfTenant
PROPERTIES
    SettledForGood
    SettlesEventually
CHECK_DEADLOCK FALSE
