SPECIFICATION Spec
CONSTANTS
    r1 = r1
    r2 = r2
    Requests = {r1, r2}
    MaxRequests = 2
    Window = 5
    Cooldown = 4
    MaxDelay = 2
    MaxTime = 6
SYMMETRY RequestSymmetry
INVARIANTS
    TypeOK
    WindowLimit
    NoFalseRefusal
    HangBounded
PROPERTIES
    FailOpenBounded
