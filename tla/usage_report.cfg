SPECIFICATION Spec
CONSTANTS
    Price <- SmallPrices
    g1 = g1
    g2 = g2
    Readers = {g1, g2}
    Quantities = {1}
    Plans = {"PRO"}
    MaxRows = 2
    LastMonth = 2
    NoReport = NoReport
    NoPlan = NoPlan
SYMMETRY ReaderSymmetry
INVARIANTS
    TypeOK
    DriftBounded
    TotalsAgree
    ReportOfThisMonth
    NeverAhead
