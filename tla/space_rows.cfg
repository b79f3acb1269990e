SPECIFICATION Spec
CONSTANTS
    h2 = h2  a1 = a1  a2 = a2  h1 = h1  p1 = p1  s1 = s1  s2 = s2  r1 = r1  r2 = r2
    Application = {a1}
    Home = {h1}
    Person = {p1}
    Day = {1}
    NoHome = NoHome
    NamedHome <- NoHomeNamed
    Guaranteed = {}
    Setup = {s1}
    Row = {r1, r2}
    SetupOf <- OneSetup
    Claims <- RowClaims
    NoPerson = NoPerson
    Vacant = Vacant
    AsOf = 1
    Terms <- Days
    Ungoverned = {"snapshot"}
    MaxRecords = 1
    MaxLeases = 2
    MaxWork = 1
SYMMETRY Symmetry
INVARIANTS GovernedTenancies OpeningCounts
CHECK_DEADLOCK FALSE
