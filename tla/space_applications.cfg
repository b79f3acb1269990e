SPECIFICATION Spec
CONSTANTS
    h2 = h2  a1 = a1  a2 = a2  h1 = h1  p1 = p1  s1 = s1  s2 = s2  r1 = r1  r2 = r2
    Application = {a1, a2}
    Home = {h1, h2}
    Person = {}
    Day = {1, 2}
    NoHome = NoHome
    NamedHome <- OneHome
    Guaranteed = {a1, a2}
    Setup = {}
    Row = {}
    SetupOf <- OneSetup
    Claims = {}
    NoPerson = NoPerson
    Vacant = Vacant
    AsOf = 1
    Terms <- Years
    Ungoverned = {"approval"}
    MaxRecords = 2
    MaxLeases = 2
    MaxWork = 1
SYMMETRY Symmetry
INVARIANTS TypeOK OneHolderPerHome StandingBasis TenancyAsAgreed TermWorkStands
PROPERTIES ImplementsLedger
CHECK_DEADLOCK FALSE
