SPECIFICATION Spec
CONSTANTS
    Inv = {i1, i2}
    MaxTours = 2
    Worker = {w1}
    None = None
SYMMETRY Symmetry
INVARIANTS TypeOK ChildTracksLink UnsentStaysUnsent ProviderFactTrue OneSendPerFollowUp
PROPERTIES ImplementsLinkContract
CHECK_DEADLOCK FALSE
