SPECIFICATION Spec
CONSTANTS
    Workers = {w1, w2}
    Signers = {"tenant"}
    MayBeMissing = {"applicant_contact"}
    MaxVersions = 2
    MaxOffers = 2
    MaxFaults = 1
    Unconfirmed = Unconfirmed
    Governing = FALSE
    StaffPackages = TRUE
    ConversionBacked = FALSE
SYMMETRY Symmetry
INVARIANTS CompletionBoundary EndedOwesNoDelivery PackageOnAgreedOffer DecisionRaised
PROPERTIES EndsOnce SettledOnce ImplementsContract
