SPECIFICATION Spec
CONSTANTS
    Workers = {w1}
    Signers = {"tenant", "guarantor"}
    MayBeMissing = {}
    MaxVersions = 3
    MaxOffers = 1
    MaxFaults = 0
    Unconfirmed = Unconfirmed
    Governing = TRUE
    StaffPackages = TRUE
    ConversionBacked = FALSE
INVARIANTS OneOpenForSignature ExecutedOnce
PROPERTIES SignaturesKept
