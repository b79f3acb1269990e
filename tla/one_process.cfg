SPECIFICATION FairSpec
CONSTANTS
    Workers = {w1}
    Signers = {"tenant", "guarantor"}
    MayBeMissing = {"applicant_contact"}
    MaxVersions = 2
    MaxOffers = 1
    MaxFaults = 1
    Unconfirmed = Unconfirmed
    Governing = TRUE
    StaffPackages = FALSE
    ConversionBacked = FALSE
INVARIANTS TypeOK DeliveredBeforeClosed SignatureInputsAreSignatures ClockFollowsDelivery
PROPERTIES FactsSettleCompletion DeliverySettles OverdueClockEnds
