CONSTANTS
    None = None
    Heads = {h1, h2}
    PRs = {1, 2}
    MaxVersion = 14
SPECIFICATION Spec
INVARIANTS
    TypeOK
    MergeReadyImpliesGates
    ReservationIsReady
    DeliveryNeverStuck
    OnlyVerdictsPassGates
    WorkHasApprovedPlan
PROPERTIES
    HeadChangeDropsEvidence
    VerdictsNotTransferred
CHECK_DEADLOCK FALSE
