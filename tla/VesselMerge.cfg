SPECIFICATION FairSpec
CONSTANTS
    h1 = h1
    h2 = h2
    None = None
    Heads = {h1, h2}
    PRs = {1}
    Number = 1
    FirstHead = h1
    MaxVersion = 13
    MaxAttempts = 2
    MaxFaults = 1
INVARIANTS
    TypeOK
    InFlightIsReserved
    OneRequestInFlight
    DoneIsMerged
PROPERTIES ApprovalNamesCandidate GrantedMergeRecorded
