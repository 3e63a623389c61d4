SPECIFICATION FairSpec
CONSTANTS
    h1 = h1
    None = None
    Heads = {h1}
    PRs = {1}
    Number = 1
    FirstHead = h1
    MaxVersion = 9
    MaxAttempts = 2
    MaxFaults = 1
PROPERTY MergeReconciled
CHECK_DEADLOCK FALSE
