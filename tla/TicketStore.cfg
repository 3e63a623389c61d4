CONSTANTS
    None = None
    Heads = {h1, h2}
    PRs = {1}
    Clients = {c1, c2}
    MaxVersion = 20
    MaxSends = 3
    MaxFlight = 2
SPECIFICATION Spec
INVARIANTS TypeOK VersionNamesRecord OneWinnerPerVersion
PROPERTY AtomicLifecycle
SYMMETRY Symmetry
CHECK_DEADLOCK FALSE
