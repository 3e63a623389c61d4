SPECIFICATION Spec
CONSTANTS
    None = None
    h1 = h1
    h2 = h2
    t1 = t1
    t2 = t2
    cargo_test = cargo_test
    s1 = s1
    e1 = e1
    e2 = e2
    Heads = {h1, h2}
    PRs = {1}
    Tasks = {t1, t2}
    Commands = {cargo_test}
    Sentinels = {s1}
    Executors = {e1, e2}
    FirstHead = h1
    RedisFails = FALSE
    MaxVersion = 6
    MaxCancels = 1
    MaxFaults = 1
INVARIANTS
    TypeOK
    EvidenceIsReal
    CompletedIsDurable
    OneLiveTask
    OneExecutorPerTask
SYMMETRY Symmetry
CHECK_DEADLOCK FALSE
