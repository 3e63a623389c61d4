SPECIFICATION Spec
CONSTANTS
    None = None
    h1 = h1
    t1 = t1
    t2 = t2
    cargo_test = cargo_test
    s1 = s1
    e1 = e1
    Heads = {h1}
    PRs = {1}
    Tasks = {t1, t2}
    Commands = {cargo_test}
    Sentinels = {s1}
    Executors = {e1}
    FirstHead = h1
    RedisFails = FALSE
    MaxVersion = 4
    MaxCancels = 1
    MaxFaults = 0
PROPERTY ImmutableResult
CHECK_DEADLOCK FALSE
