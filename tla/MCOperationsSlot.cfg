SPECIFICATION Spec
CONSTANTS
    w1 = w1
    w2 = w2
    w3 = w3
    Ops = {1, 2}
    Queues <- OneFault
    Workers = {w1, w2}
    Quota <- OneSlot
    MaxAttempts = 1
CHECK_DEADLOCK FALSE
INVARIANT DeletionNeverWaitsForSlot
