SPECIFICATION Spec
CONSTANTS
    w1 = w1
    w2 = w2
    w3 = w3
    Ops = {1, 2, 3}
    Queues <- AllQueues
    Workers = {w1, w2, w3}
    Quota <- OneSlot
    MaxAttempts = 2
CHECK_DEADLOCK FALSE
INVARIANTS TypeOK FinalByLatestAttempt QuotaHeld ExhaustedIsParked
PROPERTY ParkedStaysParked
SYMMETRY Symmetry
