\* One settlement run that found a payment, and no connection that breaks.
CONSTANTS
    Payments = {p1}
    Workers = {w1, w2}
    MaxEntered = 1
    MaxTime = 1
    MaxRuns = 1
    MaxFaults = 0
SPECIFICATION FairSpec
PROPERTY RunsEnd
CHECK_DEADLOCK FALSE
