\* A destination that is entered, verified and changed while two requests and a
\* settlement run are served.
CONSTANTS
    Payments = {p1}
    Workers = {w1, w2}
    MaxEntered = 2
    MaxTime = 2
    MaxRuns = 1
    MaxFaults = 0
SPECIFICATION Spec
INVARIANT PaysConfirmedAddress
CHECK_DEADLOCK FALSE
