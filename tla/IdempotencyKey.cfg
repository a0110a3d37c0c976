SPECIFICATION FairSpec
CONSTANTS
    r1 = r1
    r2 = r2
    r3 = r3
    r4 = r4
    a = a
    b = b
    Requests <- FourRequests
    Bodies <- TwoBodies
    Body <- OddBody
    MaxExpiries = 1
    MaxLost = 1
    MaxCuts = 1
    MaxFailures = 1
    Storable = TRUE
CHECK_DEADLOCK FALSE
INVARIANTS TypeOK PaymentsPerKey ClaimsRespected
PROPERTIES KeepsPromise EveryoneAnswered
