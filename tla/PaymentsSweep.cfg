SPECIFICATION FairSpec
CONSTANTS
    Payments <- OnePayment
    Workers <- SlotAndCron
    Serves <- ServeAndSweep
    Splits <- TwoLegs
    Legs <- BothLegs
    Linked <- OnePayment
    Amount <- ThreeCents
    RefundAmounts = {1}
    PartialAmounts = {2}
    WebhookStatuses = {"COMPLETED", "FAILED", "PENDING"}
    MaxRefunds = 1
    MaxCalls = 2
    MaxCuts = 1
CHECK_DEADLOCK FALSE
INVARIANTS TypeOK RefundCap LegPaidOnce PartialHasFailedLeg
PROPERTIES LinkCreditedLast PendingEndsUp
