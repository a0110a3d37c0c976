SPECIFICATION Spec
CONSTANTS
    Payments <- OnePayment
    Workers <- TwoSlots
    Serves <- ServeRefundsPaired
    Splits <- TwoLegs
    Legs <- NoLegs
    Linked <- OnePayment
    Amount <- ThreeCents
    RefundAmounts = {2}
    PartialAmounts = {}
    WebhookStatuses = {"COMPLETED"}
    MaxRefunds = 10
    MaxCalls = 3
    MaxCuts = 0
CHECK_DEADLOCK FALSE
INVARIANT TotalRefundedWithinAmount
