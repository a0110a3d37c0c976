SPECIFICATION Spec
CONSTANTS
    Payments <- OnePayment
    Workers <- TwoSlots
    Serves <- ServePairs
    Splits <- TwoLegs
    Legs <- NoLegs
    Linked <- OnePayment
    Amount <- ThreeCents
    RefundAmounts = {1, 2}
    PartialAmounts = {}
    WebhookStatuses = {"COMPLETED"}
    MaxRefunds = 2
    MaxCalls = 2
    MaxCuts = 0
CHECK_DEADLOCK FALSE
PROPERTY OnlyPendingCancelled
