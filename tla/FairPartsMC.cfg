CONSTANTS
    Sessions = {"s"}
    Sellers = {1, 2, 3}
    MaxCuts = 1
    BaseDelay = 1
    MaxDelay = 5
    MaxErrors = 4
    Names = {"n1", "n2"}
    Reviewers = {1, 2}
    OnMaxCalls = 4
    Creators = {1, 2}
    PoolSize = 2
    PcAmounts = {1, 5}
    MinAmount = 1
    MaxAmount = 10
    DailyLimit = 6
    Splits <- MCSplits
    FeeConfigs <- MCFees
    MaxPayments = 2
    Ids = {1, 2, 3}
    LiAmounts = {1, 2}
    Milli = 2
    LiMaxTime = 1
    PageSize = 1
    Queries <- MCQueries
    Recipients = {"r"}
    Periods = {1, 2}
    Zones = {0, 1}
    Day = 2
    Senders = {1, 2}
    ReMaxTime = 5
    ReMaxCalls = 2
SPECIFICATION FairSpec
CHECK_DEADLOCK FALSE
INVARIANTS TypeOK MoneyAddsUp OneStreamAtATime PaymentsListedOnce ReviewStands MigrationsRevert
PROPERTIES SalesKept NothingHangs
