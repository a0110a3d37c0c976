SPECIFICATION FairSpec
CONSTANTS
    Plans <- OnePlan
    Workers <- CronAndAny
    Serves <- ServeAny
    Intervals = {2}
    Trial <- OneTick
    MaxOccurrences <- TwoOccurrences
    EndAt <- EndAtThree
    Thresholds = {1, 2}
    MaxNow = 3
    Horizon = 5
    MaxCalls = 2
    MaxTrouble = 1
CHECK_DEADLOCK FALSE
INVARIANTS TypeOK PaymentsPerRun BilledRunsCounted PaymentsOnRecord NoticesOnce
PROPERTIES CancelledIsFinal DueGetsBilled
