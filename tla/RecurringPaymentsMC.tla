------------------------- MODULE RecurringPaymentsMC -------------------------
(* Small instances of RecurringPayments: one plan, billed every two ticks.   *)
EXTENDS RecurringPayments

\* The minute sweep on a slot of its own, and every other job, a second sweep
\* included, on another.
cron == "cron"
any == "any"
CronAndAny == {cron, any}
JustCron == {cron}
TwoCrons == CronAndAny

ServeAny == [w \in CronAndAny |->
                IF w = cron THEN {"execute"} ELSE HttpKinds \cup SweepKinds]
ServeCron == [w \in JustCron |-> {"execute"}]
ServeCrons == [w \in CronAndAny |-> {"execute"}]

OnePlan == {"p"}
TwoOccurrences == [p \in OnePlan |-> 2]
OneTick == [p \in OnePlan |-> 1]
EndAtThree == [p \in OnePlan |-> 3]
NoLimit == [p \in OnePlan |-> Unlimited]
=============================================================================
