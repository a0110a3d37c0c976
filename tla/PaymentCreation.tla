---------------------------- MODULE PaymentCreation ----------------------------
(***************************************************************************)
(* Creating payments: PaymentsService.create and createBulk, with the      *)
(* limits, the merchant's fee and the splits.  A creation holds one        *)
(* connection of the pool for its transaction and runs its checks on       *)
(* another, taken for each query.  Money is in cents.                      *)
(***************************************************************************)
EXTENDS Integers, FiniteSets, Sequences

CONSTANTS
    Workers,      \* slots that run a creation
    PoolSize,     \* DATABASE_POOL_MAX, connections of the pool (10)
    Amounts,      \* the amounts a DTO may ask for
    MinAmount,    \* PAYMENT_MIN_AMOUNT, 0 when unset
    MaxAmount,    \* PAYMENT_MAX_AMOUNT, 0 when unset
    DailyLimit,   \* PAYMENT_DAILY_LIMIT_PER_USER, 0 when unset
    Splits,       \* sequences of percentages, in thousandths of a percent
    FeeConfigs,   \* rows of merchant_fee_configs: flat, percentage, min
    MaxPayments   \* bound: payments created

NoFee == [flat |-> 0, percentage |-> 0, min |-> 0]
Whole == 100000   \* 100 %

VARIABLES
    free,      \* connections of the pool that nobody holds
    config,    \* the merchant's fees, or NoFee without a row
    payments,  \* the rows, in the order they were committed
    job,       \* job[w]: what slot w is doing
    overlapped \* history: a limit was checked without sight of what was being created

vars == <<free, config, payments, job, overlapped>>

\* What a call asks for: payments of one payer, today and in one currency.
Dto == [amount : Amounts, merchant : BOOLEAN, splits : Splits \cup {<<>>}]

\* create takes one DTO, createBulk several: here two that are alike.
Calls == {<<dto>> : dto \in Dto} \cup {<<dto, dto>> : dto \in Dto}

Idle == [pc |-> "idle"]
At(w, pc) == job[w].pc = pc
Busy(w) == ~At(w, "idle")

\* A recursive function, not a fold: it can be reasoned about.
Total(s) ==
    LET sum[i \in 0..Len(s)] == IF i = 0 THEN 0 ELSE sum[i - 1] + s[i]
    IN  sum[Len(s)]

Init ==
    /\ free = PoolSize
    /\ config = NoFee
    /\ payments = <<>>
    /\ job = [w \in Workers |-> Idle]
    /\ overlapped = FALSE

----------------------------------------------------------------------------
(* Arithmetic.                                                             *)

\* toFixed(2) of a number of 1/unit cents: to the nearest cent; a number halfway
\* goes either way, as its binary form lies above or below it.
ToFixed(x, unit) == {(x + unit \div 2) \div unit, (x + unit \div 2 - 1) \div unit}

\* The fee before rounding, in cents / Whole.
ExactFee(amount, c) ==
    LET sum == c.flat * Whole + amount * c.percentage
    IN  IF sum > c.min * Whole THEN sum ELSE c.min * Whole

\* Mutant: the net amount forgets the minimum fee.
FeesMinForgotten(amount, c) ==
    [fee : ToFixed(ExactFee(amount, c), Whole),
     net : ToFixed(amount * Whole - ExactFee(amount, [c EXCEPT !.min = 0]), Whole)]

\* calculateFee: fee and net are rounded one by one.
Fees(amount, c) ==
    LET exact == ExactFee(amount, c)
        rest  == IF amount * Whole > exact THEN amount * Whole - exact ELSE 0
    IN  [fee : ToFixed(exact, Whole), net : ToFixed(rest, Whole)]

\* The legs of a payment: each is rounded by itself.
Legs(amount, pcts) ==
    {l \in UNION {[1..Len(pcts) -> 0..amount]} :
       \A i \in 1..Len(pcts) : l[i] \in ToFixed(amount * pcts[i], Whole)}

\* IsSplitsSumTo100: to within a hundredth of a percent.
SumTo100(pcts) == Total(pcts) - Whole \in -9..9

----------------------------------------------------------------------------
(* The merchant's fees.                                                    *)

\* upsertMerchantFeeConfig, by an administrator.
SetFees ==
    /\ \E c \in FeeConfigs : c # config /\ config' = c
    /\ UNCHANGED <<free, payments, job, overlapped>>

----------------------------------------------------------------------------
(* Creations.                                                              *)

Holding == {w \in Workers : Busy(w)}

\* queryRunner.connect and startTransaction
StartCreate(w, dtos) ==
    /\ ~Busy(w) /\ free > 0
    /\ Len(payments) + Len(dtos) + Cardinality(Holding) <= MaxPayments
    /\ dtos[1].splits # <<>> => SumTo100(dtos[1].splits)
    /\ free' = free - 1
    /\ job' = [job EXCEPT ![w] = [pc |-> IF dtos[1].merchant
                                         THEN "merchant" ELSE "limits",
                                  dtos |-> dtos, fees |-> <<>>]]
    /\ UNCHANGED <<config, payments, overlapped>>

\* The query of a check needs a second connection, for as long as it takes.
Query(w, pc) == At(w, pc) /\ free > 0

\* validateMerchantId, for the merchant there is.
CheckMerchant(w) ==
    /\ Query(w, "merchant")
    /\ job' = [job EXCEPT ![w].pc = "limits"]
    /\ UNCHANGED <<free, config, payments, overlapped>>

\* Mutant: a creation that is refused keeps its connection.
ReleaseNot(w) == UNCHANGED free /\ job' = [job EXCEPT ![w] = Idle]

\* finally: the connection goes back to the pool.
Release(w) == free' = free + 1 /\ job' = [job EXCEPT ![w] = Idle]

Within(amount) ==
    /\ MinAmount # 0 => amount >= MinAmount
    /\ MaxAmount # 0 => amount <= MaxAmount

Spent(rows) == Total([i \in 1..Len(rows) |-> rows[i].amount])

\* Mutant: the amount itself is left out of the sum.
UnderLimitBefore(dto) == Spent(payments) <= DailyLimit

UnderLimit(dto) == Spent(payments) + dto.amount <= DailyLimit

\* ensurePaymentLimits, for each DTO against what is committed; no query without
\* a daily limit.
Allowed(w) ==
    \A i \in 1..Len(job[w].dtos) :
        LET dto == job[w].dtos[i]
        IN  Within(dto.amount) /\ (DailyLimit # 0 => UnderLimit(dto))

CheckLimits(w) ==
    /\ At(w, "limits")
    /\ DailyLimit # 0 => Query(w, "limits")
    /\ Allowed(w)
    /\ job' = [job EXCEPT ![w].pc = "fees"]
    /\ overlapped' = (overlapped \/ Len(job[w].dtos) > 1
                       \/ \E v \in Workers : job[v].pc \in {"fees", "inserting"})
    /\ UNCHANGED <<free, config, payments>>

\* A limit is exceeded: the transaction is rolled back.
Refuse(w) ==
    /\ At(w, "limits")
    /\ DailyLimit # 0 => Query(w, "limits")
    /\ ~Allowed(w)
    /\ Release(w)
    /\ UNCHANGED <<config, payments, overlapped>>

\* calculateFee reads the configuration of a merchant.
CalculateFee(w) ==
    LET dtos == job[w].dtos
    IN  /\ At(w, "fees")
        /\ dtos[1].merchant => Query(w, "fees")
        /\ \E charge \in Fees(dtos[1].amount, IF dtos[1].merchant THEN config ELSE NoFee) :
             job' = [job EXCEPT ![w].pc = "inserting",
                                ![w].fees = [i \in 1..Len(dtos) |-> charge]]
        /\ UNCHANGED <<free, config, payments, overlapped>>

\* save and COMMIT; create stores the legs, createBulk stores none.
Insert(w) ==
    LET dtos == job[w].dtos
        asked == IF Len(dtos) = 1 THEN dtos[1].splits ELSE <<>>
        row(i, l) == [amount |-> dtos[i].amount, fee |-> job[w].fees[i].fee,
                      net |-> job[w].fees[i].net, legs |-> l]
    IN  /\ At(w, "inserting")
        /\ \E legs \in Legs(dtos[1].amount, asked) :
             payments' = payments \o [i \in 1..Len(dtos) |-> row(i, legs)]
        /\ Release(w)
        /\ UNCHANGED <<config, overlapped>>

\* The connection that step needs besides the transaction's own.
Waits(w) ==
    \/ At(w, "merchant")
    \/ At(w, "limits") /\ DailyLimit # 0
    \/ At(w, "fees") /\ job[w].dtos[1].merchant

\* Mutant: the pool lets a query wait for ever, the driver's default.
TimesOutNever(w) == FALSE

\* DATABASE_POOL_CONNECTION_TIMEOUT_MS pass without a free connection.
TimesOut(w) == Waits(w) /\ free = 0

GiveUp(w) ==
    /\ TimesOut(w)
    /\ Release(w)
    /\ UNCHANGED <<config, payments, overlapped>>

\* A statement fails: rollback, release, the error goes to the caller.
Fail(w) ==
    /\ Busy(w)
    /\ Release(w)
    /\ UNCHANGED <<config, payments, overlapped>>

----------------------------------------------------------------------------
Step(w) ==
    CheckMerchant(w) \/ CheckLimits(w) \/ Refuse(w) \/ CalculateFee(w) \/ Insert(w)

Next ==
    \/ SetFees
    \/ \E w \in Workers, dtos \in Calls : StartCreate(w, dtos)
    \/ \E w \in Workers : Step(w) \/ GiveUp(w) \/ Fail(w)

Spec == Init /\ [][Next]_vars

\* A connection that is free again goes to the query that has waited longest.
Fairness == \A w \in Workers : SF_vars(Step(w)) /\ WF_vars(GiveUp(w))

----------------------------------------------------------------------------
(* Properties.                                                             *)

TypeOK ==
    /\ free = PoolSize - Cardinality(Holding)
    /\ config \in FeeConfigs \cup {NoFee}
    /\ \A i \in 1..Len(payments) : payments[i].amount \in Amounts
    /\ overlapped \in BOOLEAN
    /\ \A w \in Workers : \/ job[w] = Idle
                          \/ /\ job[w].pc \in {"merchant", "limits", "fees", "inserting"}
                             /\ \A i \in 1..Len(job[w].dtos) : job[w].dtos[i] \in Dto

\* The day's payments of a payer stay within the limit, unless a creation was
\* checked while another was on its way, or a bulk was: its DTOs do not see each
\* other.
DailyLimitKept ==
    DailyLimit # 0 /\ ~overlapped => Spent(payments) <= DailyLimit

AbsDiff(a, b) == IF a < b THEN b - a ELSE a - b

\* Money is neither made nor lost but for rounding: fee and net add up to the
\* amount to the cent, and the legs to half a cent each plus the hundredth of a
\* percent the validation lets pass.
FeeAddsUp(amount, c) == c.fee <= amount => AbsDiff(c.fee + c.net, amount) <= 1

LegsAddUp(amount, legs) ==
    legs # <<>> =>
        2 * AbsDiff(Total(legs), amount) * Whole <= Len(legs) * Whole + 2 * 9 * amount

AmountsAddUp ==
    \A i \in 1..Len(payments) :
        FeeAddsUp(payments[i].amount, payments[i]) /\ LegsAddUp(payments[i].amount, payments[i].legs)

\* Every creation ends, though each waits for a second connection while it holds
\* its first, and creations alone may hold the whole pool.
EveryCreateEnds ==
    \A w \in Workers : Busy(w) ~> ~Busy(w)

----------------------------------------------------------------------------
(* The inductive invariant behind DailyLimitKept and AmountsAddUp.         *)

Charge == [fee : Int, net : Int]

\* What a creation has: splits that were validated, and at the end a fee for
\* each of its payments that adds up.
JobOK(j) ==
    \/ j = Idle
    \/ /\ j \in [pc : {"merchant", "limits", "fees", "inserting"}, dtos : Calls,
                 fees : Seq(Charge)]
       /\ j.dtos[1].splits # <<>> => SumTo100(j.dtos[1].splits)
       /\ j.pc = "inserting" =>
            /\ Len(j.fees) = Len(j.dtos)
            /\ \A i \in 1..Len(j.dtos) : FeeAddsUp(j.dtos[i].amount, j.fees[i])

\* A creation that was checked with sight of all the others is the only one past
\* its check, and there is room for its payment.
RoomLeft ==
    DailyLimit # 0 /\ ~overlapped =>
        \A w \in Workers : job[w].pc \in {"fees", "inserting"} =>
            /\ Len(job[w].dtos) = 1
            /\ Spent(payments) + job[w].dtos[1].amount <= DailyLimit
            /\ \A v \in Workers : job[v].pc \in {"fees", "inserting"} => v = w

CreationInv ==
    /\ config \in FeeConfigs \cup {NoFee}
    /\ payments \in Seq([amount : Amounts, fee : Int, net : Int, legs : Seq(Int)])
    /\ job = [w \in Workers |-> job[w]]
    /\ \A w \in Workers : JobOK(job[w])
    /\ RoomLeft /\ DailyLimitKept /\ AmountsAddUp
=============================================================================
