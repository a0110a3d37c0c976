-------------------------------- MODULE FairPartsMC ---------------------------------
(***************************************************************************)
(* The parts of the system that must make progress, and the small ones     *)
(* beside them, each on its own as in PartsMC: the component in focus      *)
(* moves, the others stay as they began.                                   *)
(***************************************************************************)
EXTENDS Integers, FiniteSets, Sequences

CONSTANTS
    \* the parameters of the components that have proofs, for the runs and the theorems
    Sessions, Sellers, MaxCuts,
    BaseDelay, MaxDelay, MaxErrors,
    Names, Reviewers, OnMaxCalls,
    Creators, PoolSize, PcAmounts, MinAmount, MaxAmount, DailyLimit, Splits, FeeConfigs,
    MaxPayments,
    Ids, LiAmounts, Milli, LiMaxTime, PageSize, Queries,
    Recipients, Periods, Zones, Day, Senders, ReMaxTime, ReMaxCalls

\* Amounts and limits are in cents, percentages not negative, and the pool serves a
\* finite number of requests.
ASSUME CreationAssumption ==
    /\ PcAmounts \subseteq Nat /\ Splits \subseteq Seq(Nat)
    /\ FeeConfigs \subseteq [flat : Nat, percentage : Nat, min : Nat]
    /\ DailyLimit \in Nat /\ PoolSize \in Nat /\ IsFiniteSet(Creators)

\* A day has ticks, and a timezone is less than a day from UTC.
ASSUME ReportsAssumption ==
    /\ Day \in Nat \ {0} /\ Periods \subseteq Nat
    /\ \A zone \in Zones : zone \in Int /\ -Day < zone /\ zone < Day
    /\ ReMaxTime \in Nat /\ Day <= ReMaxTime /\ ReMaxCalls \in Nat

\* What the database compares are numbers, and a page has a row.
ASSUME ListingAssumption ==
    /\ IsFiniteSet(Ids) /\ Ids \subseteq Int /\ LiAmounts \subseteq Int
    /\ Milli \in Nat \ {0} /\ LiMaxTime \in Nat /\ PageSize \in Nat \ {0}

\* The delays as they are configured by default: the first is not above the last.
ASSUME StreamAssumption ==
    /\ BaseDelay \in Nat /\ MaxDelay \in Nat /\ BaseDelay <= MaxDelay /\ MaxErrors \in Nat

MCQueries == [sortBy : {"amount"}, order : {"ASC", "DESC"}, scoped : {FALSE}]
             \cup [sortBy : {"created_at"}, order : {"DESC"}, scoped : {TRUE}]
MCSplits == {<<33330, 33330, 33331>>}
MCFees == {[flat |-> 0, percentage |-> 2500, min |-> 2]}

VARIABLES
    focus,    \* the component that moves
    session, late, made, told, coJob, cuts, orphans, shared,
    free, config, payments, pcJob, overlapped,
    begun, isDestroyed, streams, streamClose, timers, currentDelay,
    failureCount, errors,
    liRow, clock, reader,
    now, reRow, reWork, until, again, quit, spoiled, reCalls,
    onRow, onWork, version, lost, crossed, approved, named, onCalls,
    schema, done, last

CO == INSTANCE CheckoutSessions
        WITH Workers <- Sellers, job <- coJob
PC == INSTANCE PaymentCreation
        WITH Workers <- Creators, Amounts <- PcAmounts, job <- pcJob
HS == INSTANCE HorizonStream
LI == INSTANCE PaymentListing
        WITH Amounts <- LiAmounts, MaxTime <- LiMaxTime, row <- liRow,
             Ahead <- 0   \* the image of the Dockerfile runs in UTC
RE == INSTANCE Reports
        WITH Workers <- Senders, MaxTime <- ReMaxTime, MaxCalls <- ReMaxCalls,
             row <- reRow, work <- reWork, calls <- reCalls
ON == INSTANCE Onboarding
        WITH Workers <- Reviewers, MaxCalls <- OnMaxCalls,
             row <- onRow, work <- onWork, calls <- onCalls
MI == INSTANCE Migrations
        WITH MaxPending <- 2

coVars == <<session, late, made, told, coJob, cuts, orphans, shared>>
pcVars == <<free, config, payments, pcJob, overlapped>>
hsVars == <<begun, isDestroyed, streams, streamClose, timers, currentDelay,
            failureCount, errors>>
liVars == <<liRow, clock, reader>>
reVars == <<now, reRow, reWork, until, again, quit, spoiled, reCalls>>
onVars == <<onRow, onWork, version, lost, crossed, approved, named, onCalls>>
miVars == <<schema, done, last>>
vars == <<focus, coVars, pcVars, hsVars, liVars, reVars, onVars, miVars>>

Init ==
    /\ focus \in {"CheckoutSessions", "PaymentCreation", "HorizonStream",
                 "PaymentListing", "Reports", "Onboarding", "Migrations"}
    /\ CO!Init
    /\ PC!Init
    /\ HS!Init
    /\ LI!Init
    /\ RE!Init
    /\ ON!Init
    /\ MI!Init

Next ==
    \/ /\ focus = "CheckoutSessions" /\ CO!Next
       /\ UNCHANGED <<focus, pcVars, hsVars, liVars, reVars, onVars, miVars>>
    \/ /\ focus = "PaymentCreation" /\ PC!Next
       /\ UNCHANGED <<focus, coVars, hsVars, liVars, reVars, onVars, miVars>>
    \/ /\ focus = "HorizonStream" /\ HS!Next
       /\ UNCHANGED <<focus, coVars, pcVars, liVars, reVars, onVars, miVars>>
    \/ /\ focus = "PaymentListing" /\ LI!Next
       /\ UNCHANGED <<focus, coVars, pcVars, hsVars, reVars, onVars, miVars>>
    \/ /\ focus = "Reports" /\ RE!Next
       /\ UNCHANGED <<focus, coVars, pcVars, hsVars, liVars, onVars, miVars>>
    \/ /\ focus = "Onboarding" /\ ON!Next
       /\ UNCHANGED <<focus, coVars, pcVars, hsVars, liVars, reVars, miVars>>
    \/ /\ focus = "Migrations" /\ MI!Next
       /\ UNCHANGED <<focus, coVars, pcVars, hsVars, liVars, reVars, onVars>>

Spec == Init /\ [][Next]_vars

\* The fairness of CheckoutSessions and of PaymentCreation.
Sells(A) ==
    focus = "CheckoutSessions" /\ A /\ UNCHANGED <<focus, pcVars, hsVars, liVars, reVars, onVars, miVars>>
Creates(A) ==
    focus = "PaymentCreation" /\ A /\ UNCHANGED <<focus, coVars, hsVars, liVars, reVars, onVars, miVars>>
FairSpec ==
    /\ Spec
    /\ \A w \in Sellers : WF_vars(Sells(CO!Step(w)))
    /\ SF_vars(Sells(\E w \in Sellers : CO!Find(w)))
    /\ \A w \in Creators : SF_vars(Creates(PC!Step(w))) /\ WF_vars(Creates(PC!GiveUp(w)))

-------------------------------------------------------------------------------------
\* Every variable of every component has its type.
TypeOK ==
    /\ focus = "CheckoutSessions" => CO!TypeOK
    /\ focus = "PaymentCreation" => PC!TypeOK
    /\ focus = "HorizonStream" => HS!TypeOK
    /\ focus = "PaymentListing" => LI!TypeOK
    /\ focus = "Reports" => RE!TypeOK
    /\ focus = "Onboarding" => ON!TypeOK
    /\ focus = "Migrations" => MI!TypeOK

(* A checkout session gets one payment, plus one for each completion that  *)
(* died before it was saved, and one that is complete stays so with its    *)
(* payment, whatever the sweep does meanwhile, unless two handlers held    *)
(* the session at once (checkout-sessions.service.ts:138-310).             *)
SalesKept ==
    [][focus = "CheckoutSessions" => CO!SoldOnce' /\ CO!PaidKept]_vars

(* A checkout session whose time has passed is not open for ever, and      *)
(* every creation of a payment ends, though each waits for a second        *)
(* connection while it holds its first, and creations alone may hold the   *)
(* whole pool (checkout-sessions.service.ts:257-310,                       *)
(* payments.service.ts:256-330).                                           *)
NothingHangs ==
    /\ CO!StaleIsExpired
    /\ PC!EveryCreateEnds

(* The payments of a payer stay within the limit of the day, unless a      *)
(* creation was checked while another was on its way or several came in    *)
(* one request; and fee and net, and the legs of a split, add up to the    *)
(* amount but for rounding (payments.service.ts:78-330).                   *)
MoneyAddsUp ==
    focus = "PaymentCreation" => PC!DailyLimitKept /\ PC!AmountsAddUp

(* The stream of payments has one subscription or one reconnection ahead   *)
(* of it, and neither after the module is destroyed                        *)
(* (stellar-horizon-stream.service.ts:44-127).                             *)
OneStreamAtATime ==
    focus = "HorizonStream" => HS!OneStreamAtATime

(* A listing by amount without filters has every payment that was there at *)
(* its beginning, once, though payments are created and change status      *)
(* between its pages, and by creation time no payment comes twice; the     *)
(* reports a recipient gets overlap in no day, whatever the merchant       *)
(* changes, unless a sweep was cut off, overlapped another or a save       *)
(* overwrote another (payments.service.ts:417-560,                         *)
(* reports.service.ts:85-310).                                             *)
PaymentsListedOnce ==
    /\ focus = "PaymentListing" => LI!ListingExact
    /\ focus = "Reports" => RE!PeriodsApart

(* What was approved about a merchant is what a reviewer saw: an approval  *)
(* does not outlive a change of the legal name, and the last name the      *)
(* merchant gave is the one on record, unless saves crossed                *)
(* (onboarding.service.ts:26-90, merchants.service.ts:164-269).            *)
ReviewStands ==
    focus = "Onboarding" => ON!ReviewStands

(* However often releases are migrated and reverted, a revert takes back   *)
(* what its up made, and fails only on rows written since, two currencies  *)
(* of a merchant or a key without a scope, or on the type of a key's scope *)
(* that a first revert left behind; and migrations of one timestamp make   *)
(* the same schema in either order (data-source.ts:8-18, migrations/).     *)
MigrationsRevert ==
    focus = "Migrations" => MI!RevertRestores /\ MI!TiesCommute
=====================================================================================
