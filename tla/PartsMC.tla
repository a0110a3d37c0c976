---------------------------------- MODULE PartsMC -----------------------------------
(***************************************************************************)
(* The parts of the system that share no table, each on its own: the       *)
(* component in focus moves, the others stay as they began.                *)
(***************************************************************************)
EXTENDS Naturals, TLC, Endpoints

CONSTANTS
    Workers,    \* requests and jobs being served at a time
    \* the parameters of the components
    Links, PlMaxCount, PlMaxTime,
    Users, Admin, Roles, AdminRole, AcMaxCalls,
    Threshold, AuMaxTime, AuMaxCalls,
    Tokens, Sessions, MaxChanges, TkMaxFaults,
    Keys, AkMaxCalls, AkMaxFaults,
    Disputes, MaxUpdates,
    Payments, MaxEntered, SeMaxTime, MaxRuns, SeMaxFaults,
    DefaultLimit, DefaultTtl, BulkLimit, WebhookLimit, QrLimit, AuthLimit, AuthTtl,
    ThMaxTime, MaxSent,
    Nonces, Tolerance, WnMaxTime, MaxRestarts,
    Ttl, RaMaxTime, RaMaxFaults,
    Deliveries, WdJobs, WdAttempts, WdThreshold, MaxEvents, MaxUpsets,
    Mails, EjAttempts, EjMaxFaults,
    Txs, Signers, Weight, OwnWeight, MedThreshold, MsMaxCalls, MsMaxFaults

Symmetry == Permutations(Workers)
\* the requests where STELLAR_NETWORK is not PUBLIC
Sandbox == RequestsWhere(TRUE)
MCWeight == [s \in Signers |-> IF s = "stranger" THEN 0 ELSE 1]

VARIABLES
    focus,    \* the component that moves
    link, plNow, pending, seen, paid, owed, uncredited, plJob, plOverwritten,
    endpoint, delivery, queue, wdSlot, upsets, surplus, streak, wdOverwritten,
    users, roles, call, ever, raced, acCalls,
    token, session, password, resetUsed, tkLock, tkWork, exchanged, issuedFor,
    spoiled, tkMixed, changes, tkFaults,
    auRow, auNow, auWork, late, auVersion, auLost, guesses, uses, verified,
    crossed, auCalls,
    key, akWork, akVersion, akLost, ended, heir, wanted, akCalls, akFaults,
    payment, status, told, diJob, updates, overlap, shared,
    decorated, thNow, hits, blocked, sent, passed,
    clock, enabled, usedNonces, lastTaken, repeated, restarts,
    raNow, cache, fallback, tracked, raWork, latest, backwards, raMixed,
    raFaults,
    ejJob, ejSlot, log, delivered, doubts, ejFaults,
    msRow, msWork, sequence, ledger, timely, msVersion, msLost, msCalls,
    msFaults,
    destination, config, seLock, ready, stamped, listed, seNow, seWork,
    confirmed, entered, blended, broken, runs, seFaults

PL == INSTANCE PaymentLinks
        WITH MaxCount <- PlMaxCount, MaxTime <- PlMaxTime,
             now <- plNow, job <- plJob, overwritten <- plOverwritten
WD == INSTANCE WebhookDelivery
        WITH Jobs <- WdJobs, Slots <- Workers, Attempts <- WdAttempts, Threshold <- WdThreshold,
             slot <- wdSlot, overwritten <- wdOverwritten
AC == INSTANCE Access
        WITH Requests <- Sandbox, MaxCalls <- AcMaxCalls,
             calls <- acCalls
TK == INSTANCE Tokens
        WITH MaxFaults <- TkMaxFaults,
             lock <- tkLock, work <- tkWork, mixed <- tkMixed,
             faults <- tkFaults
AU == INSTANCE Accounts
        WITH MaxTime <- AuMaxTime, MaxCalls <- AuMaxCalls,
             row <- auRow, now <- auNow, work <- auWork, version <- auVersion,
             lost <- auLost, calls <- auCalls
AK == INSTANCE ApiKeys
        WITH MaxCalls <- AkMaxCalls, MaxFaults <- AkMaxFaults,
             work <- akWork, version <- akVersion, lost <- akLost,
             calls <- akCalls, faults <- akFaults
DI == INSTANCE Disputes
        WITH job <- diJob
TH == INSTANCE Throttling
        WITH UserLimit <- DefaultLimit + 1, MaxTime <- ThMaxTime,
             now <- thNow
WN == INSTANCE WebhookNonces
        WITH MaxTime <- WnMaxTime
RA == INSTANCE Rates
        WITH MaxTime <- RaMaxTime, MaxFaults <- RaMaxFaults,
             now <- raNow, work <- raWork, mixed <- raMixed, faults <- raFaults
EJ == INSTANCE EmailJobs
        WITH Attempts <- EjAttempts, MaxFaults <- EjMaxFaults,
             job <- ejJob, slot <- ejSlot, faults <- ejFaults
MS == INSTANCE MultiSig
        WITH MaxCalls <- MsMaxCalls, MaxFaults <- MsMaxFaults,
             row <- msRow, work <- msWork, version <- msVersion, lost <- msLost,
             calls <- msCalls, faults <- msFaults
SE == INSTANCE Settlements
        WITH MaxTime <- SeMaxTime, MaxFaults <- SeMaxFaults,
             lock <- seLock, now <- seNow, work <- seWork, faults <- seFaults

(* The table of Endpoints puts the administrator's role or a permission in *)
(* front of every "admin" path, and has one request that goes astray.      *)
ASSUME SandboxAssumption == AC!RequestsGuarded

plVars == <<link, plNow, pending, seen, paid, owed, uncredited, plJob, plOverwritten>>
wdVars == <<endpoint, delivery, queue, wdSlot, upsets, surplus, streak,
            wdOverwritten>>
acVars == <<users, roles, call, ever, raced, acCalls>>
tkVars == <<token, session, password, resetUsed, tkLock, tkWork, exchanged,
            issuedFor, spoiled, tkMixed, changes, tkFaults>>
auVars == <<auRow, auNow, auWork, late, auVersion, auLost, guesses, uses,
            verified, crossed, auCalls>>
akVars == <<key, akWork, akVersion, akLost, ended, heir, wanted, akCalls,
            akFaults>>
diVars == <<payment, status, told, diJob, updates, overlap, shared>>
thVars == <<decorated, thNow, hits, blocked, sent, passed>>
wnVars == <<clock, enabled, usedNonces, lastTaken, repeated, restarts>>
raVars == <<raNow, cache, fallback, tracked, raWork, latest, backwards, raMixed,
            raFaults>>
ejVars == <<ejJob, ejSlot, log, delivered, doubts, ejFaults>>
msVars == <<msRow, msWork, sequence, ledger, timely, msVersion, msLost, msCalls,
            msFaults>>
seVars == <<destination, config, seLock, ready, stamped, listed, seNow, seWork,
            confirmed, entered, blended, broken, runs, seFaults>>
vars == <<focus, plVars, wdVars, acVars, tkVars, auVars, akVars, diVars, thVars,
          wnVars, raVars, ejVars, msVars, seVars>>

Init ==
    /\ focus \in {"PaymentLinks", "WebhookDelivery", "Access", "Tokens",
                 "Accounts", "ApiKeys", "Disputes", "Throttling",
                 "WebhookNonces", "Rates", "EmailJobs", "MultiSig",
                 "Settlements"}
    /\ PL!Init
    /\ WD!Init
    /\ AC!Init
    /\ TK!Init
    /\ AU!Init /\ (focus = "Accounts" \/ auRow = AU!Plain)
    /\ AK!Init
    /\ DI!Init
    /\ TH!Init /\ (focus = "Throttling" \/ ~decorated)
    /\ WN!Init /\ (focus = "WebhookNonces" \/ ~enabled)
    /\ RA!Init
    /\ EJ!Init
    /\ MS!Init
    /\ SE!Init

Next ==
    \/ /\ focus = "PaymentLinks" /\ PL!Next
       /\ UNCHANGED <<focus, wdVars, acVars, tkVars, auVars, akVars, diVars, thVars,
                      wnVars, raVars, ejVars, msVars, seVars>>
    \/ /\ focus = "WebhookDelivery" /\ WD!Next
       /\ UNCHANGED <<focus, plVars, acVars, tkVars, auVars, akVars, diVars, thVars,
                      wnVars, raVars, ejVars, msVars, seVars>>
    \/ /\ focus = "Access" /\ AC!Next
       /\ UNCHANGED <<focus, plVars, wdVars, tkVars, auVars, akVars, diVars, thVars,
                      wnVars, raVars, ejVars, msVars, seVars>>
    \/ /\ focus = "Tokens" /\ TK!Next
       /\ UNCHANGED <<focus, plVars, wdVars, acVars, auVars, akVars, diVars, thVars,
                      wnVars, raVars, ejVars, msVars, seVars>>
    \/ /\ focus = "Accounts" /\ AU!Next
       /\ UNCHANGED <<focus, plVars, wdVars, acVars, tkVars, akVars, diVars, thVars,
                      wnVars, raVars, ejVars, msVars, seVars>>
    \/ /\ focus = "ApiKeys" /\ AK!Next
       /\ UNCHANGED <<focus, plVars, wdVars, acVars, tkVars, auVars, diVars, thVars,
                      wnVars, raVars, ejVars, msVars, seVars>>
    \/ /\ focus = "Disputes" /\ DI!Next
       /\ UNCHANGED <<focus, plVars, wdVars, acVars, tkVars, auVars, akVars, thVars,
                      wnVars, raVars, ejVars, msVars, seVars>>
    \/ /\ focus = "Throttling" /\ TH!Next
       /\ UNCHANGED <<focus, plVars, wdVars, acVars, tkVars, auVars, akVars, diVars,
                      wnVars, raVars, ejVars, msVars, seVars>>
    \/ /\ focus = "WebhookNonces" /\ WN!Next
       /\ UNCHANGED <<focus, plVars, wdVars, acVars, tkVars, auVars, akVars, diVars,
                      thVars, raVars, ejVars, msVars, seVars>>
    \/ /\ focus = "Rates" /\ RA!Next
       /\ UNCHANGED <<focus, plVars, wdVars, acVars, tkVars, auVars, akVars, diVars,
                      thVars, wnVars, ejVars, msVars, seVars>>
    \/ /\ focus = "EmailJobs" /\ EJ!Next
       /\ UNCHANGED <<focus, plVars, wdVars, acVars, tkVars, auVars, akVars, diVars,
                      thVars, wnVars, raVars, msVars, seVars>>
    \/ /\ focus = "MultiSig" /\ MS!Next
       /\ UNCHANGED <<focus, plVars, wdVars, acVars, tkVars, auVars, akVars, diVars,
                      thVars, wnVars, raVars, ejVars, seVars>>
    \/ /\ focus = "Settlements" /\ SE!Next
       /\ UNCHANGED <<focus, plVars, wdVars, acVars, tkVars, auVars, akVars, diVars,
                      thVars, wnVars, raVars, ejVars, msVars>>

Spec == Init /\ [][Next]_vars

-------------------------------------------------------------------------------------
\* Every variable of every component has its type.
TypeOK ==
    /\ focus = "PaymentLinks" => PL!TypeOK
    /\ focus = "WebhookDelivery" => WD!TypeOK
    /\ focus = "Access" => AC!TypeOK
    /\ focus = "Tokens" => TK!TypeOK
    /\ focus = "Accounts" => AU!TypeOK
    /\ focus = "ApiKeys" => AK!TypeOK
    /\ focus = "Disputes" => DI!TypeOK
    /\ focus = "Throttling" => TH!TypeOK
    /\ focus = "WebhookNonces" => WN!TypeOK
    /\ focus = "Rates" => RA!TypeOK
    /\ focus = "EmailJobs" => EJ!TypeOK
    /\ focus = "MultiSig" => MS!TypeOK
    /\ focus = "Settlements" => SE!TypeOK

(* The counters of a payment link miss no visit, and of the completed      *)
(* payments only those whose credit is still to come, was cut off by a     *)
(* failure, or is never made because the stream completed them, unless an  *)
(* edit wrote back a counter that had changed since it was read; and a     *)
(* link switched off is not revived by payments still completing           *)
(* (payment-links.service.ts:156-276, payments.service.ts:1052-1071).      *)
LinksKept ==
    [][focus = "PaymentLinks" => PL!CountersKept' /\ PL!OffKept]_vars

(* A merchant takes each delivery once, and a mail goes out once, plus     *)
(* once for each doubt: an answer that was lost, a worker that died, a     *)
(* retry that was asked for; and an endpoint is disabled only after as     *)
(* many failures in a row as the threshold says, unless a stale save       *)
(* brought back a count that a success had reset                           *)
(* (webhooks.service.ts:154-270, webhooks.processor.ts:33-117,             *)
(* email.service.ts:31-95).                                                *)
DeliveriesKept ==
    /\ [][focus = "WebhookDelivery" => WD!DeliveredOnce' /\ WD!DisabledKept]_vars
    /\ [](focus = "EmailJobs" => EJ!MailedOnce)

(* Whoever is served under an "admin" path has been an administrator, or   *)
(* has had a role that carried a permission, at some time since the        *)
(* request came in, whatever is changed between the two guards; every      *)
(* endpoint is answered by the handler written for it but the one that     *)
(* deletes one's own account; and a role that accounts have is removed     *)
(* only while an assignment of it is under way (roles.guard.ts,            *)
(* permissions.guard.ts, app.module.ts:31-66, auth.service.ts:1062-1100).  *)
AccessKept ==
    focus = "Access" => AC!AdminServedToAdmins /\ AC!AnsweredAsWritten /\ AC!RolesInUseStay

(* A refresh token buys one new token; a session that was revoked, and a   *)
(* password that was changed, leave no live token behind, unless tokens    *)
(* were being issued meanwhile or the change was cut off half-way; and an  *)
(* API key that was revoked or rotated stays so, has one heir, and the     *)
(* heir its settings, unless a save of its row overwrote another           *)
(* (auth.service.ts:627-731, sessions.service.ts:66-82,                    *)
(* api-keys.service.ts:102-211).                                           *)
CredentialsEnd ==
    /\ focus = "Tokens" => TK!ExchangedOnce /\ TK!RevokedSessionIsDead /\ TK!NoTokenOutlivesPassword
    /\ focus = "ApiKeys" => AK!KeysEndForGood

(* Each wrong password and code is counted and each backup code lets in    *)
(* once, but for as many as there were saves that overwrote another; and   *)
(* two-factor is on only with a secret of which a code was shown           *)
(* (users.service.ts:332-526, auth.service.ts:271-432).                    *)
FactorsKept ==
    focus = "Accounts" => AU!GuessesCounted /\ AU!CodesRunOut /\ AU!EnabledSecretVerified

(* What is kept for a time is kept for that time, and no longer: no window *)
(* of a throttler lets more requests through than its limit, a nonce of a  *)
(* signed webhook is taken again only with a later timestamp, and no       *)
(* client gets a rate older than the one before it or than its time to     *)
(* live (throttler.config.module.ts:13-23,                                 *)
(* webhook-signature.service.ts:50-140, rates.service.ts:34-113).          *)
WindowsKept ==
    /\ focus = "Throttling" => TH!LimitKept
    /\ focus = "WebhookNonces" => WN!NonceTakenOnce
    /\ focus = "Rates" => RA!RatesFresh

(* A settlement run goes on only to an address whose own token came back   *)
(* by mail and that was entered a day before, unless an UPDATE of the      *)
(* destination fell on a row that another save had changed; and a run      *)
(* lists a payment once, and once more at most for each connection that    *)
(* broke (settlements.service.ts:96-229, 555-695).                         *)
SettledOnce ==
    focus = "Settlements" => SE!SettledOnce

(* The merchant hears once that a dispute was resolved and once that it    *)
(* was closed, and the first dispute of a payment is its only one until it *)
(* ends, unless two updates held a dispute at once or two were opened at   *)
(* once (disputes.service.ts:30-150).                                      *)
DisputesEndOnce ==
    focus = "Disputes" => DI!DisputesEndOnce

(* A transaction of several signers counts the weight of each once, waits  *)
(* only while that is too little, and is marked as submitted just when it  *)
(* is on the ledger, unless a save was lost (stellar.service.ts:45-206).   *)
SignaturesAddUp ==
    focus = "MultiSig" => MS!SignaturesAddUp
=====================================================================================
