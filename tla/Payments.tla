------------------------------ MODULE Payments ------------------------------
(***************************************************************************)
(* The life of a payment row after it has been created: refunds, provider  *)
(* webhooks, cancellation, the expiry sweep, the Horizon stream, sandbox   *)
(* simulation, split payouts and the stamping of settlements, as written   *)
(* in src/modules/payments/payments.service.ts and its neighbours.         *)
(*                                                                         *)
(* Every handler is asynchronous: it reads the row, works on its copy, and *)
(* writes the copy back later.  Each `await' of the source is a boundary   *)
(* between two actions here, so the handlers of different requests (and    *)
(* of different server instances) interleave exactly where the source lets *)
(* them.  TypeORM's save(entity) is two of those boundaries: a SELECT that *)
(* compares the entity with the stored row, and an UPDATE of the columns   *)
(* that differ.  The database is PostgreSQL at READ COMMITTED: the writes  *)
(* of a transaction appear together, at its commit.                        *)
(***************************************************************************)
EXTENDS Integers, FiniteSets

CONSTANTS
    Payments,         \* payment ids
    Workers,          \* slots that run a handler or a background job
    Serves,           \* Serves[w]: the kinds of call slot w may run
    Splits,           \* split ids; Legs[p] are those of payment p
    Legs,
    Linked,           \* the payments that were made through a payment link
    Amount,           \* Amount[p]: gross amount, in cents
    RefundAmounts,    \* amounts a refund may ask for, in cents
    PartialAmounts,   \* amounts a simulation may force
    WebhookStatuses,  \* statuses the provider may send
    MaxRefunds,       \* PAYMENT_MAX_REFUNDS_PER_PAYMENT, 0 when unlimited
    MaxCalls,         \* bound: HTTP calls of a behaviour
    MaxCuts           \* bound: handlers cut off midway

Status == {"PENDING", "COMPLETED", "FAILED", "CANCELLED", "REFUNDED",
           "PARTIALLY_REFUNDED", "EXPIRED", "PARTIALLY_COMPLETED", "OVERDUE"}

SplitStatus == {"PENDING", "COMPLETED", "FAILED"}

\* The calls that HTTP requests make, and the background jobs.
HttpKinds == {"refund", "webhook", "cancel", "simulate"}
JobKinds  == {"expire", "horizon", "settle"}

\* The body of a refund without an amount: refund what is left.
Remaining == 0
\* The body of a simulation without an amount.
NoOverride == 0

SimulateOutcome == {"COMPLETED", "FAILED", "EXPIRED", "PARTIALLY_COMPLETED"}

Calls ==
    [kind : {"refund"}, amount : RefundAmounts \cup {Remaining}]
      \cup [kind : {"webhook"}, status : WebhookStatuses]
      \cup [kind : {"simulate"}, status : SimulateOutcome,
            amount : PartialAmounts \cup {NoOverride}]
      \cup [kind : {"cancel"} \cup JobKinds]

ASSUME PaymentsAssumption ==
    /\ Serves \in [Workers -> SUBSET (HttpKinds \cup JobKinds)]
    /\ Legs \in [Payments -> SUBSET Splits]
    /\ Linked \subseteq Payments
    /\ Amount \in [Payments -> Nat \ {0}]
    /\ RefundAmounts \subseteq Nat \ {0}
    /\ PartialAmounts \subseteq Nat \ {0}
    /\ WebhookStatuses \subseteq Status
    /\ MaxRefunds \in Nat
    /\ MaxCalls \in Nat
    /\ MaxCuts \in Nat

VARIABLES
    db,         \* db[p]: the committed row of payment p
    ledger,     \* ledger[p]: its committed Refund and SettlementAdjustment rows
    split,      \* split[p][s]: status of the PaymentSplit rows
    sent,       \* sent[p][s]: Stellar payments that reached the network
    credits,    \* credits[p]: incrementCompletions calls made for p's link
    announced,  \* announced[p]: webhook events dispatched to the merchant
    req,        \* req[w]: the handler that slot w is running
    calls,      \* HTTP calls started so far
    cuts,       \* handlers cut off so far
    overlapped, \* history: payments on which two handlers held a copy at once
    cut,        \* history: payments a handler was cut off midway
    simulated   \* history: payments whose outcome a sandbox call forced

store   == <<db, ledger, split, sent, credits, announced>>
history == <<overlapped, cut, simulated>>
vars    == <<store, req, calls, cuts, history>>

----------------------------------------------------------------------------
(* Rows, and the two halves of save(entity).                               *)

Columns == {"status", "amount", "refunded", "settled"}

Row == [status : Status, amount : Nat, refunded : Int, settled : BOOLEAN]

\* The columns in which the entity in memory differs from the stored row.
Diff(entity, row) == {c \in Columns : entity[c] # row[c]}

\* The stored row after an UPDATE of the columns `cols' from the entity.
Patch(row, entity, cols) ==
    [status   |-> IF "status"   \in cols THEN entity.status   ELSE row.status,
     amount   |-> IF "amount"   \in cols THEN entity.amount   ELSE row.amount,
     refunded |-> IF "refunded" \in cols THEN entity.refunded ELSE row.refunded,
     settled  |-> IF "settled"  \in cols THEN entity.settled  ELSE row.settled]

\* Count and sum of the Refund rows of a payment; sum of the refunds that were
\* committed against a settled row; sum of its SettlementAdjustment rows.
Ledger == [count : Nat, total : Int, settled : Int, adjusted : Int]

Events == {"refund.issued", "refund.failed", "payment.cancelled",
           "payment.expired", "payment.completed", "payment.failed",
           "payment.partially_completed", "payment.split_processed"}

----------------------------------------------------------------------------
(* Handlers in progress.                                                   *)

Idle == [pc |-> "idle"]

\* Program points at which a handler may still write the row of its payment.
Holding == {"loaded", "counted", "dirty", "notifying", "splitting", "sent", "redirty"}
\* Program points after its last write of the row.
Trailing == {"splitDone", "linking", "announcing"}

NoLeg == "none"

Handler ==
    [pc    : Holding \cup Trailing,
     call  : Calls,
     pay   : Payments,
     mem   : Row,                       \* the entity in memory
     cols  : SUBSET Columns,            \* columns the pending UPDATE sets
     count : Nat,                       \* refunds counted by the refund handler
     due   : Int,                       \* amount of the refund it inserted
     first : BOOLEAN,                   \* previousStatus was not COMPLETED
     was   : Status,                    \* history: status of the copy before the change
     todo  : SUBSET Splits,             \* splits still to pay out
     leg   : Splits \cup {NoLeg},       \* split whose result is not saved yet
     paid  : BOOLEAN,                   \* sendPayment returned for that split
     bad   : BOOLEAN]                   \* some split of this batch failed

Active(w)    == req[w].pc # "idle"
Holds(w, p)  == req[w].pc \in Holding /\ req[w].pay = p
Contended(w, p) == \E v \in Workers \ {w} : Holds(v, p)

At(w, kind, pc) == req[w].pc = pc /\ req[w].call.kind = kind
Finish(w) == req' = [req EXCEPT ![w] = Idle]

\* The in-memory changes of a handler and the SELECT of its save().
StartSave(w, entity, first) ==
    req' = [req EXCEPT ![w].pc = "dirty", ![w].mem = entity,
                       ![w].cols = Diff(entity, db[req[w].pay]),
                       ![w].first = first, ![w].was = req[w].mem.status]

\* The UPDATE of that save() and its commit.
EndSave(w) ==
    LET p == req[w].pay
    IN  db' = [db EXCEPT ![p] = Patch(@, req[w].mem, req[w].cols)]

\* WebhooksService.dispatchEventToMerchant; its errors are caught and logged, and
\* a payment without a merchant has nobody to tell.
Announce(p, event) ==
    \/ announced' = [announced EXCEPT ![p] = @ \cup {event}]
    \/ UNCHANGED announced

----------------------------------------------------------------------------
Init ==
    /\ db = [p \in Payments |-> [status |-> "PENDING", amount |-> Amount[p],
                                 refunded |-> 0, settled |-> FALSE]]
    /\ ledger = [p \in Payments |-> [count |-> 0, total |-> 0,
                                     settled |-> 0, adjusted |-> 0]]
    /\ split = [p \in Payments |-> [s \in Splits |-> "PENDING"]]
    /\ sent = [p \in Payments |-> [s \in Splits |-> 0]]
    /\ credits = [p \in Payments |-> 0]
    /\ announced = [p \in Payments |-> {}]
    /\ req = [w \in Workers |-> Idle]
    /\ calls = 0
    /\ cuts = 0
    /\ overlapped = {}
    /\ cut = {}
    /\ simulated = {}

\* Mutants: a sweep that spares only completed rows; one after the wrong status.
SelectsUnpaid(kind, row) ==
    IF kind = "expire" THEN row.status # "COMPLETED" ELSE row.status = "COMPLETED"
SelectsOverdue(kind, row) == kind = "expire" => row.status = "OVERDUE"

\* The rows a background job selects; an HTTP handler reads by id.  Whether
\* expiresAt has passed is left open: any PENDING row may be due.
Selects(kind, row) ==
    CASE kind \in {"expire", "horizon"} -> row.status = "PENDING"
      [] kind = "settle"                -> row.status = "COMPLETED"
      [] OTHER                          -> TRUE

\* The first read of a handler: findOneBy({ id }), or the job's find().
Load(w, c, p) ==
    /\ ~Active(w)
    /\ c.kind \in Serves[w]
    /\ c.kind = "simulate" /\ c.status # "PARTIALLY_COMPLETED"
         => c.amount = NoOverride
    /\ Selects(c.kind, db[p])
    /\ IF c.kind \in HttpKinds
       THEN calls < MaxCalls /\ calls' = calls + 1
       ELSE UNCHANGED calls
    /\ req' = [req EXCEPT ![w] =
                [pc |-> "loaded", call |-> c, pay |-> p, mem |-> db[p],
                 cols |-> {}, count |-> 0, due |-> 0, first |-> FALSE,
                 was |-> db[p].status, todo |-> {}, leg |-> NoLeg, paid |-> FALSE, bad |-> FALSE]]
    /\ overlapped' = IF Contended(w, p) THEN overlapped \cup {p} ELSE overlapped
    /\ UNCHANGED <<store, cuts, cut, simulated>>

----------------------------------------------------------------------------
(* PaymentsService.refund                                                  *)

\* Only these three statuses are refused.
Refundable(row) == row.status \notin {"PENDING", "REFUNDED", "FAILED"}

\* The status checks, then count(Refund), compared with the configured maximum.
RefundCount(w) ==
    /\ At(w, "refund", "loaded")
    /\ Refundable(req[w].mem)
    /\ req' = [req EXCEPT ![w].pc = "counted",
                          ![w].count = ledger[req[w].pay].count]
    /\ UNCHANGED <<store, calls, cuts, history>>

\* Mutants: the cap is checked one refund late; earlier refunds are forgotten.
UnderCapLate(h) == MaxRefunds = 0 \/ h.count <= MaxRefunds
WholeAmount(row) == row.amount

UnderCap(h) == MaxRefunds = 0 \/ h.count < MaxRefunds
LeftToRefund(row) == row.amount - row.refunded
RefundAmount(h) ==
    IF h.call.amount = Remaining THEN LeftToRefund(h.mem) ELSE h.call.amount

\* Mutant: the refund replaces the refunded amount instead of adding to it.
RefundedAnew(row, amount) ==
    [row EXCEPT !.refunded = amount,
                !.status = IF amount >= row.amount
                           THEN "REFUNDED" ELSE "PARTIALLY_REFUNDED"]

Refunded(row, amount) ==
    [row EXCEPT !.refunded = @ + amount,
                !.status = IF row.refunded + amount >= row.amount
                           THEN "REFUNDED" ELSE "PARTIALLY_REFUNDED"]

\* INSERT of the Refund row (visible at the commit); save(payment) begins.
RefundApply(w) ==
    LET h == req[w]
        entity == Refunded(h.mem, RefundAmount(h))
    IN  /\ At(w, "refund", "counted")
        /\ UnderCap(h)
        /\ RefundAmount(h) <= LeftToRefund(h.mem)
        /\ req' = [req EXCEPT ![w].pc = "dirty", ![w].mem = entity,
                              ![w].cols = Diff(entity, db[h.pay]),
                              ![w].due = RefundAmount(h), ![w].was = h.mem.status]
        /\ UNCHANGED <<store, calls, cuts, history>>

\* The ConflictExceptions; the transaction is rolled back with nothing written.
RefundReject(w) ==
    /\ \/ At(w, "refund", "loaded") /\ ~Refundable(req[w].mem)
       \/ At(w, "refund", "counted") /\ ~UnderCap(req[w])
       \/ /\ At(w, "refund", "counted")
          /\ RefundAmount(req[w]) > LeftToRefund(req[w].mem)
    /\ Finish(w)
    /\ UNCHANGED <<store, calls, cuts, history>>

\* Mutant: only a refund that closes the payment is adjusted.
AdjustmentOfLast(h) ==
    IF h.mem.settled /\ h.mem.status = "REFUNDED" THEN h.due ELSE 0

\* Only a refund of a settled payment is adjusted, going by the copy.
AdjustmentFor(h) == IF h.mem.settled THEN h.due ELSE 0

\* UPDATE payments, INSERT of the SettlementAdjustment, COMMIT.
RefundCommit(w) ==
    LET h == req[w]
        p == h.pay
    IN  /\ At(w, "refund", "dirty")
        /\ EndSave(w)
        /\ ledger' = [ledger EXCEPT ![p] =
              [count    |-> @.count + 1,
               total    |-> @.total + h.due,
               settled  |-> @.settled + IF db[p].settled THEN h.due ELSE 0,
               adjusted |-> @.adjusted + AdjustmentFor(h)]]
        /\ req' = [req EXCEPT ![w].pc = "announcing"]
        /\ UNCHANGED <<split, sent, credits, announced, calls, cuts, history>>

\* A statement of the transaction fails: rollback, and refund.failed is sent.
RefundFails(w) ==
    /\ At(w, "refund", "dirty")
    /\ Announce(req[w].pay, "refund.failed")
    /\ Finish(w)
    /\ UNCHANGED <<db, ledger, split, sent, credits, calls, cuts, history>>

----------------------------------------------------------------------------
(* PaymentsService.handleWebhook, cancel, expirePayment and simulate; the  *)
(* Horizon stream's confirmPayment; a settlement run's stamp.              *)

\* The status is taken from the provider as it comes.
WebhookApply(w) ==
    /\ At(w, "webhook", "loaded")
    /\ StartSave(w, [req[w].mem EXCEPT !.status = req[w].call.status],
                 req[w].mem.status # "COMPLETED")
    /\ UNCHANGED <<store, calls, cuts, history>>

Uncancellable == {"COMPLETED", "FAILED", "CANCELLED", "REFUNDED",
                  "PARTIALLY_REFUNDED"}

CancelApply(w) ==
    /\ At(w, "cancel", "loaded")
    /\ req[w].mem.status \notin Uncancellable
    /\ StartSave(w, [req[w].mem EXCEPT !.status = "CANCELLED"], FALSE)
    /\ UNCHANGED <<store, calls, cuts, history>>

\* expirePayment does not look at the row again.
ExpireApply(w) ==
    /\ At(w, "expire", "loaded")
    /\ StartSave(w, [req[w].mem EXCEPT !.status = "EXPIRED"], FALSE)
    /\ UNCHANGED <<store, calls, cuts, history>>

HorizonApply(w) ==
    /\ At(w, "horizon", "loaded")
    /\ StartSave(w, [req[w].mem EXCEPT !.status = "COMPLETED"], FALSE)
    /\ UNCHANGED <<store, calls, cuts, history>>

\* Mutant: the list forgets payments that are partly refunded.
UnsimulatableFinal == {"COMPLETED", "FAILED", "CANCELLED", "REFUNDED", "EXPIRED"}

Unsimulatable == Uncancellable \cup {"EXPIRED", "PARTIALLY_COMPLETED"}

SimulateApply(w) ==
    LET h == req[w]
        override == h.call.amount # NoOverride
    IN  /\ At(w, "simulate", "loaded")
        /\ h.mem.status \notin Unsimulatable
        /\ StartSave(w, [h.mem EXCEPT !.status = h.call.status,
                            !.amount = IF override THEN h.call.amount ELSE @],
                     h.mem.status # "COMPLETED")
        /\ simulated' = simulated \cup {h.pay}
        /\ UNCHANGED <<store, calls, cuts, overlapped, cut>>

StatusReject(w) ==
    /\ \/ At(w, "cancel", "loaded") /\ req[w].mem.status \in Uncancellable
       \/ At(w, "simulate", "loaded") /\ req[w].mem.status \in Unsimulatable
    /\ Finish(w)
    /\ UNCHANGED <<store, calls, cuts, history>>

\* A settlement run stamps the rows it found COMPLETED with one UPDATE that
\* sets settlementId alone.
SettleCommit(w) ==
    /\ At(w, "settle", "loaded")
    /\ db' = [db EXCEPT ![req[w].pay].settled = TRUE]
    /\ Finish(w)
    /\ UNCHANGED <<ledger, split, sent, credits, announced, calls, cuts, history>>

\* A handler that pays out splits: the webhook or the simulation completed it.
Completes(h) ==
    \/ h.call.kind = "webhook" /\ h.mem.status = "COMPLETED"
    \/ h.call.kind = "simulate"
         /\ h.mem.status \in {"COMPLETED", "PARTIALLY_COMPLETED"}

\* The UPDATE of a completing handler, which then notifies the customer.
CommitCompleting(w) ==
    /\ req[w].pc = "dirty"
    /\ Completes(req[w])
    /\ EndSave(w)
    /\ req' = [req EXCEPT ![w].pc = "notifying"]
    /\ UNCHANGED <<ledger, split, sent, credits, announced, calls, cuts, history>>

\* The UPDATE of the other handlers; cancel, expire and simulate go on to
\* dispatch an event.
Commit(w) ==
    /\ req[w].pc = "dirty"
    /\ req[w].call.kind # "refund"
    /\ ~Completes(req[w])
    /\ EndSave(w)
    /\ IF req[w].call.kind \in {"cancel", "expire", "simulate"}
       THEN req' = [req EXCEPT ![w].pc = "announcing"]
       ELSE Finish(w)
    /\ UNCHANGED <<ledger, split, sent, credits, announced, calls, cuts, history>>

----------------------------------------------------------------------------
(* PaymentsService.processSplitsForPayment                                 *)

\* Mutant: legs that failed are paid again.
UnpaidLegs(p) == {s \in Legs[p] : split[p][s] # "COMPLETED"}

PendingLegs(p) == {s \in Legs[p] : split[p][s] = "PENDING"}

\* Mutant: the payout is started and not awaited.
SplitsFindUnawaited(w) ==
    /\ req[w].pc = "notifying"
    /\ req' = [req EXCEPT ![w].pc = "linking"]
    /\ UNCHANGED <<store, calls, cuts, history>>

\* find() of the splits that are still PENDING.
SplitsFind(w) ==
    LET pending == PendingLegs(req[w].pay)
    IN  /\ req[w].pc = "notifying"
        /\ req' = [req EXCEPT ![w].todo = pending,
              ![w].pc = IF pending = {} THEN "linking" ELSE "splitting"]
        /\ UNCHANGED <<store, calls, cuts, history>>

\* StellarService.sendPayment for one split.  It returns when the network took
\* the payment, or when a multi-signature account only stored the transaction;
\* it throws when the network refused the payment, or when the answer was lost.
SplitSend(w) ==
    /\ req[w].pc = "splitting"
    /\ \E s \in req[w].todo, returns \in BOOLEAN, reached \in BOOLEAN :
        /\ sent' = IF reached THEN [sent EXCEPT ![req[w].pay][s] = @ + 1] ELSE sent
        /\ req' = [req EXCEPT ![w].pc = "sent", ![w].leg = s, ![w].paid = returns]
    /\ UNCHANGED <<db, ledger, split, credits, announced, calls, cuts, history>>

\* Mutant: the error of a transfer is swallowed.
LegSettled(h) == "COMPLETED"

LegOutcome(h) == IF h.paid THEN "COMPLETED" ELSE "FAILED"

\* save(split) with the outcome.
SplitSave(w) ==
    LET h == req[w]
    IN  /\ h.pc = "sent"
        /\ split' = [split EXCEPT ![h.pay][h.leg] = LegOutcome(h)]
        /\ req' = [req EXCEPT ![w].pc = "splitting", ![w].todo = @ \ {h.leg},
                      ![w].leg = NoLeg, ![w].paid = FALSE,
                      ![w].bad = @ \/ ~h.paid]
        /\ UNCHANGED <<db, ledger, sent, credits, announced, calls, cuts, history>>

\* failedCount > 0: the copy becomes PARTIALLY_COMPLETED and is saved again.
SplitsFailed(w) ==
    LET entity == [req[w].mem EXCEPT !.status = "PARTIALLY_COMPLETED"]
    IN  /\ req[w].pc = "splitting"
        /\ req[w].todo = {}
        /\ req[w].bad
        /\ req' = [req EXCEPT ![w].pc = "redirty", ![w].mem = entity,
                              ![w].cols = Diff(entity, db[req[w].pay]),
                              ![w].was = req[w].mem.status]
        /\ UNCHANGED <<store, calls, cuts, history>>

SplitsFailedCommit(w) ==
    /\ req[w].pc = "redirty"
    /\ EndSave(w)
    /\ req' = [req EXCEPT ![w].pc = "splitDone"]
    /\ UNCHANGED <<ledger, split, sent, credits, announced, calls, cuts, history>>

\* payment.split_processed, after a batch with or without failures.
SplitsAnnounce(w) ==
    /\ \/ req[w].pc = "splitDone"
       \/ req[w].pc = "splitting" /\ req[w].todo = {} /\ ~req[w].bad
    /\ Announce(req[w].pay, "payment.split_processed")
    /\ req' = [req EXCEPT ![w].pc = "linking"]
    /\ UNCHANGED <<db, ledger, split, sent, credits, calls, cuts, history>>

\* PaymentLinksService.incrementCompletions, on the first completion.
LinkCredit(w) ==
    LET h == req[w]
        due == /\ h.mem.status = "COMPLETED"
               /\ h.first
               /\ h.pay \in Linked
    IN  /\ h.pc = "linking"
        /\ credits' = IF due THEN [credits EXCEPT ![h.pay] = @ + 1] ELSE credits
        /\ IF h.call.kind = "simulate"
           THEN req' = [req EXCEPT ![w].pc = "announcing"]
           ELSE Finish(w)
        /\ UNCHANGED <<db, ledger, split, sent, announced, calls, cuts, history>>

----------------------------------------------------------------------------
(* The merchant's webhook, the overdue sweep, and crashes.                 *)

\* Mutant: an event type that no endpoint can subscribe to.
EventOfKind(h) == IF h.call.kind = "refund" THEN "refund.completed"
                                            ELSE "payment.updated"

EventOf(h) ==
    CASE h.call.kind = "refund"  -> "refund.issued"
      [] h.call.kind = "cancel"  -> "payment.cancelled"
      [] h.mem.status = "EXPIRED" -> "payment.expired"
      [] h.mem.status = "COMPLETED" -> "payment.completed"
      [] h.mem.status = "FAILED" -> "payment.failed"
      [] OTHER -> "payment.partially_completed"

\* The last await of a handler.
Dispatch(w) ==
    /\ req[w].pc = "announcing"
    /\ Announce(req[w].pay, EventOf(req[w]))
    /\ Finish(w)
    /\ UNCHANGED <<db, ledger, split, sent, credits, calls, cuts, history>>

\* InvoiceReminderService.markOverduePayments: one UPDATE of the PENDING rows.
MarkOverdue(p) ==
    /\ db[p].status = "PENDING"
    /\ db' = [db EXCEPT ![p].status = "OVERDUE"]
    /\ overlapped' = IF \E w \in Workers : Holds(w, p)
                     THEN overlapped \cup {p} ELSE overlapped
    /\ UNCHANGED <<ledger, split, sent, credits, announced, req, calls, cuts, cut,
                   simulated>>

\* The process of a handler dies, or one of its statements fails and the error
\* goes to the caller: nothing uncommitted survives.
Cut(w) ==
    /\ Active(w)
    /\ cuts < MaxCuts
    /\ cuts' = cuts + 1
    /\ cut' = cut \cup {req[w].pay}
    /\ Finish(w)
    /\ UNCHANGED <<store, calls, overlapped, simulated>>

\* Every step of a handler after its first read.
Step(w) ==
    \/ RefundCount(w) \/ RefundApply(w) \/ RefundReject(w)
    \/ RefundCommit(w) \/ RefundFails(w)
    \/ WebhookApply(w) \/ CancelApply(w) \/ ExpireApply(w)
    \/ HorizonApply(w) \/ SimulateApply(w) \/ StatusReject(w)
    \/ SettleCommit(w)
    \/ CommitCompleting(w) \/ Commit(w)
    \/ SplitsFind(w) \/ SplitSend(w) \/ SplitSave(w) \/ SplitsFailed(w)
    \/ SplitsFailedCommit(w) \/ SplitsAnnounce(w) \/ LinkCredit(w)
    \/ Dispatch(w)

Next ==
    \/ \E w \in Workers :
        \/ \E c \in Calls, p \in Payments : Load(w, c, p)
        \/ Step(w)
        \/ Cut(w)
    \/ \E p \in Payments : MarkOverdue(p)

Spec == Init /\ [][Next]_vars

\* Node runs every awaited handler on, and the scheduler starts the sweep every
\* minute; nothing obliges a client, the provider or the network to call again.
Fairness ==
    /\ \A w \in Workers : WF_vars(Step(w))
    /\ WF_vars(\E w \in Workers, p \in Payments : Load(w, [kind |-> "expire"], p))

FairSpec == Spec /\ Fairness

----------------------------------------------------------------------------
(* Properties.                                                             *)

TypeOK ==
    /\ db \in [Payments -> Row]
    /\ ledger \in [Payments -> Ledger]
    /\ split \in [Payments -> [Splits -> SplitStatus]]
    /\ sent \in [Payments -> [Splits -> Nat]]
    /\ credits \in [Payments -> Nat]
    /\ announced \in [Payments -> SUBSET Events]
    /\ req \in [Workers -> Handler \cup {Idle}]
    /\ calls \in 0..MaxCalls
    /\ cuts \in 0..MaxCuts
    /\ overlapped \subseteq Payments
    /\ cut \subseteq Payments
    /\ simulated \subseteq Payments

\* The Refund rows of a payment add up to its refundedAmount, whatever crashes
\* and whatever the provider sends, as long as no two handlers of the payment
\* ever held copies of its row at the same time.
LedgerExact ==
    \A p \in Payments \ overlapped : ledger[p].total = db[p].refunded

\* refundedAmount never passes the amount of the payment, even when handlers do
\* overlap: a stale copy can lose a refund but never record too large a sum.
RefundedWithinAmount ==
    \A p \in Payments : db[p].refunded \in 0..db[p].amount

\* Without overlapping handlers, no more refunds than
\* PAYMENT_MAX_REFUNDS_PER_PAYMENT are ever committed.
RefundCap ==
    MaxRefunds > 0 =>
        \A p \in Payments \ overlapped : ledger[p].count <= MaxRefunds

\* Every refund that is committed after its payment was settled comes with the
\* SettlementAdjustment that deducts it, and no other refund does, as long as
\* the settlement run did not stamp the row under a refund in progress.
AdjustmentExact ==
    \A p \in Payments \ overlapped : ledger[p].adjusted = ledger[p].settled

\* A split leg is paid at most once when no handler of the payment was cut off
\* between the Stellar payment and the save of the split, and none overlapped:
\* repeated COMPLETED webhooks alone do not pay twice.
LegPaidOnce ==
    \A p \in Payments \ (overlapped \cup cut) : \A s \in Legs[p] : sent[p][s] <= 1

HasFailedLeg(p) == \E s \in Legs[p] : split[p][s] = "FAILED"

\* No sandbox call forced the outcome of p, nor does the provider send that status.
Unforced(p) == p \notin simulated /\ "PARTIALLY_COMPLETED" \notin WebhookStatuses

\* A PARTIALLY_COMPLETED payment has a split leg on record that failed, unless
\* somebody else gave it that status.
PartialHasFailedLeg ==
    \A p \in Payments \ overlapped :
        Unforced(p) /\ db[p].status = "PARTIALLY_COMPLETED" => HasFailedLeg(p)

\* A payment counts for its link only after its splits were attempted: when a
\* link is credited no leg is still PENDING, however webhooks and simulations
\* follow each other and wherever an earlier one was cut off.
LinkCreditedLast ==
    [][\A p \in Payments : credits'[p] > credits[p] =>
          \A s \in Legs[p] : split[p][s] # "PENDING"]_vars

\* From which status each of the statuses that the handlers set can be reached, by
\* the conditions in the code.  What cancel takes is more than its comment says, see
\* OnlyPendingCancelled.
Lifecycle(old, new) ==
    CASE new = "EXPIRED"   -> old = "PENDING"
      [] new = "OVERDUE"   -> old = "PENDING"
      [] new = "CANCELLED" -> old \notin Uncancellable
      [] new \in {"REFUNDED", "PARTIALLY_REFUNDED"} ->
            old \notin {"PENDING", "FAILED", "REFUNDED"}
      [] new = "PARTIALLY_COMPLETED" -> old = "COMPLETED"
      [] OTHER -> TRUE

\* Where the status of a payment may go: on in that lifecycle, to what the provider
\* says, or to what a sandbox call forces on a payment that is still open.
Follows(p, old, new) ==
    \/ new = old
    \/ new \in WebhookStatuses
    \/ p \in simulated /\ old \in {"PENDING", "OVERDUE"}
    \/ Lifecycle(old, new)

\* However handlers interleave, a step takes the status of a payment nowhere else,
\* unless it writes over a status that its handler has not seen: the payment moved
\* on since the copy was read.  In particular a sweep expires only what was PENDING
\* when it looked, and a refund only ever follows a completion
\* (payments.service.ts:915-1005, 1113-1278).
StatusFollowsLifecycle ==
    [][\A p \in Payments :
          \/ Follows(p, db[p].status, db'[p].status)
          \/ \E w \in Workers : /\ req'[w] # req[w]
                                /\ Holds(w, p)
                                /\ req[w].was # db[p].status]_vars

\* The minute sweep works: a PENDING payment that is due does not stay PENDING,
\* although sweeps may be cut off and their writes may be overtaken.
PendingEndsUp ==
    \A p \in Payments : db[p].status = "PENDING" ~> db[p].status # "PENDING"

----------------------------------------------------------------------------
(* The inductive invariants behind them: what a handler may rely on in the *)
(* copy it holds.                                                          *)

\* The copy is the stored row until it is changed; the pending UPDATE then sets
\* exactly the changed columns; nobody else's settlement or refund is missing,
\* and a refund that has counted the Refund rows goes by their present number.
Fresh(h, row, rows) ==
    /\ h.pc \in Holding \ {"dirty", "redirty"} => h.mem = row
    /\ h.pc \in {"dirty", "redirty"} => h.cols = Diff(h.mem, row)
    /\ h.mem.settled = row.settled
    /\ h.mem.refunded = row.refunded +
          IF h.call.kind = "refund" /\ h.pc = "dirty" THEN h.due ELSE 0
    /\ h.call.kind = "refund" =>
          /\ h.pc \in {"counted", "dirty"} => h.count = rows.count
          /\ h.pc = "dirty" => UnderCap(h)

\* Without overlap one handler at a time holds a payment, and its copy is fresh.
FreshCopies ==
    \A p \in Payments \ overlapped : \A w \in Workers :
        Holds(w, p) => ~Contended(w, p) /\ Fresh(req[w], db[p], ledger[p])

RefundsInv == FreshCopies /\ LedgerExact /\ AdjustmentExact /\ RefundCap

\* What a handler has made of the status that it read: the change it is about to
\* write is one that this status allows.
Considered(h) ==
    /\ h.pc = "loaded" /\ h.call.kind = "expire" => h.mem.status = "PENDING"
    /\ h.pc = "counted" => Refundable(h.mem)
    /\ h.pc \in {"dirty", "redirty"} => Follows(h.pay, h.was, h.mem.status)
    /\ h.pc \in {"notifying", "splitting", "sent"} =>
          h.mem.status \in {"COMPLETED", "PARTIALLY_COMPLETED"}

StatusInv == \A w \in Workers : Active(w) => Considered(req[w])

\* Without overlap the legs that a handler has still to pay are pending, and a failure
\* it has noted is on record.
Orderly(h, p) ==
    /\ h.pc \in {"splitting", "sent"} => h.todo \subseteq PendingLegs(p)
    /\ h.pc = "sent" => h.leg \in h.todo
    /\ Unforced(p) /\ (h.bad \/ h.mem.status = "PARTIALLY_COMPLETED")
          => HasFailedLeg(p)

OrderlyHandlers ==
    \A p \in Payments \ overlapped : \A w \in Workers :
        Holds(w, p) => Orderly(req[w], p)

\* A leg that is pending has not been paid, but for the one whose result is about
\* to be saved.
PendingUnpaid ==
    \A p \in Payments \ (overlapped \cup cut) : \A s \in PendingLegs(p) :
        \/ sent[p][s] = 0
        \/ \E w \in Workers : Holds(w, p) /\ req[w].pc = "sent" /\ req[w].leg = s

PayoutInv ==
    OrderlyHandlers /\ PendingUnpaid /\ LegPaidOnce /\ PartialHasFailedLeg

\* However handlers overlap, one that has begun to pay out leaves no leg pending
\* but those it has still to pay.
LegsAttempted ==
    \A w \in Workers :
        req[w].pc \in {"splitting", "sent", "redirty", "splitDone", "linking"} =>
            \A s \in PendingLegs(req[w].pay) :
                req[w].pc \in {"splitting", "sent"} /\ s \in req[w].todo

\* No row and no copy, however stale, has an amount or a refundedAmount that is
\* out of range, provided that nothing is simulated.
Within(row, p) == row.amount = Amount[p] /\ row.refunded \in 0..Amount[p]

CopiesWithinAmount ==
    /\ \A p \in Payments : Within(db[p], p)
    /\ \A w \in Workers : Active(w) =>
          /\ req[w].call.kind \in Serves[w]
          /\ Within(req[w].mem, req[w].pay)

----------------------------------------------------------------------------
(* What the documentation says of the program, and the program does not do. *)

\* docs/REFUNDS.md: "Total refunded amount cannot exceed the original payment
\* amount".  Two refunds in flight both see the whole amount as refundable.
TotalRefundedWithinAmount ==
    \A p \in Payments : ledger[p].total <= Amount[p]

\* cancel: "Only PENDING payments can be cancelled"; so does its message.  Its list of
\* terminal statuses leaves out OVERDUE, EXPIRED and PARTIALLY_COMPLETED, so that
\* they can be cancelled even when no other handler is at work.
OnlyPendingCancelled ==
    [][\A p \in Payments \ overlapped' : db'[p].status = "CANCELLED" =>
          db[p].status \in {"PENDING", "CANCELLED"}]_vars

\* expirePendingPayments: "Sweeps for PENDING payments past their expiresAt and
\* transitions them to EXPIRED".  A payment completed after the sweep read it
\* is expired all the same.
OnlyPendingExpired ==
    [][\A p \in Payments : db'[p].status = "EXPIRED" =>
          db[p].status \in {"PENDING", "EXPIRED"}]_vars

\* docs/PAYMENT_SPLITS.md: COMPLETED means "The Stellar transfer succeeded".  A
\* multi-signature transaction that waits for signatures counts as COMPLETED.
CompletedLegWasPaid ==
    \A p \in Payments : \A s \in Legs[p] :
        split[p][s] = "COMPLETED" => sent[p][s] > 0

\* docs/PAYMENT_SPLITS.md: "When a payment reaches COMPLETED,
\* PaymentsService.processSplitsForPayment loads that payment's pending split
\* rows".  The Horizon stream completes payments without it.
CompletedPaysSplits ==
    \A p \in Payments :
        db[p].status = "COMPLETED" ~> \A s \in Legs[p] : split[p][s] # "PENDING"
=============================================================================
