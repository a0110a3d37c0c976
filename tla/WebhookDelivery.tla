---------------------------- MODULE WebhookDelivery ----------------------------
(***************************************************************************)
(* Outbound webhooks (src/modules/webhooks): a merchant's endpoint, the    *)
(* deliveries made to it, and the BullMQ jobs that carry them.  A job runs *)
(* again after an error, up to its attempts, and after its worker died.    *)
(***************************************************************************)
EXTENDS Integers, FiniteSets

CONSTANTS
    Deliveries,   \* delivery rows
    Jobs,         \* queue entries
    Slots,        \* queue workers and API handlers
    Attempts,     \* attempts of a job (6)
    Threshold,    \* WEBHOOK_DISABLE_FAILURE_THRESHOLD (50)
    MaxEvents,    \* bound: events dispatched
    MaxUpsets     \* bound: calls of the merchant, workers that die, statements that fail

WebhookDeliveryStatus == {"pending", "success", "failed", "dead-letter"}
NoRow == [status |-> "none"]
Deleted == [status |-> "deleted"]
NoJob == [state |-> "none"]
Gone == [active |-> FALSE, gone |-> TRUE]

VARIABLES
    endpoint,    \* its row, or Gone
    delivery,    \* delivery[d]: its row, or NoRow
    queue,       \* queue[j]: the job, or NoJob
    slot,        \* slot[w]: what it is doing
    upsets,      \* calls and faults so far
    surplus,     \* history: POSTs of d the merchant took, less the reasons for another
    streak,      \* history: failures since the last success or re-enabling
    overwritten  \* history: a save wrote back an endpoint that had changed meanwhile

vars == <<endpoint, delivery, queue, slot, upsets, surplus, streak,
          overwritten>>

Endpoint == [active : BOOLEAN, failures : Nat, last : {"none", "recent", "old"},
             secret : Nat, gone : {FALSE}]
Delivery == [status : WebhookDeliveryStatus, attempts : Nat, replay : BOOLEAN]

Idle == [pc |-> "idle"]
At(w, pc) == slot[w].pc = pc
Goto(w, pc) == slot' = [slot EXCEPT ![w].pc = pc]
OneReason(d) == surplus' = [surplus EXCEPT ![d] = @ - 1]
Exists(d) == delivery[d].status \in WebhookDeliveryStatus

\* Ids are random: which of the unused ones comes does not matter.
New(d) == delivery[d] = NoRow /\ d = CHOOSE n \in Deliveries : delivery[n] = NoRow
NewJob == CHOOSE j \in Jobs : queue[j] = NoJob

Upset == upsets < MaxUpsets /\ upsets' = upsets + 1

\* The merchant calls the API.
Call(w) == At(w, "idle") /\ Upset

\* create: the merchant registers an endpoint.
Init ==
    /\ endpoint = [active |-> TRUE, failures |-> 0, last |-> "none", secret |-> 1,
                   gone |-> FALSE]
    /\ delivery = [d \in Deliveries |-> NoRow]
    /\ queue = [j \in Jobs |-> NoJob]
    /\ slot = [w \in Slots |-> Idle]
    /\ upsets = 0
    /\ surplus = [d \in Deliveries |-> 0]
    /\ streak = 0
    /\ overwritten = FALSE

\* WEBHOOK_DISABLE_TIME_WINDOW_HOURS pass without a failure.
WindowPasses ==
    /\ ~endpoint.gone /\ endpoint.last = "recent"
    /\ endpoint' = [endpoint EXCEPT !.last = "old"]
    /\ UNCHANGED <<delivery, queue, slot, upsets, surplus, streak,
                   overwritten>>

----------------------------------------------------------------------------
(* Dispatch.                                                               *)

\* dispatchEventToMerchant: an endpoint that is active and subscribed gets a row,
\* then a job.
Dispatch(w, d) ==
    /\ At(w, "idle") /\ New(d) /\ endpoint.active
    /\ Cardinality({n \in Deliveries : Exists(n) /\ ~delivery[n].replay}) < MaxEvents
    /\ delivery' = [delivery EXCEPT ![d] =
                      [status |-> "pending", attempts |-> 0, replay |-> FALSE]]
    /\ slot' = [slot EXCEPT ![w] = [pc |-> "enqueuing", d |-> d]]
    /\ UNCHANGED <<endpoint, queue, upsets, surplus, streak, overwritten>>

\* replayEvents: a new row for a delivery of the window, active or not.
Replay(w, d) ==
    /\ Call(w) /\ New(d) /\ ~endpoint.gone
    /\ \E source \in Deliveries : Exists(source) /\ ~delivery[source].replay
    /\ delivery' = [delivery EXCEPT ![d] =
                      [status |-> "pending", attempts |-> 0, replay |-> TRUE]]
    /\ slot' = [slot EXCEPT ![w] = [pc |-> "enqueuing", d |-> d]]
    /\ UNCHANGED <<endpoint, queue, surplus, streak, overwritten>>

\* Mutant: whatever its status.
RetryableAny(d) == Exists(d)

Retryable(d) == Exists(d) /\ delivery[d].status \in {"failed", "dead-letter"}

\* retryFailedDelivery reads the row, marks it pending, and adds a job, whether or
\* not the first one still has attempts to make.
Retry(w, d) ==
    /\ Call(w) /\ Retryable(d)
    /\ slot' = [slot EXCEPT ![w] = [pc |-> "retrying", d |-> d, copy |-> delivery[d]]]
    /\ UNCHANGED <<endpoint, delivery, queue, surplus, streak,
                   overwritten>>

MarkPending(w) ==
    /\ At(w, "retrying")
    /\ IF endpoint.gone THEN delivery' = delivery /\ slot' = [slot EXCEPT ![w] = Idle]
       ELSE /\ delivery' = [delivery EXCEPT ![slot[w].d] =
                              [slot[w].copy EXCEPT !.status = "pending"]]
            /\ slot' = [slot EXCEPT ![w] = [pc |-> "enqueuing", d |-> slot[w].d]]
    /\ IF slot[w].copy.status = "success" THEN surplus' = surplus
       ELSE OneReason(slot[w].d)
    /\ UNCHANGED <<endpoint, queue, upsets, streak, overwritten>>

\* webhooksQueue.add
Enqueue(w) ==
    /\ At(w, "enqueuing")
    /\ \E j \in Jobs : /\ queue[j] = NoJob /\ j = NewJob
                       /\ queue' = [queue EXCEPT ![j] =
                                      [state |-> "waiting", d |-> slot[w].d, made |-> 0]]
    /\ slot' = [slot EXCEPT ![w] = Idle]
    /\ UNCHANGED <<endpoint, delivery, upsets, surplus, streak, overwritten>>

----------------------------------------------------------------------------
(* The endpoint's row: read, changed in memory and saved whole.            *)

Edit(w, copy, why, next) ==
    slot' = [slot EXCEPT ![w] = [pc |-> "saving", read |-> endpoint, copy |-> copy,
                                 why |-> why, then |-> next]]

\* recordDeliveryFailure: the new count starts afresh when the last failure is
\* older than the window, and disables at the threshold otherwise.
CountFrom(e) == IF e.last = "recent" THEN e.failures + 1 ELSE 1

Disables(e) == e.last = "recent" /\ CountFrom(e) >= Threshold

Counted(e) == [e EXCEPT !.failures = CountFrom(e), !.last = "recent",
                        !.active = e.active /\ ~Disables(e)]

\* Mutant: the counter is kept.
ResetNot(e) == e

\* recordDeliverySuccess
Reset(e) == [e EXCEPT !.failures = 0, !.last = "none"]

StartEdit(w, copy, why) ==
    /\ Call(w)
    /\ Edit(w, copy, why, "idle")
    /\ UNCHANGED <<endpoint, delivery, queue, surplus, streak,
                   overwritten>>

RotateSecret(w) ==
    /\ ~endpoint.gone
    /\ StartEdit(w, [endpoint EXCEPT !.secret = @ + 1], "rotation")

ReenableEndpoint(w) ==
    /\ ~endpoint.gone /\ ~endpoint.active
    /\ StartEdit(w, [Reset(endpoint) EXCEPT !.active = TRUE], "reset")

\* update: isActive stands for the rest of the DTO.
UpdateEndpoint(w) ==
    /\ ~endpoint.gone
    /\ StartEdit(w, [endpoint EXCEPT !.active = ~@], "update")

\* remove: the deliveries go with the endpoint (ON DELETE CASCADE).
Remove(w) ==
    /\ Call(w) /\ ~endpoint.gone
    /\ endpoint' = Gone
    /\ delivery' = [d \in Deliveries |-> IF Exists(d) THEN Deleted ELSE delivery[d]]
    /\ UNCHANGED <<queue, slot, surplus, streak, overwritten>>

\* repo.save(endpoint): every column ends up as the copy has it; an endpoint that
\* was removed meanwhile is inserted again.
Save(w) ==
    LET e == slot[w].copy
    IN  /\ At(w, "saving")
        /\ endpoint' = e
        /\ overwritten' = (overwritten \/ endpoint # slot[w].read)
        /\ streak' = CASE slot[w].why = "reset" -> 0
                       [] slot[w].why = "failure" -> streak + 1
                       [] OTHER -> streak
        /\ slot' = [slot EXCEPT ![w] =
                      IF slot[w].then = "idle" THEN Idle
                      ELSE [pc |-> slot[w].then, j |-> slot[w].j, copy |-> slot[w].job]]
        /\ UNCHANGED <<delivery, queue, upsets, surplus>>

----------------------------------------------------------------------------
(* WebhooksProcessor.process.                                              *)

\* A worker takes a job and reads the delivery and the endpoint; the endpoint need
\* not be active.  Without a row for either nothing is sent.
Take(w, j) ==
    /\ At(w, "idle") /\ queue[j] # NoJob /\ queue[j].state = "waiting"
    /\ IF Exists(queue[j].d) /\ ~endpoint.gone
       THEN /\ slot' = [slot EXCEPT ![w] =
                          [pc |-> "posting", j |-> j,
                           copy |-> [delivery[queue[j].d] EXCEPT !.attempts = queue[j].made + 1]]]
            /\ queue' = [queue EXCEPT ![j].state = "active"]
       ELSE /\ slot' = slot
            /\ queue' = [queue EXCEPT ![j] = NoJob]
    /\ UNCHANGED <<endpoint, delivery, upsets, surplus, streak, overwritten>>

\* The POST: answered, or refused, or taken though the answer never came, which is
\* one delivery more and one reason for another.
Post(w) ==
    LET d == queue[slot[w].j].d
    IN  /\ At(w, "posting")
        /\ \/ Goto(w, "delivered") /\ surplus' = [surplus EXCEPT ![d] = @ + 1]
           \/ Goto(w, "failing") /\ surplus' = surplus
        /\ UNCHANGED <<endpoint, delivery, queue, upsets, streak, overwritten>>

\* deliveryRepo.save(delivery) fails when the endpoint, and with it the row, is gone.
SaveDelivery(w, status) ==
    delivery' = IF endpoint.gone THEN delivery
                ELSE [delivery EXCEPT ![queue[slot[w].j].d] = [slot[w].copy EXCEPT !.status = status]]

SaveSuccess(w) ==
    /\ At(w, "delivered")
    /\ SaveDelivery(w, "success")
    /\ IF endpoint.gone THEN Goto(w, "failing") /\ OneReason(queue[slot[w].j].d)
       ELSE Goto(w, "resetting") /\ surplus' = surplus
    /\ UNCHANGED <<endpoint, queue, upsets, streak, overwritten>>

\* recordDeliverySuccess and recordDeliveryFailure read the endpoint.
Record(w, copy, why, next) ==
    slot' = [slot EXCEPT ![w] = [pc |-> "saving", read |-> endpoint, copy |-> copy,
                                 why |-> why, then |-> next,
                                 j |-> slot[w].j, job |-> slot[w].copy]]

RecordSuccess(w) ==
    /\ At(w, "resetting")
    /\ IF endpoint.gone THEN Goto(w, "ending")
       ELSE Record(w, Reset(endpoint), "reset", "ending")
    /\ UNCHANGED <<endpoint, delivery, queue, upsets, surplus, streak,
                   overwritten>>

RecordFailure(w) ==
    /\ At(w, "failing")
    /\ IF ~endpoint.active THEN Goto(w, "marking")
       ELSE Record(w, Counted(endpoint), "failure", "marking")
    /\ UNCHANGED <<endpoint, delivery, queue, upsets, surplus, streak,
                   overwritten>>

\* BullMQ: a job that threw waits for its next attempt, if it has one.
Thrown(j) == IF queue[j].made + 1 < Attempts
             THEN [queue[j] EXCEPT !.state = "waiting", !.made = @ + 1]
             ELSE NoJob

\* The row is marked, and the error rethrown.
MarkFailed(w) ==
    /\ At(w, "marking")
    /\ SaveDelivery(w, IF slot[w].copy.attempts >= Attempts THEN "dead-letter" ELSE "failed")
    /\ queue' = [queue EXCEPT ![slot[w].j] = Thrown(slot[w].j)]
    /\ slot' = [slot EXCEPT ![w] = Idle]
    /\ UNCHANGED <<endpoint, upsets, surplus, streak, overwritten>>

End(w) ==
    /\ At(w, "ending")
    /\ queue' = [queue EXCEPT ![slot[w].j] = NoJob]
    /\ slot' = [slot EXCEPT ![w] = Idle]
    /\ UNCHANGED <<endpoint, delivery, upsets, surplus, streak, overwritten>>

----------------------------------------------------------------------------
(* Faults.                                                                 *)

Working(w) == slot[w] # Idle /\ "j" \in DOMAIN slot[w]

\* The POST of this run of the job was answered.
Answered(w) ==
    \/ slot[w].pc \in {"delivered", "resetting", "ending"}
    \/ At(w, "saving") /\ slot[w].then = "ending"

\* The process dies: a call is lost, a stalled job waits again.
Die(w) ==
    /\ slot[w] # Idle /\ Upset
    /\ slot' = [slot EXCEPT ![w] = Idle]
    /\ IF Working(w)
       THEN /\ queue' = [queue EXCEPT ![slot[w].j].state = "waiting"]
            /\ IF Answered(w) THEN OneReason(queue[slot[w].j].d) ELSE surplus' = surplus
       ELSE UNCHANGED <<queue, surplus>>
    /\ UNCHANGED <<endpoint, delivery, streak, overwritten>>

\* A statement after a POST that was taken fails: the catch treats it as a failed
\* attempt.
ThrowAfterSuccess(w) ==
    /\ slot[w].pc \in {"delivered", "resetting"} /\ Upset
    /\ Goto(w, "failing")
    /\ OneReason(queue[slot[w].j].d)
    /\ UNCHANGED <<endpoint, delivery, queue, streak, overwritten>>

----------------------------------------------------------------------------
Step(w) ==
    \/ MarkPending(w) \/ Enqueue(w) \/ Save(w) \/ Post(w) \/ SaveSuccess(w)
    \/ RecordSuccess(w) \/ RecordFailure(w) \/ MarkFailed(w) \/ End(w)

Next ==
    \/ WindowPasses
    \/ \E w \in Slots, d \in Deliveries : Dispatch(w, d) \/ Replay(w, d) \/ Retry(w, d)
    \/ \E w \in Slots, j \in Jobs : Take(w, j)
    \/ \E w \in Slots : RotateSecret(w) \/ ReenableEndpoint(w) \/ UpdateEndpoint(w) \/ Remove(w)
    \/ \E w \in Slots : Step(w) \/ Die(w) \/ ThrowAfterSuccess(w)

Spec == Init /\ [][Next]_vars

----------------------------------------------------------------------------
(* Properties.                                                             *)

TypeOK ==
    /\ endpoint \in Endpoint \cup {Gone}
    /\ delivery \in [Deliveries -> Delivery \cup {NoRow, Deleted}]
    /\ upsets \in 0..MaxUpsets /\ streak \in Nat
    /\ overwritten \in BOOLEAN
    /\ \A j \in Jobs : queue[j] = NoJob \/ queue[j].state \in {"waiting", "active"}
    /\ \A w \in Slots : Working(w) => queue[slot[w].j] # NoJob

\* A merchant takes each delivery once, plus once for each doubt: an answer that
\* was lost, a worker that died, a statement that failed after the POST, and a
\* retry the merchant asked for, which may run beside the job that still retries.
DeliveredOnce ==
    \A d \in Deliveries : surplus[d] <= 1

\* An endpoint is disabled for its failures only after as many in a row as the
\* threshold, unless a stale save brought back a count that a success had reset.
DisabledKept ==
    \A w \in Slots :
        /\ At(w, "saving") /\ slot[w].why = "failure" /\ ~At(w, "saving")'
        /\ endpoint.active /\ ~endpoint'.active
        => streak' >= Threshold \/ overwritten'
DisabledByStreak == [][DisabledKept]_vars

----------------------------------------------------------------------------
(* The inductive invariants behind the two.                                *)

\* What a slot does, by the step it is at.
Enqueuings == [pc : {"enqueuing"}, d : Deliveries]
Retryings == [pc : {"retrying"}, d : Deliveries, copy : Delivery]
Runs == [pc : {"posting", "delivered", "resetting", "failing", "marking", "ending"},
         j : Jobs, copy : Delivery]
Edits == [pc : {"saving"}, read : Endpoint, copy : Endpoint, why : {"rotation", "reset", "update"},
          then : {"idle"}]
Records == [pc : {"saving"}, read : Endpoint, copy : Endpoint, why : {"reset", "failure"},
            then : {"ending", "marking"}, j : Jobs, job : Delivery]

\* A delivery that a job or a call is for has been made.
RowsMade ==
    /\ \A j \in Jobs : queue[j] # NoJob => delivery[queue[j].d] # NoRow
    /\ \A w \in Slots :
         slot[w] \in Enqueuings \cup Retryings => delivery[slot[w].d] # NoRow
    /\ \A w \in Slots : slot[w] \in Retryings => slot[w].copy.status # "success"

\* A job that runs is run by one worker.
OneWorker ==
    /\ \A w \in Slots : Working(w) =>
         queue[slot[w].j] # NoJob /\ queue[slot[w].j].state = "active"
    /\ \A v, w \in Slots : Working(v) /\ Working(w) /\ slot[v].j = slot[w].j => v = w

\* The jobs that may still bring a delivery, and the calls that will add one.
Open(d) ==
    {j \in Jobs : /\ queue[j] # NoJob /\ queue[j].d = d
                  /\ \A w \in Slots : Working(w) /\ slot[w].j = j => ~Answered(w)}
Adding(d) == {w \in Slots : At(w, "enqueuing") /\ slot[w].d = d}

\* Each of them has a reason of its own, but for the first of a delivery.
ReasonsLeft(d) ==
    /\ IsFiniteSet(Open(d)) /\ IsFiniteSet(Adding(d))
    /\ surplus[d] + Cardinality(Open(d)) + Cardinality(Adding(d)) <= IF delivery[d] = NoRow THEN 0 ELSE 1

\* A save counts from the row it has read,
CopyTrue(r) ==
    CASE r.why = "failure" -> r.copy = Counted(r.read)
      [] r.why = "reset"   -> r.copy.failures = 0
      [] OTHER             -> r.copy.failures = r.read.failures

\* and the count is one of failures in a row.
CountsTrue ==
    /\ \A w \in Slots : At(w, "saving") => CopyTrue(slot[w])
    /\ endpoint.gone \/ overwritten \/ endpoint.failures <= streak

DeliveryInv ==
    /\ endpoint \in Endpoint \cup {Gone} /\ streak \in Nat
    /\ delivery \in [Deliveries -> Delivery \cup {NoRow, Deleted}]
    /\ queue \in [Jobs -> [state : {"waiting", "active"}, d : Deliveries, made : Nat] \cup {NoJob}]
    /\ slot \in [Slots -> Enqueuings \cup Retryings \cup Runs \cup Edits \cup Records \cup {Idle}]
    /\ surplus \in [Deliveries -> Int]
    /\ RowsMade /\ OneWorker /\ CountsTrue
    /\ \A d \in Deliveries : ReasonsLeft(d)
=============================================================================
