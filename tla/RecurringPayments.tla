-------------------------- MODULE RecurringPayments --------------------------
(***************************************************************************)
(* Recurring payment plans: the minute sweep that executes due plans, the  *)
(* two sweeps that send notices, and the calls of the plan's owner, as     *)
(* written in src/modules/payments/recurring-payments.service.ts.          *)
(*                                                                         *)
(* A sweep reads all its plans at once and works through the copies, one   *)
(* plan at a time; every `await' of the source is a boundary between two   *)
(* actions.  save(plan) is a SELECT that compares the copy with the row    *)
(* and an UPDATE of the columns that differ.                               *)
(***************************************************************************)
EXTENDS Integers, FiniteSets, Functions

CONSTANTS
    Plans,           \* plan ids
    Workers,         \* slots that run an HTTP handler or a sweep
    Serves,          \* Serves[w]: the kinds of job slot w may run
    Intervals,       \* the lengths an interval can have, in ticks
    Trial,           \* Trial[p]: the ticks that the plan's trial lasts, or 0
    MaxOccurrences,  \* MaxOccurrences[p], or Unlimited
    EndAt,           \* EndAt[p], or Unlimited
    Thresholds,      \* values of RECURRING_PAYMENT_AUTO_PAUSE_FAILURES
    MaxNow,          \* bound: ticks of the clock
    Horizon,         \* bound: the last tick that a run can be scheduled at
    MaxCalls,        \* bound: HTTP calls of a behaviour
    MaxTrouble       \* bound: statements that fail, jobs cut off, keys that expire

Unlimited == 0

HttpKinds  == {"update", "pause", "resume", "cancel"}
SweepKinds == {"execute", "trialNotice", "reminder"}

PlanStatus == {"active", "trialing", "paused", "cancelled"}

ASSUME RecurringAssumption ==
    /\ IsFiniteSet(Workers)
    /\ Serves \in [Workers -> SUBSET (HttpKinds \cup SweepKinds)]
    /\ Intervals \subseteq Nat \ {0}
    /\ Trial \in [Plans -> Nat]
    /\ MaxOccurrences \in [Plans -> Nat]
    /\ EndAt \in [Plans -> Nat]
    /\ Thresholds \subseteq Nat \ {0}
    /\ {MaxNow, MaxCalls, MaxTrouble, Horizon} \subseteq Nat
    /\ \A p \in Plans : Trial[p] <= Horizon
    /\ \A i \in Intervals : MaxNow + i <= Horizon

VARIABLES
    now,         \* the clock
    threshold,   \* failures in a row that pause a plan, read at the start
    plan,        \* plan[p]: the stored row of plan p, or NoPlan
    charges,     \* charges[p]: its RecurringPaymentCharge rows, by status
    paid,        \* paid[p]: how many payments were created per scheduled run
    keyed,       \* keyed[p]: the runs whose idempotency key is stored
    notices,     \* notices[p]: how often each notice was sent
    job,         \* job[w]: what slot w is doing
    calls,       \* HTTP calls so far
    failures,    \* statements that failed so far
    cuts,        \* jobs cut off so far
    overlapped,  \* history: plans of which two jobs held a copy at once
    unkeyed,     \* history: payments per run that no key remembers
    raced,       \* history: runs that two sweeps had found without a key
    moved        \* history: runs that resume() left behind

store   == <<now, threshold, plan, charges, paid, keyed, notices>>
bounds  == <<calls, failures, cuts>>
history == <<overlapped, unkeyed, raced, moved>>
vars    == <<store, job, bounds, history>>

----------------------------------------------------------------------------
(* Rows, and the two halves of save(plan).                                 *)

Runs == 0 .. Horizon

\* The columns that jobs race on; cancelledAt and lastRunAt change together with
\* status and nextRunAt, and `interval' stands for all that update() sets.
Columns == {"status", "nextRunAt", "interval", "occurrences", "consecutiveFailures",
            "lastNotifiedCycle", "trialEndingNotified"}

Row == [status : PlanStatus, nextRunAt : Runs, interval : Intervals,
        occurrences : Nat, consecutiveFailures : Nat,
        lastNotifiedCycle : Nat, trialEndingNotified : BOOLEAN]

Diff(copy, row) == {c \in Columns : copy[c] # row[c]}
Patch(row, copy, cols) == [c \in DOMAIN row |-> IF c \in cols THEN copy[c] ELSE row[c]]

ChargeStatus == {"pending", "succeeded", "failed"}

\* Notices: that the trial ends, and the reminder of each cycle.
TrialEnding == 0

----------------------------------------------------------------------------
(* Jobs in progress.                                                       *)

Idle == [pc |-> "idle"]

NoCharge == "none"

Active(w) == job[w].pc # "idle"
Holds(w, p) == Active(w) /\ p \in DOMAIN job[w].copy
At(w, pc) == job[w].pc = pc

\* The copy of the plan that the job is working on.
Copy(w) == job[w].copy[job[w].plan]

Goto(w, pc) == job' = [job EXCEPT ![w].pc = pc]
Finish(w) == job' = [job EXCEPT ![w] = Idle]

\* On to the sweep's next plan; an HTTP handler has only one.
Proceed(w) ==
    LET left == DOMAIN job[w].copy \ {job[w].plan}
    IN  job' = [job EXCEPT ![w] =
                  IF left = {} THEN Idle
                  ELSE [job[w] EXCEPT !.pc = "next", !.copy = Restrict(job[w].copy, left),
                                      !.charge = NoCharge, !.cols = {},
                                      !.existing = FALSE]]

\* In-memory changes of the copy, and the SELECT of save(plan).
StartSave(w, copy) ==
    job' = [job EXCEPT ![w].pc = "dirty", ![w].copy[job[w].plan] = copy,
                       ![w].cols = Diff(copy, plan[job[w].plan])]

----------------------------------------------------------------------------
(* create() gives a plan its first run at once, or after its trial.        *)

Created(p, interval) ==
    [status |-> IF Trial[p] > 0 THEN "trialing" ELSE "active",
     nextRunAt |-> Trial[p], interval |-> interval,
     occurrences |-> 0, consecutiveFailures |-> 0,
     lastNotifiedCycle |-> 0, trialEndingNotified |-> FALSE]

Init ==
    /\ now = 0
    /\ threshold \in Thresholds
    /\ \E f \in [Plans -> Intervals] : plan = [p \in Plans |-> Created(p, f[p])]
    /\ charges = [p \in Plans |-> [s \in ChargeStatus |-> 0]]
    /\ paid = [p \in Plans |-> [t \in Runs |-> 0]]
    /\ keyed = [p \in Plans |-> {}]
    /\ notices = [p \in Plans |-> [n \in Runs |-> 0]]
    /\ job = [w \in Workers |-> Idle]
    /\ calls = 0 /\ failures = 0 /\ cuts = 0
    /\ overlapped = {}
    /\ unkeyed = [p \in Plans |-> [t \in Runs |-> 0]]
    /\ raced = [p \in Plans |-> {}]
    /\ moved = [p \in Plans |-> {}]

Tick ==
    /\ now < MaxNow
    /\ now' = now + 1
    /\ UNCHANGED <<threshold, plan, charges, paid, keyed, notices, job, bounds, history>>

----------------------------------------------------------------------------
(* The start of a job: the rows it reads.  Plans without the e-mail address *)
(* or the merchant that a notice needs are not told apart.                  *)

Due(row) == row.status \in {"active", "trialing"} /\ row.nextRunAt <= now

\* Mutant: the sweep forgets plans on trial.
SelectedActive(kind) ==
    {p \in Plans :
        CASE kind = "execute"     -> plan[p].status = "active" /\ plan[p].nextRunAt <= now
          [] kind = "trialNotice" -> plan[p].status = "trialing"
          [] kind = "reminder"    -> plan[p].status = "active"}

Selected(kind) ==
    {p \in Plans :
        CASE kind = "execute"     -> Due(plan[p])
          [] kind = "trialNotice" -> plan[p].status = "trialing"
          [] kind = "reminder"    -> plan[p].status = "active"}

\* Slot w starts a job that holds copies of the plans P.
Start(w, kind, P) ==
    /\ ~Active(w)
    /\ kind \in Serves[w]
    /\ P # {}
    /\ job' = [job EXCEPT ![w] =
                [pc |-> "next", kind |-> kind, copy |-> [p \in P |-> plan[p]],
                 plan |-> CHOOSE p \in P : TRUE, existing |-> FALSE,
                 charge |-> NoCharge, cols |-> {}]]
    /\ overlapped' = overlapped \cup
                       {p \in P : \E v \in Workers \ {w} : Holds(v, p)}
    /\ UNCHANGED <<store, failures, cuts, unkeyed, raced, moved>>

\* find() of a sweep.
Find(w, kind) ==
    /\ kind \in SweepKinds
    /\ Start(w, kind, Selected(kind))
    /\ IF Serves[w] = {"execute"} THEN UNCHANGED calls ELSE calls < MaxCalls /\ calls' = calls + 1

\* findOne() of an HTTP handler.
Load(w, kind, p) ==
    /\ kind \in HttpKinds
    /\ calls < MaxCalls
    /\ Start(w, kind, {p})
    /\ calls' = calls + 1

----------------------------------------------------------------------------
(* executePlan                                                             *)

\* The run that is executed: scheduledFor, until the schedule moves on.
Run(w) == Copy(w).nextRunAt

\* A trial becomes active in memory; INSERT of the PENDING charge.
Begin(w, p) ==
    /\ At(w, "next") /\ job[w].kind = "execute"
    /\ p \in DOMAIN job[w].copy
    /\ job' = [job EXCEPT ![w].pc = "opened", ![w].plan = p,
                          ![w].copy[p].status = "active", ![w].charge = "pending"]
    /\ charges' = [charges EXCEPT ![p]["pending"] = @ + 1]
    /\ UNCHANGED <<now, threshold, plan, paid, keyed, notices, bounds, history>>

\* Between these points a sweep has found no key and has not stored one yet.
Unguarded(w) == job[w].pc \in {"unpaid", "paid", "keying"} /\ ~job[w].existing

\* Mutant: the key is made from the time of the attempt, so it is never found.
CheckKeyOfAttempt(w) ==
    /\ At(w, "opened")
    /\ Goto(w, "unpaid")
    /\ UNCHANGED <<store, bounds, history>>

\* IdempotencyService.checkKey
CheckKey(w) ==
    LET p == job[w].plan
        existing == Run(w) \in keyed[p]
    IN  /\ At(w, "opened")
        /\ job' = [job EXCEPT ![w].pc = IF existing THEN "paid" ELSE "unpaid",
                              ![w].existing = existing]
        /\ raced' = IF ~existing /\ \E v \in Workers \ {w} :
                          Active(v) /\ Unguarded(v) /\ job[v].plan = p /\ Run(v) = Run(w)
                    THEN [raced EXCEPT ![p] = @ \cup {Run(w)}]
                    ELSE raced
        /\ UNCHANGED <<store, bounds, overlapped, unkeyed, moved>>

\* PaymentsService.create commits a payment for the run.
CreatePayment(w) ==
    /\ At(w, "unpaid")
    /\ paid' = [paid EXCEPT ![job[w].plan][Run(w)] = @ + 1]
    /\ Goto(w, "paid")
    /\ UNCHANGED <<now, threshold, plan, charges, keyed, notices, bounds, history>>

\* The charge is saved as SUCCEEDED.
SaveCharge(w) ==
    /\ At(w, "paid")
    /\ charges' = [charges EXCEPT ![job[w].plan]["pending"] = @ - 1,
                                  ![job[w].plan]["succeeded"] = @ + 1]
    /\ job' = [job EXCEPT ![w].charge = "succeeded",
                          ![w].pc = IF job[w].existing THEN "settling" ELSE "keying"]
    /\ UNCHANGED <<now, threshold, plan, paid, keyed, notices, bounds, history>>

\* IdempotencyService.storeKey: an upsert by key.
StoreKey(w) ==
    /\ At(w, "keying")
    /\ keyed' = [keyed EXCEPT ![job[w].plan] = @ \cup {Run(w)}]
    /\ Goto(w, "settling")
    /\ UNCHANGED <<now, threshold, plan, charges, paid, notices, bounds, history>>

Ends(p, occurrences, next) ==
    \/ MaxOccurrences[p] # Unlimited /\ occurrences >= MaxOccurrences[p]
    \/ EndAt[p] # Unlimited /\ next > EndAt[p]

\* Mutants: two intervals at once; a last run that is not counted.
AdvancedTwice(p, copy) ==
    [copy EXCEPT !.nextRunAt = @ + 2 * copy.interval, !.occurrences = @ + 1,
                 !.consecutiveFailures = 0]
AdvancedUncounted(p, copy) ==
    LET next == copy.nextRunAt + copy.interval
    IN  IF Ends(p, copy.occurrences + 1, next)
        THEN [copy EXCEPT !.nextRunAt = next, !.status = "cancelled"]
        ELSE [copy EXCEPT !.nextRunAt = next, !.occurrences = @ + 1]

\* The schedule moves on by one interval, or the plan is over.
Advanced(p, copy) ==
    LET next  == copy.nextRunAt + copy.interval
        later == [copy EXCEPT !.nextRunAt = next, !.occurrences = @ + 1]
    IN  IF Ends(p, copy.occurrences + 1, next)
        THEN [later EXCEPT !.status = "cancelled"]
        ELSE [later EXCEPT !.consecutiveFailures = 0]

Advance(w) ==
    /\ At(w, "settling")
    /\ StartSave(w, Advanced(job[w].plan, Copy(w)))
    /\ UNCHANGED <<store, bounds, history>>

\* There is room for one more failure, cut or expiry.
Trouble == failures + cuts < MaxTrouble

\* A payment was made of which no key will tell.
Forget(w) ==
    unkeyed' = IF job[w].pc \in {"paid", "keying"} /\ ~job[w].existing
               THEN [unkeyed EXCEPT ![job[w].plan][Run(w)] = @ + 1]
               ELSE unkeyed

\* Into the catch block: one more failure, counted on the copy.
Caught(w, p, charge) ==
    /\ Trouble
    /\ failures' = failures + 1
    /\ job' = [job EXCEPT ![w].pc = "caught", ![w].plan = p, ![w].charge = charge,
                          ![w].copy[p].consecutiveFailures = @ + 1]

\* The INSERT of the charge fails; a trial is active in memory by then.
BeginFails(w, p) ==
    /\ At(w, "next") /\ job[w].kind = "execute"
    /\ p \in DOMAIN job[w].copy
    /\ Trouble
    /\ failures' = failures + 1
    /\ job' = [job EXCEPT ![w].pc = "caught", ![w].plan = p,
                          ![w].copy[p].status = "active",
                          ![w].copy[p].consecutiveFailures = @ + 1]
    /\ UNCHANGED <<store, calls, cuts, history>>

\* A later statement fails.  The charge in memory is SUCCEEDED before it is saved.
Fails(w) ==
    /\ job[w].kind = "execute"
    /\ job[w].pc \in {"opened", "paid", "keying", "settling", "dirty"}
    /\ Caught(w, job[w].plan, IF At(w, "paid") THEN "succeeded" ELSE job[w].charge)
    /\ Forget(w)
    /\ UNCHANGED <<store, calls, cuts, overlapped, raced, moved>>

\* create() throws: it rolled back, or its COMMIT went through unheard.
CreateFails(w, committed) ==
    LET p == job[w].plan
    IN  /\ At(w, "unpaid")
        /\ Caught(w, p, job[w].charge)
        /\ IF committed
           THEN /\ paid' = [paid EXCEPT ![p][Run(w)] = @ + 1]
                /\ unkeyed' = [unkeyed EXCEPT ![p][Run(w)] = @ + 1]
           ELSE UNCHANGED <<paid, unkeyed>>
        /\ UNCHANGED <<now, threshold, plan, charges, keyed, notices, calls, cuts,
                       overlapped, raced, moved>>

\* Mutant: every charge of a failed execution is marked FAILED.
RecordFailureAlways(w) ==
    /\ At(w, "caught")
    /\ charges' = IF job[w].charge = NoCharge THEN charges
                  ELSE [charges EXCEPT ![job[w].plan][job[w].charge] = @ - 1,
                                       ![job[w].plan]["failed"] = @ + 1]
    /\ Goto(w, "counted")
    /\ UNCHANGED <<now, threshold, plan, paid, keyed, notices, bounds, history>>

\* Only a charge that is still PENDING in memory is marked FAILED.
RecordFailure(w) ==
    LET p == job[w].plan
    IN  /\ At(w, "caught")
        /\ charges' = IF job[w].charge = "pending"
                      THEN [charges EXCEPT ![p]["pending"] = @ - 1,
                                           ![p]["failed"] = @ + 1]
                      ELSE charges
        /\ Goto(w, "counted")
        /\ UNCHANGED <<now, threshold, plan, paid, keyed, notices, bounds, history>>

\* Below the threshold the copy is saved with the new count.
SaveFailure(w) ==
    /\ At(w, "counted")
    /\ Copy(w).consecutiveFailures < threshold
    /\ job' = [job EXCEPT ![w].pc = "redirty",
                          ![w].cols = Diff(Copy(w), plan[job[w].plan])]
    /\ UNCHANGED <<store, bounds, history>>

\* At the threshold the plan is paused in memory, and notifyPlanPaused, which no
\* class defines, throws out of the catch block and of the sweep's loop: nothing
\* is saved, and the plans still to come are not executed.
AutoPause(w) ==
    /\ At(w, "counted")
    /\ Copy(w).consecutiveFailures >= threshold
    /\ Finish(w)
    /\ UNCHANGED <<store, bounds, history>>

----------------------------------------------------------------------------
(* notifyTrialEnding and notifyUpcomingCharges.  Whether a plan is within  *)
(* the days in which a notice is due is left open.                         *)

Notice(w, p) ==
    IF job[w].kind = "trialNotice" THEN TrialEnding ELSE job[w].copy[p].occurrences + 1

\* Mutant: the cycle before is looked up.
ToldLastCycle(w, p) ==
    IF job[w].kind = "trialNotice"
    THEN job[w].copy[p].trialEndingNotified
    ELSE job[w].copy[p].lastNotifiedCycle = job[w].copy[p].occurrences

Told(w, p) ==
    IF job[w].kind = "trialNotice"
    THEN job[w].copy[p].trialEndingNotified
    ELSE job[w].copy[p].lastNotifiedCycle = Notice(w, p)

SkipNotice(w, p) ==
    /\ At(w, "next") /\ job[w].kind \in {"trialNotice", "reminder"}
    /\ p \in DOMAIN job[w].copy
    /\ LET left == DOMAIN job[w].copy \ {p}
       IN  job' = [job EXCEPT ![w] =
                     IF left = {} THEN Idle
                     ELSE [job[w] EXCEPT !.copy = Restrict(job[w].copy, left)]]
    /\ UNCHANGED <<store, bounds, history>>

SendNotice(w, p) ==
    /\ At(w, "next") /\ job[w].kind \in {"trialNotice", "reminder"}
    /\ p \in DOMAIN job[w].copy
    /\ ~Told(w, p)
    /\ notices' = [notices EXCEPT ![p][Notice(w, p)] = @ + 1]
    /\ job' = [job EXCEPT ![w].pc = "sent", ![w].plan = p]
    /\ UNCHANGED <<now, threshold, plan, charges, paid, keyed, bounds, history>>

MarkNotice(w) ==
    /\ At(w, "sent")
    /\ StartSave(w, IF job[w].kind = "trialNotice"
                    THEN [Copy(w) EXCEPT !.trialEndingNotified = TRUE]
                    ELSE [Copy(w) EXCEPT !.lastNotifiedCycle = Notice(w, job[w].plan)])
    /\ UNCHANGED <<store, bounds, history>>

----------------------------------------------------------------------------
(* update, pause, resume, cancel                                           *)

\* Mutant: a cancelled plan can be resumed.
AcceptsEnded(kind, copy) ==
    CASE kind = "pause"  -> copy.status = "active"
      [] kind = "resume" -> copy.status # "active"
      [] OTHER -> TRUE

\* From which statuses the call is accepted, and what it makes of the copy.
Accepts(kind, copy) ==
    CASE kind = "pause"  -> copy.status = "active"
      [] kind = "resume" -> copy.status = "paused"
      [] kind = "cancel" -> copy.status # "cancelled"
      [] kind = "update" -> TRUE

Changed(kind, copy, interval) ==
    CASE kind = "pause"  -> [copy EXCEPT !.status = "paused"]
      [] kind = "resume" -> [copy EXCEPT !.status = "active",
                                         !.nextRunAt = IF @ < now THEN now ELSE @]
      [] kind = "cancel" -> [copy EXCEPT !.status = "cancelled"]
      [] kind = "update" -> [copy EXCEPT !.interval = interval]

Apply(w, interval) ==
    LET kind == job[w].kind
    IN  /\ At(w, "next") /\ kind \in HttpKinds
        /\ Accepts(kind, Copy(w))
        /\ kind # "update" => interval = Copy(w).interval
        /\ StartSave(w, Changed(kind, Copy(w), interval))
        /\ UNCHANGED <<store, bounds, history>>

\* The ConflictExceptions.
Reject(w) ==
    /\ At(w, "next") /\ job[w].kind \in HttpKinds
    /\ ~Accepts(job[w].kind, Copy(w))
    /\ Finish(w)
    /\ UNCHANGED <<store, bounds, history>>

----------------------------------------------------------------------------
\* The UPDATE of save(plan).
Update(w) ==
    LET p == job[w].plan
    IN  /\ job[w].pc \in {"dirty", "redirty"}
        /\ plan' = [plan EXCEPT ![p] = Patch(@, Copy(w), job[w].cols)]
        /\ moved' = IF job[w].kind = "resume" /\ "nextRunAt" \in job[w].cols
                    THEN [moved EXCEPT ![p] = @ \cup {plan[p].nextRunAt}]
                    ELSE moved
        /\ Proceed(w)
        /\ UNCHANGED <<now, threshold, charges, paid, keyed, notices, bounds,
                       overlapped, unkeyed, raced>>

\* The process dies, or a statement fails whose error nothing catches.
Cut(w) ==
    /\ Active(w)
    /\ Trouble
    /\ cuts' = cuts + 1
    /\ Forget(w)
    /\ Finish(w)
    /\ UNCHANGED <<store, calls, failures, overlapped, raced, moved>>

\* A stored key expires, and checkKey or the hourly clean-up deletes it.
Lapse(p, t) ==
    /\ t \in keyed[p]
    /\ Trouble
    /\ cuts' = cuts + 1
    /\ keyed' = [keyed EXCEPT ![p] = @ \ {t}]
    /\ unkeyed' = [unkeyed EXCEPT ![p][t] = @ + 1]
    /\ UNCHANGED <<now, threshold, plan, charges, paid, notices, job, calls, failures,
                   overlapped, raced, moved>>

----------------------------------------------------------------------------
\* The steps of a job that has started, when nothing goes wrong.
Step(w) ==
    /\ Active(w)
    /\ \/ \E p \in DOMAIN job[w].copy :
            Begin(w, p) \/ SendNotice(w, p) \/ SkipNotice(w, p)
       \/ CheckKey(w) \/ CreatePayment(w) \/ SaveCharge(w) \/ StoreKey(w)
       \/ Advance(w) \/ RecordFailure(w) \/ SaveFailure(w) \/ AutoPause(w)
       \/ MarkNotice(w)
       \/ \E i \in Intervals : Apply(w, i)
       \/ Reject(w) \/ Update(w)

Misfortune(w) ==
    /\ Active(w)
    /\ \/ \E p \in DOMAIN job[w].copy : BeginFails(w, p)
       \/ Fails(w) \/ Cut(w)
       \/ \E committed \in BOOLEAN : CreateFails(w, committed)

Next ==
    \/ Tick
    \/ \E w \in Workers :
          \/ \E kind \in SweepKinds : Find(w, kind)
          \/ \E kind \in HttpKinds, p \in Plans : Load(w, kind, p)
          \/ Step(w) \/ Misfortune(w)
    \/ \E p \in Plans, t \in Runs : Lapse(p, t)

Spec == Init /\ [][Next]_vars

\* Started jobs go on, and @Cron runs the sweep of due plans every minute.
Fairness ==
    /\ \A w \in Workers : WF_vars(Step(w))
    /\ \A w \in {v \in Workers : Serves[v] = {"execute"}} : WF_vars(Find(w, "execute"))

FairSpec == Spec /\ Fairness

----------------------------------------------------------------------------
(* Properties                                                              *)

\* The payments that f counts by run: as many as there are pairs of a run and a number.
Units(f) == UNION {{t} \X (1 .. f[t]) : t \in DOMAIN f}
SumOf(f) == Cardinality(Units(f))

JobPoints == {"next", "opened", "unpaid", "paid", "keying", "settling", "dirty",
              "caught", "counted", "redirty", "sent"}

Job(P) == [pc : JobPoints, kind : HttpKinds \cup SweepKinds, copy : [P -> Row],
           plan : Plans, existing : BOOLEAN,
           charge : {"pending", "succeeded", NoCharge}, cols : SUBSET Columns]

\* Every variable has its type: a sweep's current plan is one of its copies, and
\* the runs of a plan stay within the bounds of the clock.
TypeOK ==
    /\ now \in 0 .. MaxNow
    /\ threshold \in Thresholds
    /\ plan \in [Plans -> Row]
    /\ charges \in [Plans -> [ChargeStatus -> Nat]]
    /\ paid \in [Plans -> [Runs -> Nat]]
    /\ keyed \in [Plans -> SUBSET Runs]
    /\ notices \in [Plans -> [Runs -> Nat]]
    /\ DOMAIN job = Workers
    /\ \A w \in Workers : Active(w) =>
          /\ job[w] \in Job(DOMAIN job[w].copy)
          /\ DOMAIN job[w].copy \subseteq Plans
          /\ job[w].pc # "next" => job[w].plan \in DOMAIN job[w].copy
    /\ calls \in 0 .. MaxCalls /\ failures \in 0 .. MaxTrouble /\ cuts \in 0 .. MaxTrouble
    /\ overlapped \in SUBSET Plans
    /\ unkeyed \in [Plans -> [Runs -> Nat]]
    /\ raced \in [Plans -> SUBSET Runs]
    /\ moved \in [Plans -> SUBSET Runs]

\* A scheduled run is paid once, plus once for each of its payments whose key was
\* never stored or has expired, whatever the owner, the notices and stale saves do
\* to the plan meanwhile; only two sweeps that check the key at once pay twice.
PaymentsPerRun ==
    \A p \in Plans : \A t \in Runs \ raced[p] : paid[p][t] <= 1 + unkeyed[p][t]

\* The occurrences of a plan are the runs that were paid, apart from the one it is
\* at and those that resume() left behind: neither a failed statement nor a crash
\* and the retry after it counts a run twice or not at all.
BilledRunsCounted ==
    \A p \in Plans \ overlapped :
        plan[p].occurrences =
          Cardinality({t \in Runs : paid[p][t] > 0} \ (moved[p] \cup {plan[p].nextRunAt}))

\* Failure handling does not rewrite the history of charges: the payments that
\* have a key are on charges that are not FAILED, whatever failed after them.
PaymentsOnRecord ==
    \A p \in Plans :
        SumOf(paid[p]) - SumOf(unkeyed[p]) <= charges[p]["pending"] + charges[p]["succeeded"]

\* A cancelled plan stays cancelled, is not charged again, and sends no notices,
\* as long as no job held a copy from before the cancellation.
CancelledIsFinal ==
    [][\A p \in Plans \ overlapped' : plan[p].status = "cancelled" =>
          /\ plan'[p].status = "cancelled"
          /\ paid'[p] = paid[p] /\ notices'[p] = notices[p]]_vars

\* The end of a trial is announced once and each cycle has one reminder, unless a
\* job was cut off after sending one.
NoticesOnce ==
    \A p \in Plans \ overlapped : \A n \in Runs : notices[p][n] <= 1 + cuts

\* A plan that is due is executed until it has no run left that is due, in spite of
\* failures, of aborted sweeps, and of stale copies that undo an execution.
DueGetsBilled == \A p \in Plans : Due(plan[p]) ~> ~Due(plan[p])

----------------------------------------------------------------------------
(* The inductive invariants behind the properties.                         *)

\* The points of an execution before its schedule moves on, and in the catch block.
Executing == {"opened", "unpaid", "paid", "keying", "settling"}
Catching  == {"caught", "counted", "redirty"}

\* What the point that a job is at says of the rest of its record.
JobShape(k) ==
    /\ k.pc \in Executing \cup Catching => k.kind = "execute"
    /\ k.pc = "sent" => k.kind \in {"trialNotice", "reminder"}
    /\ k.pc \in {"unpaid", "keying"} => ~k.existing
    /\ k.kind \in HttpKinds => DOMAIN k.copy = {k.plan}
    /\ k.pc = "next" => k.charge = NoCharge
    /\ k.pc \in {"opened", "unpaid", "paid"} => k.charge = "pending"
    /\ k.kind = "execute" /\ k.pc \in {"keying", "settling", "dirty"} =>
          k.charge = "succeeded"

\* The copies that a sweep has not moved on yet are due.
CopiesDue(k) ==
    k.kind = "execute" =>
        \A p \in DOMAIN k.copy :
            p # k.plan \/ k.pc \in Executing \cup {"next"} => k.copy[p].nextRunAt <= now

\* The jobs that will take a charge of the plan out of PENDING.
Charging(p) ==
    {w \in Workers : /\ job[w].pc \in {"opened", "unpaid", "paid", "caught"}
                     /\ job[w].charge = "pending"
                     /\ job[w].plan = p}

JobsInv ==
    /\ TypeOK
    /\ \A w \in Workers : Active(w) => JobShape(job[w]) /\ CopiesDue(job[w])
    /\ \A p \in Plans : Cardinality(Charging(p)) <= charges[p]["pending"]

\* The charges that are PENDING for a run not paid for on their account, or not yet.
Unbacked(p) ==
    {w \in Charging(p) : job[w].pc = "paid" => job[w].existing}

\* Every other charge has a payment of its own, or a lost one.
ChargesBacked ==
    \A p \in Plans :
        /\ IsFiniteSet(Units(paid[p])) /\ IsFiniteSet(Units(unkeyed[p]))
        /\ SumOf(paid[p]) + Cardinality(Unbacked(p))
             <= SumOf(unkeyed[p]) + charges[p]["pending"] + charges[p]["succeeded"]

\* A sweep relies on having found no key for the run, and has paid it since.
Guards(k, p, t) ==
    /\ k.pc \in {"unpaid", "paid", "keying"} /\ ~k.existing
    /\ k.plan = p /\ k.copy[p].nextRunAt = t
Owes(k, p, t) == Guards(k, p, t) /\ k.pc # "unpaid"

\* Unless two sweeps raced for the run, one of them at most is between the check
\* and the key, and a payment is remembered by the key, by that sweep or not at all.
RunsGuarded ==
    \A p \in Plans : \A t \in Runs \ raced[p] :
        /\ \A w \in Workers : Guards(job[w], p, t) =>
              t \notin keyed[p] /\ \A v \in Workers : Guards(job[v], p, t) => v = w
        /\ paid[p][t] <= 1 + unkeyed[p][t]
        /\ t \notin keyed[p] /\ (\A w \in Workers : ~Owes(job[w], p, t)) =>
              paid[p][t] <= unkeyed[p][t]

\* A key is stored, and the schedule moves on, only after a payment.
KeysPaid ==
    /\ \A p \in Plans : \A t \in keyed[p] : paid[p][t] > 0
    /\ \A w \in Workers : job[w].pc \in {"paid", "keying", "settling"} =>
          paid[job[w].plan][job[w].copy[job[w].plan].nextRunAt] > 0

SoleHolder ==
    \A p \in Plans \ overlapped : \A v, w \in Workers : Holds(v, p) /\ Holds(w, p) => v = w

\* How the only copy of plan p differs from its row.
CopyFollows(k, p) ==
    /\ p # k.plan \/ k.pc \in {"next", "sent"} => k.copy[p] = plan[p]
    /\ p = k.plan /\ k.pc \in {"dirty", "redirty"} => k.cols = Diff(k.copy[p], plan[p])
    /\ plan[p].status = "cancelled" =>
          k.kind \in HttpKinds /\ k.copy[p].status = "cancelled"
    /\ IF k.kind = "trialNotice"
       THEN p = k.plan /\ k.pc = "dirty" => k.copy[p].trialEndingNotified
       ELSE k.copy[p].trialEndingNotified = plan[p].trialEndingNotified
    /\ IF k.kind = "reminder"
       THEN p = k.plan /\ k.pc = "dirty" =>
                k.copy[p].lastNotifiedCycle = plan[p].occurrences + 1
       ELSE k.copy[p].lastNotifiedCycle = plan[p].lastNotifiedCycle
    /\ \/ /\ k.copy[p].occurrences = plan[p].occurrences
          /\ k.copy[p].nextRunAt = plan[p].nextRunAt
       \/ /\ k.kind = "execute" /\ k.pc \in Catching \cup {"dirty"}
          /\ k.copy[p].occurrences = plan[p].occurrences + 1
          /\ k.copy[p].nextRunAt > plan[p].nextRunAt
          /\ paid[p][plan[p].nextRunAt] > 0
       \/ /\ k.kind = "resume" /\ k.pc = "dirty"
          /\ k.copy[p].occurrences = plan[p].occurrences
          /\ k.copy[p].nextRunAt > plan[p].nextRunAt

CopiesFollow ==
    \A p \in Plans \ overlapped : \A w \in Workers : Holds(w, p) => CopyFollows(job[w], p)

\* No run after the next one is paid or left behind.
RunsOrdered ==
    \A p \in Plans \ overlapped :
        /\ \A t \in Runs : paid[p][t] > 0 => t <= plan[p].nextRunAt
        /\ \A t \in moved[p] : t < plan[p].nextRunAt

ScheduleInv == KeysPaid /\ SoleHolder /\ CopiesFollow /\ RunsOrdered /\ BilledRunsCounted

\* A job has sent a notice of the plan and has not stored that yet.
Telling(kind, p) ==
    \E w \in Workers : /\ job[w].pc \in {"sent", "dirty"}
                       /\ job[w].kind = kind /\ job[w].plan = p

\* A notice that the row does not show was sent only by jobs that were cut off, and
\* by the one that is about to save it; no cycle's reminder is early.
NoticesTold ==
    \A p \in Plans \ overlapped :
        /\ \A n \in Runs : notices[p][n] <= 1 + cuts
        /\ ~plan[p].trialEndingNotified /\ ~Telling("trialNotice", p) =>
              notices[p][TrialEnding] <= cuts
        /\ \A n \in Runs \ {TrialEnding} :
              /\ n > plan[p].occurrences + 1 => notices[p][n] = 0
              /\ n = plan[p].occurrences + 1 /\ plan[p].lastNotifiedCycle # n
                 /\ ~Telling("reminder", p) => notices[p][n] <= cuts

----------------------------------------------------------------------------
(* What the comments and the documentation say, and the program does not do. *)

\* executePlan: "Guarded by an idempotency key per scheduled run to avoid double-
\* charging if the sweep overlaps or is retried".
ChargedOncePerRun ==
    \A p \in Plans, t \in Runs : paid[p][t] <= 1

\* docs/ENVIRONMENT.md: "Consecutive failures before a recurring plan auto-pauses".
PausedAtThreshold ==
    \A p \in Plans :
        /\ charges[p]["failed"] >= threshold
        /\ charges[p]["succeeded"] = 0
        /\ ~\E w \in Workers : Holds(w, p)
        => plan[p].status \in {"paused", "cancelled"}
=============================================================================
