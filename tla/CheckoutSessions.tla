--------------------------- MODULE CheckoutSessions ---------------------------
(***************************************************************************)
(* Checkout sessions (src/modules/checkout-sessions): a merchant creates a *)
(* session, a payer completes it, the merchant or a ten-minute sweep       *)
(* expires it.  An action is the code between two awaits.  save(session)   *)
(* is one step and leaves the row as the handler's copy has it.            *)
(***************************************************************************)
EXTENDS Naturals, FiniteSets

CONSTANTS
    Sessions,     \* session ids
    Workers,      \* slots that run a handler or the sweep
    MaxCuts       \* bound: handlers whose process dies

NoPayment == 0

VARIABLES
    session,   \* session[s]: its row, or NoRow
    late,      \* the sessions whose expiresAt has passed
    made,      \* made[s]: how many payments were created for it
    told,      \* told[s]: the events its merchant was sent
    job,       \* job[w]: what slot w is doing
    cuts,      \* handlers cut off so far
    orphans,   \* history: orphans[s], payments whose handler never saved the session
    shared     \* history: sessions of which two handlers held a copy at once

vars == <<session, late, made, told, job, cuts, orphans, shared>>

CheckoutSessionStatus == {"OPEN", "COMPLETE", "EXPIRED"}
Events == {"checkout.session.completed", "checkout.session.expired"}

NoRow == [status |-> "none"]
Row == [status : CheckoutSessionStatus, payment : Nat]

Idle == [pc |-> "idle"]
Jobs ==
    {Idle}
    \cup [pc : {"paying", "completing", "expiring"}, s : Sessions, copy : Row]
    \cup [pc : {"sweeping"}, now : SUBSET Sessions, stale : SUBSET Sessions]
    \cup [pc : {"announcing"}, todo : SUBSET Sessions, event : Events]
Active(w) == job[w].pc # "idle"
At(w, pc) == job[w].pc = pc
Finish(w) == job' = [job EXCEPT ![w] = Idle]
Holds(w, s) == job[w].pc \in {"paying", "completing", "expiring"} /\ job[w].s = s

Init ==
    /\ session = [s \in Sessions |-> NoRow]
    /\ late = {}
    /\ made = [s \in Sessions |-> 0]
    /\ told = [s \in Sessions |-> {}]
    /\ job = [w \in Workers |-> Idle]
    /\ cuts = 0
    /\ orphans = [s \in Sessions |-> 0]
    /\ shared = {}

\* create: the total is computed from the line items, of which there is one at
\* least; expiresAt lies 5 minutes to a day ahead.
Create(s) ==
    /\ session[s] = NoRow
    /\ session' = [session EXCEPT ![s] = [status |-> "OPEN", payment |-> NoPayment]]
    /\ UNCHANGED <<late, made, told, job, cuts, orphans, shared>>

\* expiresAt passes.
Lapse(s) ==
    /\ session[s] # NoRow /\ s \notin late
    /\ late' = late \cup {s}
    /\ UNCHANGED <<session, made, told, job, cuts, orphans, shared>>

----------------------------------------------------------------------------
(* Handlers; a refused call changes nothing and is left out.               *)

\* getPublicSession refuses a session that is expired, or open and late.
IsExpired(s) ==
    \/ session[s].status = "EXPIRED"
    \/ session[s].status = "OPEN" /\ s \in late

Load(w, s, pc) ==
    /\ ~Active(w)
    /\ session[s] # NoRow
    /\ job' = [job EXCEPT ![w] = [pc |-> pc, s |-> s, copy |-> session[s]]]
    /\ shared' = IF \E v \in Workers : Holds(v, s) THEN shared \cup {s} ELSE shared
    /\ UNCHANGED <<session, late, made, told, cuts, orphans>>

\* completeSession: the session is read, with its branding.
StartComplete(w, s) ==
    /\ ~IsExpired(s)
    /\ session[s].status = "OPEN"
    /\ Load(w, s, "paying")

\* PaymentsService.create commits a payment, whose id is its number here ...
CreatePayment(w) ==
    LET s == job[w].s
    IN  /\ At(w, "paying")
        /\ made' = [made EXCEPT ![s] = @ + 1]
        /\ job' = [job EXCEPT ![w] =
                     [pc |-> "completing", s |-> s,
                      copy |-> [status |-> "COMPLETE", payment |-> made[s] + 1]]]
        /\ UNCHANGED <<session, late, told, cuts, orphans, shared>>

\* ... or throws, on a limit for instance.
CreatePaymentFails(w) ==
    /\ At(w, "paying")
    /\ Finish(w)
    /\ UNCHANGED <<session, late, made, told, cuts, orphans, shared>>

\* expire, for the merchant.
StartExpire(w, s) ==
    /\ session[s].status = "OPEN"
    /\ Load(w, s, "expiring")

\* save(session) at the end of completeSession and of expire.
Save(w) ==
    LET s == job[w].s
        expired == [job[w].copy EXCEPT !.status = "EXPIRED"]
    IN  /\ job[w].pc \in {"completing", "expiring"}
        /\ session' = [session EXCEPT ![s] =
                         IF At(w, "expiring") THEN expired ELSE job[w].copy]
        /\ job' = [job EXCEPT ![w] =
                     [pc |-> "announcing", todo |-> {s},
                      event |-> IF At(w, "expiring") THEN "checkout.session.expired"
                                ELSE "checkout.session.completed"]]
        /\ UNCHANGED <<late, made, told, cuts, orphans, shared>>

----------------------------------------------------------------------------
(* The sweep.                                                              *)

\* expireStaleSessions: the stale sessions, as of one reading of the clock.
Find(w) ==
    /\ ~Active(w)
    /\ \E s \in late : session[s].status = "OPEN"
    /\ job' = [job EXCEPT ![w] =
                 [pc |-> "sweeping", now |-> late,
                  stale |-> {s \in late : session[s].status = "OPEN"}]]
    /\ UNCHANGED <<session, late, made, told, cuts, orphans, shared>>

\* Mutant: the sessions found are expired by id, whatever became of them.
ExpirableFound(w) == job[w].stale

\* Mutant: the sweep skips the sessions a payer has begun to complete.
ExpirableIdle(w) ==
    {s \in job[w].now : session[s].status = "OPEN" /\ made[s] = 0}

\* UPDATE ... WHERE status = 'OPEN' AND expiresAt < :now
Expirable(w) == {s \in job[w].now : session[s].status = "OPEN"}

ExpireStale(w) ==
    /\ At(w, "sweeping")
    /\ session' = [s \in Sessions |->
                     IF s \in Expirable(w) THEN [session[s] EXCEPT !.status = "EXPIRED"]
                     ELSE session[s]]
    /\ job' = [job EXCEPT ![w] =
                 IF Expirable(w) = {} THEN Idle
                 ELSE [pc |-> "announcing", todo |-> job[w].stale,
                       event |-> "checkout.session.expired"]]
    /\ UNCHANGED <<late, made, told, cuts, orphans, shared>>

\* dispatchEventToMerchant, one session after the other; errors are logged.
Announce(w) ==
    /\ At(w, "announcing")
    /\ \E s \in job[w].todo :
         /\ \/ told' = [told EXCEPT ![s] = @ \cup {job[w].event}]
            \/ UNCHANGED told
         /\ job' = [job EXCEPT ![w] = IF job[w].todo = {s} THEN Idle
                                      ELSE [job[w] EXCEPT !.todo = @ \ {s}]]
    /\ UNCHANGED <<session, late, made, cuts, orphans, shared>>

\* The process dies, or a statement fails and the error goes to the caller.
Cut(w) ==
    /\ Active(w)
    /\ cuts < MaxCuts
    /\ cuts' = cuts + 1
    /\ Finish(w)
    /\ orphans' = IF At(w, "completing") THEN [orphans EXCEPT ![job[w].s] = @ + 1]
                  ELSE orphans
    /\ UNCHANGED <<session, late, made, told, shared>>

----------------------------------------------------------------------------
Step(w) ==
    \/ CreatePayment(w) \/ CreatePaymentFails(w) \/ Save(w)
    \/ ExpireStale(w) \/ Announce(w)

Next ==
    \/ \E s \in Sessions : Create(s) \/ Lapse(s)
    \/ \E w \in Workers, s \in Sessions : StartComplete(w, s) \/ StartExpire(w, s)
    \/ \E w \in Workers : Find(w) \/ Step(w) \/ Cut(w)

Spec == Init /\ [][Next]_vars

\* Node runs on what was started, and handleCron starts the sweep again and
\* again.  With clients on every slot the sweep finds one free ever again (SF).
Fairness ==
    /\ \A w \in Workers : WF_vars(Step(w))
    /\ SF_vars(\E w \in Workers : Find(w))

----------------------------------------------------------------------------
(* Properties.                                                             *)

TypeOK ==
    /\ session \in [Sessions -> Row \cup {NoRow}]
    /\ late \subseteq Sessions
    /\ made \in [Sessions -> Nat]
    /\ told \in [Sessions -> SUBSET Events]
    /\ cuts \in 0..MaxCuts
    /\ orphans \in [Sessions -> Nat]
    /\ shared \subseteq Sessions
    /\ job \in [Workers -> Jobs]

\* A session sells once: it gets one payment, plus one for each completion that
\* died before it was saved, whatever the sweep does meanwhile, unless two
\* handlers held the session at once.
SoldOnce ==
    \A s \in Sessions \ shared : made[s] <= 1 + orphans[s]

\* What was paid stays paid: a session that is COMPLETE keeps its status and its
\* payment, unless the merchant or a second payer had read it while it was open.
\* The sweep never is the one that takes it back.
PaidKept ==
    \A s \in Sessions : session[s].status = "COMPLETE" /\ session'[s] # session[s]
                           => s \in shared

\* A session sells once and stays sold (checkout-sessions.service.ts:138-310).
SalesKept == [][SoldOnce' /\ PaidKept]_vars

\* A session that was never completed and whose time has passed is expired.
Stale == \E s \in late : session[s].status = "OPEN"
StaleIsExpired == Stale ~> ~Stale

----------------------------------------------------------------------------
(* The inductive invariant behind SalesKept.                               *)

Completed(s) == session[s].status = "COMPLETE"
Paid(s) == \E w \in Workers : At(w, "completing") /\ job[w].s = s

\* A handler with a payment has the session's completed row to save.
CopiesComplete == \A w \in Workers : At(w, "completing") => job[w].copy.status = "COMPLETE"

\* One handler holds a session at a time,
HeldByOne(s) == \A v, w \in Workers : Holds(v, s) /\ Holds(w, s) => v = w

\* and none does once the session is complete.
NoneHoldsPaid(s) == Completed(s) => \A w \in Workers : ~Holds(w, s)

\* There is one payment beyond the orphans from the moment it is made: its
\* handler has yet to save the session, or has saved it.
PaymentsCounted(s) ==
    /\ made[s] <= 1 + orphans[s]
    /\ ~Completed(s) /\ ~Paid(s) => made[s] <= orphans[s]

SaleOf(s) == HeldByOne(s) /\ NoneHoldsPaid(s) /\ PaymentsCounted(s)

SaleInv == CopiesComplete /\ \A s \in Sessions \ shared : SaleOf(s)
=============================================================================
