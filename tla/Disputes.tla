------------------------------- MODULE Disputes -------------------------------
(***************************************************************************)
(* Disputes (src/modules/payments/disputes.service.ts).  Transactions are  *)
(* READ COMMITTED and lock nothing that another dispute of the payment     *)
(* reads.  What is written becomes visible at the COMMIT, so INSERT or     *)
(* UPDATE and COMMIT are one step.                                         *)
(***************************************************************************)
EXTENDS Naturals, FiniteSets

CONSTANTS
    Disputes,   \* dispute ids
    Workers,    \* slots that run a handler
    MaxUpdates  \* bound: updates begun

DisputeStatus == {"open", "under_review", "resolved", "closed"}
Terminal == {"resolved", "closed"}
Events == {"dispute.opened", "dispute.updated", "dispute.resolved", "dispute.closed"}
Endings == {"dispute.resolved", "dispute.closed"}

VARIABLES
    payment,   \* status of the payment
    status,    \* status[d]: "none", or that of the dispute's row
    told,      \* told[d][e]: how often the merchant was sent the ending e
    job,       \* job[w]: what slot w is doing
    updates,   \* updates begun so far
    overlap,   \* history: two handlers were opening a dispute at once
    shared     \* history: the disputes two handlers held a copy of at once

vars == <<payment, status, told, job, updates, overlap, shared>>

PaymentStatus == {"PENDING", "COMPLETED", "PARTIALLY_REFUNDED", "REFUNDED"}
Exists(d) == status[d] # "none"
Existing == {d \in Disputes : Exists(d)}

\* ids are random: which of the unused ones comes does not matter
NewDispute == CHOOSE d \in Disputes : ~Exists(d)

Idle == [pc |-> "idle"]
Jobs ==
    {Idle} \cup [pc : {"inserting"}]
    \cup [pc : {"saving"}, d : Disputes, notes : BOOLEAN, copy : DisputeStatus]
    \cup [pc : {"announcing"}, d : Disputes, events : (SUBSET Events) \ {{}}]
At(w, pc) == job[w].pc = pc
Finish(w) == job' = [job EXCEPT ![w] = Idle]
Others(w, pc) == \E v \in Workers \ {w} : At(v, pc)

Init ==
    /\ payment = "PENDING"
    /\ status = [d \in Disputes |-> "none"]
    /\ told = [d \in Disputes |-> [e \in Endings |-> 0]]
    /\ job = [w \in Workers |-> Idle]
    /\ updates = 0
    /\ overlap = FALSE
    /\ shared = {}

\* The payment completes and is refunded, by the payments module.
PaymentMoves ==
    /\ payment' = CASE payment = "PENDING" -> "COMPLETED"
                    [] payment = "COMPLETED" -> "PARTIALLY_REFUNDED"
                    [] payment = "PARTIALLY_REFUNDED" -> "REFUNDED"
                    [] payment = "REFUNDED" -> "REFUNDED"
    /\ payment' # payment
    /\ UNCHANGED <<status, told, job, updates, overlap, shared>>

----------------------------------------------------------------------------
(* create                                                                  *)

Disputable == {"COMPLETED", "PARTIALLY_REFUNDED"}

\* Mutant: an open dispute is taken for active, one under review is not.
ActiveOpen(d) == status[d] = "open"

ActiveStatus(d) == status[d] \notin Terminal

\* findOneBy(Dispute, { paymentId }) answers some dispute of the payment, and
\* only that one is looked at.
NoneFoundActive ==
    \/ Existing = {}
    \/ \E d \in Existing : ~ActiveStatus(d)

StartOpen(w) ==
    /\ At(w, "idle")
    /\ payment \in Disputable
    /\ NoneFoundActive
    /\ job' = [job EXCEPT ![w] = [pc |-> "inserting"]]
    /\ overlap' = (overlap \/ Others(w, "inserting"))
    /\ UNCHANGED <<payment, status, told, updates, shared>>

Open(w) ==
    /\ At(w, "inserting")
    /\ Disputes # Existing
    /\ LET d == NewDispute
       IN  /\ status' = [status EXCEPT ![d] = "open"]
           /\ job' = [job EXCEPT ![w] = [pc |-> "announcing", d |-> d,
                                         events |-> {"dispute.opened"}]]
    /\ UNCHANGED <<payment, told, updates, overlap, shared>>

----------------------------------------------------------------------------
(* update, by an administrator.                                            *)

\* Mutant: closing twice is let through.
TransitionsLoose ==
    [s \in DisputeStatus |->
       CASE s = "open" -> {"under_review", "closed"}
         [] s = "under_review" -> {"resolved", "closed"}
         [] s = "resolved" -> {"closed"}
         [] s = "closed" -> {"closed"}]

Transitions ==
    [s \in DisputeStatus |->
       CASE s = "open" -> {"under_review", "closed"}
         [] s = "under_review" -> {"resolved", "closed"}
         [] s = "resolved" -> {"closed"}
         [] s = "closed" -> {}]

\* UpdateDisputeDto: a new status, or notes only.
StartUpdate(w, d) ==
    /\ At(w, "idle") /\ Exists(d) /\ updates < MaxUpdates
    /\ updates' = updates + 1
    /\ \E new \in Transitions[status[d]] \cup {"same"} :
         job' = [job EXCEPT ![w] =
                   [pc |-> "saving", d |-> d, notes |-> new = "same",
                    copy |-> IF new = "same" THEN status[d] ELSE new]]
    /\ shared' = IF \E v \in Workers : At(v, "saving") /\ job[v].d = d
                 THEN shared \cup {d} ELSE shared
    /\ UNCHANGED <<payment, status, told, overlap>>

Announced(s) ==
    {"dispute.updated"} \cup CASE s = "resolved" -> {"dispute.resolved"}
                               [] s = "closed" -> {"dispute.closed"}
                               [] OTHER -> {}

SaveUpdate(w) ==
    LET d == job[w].d
    IN  /\ At(w, "saving")
        /\ status' = [status EXCEPT ![d] = job[w].copy]
        /\ job' = [job EXCEPT ![w] =
                     IF job[w].notes THEN Idle
                     ELSE [pc |-> "announcing", d |-> d, events |-> Announced(job[w].copy)]]
        /\ UNCHANGED <<payment, told, updates, overlap, shared>>

----------------------------------------------------------------------------
(* After the COMMIT.                                                       *)

\* The e-mails to merchant and payer are queued, then dispatchDisputeWebhook:
\* "dispute.updated" before the event of the status.
Announce(w) ==
    LET d == job[w].d
        e == IF "dispute.updated" \in job[w].events THEN "dispute.updated"
             ELSE CHOOSE x \in job[w].events : TRUE
        rest == job[w].events \ {e}
    IN  /\ At(w, "announcing")
        /\ \/ /\ e \in Endings
              /\ told' = [told EXCEPT ![d][e] = told[d][e] + 1]
           \/ UNCHANGED told          \* another event, or a failure, which is logged
        /\ job' = [job EXCEPT ![w] = IF rest = {} THEN Idle
                                     ELSE [job[w] EXCEPT !.events = rest]]
        /\ UNCHANGED <<payment, status, updates, overlap, shared>>

\* The process dies, or a read of the payment throws: before the COMMIT the
\* transaction is rolled back, after it the rollback fails and what is committed
\* stays, though the caller gets an error.
Cut(w) ==
    /\ ~At(w, "idle")
    /\ Finish(w)
    /\ UNCHANGED <<payment, status, told, updates, overlap, shared>>

----------------------------------------------------------------------------
Next ==
    \/ PaymentMoves
    \/ \E w \in Workers, d \in Disputes : StartUpdate(w, d)
    \/ \E w \in Workers :
         StartOpen(w) \/ Open(w) \/ SaveUpdate(w) \/ Announce(w) \/ Cut(w)

Spec == Init /\ [][Next]_vars

----------------------------------------------------------------------------
(* Properties.                                                             *)

TypeOK ==
    /\ payment \in PaymentStatus
    /\ status \in [Disputes -> DisputeStatus \cup {"none"}]
    /\ told \in [Disputes -> [Endings -> Nat]]
    /\ updates \in 0..MaxUpdates
    /\ overlap \in BOOLEAN
    /\ shared \subseteq Disputes
    /\ job \in [Workers -> Jobs]
    /\ \A w \in Workers : At(w, "saving") \/ At(w, "announcing") => Exists(job[w].d)

Active == {d \in Existing : ActiveStatus(d)}

\* "Only one active dispute (non-terminal status) can exist per payment"
\* (docs/DISPUTES.md:78).
OneActiveDispute == Cardinality(Active) <= 1

\* What the check does give: as long as none of the payment's disputes has ended,
\* was reopened by a stale save, or was opened at the same time as another, the
\* payment has one dispute.
FirstDisputeAlone ==
    \/ Cardinality(Existing) <= 1
    \/ overlap \/ shared # {}
    \/ \E d \in Existing : told[d]["dispute.closed"] > 0 \/ status[d] \in Terminal

\* A dispute ends once: the merchant is told once that it was resolved and once
\* that it was closed, and it is told so of a dispute that has ended, unless two
\* updates held the dispute at once.
EndsOnce ==
    \A d \in Disputes \ shared :
        /\ told[d]["dispute.closed"] <= 1 /\ told[d]["dispute.resolved"] <= 1
        /\ told[d]["dispute.closed"] = 1 => status[d] = "closed"
        /\ told[d]["dispute.resolved"] = 1 => status[d] \in Terminal

\* What the parties are promised of a payment's disputes (disputes.service.ts:30-150).
DisputesEndOnce == EndsOnce /\ FirstDisputeAlone

----------------------------------------------------------------------------
(* The inductive invariants behind DisputesEndOnce.                        *)

Updating(w, d) == At(w, "saving") /\ job[w].d = d
Telling(w, d, e) == At(w, "announcing") /\ job[w].d = d /\ e \in job[w].events
Ended(s, e) == IF e = "dispute.closed" THEN s = "closed" ELSE s \in Terminal

\* One update holds the dispute, and what it will save follows from the status
\* the dispute still has.
UpdatesApart(d) ==
    /\ \A v, w \in Workers : Updating(v, d) /\ Updating(w, d) => v = w
    /\ \A w \in Workers : Updating(w, d) =>
         \/ job[w].notes /\ job[w].copy = status[d]
         \/ ~job[w].notes /\ job[w].copy \in Transitions[status[d]]

\* An ending has been told, or one slot is to tell it, or neither; and in the
\* first two cases the dispute has ended that way.
ToldOnce(d, e) ==
    /\ told[d][e] \in {0, 1}
    /\ told[d][e] = 1 => Ended(status[d], e)
    /\ \A w \in Workers : Telling(w, d, e) => told[d][e] = 0 /\ Ended(status[d], e)
    /\ \A v, w \in Workers : Telling(v, d, e) /\ Telling(w, d, e) => v = w

Orderly(d) == UpdatesApart(d) /\ \A e \in Endings : ToldOnce(d, e)
DisputeInv == \A d \in Disputes \ shared : Orderly(d)

\* The first dispute is opened by one slot, while there is none.
OpenedAlone ==
    /\ \A d, e \in Existing : d = e
    /\ \A w \in Workers : At(w, "inserting") => Existing = {}
    /\ \A v, w \in Workers : At(v, "inserting") /\ At(w, "inserting") => v = w
AloneInv ==
    \/ overlap \/ shared # {}
    \/ \E d \in Existing : status[d] \in Terminal
    \/ OpenedAlone
=============================================================================
