------------------------------ MODULE Settlements ------------------------------
(***************************************************************************)
(* One merchant's payout destination, settlement configuration and runs,   *)
(* by cron or by hand.  A run holds one transaction with a lock on the     *)
(* configuration and uses a second connection of the pool for everything   *)
(* it does not ask of the transaction's manager.  Addresses are numbered   *)
(* by the calls that entered them, each with a token mailed to the         *)
(* merchant; a token's expiry and the cooling-off period are one same day. *)
(***************************************************************************)
EXTENDS Naturals, Sequences

CONSTANTS
    Payments,     \* COMPLETED payments of this merchant and currency
    Workers,      \* requests and jobs being served at a time
    MaxEntered,   \* bound: addresses entered
    MaxTime,      \* bound: days
    MaxRuns,      \* bound: runs
    MaxFaults     \* bound: connections that break

VARIABLES
    destination,  \* the row of payout_destinations
    config,       \* the configuration: has it a destination
    lock,         \* who holds the configuration's row lock
    ready,        \* payments COMPLETED and updated since lastSettledAt
    stamped,      \* payments with a settlementId
    listed,       \* per payment, the committed settlements that are COMPLETED and list it
    now,
    work,         \* per worker, what it is doing
    confirmed,    \* history: addresses whose token came back, and when they were entered
    entered,      \* history: addresses entered so far, and the day of each
    blended,      \* history: an UPDATE left the destination with columns of two saves
    broken,       \* history: transactions whose connection broke
    runs, faults
vars == <<destination, config, lock, ready, stamped, listed, now, work, confirmed, entered,
          blended, broken, runs, faults>>

NoOne == "nobody"
Idle == [op |-> "idle", pc |-> "idle"]
Addresses == 1 .. MaxEntered
Destination == [address : 0 .. MaxEntered, verified : BOOLEAN, token : 0 .. MaxEntered, until : 0 .. MaxTime + 1]
Columns == {"address", "verified", "token", "until"}
NoDestination == [address |-> 0, verified |-> FALSE, token |-> 0, until |-> 0]

Work ==
    {Idle}
    \cup [op : {"default", "update", "verify"}, pc : {"save"}, copy : Destination]
    \cup [op : {"default", "update", "verify"}, pc : {"write"}, copy : Destination, cols : SUBSET Columns]
    \cup [op : {"run"}, pc : {"lock", "check"}]
    \cup [op : {"run"}, pc : {"select"}, address : 0 .. MaxEntered, day : 0 .. MaxTime]
    \cup [op : {"run"}, pc : {"complete"}, payments : SUBSET Payments]

\* a run from its lock on
Locked(w) == work[w].op = "run" /\ work[w].pc /= "lock"

TypeOK ==
    /\ destination \in Destination /\ config \in BOOLEAN
    /\ ready \subseteq Payments /\ stamped \subseteq Payments
    /\ listed \in [Payments -> Nat]
    /\ work \in [Workers -> Work]
    /\ lock \in Workers \cup {NoOne}
    /\ lock /= NoOne => Locked(lock)
    /\ now \in 0 .. MaxTime
    /\ entered \in Seq(0 .. MaxTime) /\ Len(entered) <= MaxEntered
    /\ blended \in BOOLEAN /\ broken \in Nat

Init ==
    /\ destination = NoDestination /\ config = FALSE
    /\ lock = NoOne
    /\ ready = {} /\ stamped = {}
    /\ listed = [p \in Payments |-> 0]
    /\ now = 0
    /\ work = [w \in Workers |-> Idle]
    /\ confirmed = {} /\ entered = <<>>
    /\ blended = FALSE /\ broken = 0 /\ runs = 0 /\ faults = 0

Goto(w, r) == work' = [work EXCEPT ![w] = r]

\* a row of settlements is committed
Insert(settlement) ==
    listed' = [p \in Payments |-> listed[p] + (IF settlement.status = "COMPLETED" /\ p \in settlement.payments
                                              THEN 1 ELSE 0)]

-----------------------------------------------------------------------------
Number == 1 + Len(entered)

\* the new address keeps the old one's verification
EnteredVerified(verified) == [address |-> Number, verified |-> verified, token |-> Number, until |-> now + 1]

\* an address as it is entered, to be verified and to cool off
Entered(verified) == [address |-> Number, verified |-> FALSE, token |-> Number, until |-> now + 1]

Enter ==
    /\ Number <= MaxEntered
    /\ entered' = Append(entered, now)

(* createPayoutDestination, up to the mail; one that is to be the default  *)
(* is saved again, from the copy of before the mail.                       *)
Create(w) ==
    /\ work[w] = Idle /\ destination = NoDestination
    /\ Enter /\ destination' = Entered(FALSE)
    /\ \/ Goto(w, [op |-> "default", pc |-> "save", copy |-> Entered(FALSE)])
       \/ UNCHANGED work
    /\ UNCHANGED <<config, lock, ready, stamped, listed, now, confirmed, blended, broken, runs, faults>>

\* updatePayoutDestination and verifyPayoutDestination read the row ...
Update(w) ==
    /\ work[w] = Idle /\ destination /= NoDestination
    /\ Goto(w, [op |-> "update", pc |-> "save", copy |-> destination])
    /\ UNCHANGED <<destination, config, lock, ready, stamped, listed, now, confirmed, entered, blended, broken,
                   runs, faults>>

Verified(d) == [address |-> d.address, verified |-> TRUE, token |-> 0, until |-> d.until]

Verify(w) ==
    /\ work[w] = Idle
    /\ destination.token /= 0 /\ now <= destination.until
    /\ Goto(w, [op |-> "verify", pc |-> "save", copy |-> Verified(destination)])
    /\ confirmed' = confirmed \cup {destination.address}
    /\ UNCHANGED <<destination, config, lock, ready, stamped, listed, now, entered, blended, broken, runs, faults>>

\* ... and save what they made of it: a SELECT tells the columns in which the
\* entity differs from the row (two addresses never have one and the same time,
\* though they may have the same day), ...
Diff(entity, row) ==
    {c \in Columns : entity[c] /= row[c] \/ (c = "until" /\ entity.address /= row.address)}

SelectDestination(w) ==
    LET c == work[w]
        entity == IF c.op = "update" THEN Entered(c.copy.verified) ELSE c.copy
    IN  /\ c.pc = "save"
        /\ IF c.op = "update" THEN Enter ELSE UNCHANGED entered
        /\ Goto(w, [op |-> c.op, pc |-> "write", copy |-> entity, cols |-> Diff(entity, destination)])
        /\ UNCHANGED <<destination, config, lock, ready, stamped, listed, now, confirmed, blended, broken,
                       runs, faults>>

\* ... and an UPDATE sets those.
Patch(row, entity, cols) ==
    [address  |-> IF "address"  \in cols THEN entity.address  ELSE row.address,
     verified |-> IF "verified" \in cols THEN entity.verified ELSE row.verified,
     token    |-> IF "token"    \in cols THEN entity.token    ELSE row.token,
     until    |-> IF "until"    \in cols THEN entity.until    ELSE row.until]

Blends(row, entity, cols) == cols /= {} /\ Patch(row, entity, cols) /= entity

WriteDestination(w) ==
    LET c == work[w]
    IN  /\ c.pc = "write"
        /\ destination' = Patch(destination, c.copy, c.cols)
        /\ blended' = (blended \/ Blends(destination, c.copy, c.cols))
        /\ Goto(w, Idle)
        /\ UNCHANGED <<config, lock, ready, stamped, listed, now, confirmed, entered, broken, runs, faults>>

\* getEligibleDestination, without the cooling-off period
EligibleHot == destination.verified

\* getEligibleDestination
Eligible == destination.verified /\ destination.until <= now

\* upsertConfig: the save waits for the row lock
UpsertConfig ==
    /\ Eligible /\ lock = NoOne
    /\ config' = TRUE
    /\ UNCHANGED <<destination, lock, ready, stamped, listed, now, work, confirmed, entered, blended, broken,
                   runs, faults>>

-----------------------------------------------------------------------------
\* a payment becomes COMPLETED, or a COMPLETED one is updated
Complete(p) ==
    /\ p \notin ready
    /\ ready' = ready \cup {p}
    /\ UNCHANGED <<destination, config, lock, stamped, listed, now, work, confirmed, entered, blended, broken,
                   runs, faults>>

(* processSettlementsForSchedule and triggerManualRun find the             *)
(* configuration and start its run.                                        *)
StartRun(w) ==
    /\ work[w] = Idle /\ config
    /\ runs < MaxRuns /\ runs' = runs + 1
    /\ Goto(w, [op |-> "run", pc |-> "lock"])
    /\ UNCHANGED <<destination, config, lock, ready, stamped, listed, now, confirmed, entered, blended, broken, faults>>

LockConfig(w) ==
    /\ work[w] = [op |-> "run", pc |-> "lock"] /\ lock = NoOne
    /\ lock' = w
    /\ Goto(w, [op |-> "run", pc |-> "check"])
    /\ UNCHANGED <<destination, config, ready, stamped, listed, now, confirmed, entered, blended, broken, runs, faults>>

\* the whole settlement is saved again as failed
FailedRowFull(payments) == [status |-> "COMPLETED", payments |-> payments]

\* the row that the catch block saves
FailedRow(payments) == [status |-> "FAILED", payments |-> {}]

\* the transaction is not rolled back
FailOpen(w, payments) ==
    /\ Insert(FailedRow(payments))
    /\ Goto(w, Idle) /\ UNCHANGED lock

\* the catch block: a row of its own, then the rollback
Fail(w, payments) ==
    /\ Insert(FailedRow(payments))
    /\ Goto(w, Idle) /\ lock' = NoOne

(* The destination is checked, on another connection; then the payments    *)
(* are selected.                                                           *)
CheckDestination(w) ==
    /\ work[w] = [op |-> "run", pc |-> "check"]
    /\ IF Eligible
       THEN Goto(w, [op |-> "run", pc |-> "select", address |-> destination.address, day |-> now])
            /\ UNCHANGED <<listed, lock>>
       ELSE Fail(w, {})
    /\ UNCHANGED <<destination, config, ready, stamped, now, confirmed, entered, blended, broken, runs, faults>>

\* no payments, no settlement; otherwise it is inserted, the payments and the
\* configuration updated, all of it in the transaction
Select(w) ==
    /\ work[w].op = "run" /\ work[w].pc = "select"
    /\ IF ready = {} THEN Goto(w, Idle) /\ lock' = NoOne
       ELSE Goto(w, [op |-> "run", pc |-> "complete", payments |-> ready]) /\ UNCHANGED lock
    /\ UNCHANGED <<destination, config, ready, stamped, listed, now, confirmed, entered, blended, broken, runs, faults>>

\* an INSERT of a key that another open transaction has inserted waits for it
Waits(w) == lock = w

(* settlementRepo.save(savedSettlement), with status COMPLETED: it does    *)
(* not see the transaction's row and inserts another of the same id.  Once *)
(* it were through, the transaction would be committed.                    *)
SaveCompleted(w) ==
    /\ work[w].op = "run" /\ work[w].pc = "complete"
    /\ ~Waits(w)
    /\ Insert([status |-> "COMPLETED", payments |-> work[w].payments])
    /\ stamped' = stamped \cup work[w].payments
    /\ ready' = {}
    /\ Goto(w, Idle) /\ lock' = NoOne
    /\ UNCHANGED <<destination, config, now, confirmed, entered, blended, broken, runs, faults>>

(* The waiting INSERT's connection breaks: the run fails. *)
BreakInsert(w) ==
    /\ work[w].op = "run" /\ work[w].pc = "complete"
    /\ faults < MaxFaults /\ faults' = faults + 1
    /\ Fail(w, work[w].payments)
    /\ UNCHANGED <<destination, config, ready, stamped, now, confirmed, entered, blended, broken, runs>>

(* The transaction's connection breaks: all it wrote is gone, the INSERT   *)
(* goes through, then the COMMIT fails and a FAILED row is added.          *)
BreakTransaction(w) ==
    /\ work[w].op = "run" /\ work[w].pc = "complete"
    /\ faults < MaxFaults /\ faults' = faults + 1
    /\ broken' = broken + 1
    /\ Insert([status |-> "COMPLETED", payments |-> work[w].payments])
    /\ Goto(w, Idle) /\ lock' = NoOne
    /\ UNCHANGED <<destination, config, ready, stamped, now, confirmed, entered, blended, runs>>

\* a day passes
Tick == /\ now < MaxTime /\ now' = now + 1
        /\ UNCHANGED <<destination, config, lock, ready, stamped, listed, work, confirmed, entered,
                       blended, broken, runs, faults>>

Steps(w) ==
    \/ SelectDestination(w) \/ WriteDestination(w)
    \/ LockConfig(w) \/ CheckDestination(w) \/ Select(w) \/ SaveCompleted(w)

Next ==
    \/ \E w \in Workers :
        \/ Create(w) \/ Update(w) \/ Verify(w) \/ StartRun(w)
        \/ Steps(w) \/ BreakInsert(w) \/ BreakTransaction(w)
    \/ \E p \in Payments : Complete(p)
    \/ UpsertConfig \/ Tick

Spec == Init /\ [][Next]_vars
FairSpec == Spec /\ \A w \in Workers : WF_vars(Steps(w))

-----------------------------------------------------------------------------
(* "Changing the address requires email verification and starts a new      *)
(* 24-hour cooling-off period" (payout-destinations.controller.ts:63): a   *)
(* run goes on only to an address whose own token came back by mail and    *)
(* that was entered at least a day before.  The UPDATEs of a verification  *)
(* and of a change of the address can cross so that the new address takes  *)
(* the verification of the old one (settlements.service.ts:148, 188).      *)
PaysConfirmedAddress ==
    \A w \in Workers : work[w].op = "run" /\ work[w].pc = "select" =>
        work[w].address \in confirmed /\ entered[work[w].address] < work[w].day

(* A payment is in one completed settlement, and in one more at most for   *)
(* each transaction whose connection broke (settlements.service.ts:555-695).*)
ListedOnce == \A p \in Payments : listed[p] <= 1 + broken

\* What the merchant gets of the settlements, as long as no UPDATE of the
\* destination is of a row that another save changed (settlements.service.ts:96-229, 555-695).
SettledOnce == (~blended => PaysConfirmedAddress) /\ ListedOnce

(* "Creates a Settlement record [...] Updates all included payments [...]  *)
(* Sends a settlement notification email" (docs/SETTLEMENTS.md:305-308): a *)
(* run that found payments ends.                                           *)
RunsEnd ==
    \A w \in Workers : work[w].pc = "complete" ~> work[w].pc /= "complete"

-----------------------------------------------------------------------------
(* The inductive invariants behind SettledOnce.                            *)

\* The day of an address's entry precedes the end of its cooling-off period; a
\* row holds a token only of such an address, and is verified only when that
\* address's token came back.
Cools(d) == d.address \in 1 .. Len(entered) /\ entered[d.address] < d.until
Trusted(d) ==
    /\ d.token /= 0 => Cools(d)
    /\ d.verified => Cools(d) /\ d.address \in confirmed

\* The row and every copy of it that a handler is to save.
DestinationsTrusted ==
    /\ Trusted(destination)
    /\ \A w \in Workers : work[w].pc \in {"save", "write"} => Trusted(work[w].copy)

\* What a run goes on with.
RunsTrusted ==
    \A w \in Workers : work[w].op = "run" /\ work[w].pc = "select" =>
        /\ work[w].address \in 1 .. Len(entered) /\ work[w].address \in confirmed
        /\ entered[work[w].address] < work[w].day

\* Both, until an UPDATE leaves a row that no save meant.
TrustedUnblended == ~blended => DestinationsTrusted /\ RunsTrusted

\* A run from its lock on is the one that holds it, so that it waits for itself
\* when it comes to save: what is completed is what a broken connection let through.
OneRunAtATime == \A w \in Workers : Locked(w) => lock = w
OnlyBrokenListed == stamped = {} /\ \A p \in Payments : listed[p] <= broken
===============================================================================
