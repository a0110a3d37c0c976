------------------------------- MODULE EmailJobs -------------------------------
(***************************************************************************)
(* The queue of e-mails: the jobs that every sender of a mail leaves, the  *)
(* workers that take them to the mail server, and the log of what was      *)
(* sent.  BullMQ tries a job again when it throws, and when its worker     *)
(* dies.                                                                   *)
(***************************************************************************)
EXTENDS Naturals

CONSTANTS
    Mails,
    Workers,     \* of the queue
    Attempts,    \* attempts of a job (3)
    MaxFaults    \* bound: answers lost, statements that fail, workers that die

VARIABLES
    job,        \* per mail, its job: [state, tries]
    slot,       \* per worker, what it does
    log,        \* per mail, the rows of email_logs: [sent, failed]
    delivered,  \* per mail, how often the mail server took it
    doubts,     \* history: per mail, attempts that ended in an error after that
    faults
vars == <<job, slot, log, delivered, doubts, faults>>

Idle == [pc |-> "idle"]

TypeOK ==
    /\ \A m \in Mails : /\ job[m].state \in {"none", "waiting", "active", "completed", "failed"}
                        /\ job[m].tries \in 0 .. Attempts
    /\ \A w \in Workers : slot[w].pc \in {"idle", "sending", "logging", "failing"}
    /\ \A m \in Mails : log[m].sent \in 0 .. 1 /\ log[m].failed \in 0 .. Attempts
    /\ doubts \in [Mails -> 0 .. MaxFaults] /\ faults \in 0 .. MaxFaults

Init ==
    /\ job = [m \in Mails |-> [state |-> "none", tries |-> 0]]
    /\ slot = [w \in Workers |-> Idle]
    /\ log = [m \in Mails |-> [sent |-> 0, failed |-> 0]]
    /\ delivered = [m \in Mails |-> 0]
    /\ doubts = [m \in Mails |-> 0]
    /\ faults = 0

Fault == faults < MaxFaults /\ faults' = faults + 1
Goto(w, pc) == slot' = [slot EXCEPT ![w].pc = pc]

-----------------------------------------------------------------------------
Enqueue(m) ==
    /\ job[m].state = "none"
    /\ job' = [job EXCEPT ![m].state = "waiting"]
    /\ UNCHANGED <<slot, log, delivered, doubts, faults>>

\* process: the job goes to sendEmail
Process(w, m) ==
    /\ slot[w] = Idle /\ job[m].state = "waiting"
    /\ job' = [job EXCEPT ![m].state = "active"]
    /\ slot' = [slot EXCEPT ![w] = [pc |-> "sending", mail |-> m]]
    /\ UNCHANGED <<log, delivered, doubts, faults>>

\* the mail server takes the mail
Delivered(w) ==
    /\ slot[w].pc = "sending"
    /\ delivered' = [delivered EXCEPT ![slot[w].mail] = @ + 1]
    /\ Goto(w, "logging")
    /\ UNCHANGED <<job, log, doubts, faults>>

\* it refuses, or there is no answer from it
NotDelivered(w) ==
    /\ slot[w].pc = "sending"
    /\ Goto(w, "failing")
    /\ UNCHANGED <<job, log, delivered, doubts, faults>>

\* it took the mail and its answer was lost
AnswerLost(w) ==
    /\ slot[w].pc = "sending" /\ Fault
    /\ delivered' = [delivered EXCEPT ![slot[w].mail] = @ + 1]
    /\ doubts' = [doubts EXCEPT ![slot[w].mail] = @ + 1]
    /\ Goto(w, "failing")
    /\ UNCHANGED <<job, log>>

\* sendEmail logs SENT: the job is done
LogSent(w) ==
    /\ slot[w].pc = "logging"
    /\ log' = [log EXCEPT ![slot[w].mail].sent = @ + 1]
    /\ job' = [job EXCEPT ![slot[w].mail].state = "completed"]
    /\ slot' = [slot EXCEPT ![w] = Idle]
    /\ UNCHANGED <<delivered, doubts, faults>>

(* The statement fails within the same try: the mail counts as failed,     *)
(* although it was sent.                                                   *)
LogSentFails(w) ==
    /\ slot[w].pc = "logging" /\ Fault
    /\ doubts' = [doubts EXCEPT ![slot[w].mail] = @ + 1]
    /\ Goto(w, "failing")
    /\ UNCHANGED <<job, log, delivered>>

\* the job is given up one attempt early
ThrownEarly(j) == [state |-> IF j.tries + 2 < Attempts THEN "waiting" ELSE "failed", tries |-> j.tries + 1]

\* BullMQ: a job that throws waits for its next attempt, if it has one
Thrown(j) == [state |-> IF j.tries + 1 < Attempts THEN "waiting" ELSE "failed", tries |-> j.tries + 1]

\* the catch of sendEmail: FAILED is logged, or that fails too; both throw
LogFailed(w) ==
    /\ slot[w].pc = "failing"
    /\ \/ /\ log' = [log EXCEPT ![slot[w].mail].failed = @ + 1]
          /\ UNCHANGED faults
       \/ Fault /\ UNCHANGED log
    /\ job' = [job EXCEPT ![slot[w].mail] = Thrown(@)]
    /\ slot' = [slot EXCEPT ![w] = Idle]
    /\ UNCHANGED <<delivered, doubts>>

\* BullMQ: the job of a worker that died waits again, its attempt not counted
Die(w) ==
    /\ slot[w] /= Idle /\ Fault
    /\ doubts' = [doubts EXCEPT ![slot[w].mail] = IF slot[w].pc = "logging" THEN @ + 1 ELSE @]
    /\ job' = [job EXCEPT ![slot[w].mail].state = "waiting"]
    /\ slot' = [slot EXCEPT ![w] = Idle]
    /\ UNCHANGED <<log, delivered>>

Next ==
    \/ \E m \in Mails : Enqueue(m) \/ \E w \in Workers : Process(w, m)
    \/ \E w \in Workers :
        \/ Delivered(w) \/ NotDelivered(w) \/ AnswerLost(w)
        \/ LogSent(w) \/ LogSentFails(w) \/ LogFailed(w) \/ Die(w)

Spec == Init /\ [][Next]_vars

-----------------------------------------------------------------------------
(* A mail goes out once, and once more at most for each attempt that ended *)
(* in an error after the mail server had it; what the log says was sent    *)
(* was, and its job is done; and a job that is given up was tried as often *)
(* as it may be (email.service.ts:31-95, email.processor.ts:34-45).        *)
MailedOnce ==
    \A m \in Mails :
        /\ delivered[m] <= 1 + doubts[m]
        /\ log[m].sent <= delivered[m]
        /\ job[m].state = "completed" <=> log[m].sent = 1
        /\ job[m].state = "failed" => job[m].tries = Attempts /\ delivered[m] <= doubts[m]

-----------------------------------------------------------------------------
(* The inductive invariant behind it.                                      *)

\* What a worker does belongs to a job that is active.
Sendings == [pc : {"sending", "logging", "failing"}, mail : Mails]
Serving(w, m) == slot[w] \in Sendings /\ slot[w].mail = m
Logging(m) == \E w \in Workers : slot[w].pc = "logging" /\ slot[w].mail = m

\* The mail that no error is to blame for is being logged, or has been.
SentOnce(m) ==
    /\ delivered[m] <= 1 + doubts[m]
    /\ IF Logging(m) \/ job[m].state = "completed" THEN delivered[m] > 0
       ELSE delivered[m] <= doubts[m]
    /\ log[m].sent = IF job[m].state = "completed" THEN 1 ELSE 0
    /\ IF job[m].state = "failed" THEN job[m].tries = Attempts
       ELSE job[m].state /= "completed" => job[m].tries < Attempts

MailsInv ==
    /\ job \in [Mails -> [state : {"none", "waiting", "active", "completed", "failed"}, tries : Nat]]
    /\ log \in [Mails -> [sent : Nat, failed : Nat]]
    /\ delivered \in [Mails -> Nat] /\ doubts \in [Mails -> Nat]
    /\ DOMAIN slot = Workers
    /\ \A w \in Workers :
         \/ slot[w] = Idle
         \/ slot[w] \in Sendings /\ job[slot[w].mail].state = "active"
    /\ \A m \in Mails : \A v, w \in Workers : Serving(v, m) /\ Serving(w, m) => v = w
    /\ \A m \in Mails : SentOnce(m)
===============================================================================
