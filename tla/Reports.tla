-------------------------------- MODULE Reports --------------------------------
(***************************************************************************)
(* One subscription to a merchant's reports: the sweep of every hour that  *)
(* mails the report of the last period to each recipient when it is due,   *)
(* and the calls of the merchant and of recipients.  All read the row, and *)
(* some awaits later save their copy, which the row then takes; a row that *)
(* was removed is inserted again.  A report is its period, [start, end).   *)
(***************************************************************************)
EXTENDS Integers, FiniteSets

CONSTANTS
    Recipients,
    Periods,      \* ReportFrequency: days in a period
    Zones,        \* timezones: ticks ahead of UTC, less than a day
    Day,          \* ticks in a day
    Workers,      \* requests, and runs of the sweep, at a time
    MaxTime,      \* bound: the clock
    MaxCalls      \* bound: calls of the merchant and of recipients

Never == -1
NoRow == [isActive |-> FALSE, lastSentAt |-> Never]

VARIABLES
    now,
    row,       \* the row of report_subscriptions, or NoRow
    work,      \* per worker, what it serves
    until,     \* history: per recipient, the end of the last period mailed
    again,     \* history: a recipient got a period that began within one before
    quit,      \* history: the recipients that unsubscribed and were not put back
    spoiled,   \* history: a sweep was cut off or overlapped, or a save overwrote another
    calls
vars == <<now, row, work, until, again, quit, spoiled, calls>>

Idle == [pc |-> "idle"]
Row == [isActive : BOOLEAN, recipients : SUBSET Recipients, period : Periods, zone : Zones,
        lastSentAt : Never .. MaxTime]

TypeOK ==
    /\ now \in Day .. MaxTime
    /\ row \in Row \cup {NoRow}
    /\ \A w \in Workers : work[w].pc \in {"idle", "mailing", "saving", "removing"}
    /\ \A w \in Workers : work[w].pc /= "idle" => work[w].copy \in Row
    /\ until \in [Recipients -> Never .. MaxTime + Day]
    /\ quit \subseteq Recipients /\ calls \in 0 .. MaxCalls

Init ==
    /\ now = Day
    /\ row = NoRow
    /\ work = [w \in Workers |-> Idle]
    /\ until = [r \in Recipients |-> Never]
    /\ again = FALSE /\ quit = {} /\ spoiled = FALSE
    /\ calls = 0

Tick ==
    /\ now < MaxTime
    /\ now' = now + 1
    /\ UNCHANGED <<row, work, until, again, quit, spoiled, calls>>

Call == calls < MaxCalls /\ calls' = calls + 1
Free(w) == work' = [work EXCEPT ![w] = Idle]

\* w is done, and has written the row: the copies of the others are stale
Written(w) ==
    work' = [v \in Workers |->
                IF v = w \/ work[v] = Idle THEN Idle ELSE [work[v] EXCEPT !.stale = TRUE]]

-----------------------------------------------------------------------------
(* The sweep.                                                              *)

\* localMidnight: the date it is in the zone, as that date's midnight UTC
LocalMidnight(zone) == ((now + zone) \div Day) * Day

\* getPeriodBounds
PeriodEnd(sub) == LocalMidnight(sub.zone)
PeriodStart(sub) == PeriodEnd(sub) - sub.period * Day

\* due when the last report was sent before the present period's end
DueByEnd(sub) == sub.isActive /\ (sub.lastSentAt = Never \/ sub.lastSentAt < PeriodEnd(sub))

\* isDue
IsDue(sub) == sub.isActive /\ (sub.lastSentAt = Never \/ sub.lastSentAt < PeriodStart(sub))

Sweeping(w) == work[w].pc = "mailing" \/ (work[w].pc = "saving" /\ work[w].op = "sweep")

\* dispatchDueReports: find, and dispatchReport up to its first mail
Find(w) ==
    /\ work[w] = Idle
    /\ row /= NoRow /\ IsDue(row)
    /\ work' = [work EXCEPT ![w] =
          [pc |-> "mailing", op |-> "sweep", stale |-> FALSE, left |-> row.recipients,
           start |-> PeriodStart(row), end |-> PeriodEnd(row),
           copy |-> [row EXCEPT !.lastSentAt = now]]]
    /\ spoiled' = (spoiled \/ \E v \in Workers : Sweeping(v))
    /\ UNCHANGED <<now, row, until, again, quit, calls>>

\* one mail is queued
Mail(w) ==
    /\ work[w].pc = "mailing"
    /\ \E r \in work[w].left :
          /\ again' = (again \/ (until[r] /= Never /\ work[w].start < until[r]))
          /\ until' = [until EXCEPT ![r] = work[w].end]
          /\ work' = [work EXCEPT ![w].left = @ \ {r}]
    /\ UNCHANGED <<now, row, quit, spoiled, calls>>

\* all are queued: lastSentAt is saved next
Mailed(w) ==
    /\ work[w].pc = "mailing" /\ work[w].left = {}
    /\ work' = [work EXCEPT ![w].pc = "saving"]
    /\ UNCHANGED <<now, row, until, again, quit, spoiled, calls>>

\* A mail cannot be queued, the save fails, or the process dies.
CutOff(w) ==
    /\ Sweeping(w)
    /\ spoiled' = TRUE
    /\ Free(w)
    /\ UNCHANGED <<now, row, until, again, quit, calls>>

-----------------------------------------------------------------------------
(* The calls.                                                              *)

Create ==
    /\ row = NoRow /\ Call
    /\ \E period \in Periods, zone \in Zones :
          row' = [isActive |-> TRUE, recipients |-> Recipients, period |-> period, zone |-> zone,
                  lastSentAt |-> Never]
    /\ quit' = {}
    \* a second subscription has periods of its own
    /\ spoiled' = (spoiled \/ \E r \in Recipients : until[r] /= Never)
    /\ UNCHANGED <<now, work, until, again>>

\* findOne, and what the handler makes of its copy
Begin(w, op, copy) ==
    /\ work[w] = Idle /\ row /= NoRow /\ Call
    /\ work' = [work EXCEPT ![w] = [pc |-> IF op = "remove" THEN "removing" ELSE "saving",
                                    op |-> op, stale |-> FALSE, copy |-> copy]]
    /\ UNCHANGED <<now, row, until, again, quit, spoiled>>

\* update: the period, the timezone, or what the rest of the dto says
Update(w) ==
    \/ \E period \in Periods, zone \in Zones :
          Begin(w, "update", [row EXCEPT !.period = period, !.zone = zone])
    \/ \E active \in BOOLEAN : Begin(w, "update", [row EXCEPT !.isActive = active])
    \/ Begin(w, "replace", [row EXCEPT !.recipients = Recipients])
Remove(w) == Begin(w, "remove", row)

\* unsubscribeByEmail: without recipients the subscription is not active
Without(sub, r) ==
    [sub EXCEPT !.recipients = @ \ {r}, !.isActive = @ /\ sub.recipients /= {r}]
Unsubscribe(w) == row /= NoRow /\ \E r \in row.recipients : Begin(w, "unsubscribe", Without(row, r))

\* save of the sweep and of the calls
Save(w) ==
    /\ work[w].pc = "saving"
    /\ row' = work[w].copy
    /\ spoiled' = (spoiled \/ work[w].stale)
    /\ quit' = CASE work[w].op = "unsubscribe" -> Recipients \ work[w].copy.recipients
                 [] work[w].op = "replace" -> {}
                 [] OTHER -> quit
    /\ Written(w)
    /\ UNCHANGED <<now, until, again, calls>>

Removed(w) ==
    /\ work[w].pc = "removing"
    /\ row' = NoRow
    /\ Written(w)
    /\ UNCHANGED <<now, until, again, quit, spoiled, calls>>

Next ==
    \/ Tick \/ Create
    \/ \E w \in Workers :
        \/ Find(w) \/ Mail(w) \/ Mailed(w) \/ CutOff(w)
        \/ Update(w) \/ Remove(w) \/ Unsubscribe(w) \/ Save(w) \/ Removed(w)

Spec == Init /\ [][Next]_vars

-----------------------------------------------------------------------------
(* A recipient's reports overlap in no day, however the merchant changes   *)
(* the period and the timezone, and one who unsubscribed is not on the     *)
(* list again unless the merchant put it back; but a sweep that was cut    *)
(* off or overlapped another mails its period again, and a stale save      *)
(* brings back what it read (reports.service.ts:85-310).                   *)
PeriodsApart ==
    ~spoiled =>
        /\ ~again
        /\ row /= NoRow => row.recipients \cap quit = {}

-----------------------------------------------------------------------------
(* The inductive invariant behind PeriodsApart.                            *)

SweepWork ==
    [pc : {"mailing", "saving"}, op : {"sweep"}, stale : BOOLEAN, left : SUBSET Recipients,
     start : Int, end : 0 .. MaxTime + Day, copy : Row]
CallWork ==
    [pc : {"saving", "removing"}, op : {"update", "replace", "unsubscribe", "remove"},
     stale : BOOLEAN, copy : Row]
WorkShape ==
    /\ work = [w \in Workers |-> work[w]]
    /\ \A w \in Workers : work[w] \in {Idle} \cup SweepWork \cup CallWork

\* Unless the row was written since, a copy has what its holder does not change:
\* a sweep changes the date, a call never does.
CopiesFollow ==
    \A w \in Workers : work[w] # Idle /\ ~work[w].stale =>
        /\ row # NoRow
        /\ work[w].op \in {"sweep", "update", "remove"} =>
             work[w].copy.recipients = row.recipients
        /\ work[w].op # "sweep" => work[w].copy.lastSentAt = row.lastSentAt

\* u, the end of a period, is over for a sweep that sees a report was sent at t: a
\* period that is due begins after t, and begins and ends at midnights.
Over(u, t) == u = Never \/ (t # Never /\ u % Day = 0 /\ u < t + Day)

\* One sweep at a time; all that was mailed is over by the date it is to save, and
\* whom it has still to mail got nothing that goes beyond its beginning.
SweepsApart ==
    /\ \A v, w \in Workers : Sweeping(v) /\ Sweeping(w) => v = w
    /\ row # NoRow /\ (\A w \in Workers : ~Sweeping(w)) =>
         \A r \in Recipients : Over(until[r], row.lastSentAt)
    /\ \A w \in Workers : Sweeping(w) =>
         /\ work[w].copy.lastSentAt # Never /\ Over(work[w].end, work[w].copy.lastSentAt)
         /\ \A r \in Recipients : Over(until[r], work[w].copy.lastSentAt)
         /\ \A r \in work[w].left : until[r] = Never \/ until[r] <= work[w].start

ReportsInv ==
    /\ TypeOK /\ WorkShape
    /\ ~spoiled => CopiesFollow /\ SweepsApart /\ PeriodsApart
===============================================================================
