----------------------------- MODULE PaymentLinks -----------------------------
(***************************************************************************)
(* Payment links (src/modules/payment-links) and the payments that credit  *)
(* them.  Counters are incremented in the database; the merchant's edits   *)
(* are read, changed in memory and saved, in a SELECT and an UPDATE.  A    *)
(* payment completes first and is credited some awaits later, or never.    *)
(***************************************************************************)
EXTENDS Naturals, FiniteSets

CONSTANTS
    Links,       \* link ids, each with its token and its merchant
    Workers,     \* slots that run a handler
    MaxCount,    \* bound: visits, and payments, of one link
    MaxTime      \* bound: the clock

Never == MaxTime + 1        \* expiresAt is null, or later than the run
NoRow == [active |-> FALSE]

VARIABLES
    link,      \* link[l]: its row, or NoRow
    now,       \* the clock
    pending,   \* pending[l]: payments that name the link and are not completed
    seen,      \* history: seen[l], visits answered
    paid,      \* history: paid[l], its payments that completed
    owed,      \* owed[l]: completed by handlers that have not come to the credit
    uncredited, \* history: uncredited[l], completed and never to be credited
    job,       \* job[w]: what slot w is doing
    overwritten \* history: links of which a save wrote back what had changed meanwhile

sums == <<paid, owed, uncredited>>
vars == <<link, now, pending, seen, sums, job, overwritten>>

\* The amount of a link and its minimum only decide what a visitor is answered.
Row == [active : BOOLEAN, expires : 0..Never, views : Nat, completions : Nat]
Columns == {"active", "expires", "views", "completions"}

Idle == [pc |-> "idle"]
At(w, pc) == job[w].pc = pc
Finish(w) == job' = [job EXCEPT ![w] = Idle]

Init ==
    /\ link = [l \in Links |-> NoRow]
    /\ now = 0
    /\ pending = [l \in Links |-> 0]
    /\ seen = [l \in Links |-> 0]
    /\ paid = [l \in Links |-> 0]
    /\ owed = [l \in Links |-> 0]
    /\ uncredited = [l \in Links |-> 0]
    /\ job = [w \in Workers |-> Idle]
    /\ overwritten = {}

Tick ==
    /\ now < MaxTime
    /\ now' = now + 1
    /\ UNCHANGED <<link, pending, seen, sums, job, overwritten>>

----------------------------------------------------------------------------
(* The merchant's calls; a refused call changes nothing and is left out.   *)

\* CreatePaymentLinkDto; expiresAt lies ahead or is left out.
Dtos == [expires : {1, Never}]

\* The row; maxCompletions is not stored.
Created(dto) == [active |-> TRUE, expires |-> dto.expires, views |-> 0, completions |-> 0]

Create(l) ==
    /\ link[l] = NoRow
    /\ \E dto \in Dtos : link' = [link EXCEPT ![l] = Created(dto)]
    /\ UNCHANGED <<now, pending, seen, sums, job, overwritten>>

\* Bound: no edit begins once one has written back what had changed; the row is
\* then like another, and only the history is not.
Load(w, l, edit) ==
    /\ At(w, "idle") /\ l \notin overwritten
    /\ job' = [job EXCEPT ![w] = [pc |-> "saving", l |-> l, read |-> link[l],
                                  copy |-> edit]]
    /\ UNCHANGED <<link, now, pending, seen, sums, overwritten>>

\* deactivate
StartDeactivate(w, l) ==
    /\ link[l] # NoRow
    /\ Load(w, l, [link[l] EXCEPT !.active = FALSE])

\* update: an expired link is not switched on again.
Refused(row, active) == active /\ ~row.active /\ row.expires <= now

\* What the DTO leaves out keeps its value: isActive and expiresAt stand for the rest.
Edits(row) == [active : BOOLEAN, expires : {row.expires, Never}]

\* Mutant: switching a link on starts its count afresh.
EditedAfresh(row, dto) ==
    [row EXCEPT !.active = dto.active, !.expires = dto.expires,
                !.completions = IF dto.active THEN 0 ELSE @]

Edited(row, dto) == [row EXCEPT !.active = dto.active, !.expires = dto.expires]

StartUpdate(w, l) ==
    /\ link[l] # NoRow
    /\ \E dto \in Edits(link[l]) : /\ ~Refused(link[l], dto.active)
                                  /\ Load(w, l, Edited(link[l], dto))

\* repo.save(link): a SELECT tells the columns in which the copy differs ...
Diff(copy, row) == {c \in Columns : copy[c] # row[c]}

SelectLink(w) ==
    /\ At(w, "saving")
    /\ job' = [job EXCEPT ![w] = [pc |-> "writing", l |-> job[w].l, read |-> job[w].read,
                                  copy |-> job[w].copy,
                                  cols |-> Diff(job[w].copy, link[job[w].l])]]
    /\ UNCHANGED <<link, now, pending, seen, sums, overwritten>>

Patch(row, copy, cols) ==
    [active      |-> IF "active"      \in cols THEN copy.active      ELSE row.active,
     expires     |-> IF "expires"     \in cols THEN copy.expires     ELSE row.expires,
     views       |-> IF "views"       \in cols THEN copy.views       ELSE row.views,
     completions |-> IF "completions" \in cols THEN copy.completions ELSE row.completions]

\* The UPDATE has a column that the handler never touched: it changed between
\* the handler's read and its SELECT, and goes back to what was read.
WritesBack(w) == ~(job[w].cols \subseteq Diff(job[w].copy, job[w].read))

\* ... and an UPDATE sets those.
Save(w) ==
    LET l == job[w].l
    IN  /\ At(w, "writing")
        /\ link' = [link EXCEPT ![l] = Patch(@, job[w].copy, job[w].cols)]
        /\ overwritten' = IF WritesBack(w) THEN overwritten \cup {l} ELSE overwritten
        /\ Finish(w)
        /\ UNCHANGED <<now, pending, seen, sums>>

----------------------------------------------------------------------------
(* The payer's calls.                                                      *)

\* findByTokenOrSlug
Open(row) == row.active /\ ~(row.expires < now)

Visit(w, l) ==
    /\ At(w, "idle") /\ link[l] # NoRow /\ seen[l] < MaxCount
    /\ Open(link[l])
    /\ job' = [job EXCEPT ![w] = [pc |-> "counting", l |-> l, read |-> link[l]]]
    /\ UNCHANGED <<link, now, pending, seen, sums, overwritten>>

\* increment({ id }, 'views', 1): a visit counts before redeemLink refuses it.
CountView(w) ==
    LET l == job[w].l
    IN  /\ At(w, "counting")
        /\ link' = [link EXCEPT ![l].views = @ + 1]
        /\ seen' = [seen EXCEPT ![l] = @ + 1]
        /\ job' = [job EXCEPT ![w].pc = "answering"]
        /\ UNCHANGED <<now, pending, sums, overwritten>>

\* The visitor is answered, or refused by redeemLink; the link stays as it is.
Answer(w) ==
    /\ At(w, "answering")
    /\ Finish(w)
    /\ UNCHANGED <<link, now, pending, seen, sums, overwritten>>

\* POST /payments with a paymentLinkId: nothing looks at the link.
NameLink(l) ==
    /\ link[l] # NoRow /\ pending[l] + paid[l] < MaxCount
    /\ pending' = [pending EXCEPT ![l] = @ + 1]
    /\ UNCHANGED <<link, now, seen, sums, job, overwritten>>

\* incrementCompletions.  maxCompletions is null in every row, create does not
\* store it, and so the CASE leaves isActive alone.
Credited(row) == [row EXCEPT !.completions = @ + 1]

\* handleWebhook commits COMPLETED, or simulate saves it, whatever the link has
\* become: mails and splits come before the credit.
CompletePayment(l) ==
    /\ pending[l] > 0
    /\ pending' = [pending EXCEPT ![l] = @ - 1]
    /\ paid' = [paid EXCEPT ![l] = @ + 1]
    /\ owed' = [owed EXCEPT ![l] = @ + 1]
    /\ UNCHANGED <<link, now, seen, uncredited, job, overwritten>>

Credit(l) ==
    /\ owed[l] > 0
    /\ owed' = [owed EXCEPT ![l] = @ - 1]
    /\ link' = [link EXCEPT ![l] = Credited(@)]
    /\ UNCHANGED <<now, pending, seen, paid, uncredited, job, overwritten>>

\* A step before the credit throws, or the process stops: nobody comes back to it.
LoseCredit(l) ==
    /\ owed[l] > 0
    /\ owed' = [owed EXCEPT ![l] = @ - 1]
    /\ uncredited' = [uncredited EXCEPT ![l] = @ + 1]
    /\ UNCHANGED <<link, now, pending, seen, paid, job, overwritten>>

\* The Horizon stream completes a payment, and has no credit in it.
CompleteByStream(l) ==
    /\ pending[l] > 0
    /\ pending' = [pending EXCEPT ![l] = @ - 1]
    /\ paid' = [paid EXCEPT ![l] = @ + 1]
    /\ uncredited' = [uncredited EXCEPT ![l] = @ + 1]
    /\ UNCHANGED <<link, now, seen, owed, job, overwritten>>

----------------------------------------------------------------------------
Next ==
    \/ Tick
    \/ \E l \in Links : \/ Create(l) \/ NameLink(l)
                       \/ CompletePayment(l) \/ Credit(l) \/ LoseCredit(l) \/ CompleteByStream(l)
    \/ \E w \in Workers, l \in Links :
         StartDeactivate(w, l) \/ StartUpdate(w, l) \/ Visit(w, l)
    \/ \E w \in Workers : SelectLink(w) \/ Save(w) \/ CountView(w) \/ Answer(w)

Spec == Init /\ [][Next]_vars

----------------------------------------------------------------------------
(* Properties.                                                             *)

Tallied ==
    /\ pending \in [Links -> Nat] /\ seen \in [Links -> Nat]
    /\ paid \in [Links -> Nat] /\ owed \in [Links -> Nat] /\ uncredited \in [Links -> Nat]

TypeOK ==
    /\ link \in [Links -> Row \cup {NoRow}]
    /\ now \in 0..MaxTime
    /\ Tallied
    /\ overwritten \subseteq Links
    /\ \A w \in Workers : \/ job[w] = Idle
                          \/ /\ job[w].pc \in {"saving", "writing"}
                             /\ {job[w].read, job[w].copy} \subseteq Row
                             /\ At(w, "writing") => job[w].cols \subseteq Columns
                          \/ job[w].pc \in {"counting", "answering"} /\ job[w].read \in Row

\* Every visit is in the counter; of the completed payments are those that are
\* not waiting for their credit, or out of its reach.
Counted(l) ==
    /\ link[l].views = seen[l]
    /\ link[l].completions + owed[l] + uncredited[l] = paid[l]

\* The counters the analytics report miss nothing but the credits that are still
\* to come, that a failure cut off or that the stream never makes, however visits,
\* payments and edits interleave, unless an edit wrote back a counter that had
\* changed since it was read (payment-links.service.ts:156-276).
CountersKept == \A l \in Links \ overwritten : link[l] # NoRow => Counted(l)

\* "Each link tracks [...] how many times it has led to a completed payment
\* (`completions`)" (docs/PAYMENT_LINKS.md:5), once no handler owes a credit.
CompletionsCounted ==
    \A l \in Links : link[l] # NoRow /\ owed[l] = 0 => link[l].completions = paid[l]

\* A link that was switched off stays off until its merchant asks for it back:
\* neither visits nor payments still completing revive it, and of the edits only
\* one that found it off and switches it on, or one that writes back what it read
\* before the link was switched off.
OffKept ==
    \A l \in Links :
        link[l] # NoRow /\ ~link[l].active /\ link'[l].active =>
            \E w \in Workers : /\ At(w, "writing") /\ job[w].l = l /\ ~At(w, "writing")'
                             /\ job[w].copy.active
                             /\ (~job[w].read.active \/ WritesBack(w))
OffStaysOff == [][OffKept]_vars

----------------------------------------------------------------------------
(* The inductive invariant behind CountersKept.                            *)

\* A handler has a link that is there, and an edit leaves the counters it read.
Handled(w) ==
    \/ job[w] = Idle
    \/ /\ job[w].pc \in {"saving", "writing", "counting", "answering"}
       /\ job[w].l \in Links /\ link[job[w].l] # NoRow
       /\ job[w].pc \in {"saving", "writing"} =>
            /\ job[w].copy \in Row
            /\ job[w].copy.views = job[w].read.views
            /\ job[w].copy.completions = job[w].read.completions
       /\ At(w, "writing") => job[w].cols \subseteq Columns

Untouched(l) == pending[l] = 0 /\ seen[l] = 0 /\ paid[l] = 0 /\ owed[l] = 0 /\ uncredited[l] = 0

LinksInv ==
    /\ link \in [Links -> Row \cup {NoRow}]
    /\ Tallied
    /\ DOMAIN job = Workers /\ \A w \in Workers : Handled(w)
    /\ \A l \in Links : link[l] = NoRow => Untouched(l)
    /\ CountersKept
=============================================================================
