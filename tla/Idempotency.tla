----------------------------- MODULE Idempotency -----------------------------
(***************************************************************************)
(* The requests that carry one Idempotency-Key: IdempotencyInterceptor     *)
(* around POST /payments, and the row of the key in idempotency_keys that  *)
(* IdempotencyService keeps (src/modules/payments/idempotency.*.ts).  Every *)
(* statement names its row by the key alone, so keys do not interact.      *)
(*                                                                         *)
(* An action is the code between two awaits.  The cached response is       *)
(* stored, and the claim of a failed request deleted, by callbacks that    *)
(* nobody awaits: the client has its answer before they reach the table.   *)
(***************************************************************************)
EXTENDS Naturals, FiniteSets

CONSTANTS
    Requests,    \* the requests that carry the key, retries included
    Bodies,      \* request bodies, by hash
    Body,        \* Body[r]: the body of request r
    Storable,    \* the table can hold the key: the column has no length, its
                 \* index takes 2704 bytes of it, and nothing checks the header
    MaxExpiries, \* bound: rows that reach expiresAt
    MaxLost,     \* bound: commits whose answer is lost
    MaxCuts,     \* bound: requests whose process dies
    MaxFailures  \* bound: INSERTs that fail with the connection

NoRow      == [by |-> "nobody"]
InProgress == "in_progress"
Unanswered == "unanswered"
Refusals   == {"conflict", "mismatch", "error"}

ASSUME IdempotencyAssumption ==
    /\ Body \in [Requests -> Bodies]
    /\ Storable \in BOOLEAN
    /\ MaxExpiries \in Nat /\ MaxLost \in Nat /\ MaxCuts \in Nat
    /\ MaxFailures \in Nat
    /\ Requests \cap (Refusals \cup {InProgress, Unanswered, "nobody"}) = {}

VARIABLES
    row,        \* the row of the key, or NoRow
    pc,         \* pc[r]: where request r is
    payments,   \* the requests whose payment was committed
    answer,     \* answer[r]: what the client of r was told
    expiries,   \* rows that have expired so far
    lost,       \* commits whose answer was lost so far
    cuts,       \* requests cut off so far
    failures,   \* INSERTs that failed with the connection so far
    stolen      \* history: a request changed the unexpired row of another

vars == <<row, pc, payments, answer, expiries, lost, cuts, failures, stolen>>
bounds == <<expiries, lost, cuts, failures>>

\* `by' is the request that inserted the row; the table does not know it.
Row == [by : Requests, body : Bodies, response : Requests \cup {InProgress},
        expired : BOOLEAN]

\* Program points: in checkOrClaimKey (and handleConflict), in the handler, and
\* in the callbacks of the interceptor.
Claiming  == {"finding", "deleting", "inserting", "conflicted", "redeleting"}
Handling  == {"running", "made", "saving", "clearing"}
Finished  == {"done", "dead"}

Go(r, next) == pc' = [pc EXCEPT ![r] = next]
Tell(r, what) == answer' = [answer EXCEPT ![r] = what]

\* r is about to change a row that another request inserted and that is valid.
Robs(r) == row # NoRow /\ row.by # r /\ ~row.expired

----------------------------------------------------------------------------
Init ==
    /\ row = NoRow
    /\ pc = [r \in Requests |-> "finding"]
    /\ payments = {}
    /\ answer = [r \in Requests |-> Unanswered]
    /\ expiries = 0 /\ lost = 0 /\ cuts = 0 /\ failures = 0
    /\ stolen = FALSE

\* Mutants: the stored value is answered as it is; the body is not compared.
VerdictAsStored(r, found) ==
    IF found.body # Body[r] THEN "mismatch" ELSE found.response
VerdictAnyBody(r, found) ==
    IF found.response = InProgress THEN "conflict" ELSE found.response

\* What a request makes of a row that has not expired.
Verdict(r, found) ==
    IF found.body # Body[r] THEN "mismatch"
    ELSE IF found.response = InProgress THEN "conflict"
    ELSE found.response

\* Mutant: the interceptor gives up the claim after a refusal too.
FindAndClear(r) ==
    /\ pc[r] = "finding"
    /\ \/ row = NoRow /\ Go(r, "inserting") /\ UNCHANGED answer
       \/ row # NoRow /\ row.expired /\ Go(r, "deleting") /\ UNCHANGED answer
       \/ /\ row # NoRow /\ ~row.expired
          /\ Tell(r, Verdict(r, row))
          /\ Go(r, IF Verdict(r, row) \in Refusals THEN "clearing" ELSE "done")
    /\ UNCHANGED <<row, payments, bounds, stolen>>

\* findOne in checkOrClaimKey, and the decision taken on the row it returned.
Find(r) ==
    /\ pc[r] = "finding"
    /\ \/ row = NoRow /\ Go(r, "inserting") /\ UNCHANGED answer
       \/ row # NoRow /\ row.expired /\ Go(r, "deleting") /\ UNCHANGED answer
       \/ row # NoRow /\ ~row.expired /\ Go(r, "done") /\ Tell(r, Verdict(r, row))
    /\ UNCHANGED <<row, payments, bounds, stolen>>

\* delete({ key }): whatever row has the key by now.
Delete(r) ==
    /\ \/ pc[r] = "deleting" /\ Go(r, "inserting")
       \/ pc[r] = "redeleting" /\ Go(r, "finding")
    /\ stolen' = (stolen \/ Robs(r))
    /\ row' = NoRow
    /\ UNCHANGED <<payments, answer, bounds>>

\* The row that claims the key for r.
Claim(r) ==
    [by |-> r, body |-> Body[r], response |-> InProgress, expired |-> FALSE]

\* Mutant: save(), an upsert, instead of insert().
InsertOver(r) ==
    /\ pc[r] = "inserting"
    /\ row' = Claim(r)
    /\ Go(r, "running")
    /\ UNCHANGED <<payments, answer, bounds, stolen>>

\* The INSERT that claims the key; the primary key lets one request through.  It
\* fails because a row is there, because the key cannot be stored, or because the
\* connection is lost, before or after the row got in: the catch takes every one of
\* these for a conflict.
Insert(r) ==
    /\ pc[r] = "inserting"
    /\ \/ /\ Storable /\ row = NoRow
          /\ row' = Claim(r)
          /\ Go(r, "running")
          /\ UNCHANGED failures
       \/ /\ ~Storable \/ row # NoRow
          /\ Go(r, "conflicted")
          /\ UNCHANGED <<row, failures>>
       \/ /\ failures < MaxFailures
          /\ failures' = failures + 1
          /\ \/ UNCHANGED row
             \/ Storable /\ row = NoRow /\ row' = Claim(r)
          /\ Go(r, "conflicted")
    /\ UNCHANGED <<payments, answer, expiries, lost, cuts, stolen>>

\* Mutant: a request in progress is waited for, not reported as a conflict.
RecheckWaiting(r) ==
    /\ pc[r] = "conflicted"
    /\ \/ row = NoRow /\ Go(r, "finding") /\ UNCHANGED answer
       \/ row # NoRow /\ row.expired /\ Go(r, "redeleting") /\ UNCHANGED answer
       \/ /\ row # NoRow /\ ~row.expired
          /\ IF row.response = InProgress
             THEN Go(r, "inserting") /\ UNCHANGED answer
             ELSE Go(r, "done") /\ Tell(r, Verdict(r, row))
    /\ UNCHANGED <<row, payments, bounds, stolen>>

\* findOne in handleConflict.
Recheck(r) ==
    /\ pc[r] = "conflicted"
    /\ \/ row = NoRow /\ Go(r, "finding") /\ UNCHANGED answer
       \/ row # NoRow /\ row.expired /\ Go(r, "redeleting") /\ UNCHANGED answer
       \/ row # NoRow /\ ~row.expired /\ Go(r, "done") /\ Tell(r, Verdict(r, row))
    /\ UNCHANGED <<row, payments, bounds, stolen>>

----------------------------------------------------------------------------
\* PaymentsService.create commits.
Create(r) ==
    /\ pc[r] = "running"
    /\ payments' = payments \cup {r}
    /\ Go(r, "made")
    /\ UNCHANGED <<row, answer, bounds, stolen>>

\* The handler returns: the client is answered and the update is on its way.
Return(r) ==
    /\ pc[r] = "made"
    /\ Tell(r, r)
    /\ Go(r, "saving")
    /\ UNCHANGED <<row, payments, bounds, stolen>>

\* The handler throws.  The commit may have gone through all the same, when it
\* is its answer that got lost.
Throw(r) ==
    /\ pc[r] = "running"
    /\ \/ UNCHANGED <<payments, lost>>
       \/ /\ lost < MaxLost
          /\ lost' = lost + 1
          /\ payments' = payments \cup {r}
    /\ Tell(r, "error")
    /\ Go(r, "clearing")
    /\ UNCHANGED <<row, expiries, cuts, failures, stolen>>

\* Mutant: the claim is given up when the handler ends, whatever the outcome.
SaveDeletes(r) ==
    /\ pc[r] = "saving"
    /\ row' = NoRow
    /\ stolen' = (stolen \/ Robs(r))
    /\ Go(r, "done")
    /\ UNCHANGED <<payments, answer, bounds>>

\* updateResponse: update({ key }, { response }).
Save(r) ==
    /\ pc[r] = "saving"
    /\ row' = IF row = NoRow THEN NoRow ELSE [row EXCEPT !.response = r]
    /\ stolen' = (stolen \/ Robs(r))
    /\ Go(r, "done")
    /\ UNCHANGED <<payments, answer, bounds>>

\* deleteKey, after an error.
Clear(r) ==
    /\ pc[r] = "clearing"
    /\ row' = NoRow
    /\ stolen' = (stolen \/ Robs(r))
    /\ Go(r, "done")
    /\ UNCHANGED <<payments, answer, bounds>>

----------------------------------------------------------------------------
\* The row reaches expiresAt; the request that inserted it may still be running.
Expire ==
    /\ row # NoRow /\ ~row.expired
    /\ expiries < MaxExpiries
    /\ row' = [row EXCEPT !.expired = TRUE]
    /\ expiries' = expiries + 1
    /\ UNCHANGED <<pc, payments, answer, lost, cuts, failures, stolen>>

\* cleanupExpired, every hour: DELETE ... WHERE expiresAt < now.
CleanupExpired ==
    /\ row # NoRow /\ row.expired
    /\ row' = NoRow
    /\ UNCHANGED <<pc, payments, answer, bounds, stolen>>

\* The process dies, or a callback or a statement other than the INSERT fails; a
\* client that was not told anything by then gets no answer, or an internal error.
Cut(r) ==
    /\ pc[r] \notin Finished
    /\ cuts < MaxCuts
    /\ cuts' = cuts + 1
    /\ Go(r, "dead")
    /\ UNCHANGED <<row, payments, answer, expiries, lost, failures, stolen>>

Step(r) ==
    \/ Find(r) \/ Delete(r) \/ Insert(r) \/ Recheck(r)
    \/ Create(r) \/ Return(r) \/ Throw(r) \/ Save(r) \/ Clear(r)

Next ==
    \/ \E r \in Requests : Step(r) \/ Cut(r)
    \/ Expire
    \/ CleanupExpired

Spec == Init /\ [][Next]_vars

\* Node runs on every request whose process lives.  Neither the clock nor the
\* clean-up is needed for a request to be answered, so neither is assumed fair.
FairSpec == Spec /\ \A r \in Requests : WF_vars(Step(r))

----------------------------------------------------------------------------
(* Properties.                                                             *)

TypeOK ==
    /\ row \in Row \cup {NoRow}
    /\ pc \in [Requests -> Claiming \cup Handling \cup Finished]
    /\ payments \subseteq Requests
    /\ answer \in [Requests -> Requests \cup Refusals \cup {Unanswered}]
    /\ expiries \in 0..MaxExpiries
    /\ lost \in 0..MaxLost
    /\ cuts \in 0..MaxCuts
    /\ failures \in 0..MaxFailures
    /\ stolen \in BOOLEAN

\* The claims exclude each other: two requests handle the key at the same time
\* only if one of them outlived its row, or lost it to a request that deleted it.
HandlersPerLifetime ==
    Cardinality({r \in Requests : pc[r] \in Handling}) <= 1 + expiries

\* A request is answered with a payment that its own body asked for.
AnswerFitsBody ==
    \A r \in Requests :
        answer[r] \in Requests => answer[r] \in payments /\ Body[answer[r]] = Body[r]

\* A key yields one payment, plus one for every time its row expired and for
\* every commit whose answer was lost, whoever crashes; one request handles it
\* at a time, and answers go to the body that asked for them: all as long as no
\* request touched a valid claim of another (idempotency.service.ts:61-164).
PaymentsPerKey ==
    ~stolen =>
        /\ Cardinality(payments) <= 1 + expiries + lost
        /\ HandlersPerLifetime
        /\ AnswerFitsBody

\* As long as nothing expires, no request ever touches the claim of another,
\* although every statement names the row by its key only.
ClaimsRespected == expiries = 0 => ~stolen

\* Every request whose process lives is answered.
Answered == \A r \in Requests : <>(answer[r] # Unanswered \/ pc[r] = "dead")

\* Every request whose process lives is answered, if the table can hold the key:
\* contention over the key and INSERTs that fail for another reason make nobody start
\* over for ever, not even behind the claim of a dead request
\* (idempotency.service.ts:105-118).  For other keys see MalformedAnswered.
EveryoneAnswered == Storable => Answered

\* The request that paid, while there is only one, and what each client was told.
Maker == IF payments = {} THEN "nobody" ELSE CHOOSE r \in payments : TRUE
Given == [r \in Requests |-> CASE answer[r] = Unanswered  -> "open"
                               [] answer[r] \in Refusals -> "refused"
                               [] OTHER                  -> answer[r]]

\* The requests implement OncePerKey; what they promise lapses with the validity
\* of the key, and with an answer that was lost.
Promise == INSTANCE OncePerKey WITH
    valid  <- expiries = 0 /\ lost = 0,
    made   <- Maker,
    answer <- Given
KeepsPromise == Promise!Spec

----------------------------------------------------------------------------
(* The inductive invariant behind them.                                    *)

\* The request that may still use the key, if any; the requests that may be
\* handling it; and those that made a payment, or may be about to.
Current  == IF row # NoRow /\ ~row.expired THEN {row.by} ELSE {}
Handlers == {r \in Requests : pc[r] \in Handling}
Paying   == payments \cup {r \in Requests : pc[r] = "running"}
\* A request that failed gives its claim up: another may pay under the key.
Payer    == Current \ {r \in Requests : pc[r] = "clearing"}

AtMost(S, n) == IsFiniteSet(S) /\ Cardinality(S) <= n

\* The row belongs to a request that has sent its INSERT; one that goes back to
\* delete it has seen it expire.
RowOwned ==
    row # NoRow =>
        /\ row.body = Body[row.by]
        /\ pc[row.by] \notin {"finding", "deleting", "inserting"}
        /\ pc[row.by] = "redeleting" => row.expired

\* How far a request is shows in the payments and in its answer.
Progress ==
    \A r \in Requests :
        /\ pc[r] \in Claiming \cup {"running"} => r \notin payments
        /\ pc[r] \in {"made", "saving"} => r \in payments
        /\ pc[r] \in Claiming \cup {"running", "made"} => answer[r] = Unanswered

\* Until something expires nobody has a reason to delete the row of another.
NothingExpired ==
    expiries = 0 =>
        /\ ~stolen
        /\ row # NoRow => ~row.expired
        /\ \A r \in Requests : pc[r] \notin {"deleting", "redeleting"}

\* A stored response is the payment of the request that made the claim.
StoredFits ==
    row # NoRow /\ ~row.expired /\ row.response \in Requests =>
        row.response \in payments /\ Body[row.response] = row.body

\* All but one of the requests that handle the key, and all but one of those that
\* pay under it, are accounted for by an expiry or a lost answer.
Accounted ==
    /\ AtMost(Handlers \ Current, expiries)
    /\ AtMost(Paying \ Payer, expiries + lost)
    /\ StoredFits
    /\ AnswerFitsBody

KeyInv == RowOwned /\ Progress /\ NothingExpired /\ (~stolen => Accounted)

----------------------------------------------------------------------------
(* What the documentation says of the program, and the program does not do. *)

\* docs/IDEMPOTENCY.md: "If the header is missing or malformed, `POST /payments`
\* returns a `400 Bad Request` response", malformed being a key of more than 255
\* characters.  Nothing checks the length; the INSERT of a key the index cannot take
\* fails each time, no row is found, and checkOrClaimKey and handleConflict call each
\* other without end.
MalformedAnswered == ~Storable => Answered

\* docs/IDEMPOTENCY.md: "Duplicate request (same key + same body): Returns the
\* cached response without creating a new payment".  Two requests that both found
\* the expired row delete twice, the second time the claim of the first, and both
\* create a payment.
OnePaymentPerLifetime == Cardinality(payments) <= 1 + expiries
=============================================================================
