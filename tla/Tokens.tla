-------------------------------- MODULE Tokens --------------------------------
(***************************************************************************)
(* Refresh tokens, sessions and passwords of one account: login (what it   *)
(* issues), refresh, logout, revokeForUser, resetPassword with its token   *)
(* and the password change of UsersService.update.  One step per await;    *)
(* refresh runs in a transaction that locks its token's row, and an UPDATE *)
(* of many rows sees the rows there were when it began and waits for the   *)
(* locked ones (READ COMMITTED).                                           *)
(*                                                                         *)
(* A password is the number of times it has been changed.  Expiry of       *)
(* tokens (30 days) and of reset tokens (an hour) only refuses more.       *)
(***************************************************************************)
EXTENDS Naturals, FiniteSets

CONSTANTS
    Tokens,       \* ids of refresh tokens
    Sessions,     \* ids of sessions
    Workers,      \* requests being served at a time
    MaxChanges,   \* bound: calls that change the password
    MaxFaults     \* bound: requests that die

VARIABLES
    token,       \* rows of refresh_tokens
    session,     \* rows of sessions
    password,    \* users.password
    resetUsed,   \* password_reset_tokens.used of the one token that was mailed
    lock,        \* who holds the row lock of a token
    work,        \* per worker, the request it serves
    exchanged,   \* history: new tokens got for a token
    issuedFor,   \* history: the password a token goes back to
    spoiled,     \* history: sessions whose revocation a refresh overlapped, or that was cut off
    mixed,       \* history: tokens were being issued while the password changed, or a change was cut off
    changes, faults
vars == <<token, session, password, resetUsed, lock, work, exchanged, issuedFor, spoiled, mixed,
          changes, faults>>

NoOne == "nobody"
Idle == [op |-> "idle"]
Row == [state : {"unborn"}, session : {NoOne}] \cup [state : {"live", "revoked"}, session : Sessions]
SessionStates == {"unborn", "active", "revoked"}

\* The requests; an UPDATE that waits keeps the rows it has seen.
Logins == [op : {"login"}, pc : {"session"}, password : Nat]
          \cup [op : {"login"}, pc : {"issue"}, password : Nat, session : Sessions]
Refreshes == [op : {"refresh"}, pc : {"lock", "session", "commit"}, token : Tokens]
             \cup [op : {"refresh"}, pc : {"touch"}, token : Tokens, copy : SessionStates]
Revocations == [op : {"revoke"}, pc : {"save", "update"}, session : Sessions]
Changes == [op : {"reset"}, pc : {"save", "used", "update"}] \cup [op : {"change"}, pc : {"update", "save"}]
Waits == [op : {"revoke"}, pc : {"wait"}, rows : SUBSET Tokens, session : Sessions]
         \cup [op : {"reset", "change"}, pc : {"wait"}, rows : SUBSET Tokens, session : {NoOne}]
Work == {Idle} \cup Logins \cup Refreshes \cup Revocations \cup Changes \cup Waits

\* a lock is a refresh's, and keeps its token live
LocksServe ==
    \A t \in Tokens : lock[t] /= NoOne =>
        work[lock[t]].op = "refresh" /\ work[lock[t]].token = t /\ token[t].state = "live"

TypeOK ==
    /\ token \in [Tokens -> Row]
    /\ session \in [Sessions -> SessionStates]
    /\ password \in Nat /\ changes \in 0 .. MaxChanges
    /\ exchanged \in [Tokens -> Nat] /\ issuedFor \in [Tokens -> Nat]
    /\ spoiled \subseteq Sessions
    /\ work \in [Workers -> Work]
    /\ lock \in [Tokens -> Workers \cup {NoOne}]
    /\ LocksServe

Init ==
    /\ token = [t \in Tokens |-> [state |-> "unborn", session |-> NoOne]]
    /\ session = [s \in Sessions |-> "unborn"]
    /\ password = 0 /\ resetUsed = FALSE
    /\ lock = [t \in Tokens |-> NoOne]
    /\ work = [w \in Workers |-> Idle]
    /\ exchanged = [t \in Tokens |-> 0]
    /\ issuedFor = [t \in Tokens |-> 0]
    /\ spoiled = {}
    /\ mixed = FALSE
    /\ changes = 0 /\ faults = 0

Goto(w, r) == work' = [work EXCEPT ![w] = r]
Issued == {t \in Tokens : token[t].state /= "unborn"}
Fresh == {t \in Tokens : token[t].state = "unborn"}
NewSessions == {s \in Sessions : session[s] = "unborn"}
\* ids and tokens are random: which of the unused ones comes does not matter
AnyOf(S) == CHOOSE x \in S : TRUE
Changing(w) == work[w].op \in {"reset", "change"}
Issuing(w) == work[w].op \in {"login", "refresh"}
Revokes(w, s) == work[w].op = "revoke" /\ work[w].session = s
Others(w) == Workers \ {w}

-----------------------------------------------------------------------------
(* login, once the credentials are accepted: the password was compared     *)
(* with the row read at the beginning.                                     *)
Login(w) ==
    /\ work[w] = Idle
    /\ Goto(w, [op |-> "login", pc |-> "session", password |-> password])
    /\ mixed' = (mixed \/ \E v \in Others(w) : Changing(v))
    /\ UNCHANGED <<token, session, password, resetUsed, lock, exchanged, issuedFor, spoiled, changes, faults>>

CreateSession(w) ==
    /\ work[w].op = "login" /\ work[w].pc = "session"
    /\ NewSessions /= {}
    /\ LET s == AnyOf(NewSessions)
       IN /\ session' = [session EXCEPT ![s] = "active"]
          /\ Goto(w, [op |-> "login", pc |-> "issue", password |-> work[w].password, session |-> s])
    /\ UNCHANGED <<token, password, resetUsed, lock, exchanged, issuedFor, spoiled, mixed, changes, faults>>

\* generateRefreshToken, outside any transaction
Issue(w) ==
    /\ work[w].op = "login" /\ work[w].pc = "issue"
    /\ Fresh /= {}
    /\ LET t == AnyOf(Fresh)
       IN /\ token' = [token EXCEPT ![t] = [state |-> "live", session |-> work[w].session]]
          /\ issuedFor' = [issuedFor EXCEPT ![t] = work[w].password]
    /\ Goto(w, Idle)
    /\ UNCHANGED <<session, password, resetUsed, lock, exchanged, spoiled, mixed, changes, faults>>

-----------------------------------------------------------------------------
Refresh(w) ==
    /\ work[w] = Idle
    /\ \E t \in Issued : Goto(w, [op |-> "refresh", pc |-> "lock", token |-> t])
    /\ mixed' = (mixed \/ \E v \in Others(w) : Changing(v))
    /\ spoiled' = spoiled \cup {s \in Sessions : \E v \in Others(w) : Revokes(v, s)}
    /\ UNCHANGED <<token, session, password, resetUsed, lock, exchanged, issuedFor, changes, faults>>

\* rows that an UPDATE under way has seen are its own before anybody else's
Claimed(t) == \E v \in Workers : work[v].op \in {"revoke", "reset", "change"}
                                 /\ work[v].pc = "wait" /\ t \in work[v].rows

\* a read without a lock
NoLock(t) == TRUE

\* findOne with a pessimistic write lock: waits for whoever has the row
LockFree(t) == lock[t] = NoOne /\ ~Claimed(t)

(* A live token goes on.  A revoked one is a reuse: the handler marks all  *)
(* of the user's tokens revoked and throws inside the transaction, which   *)
(* takes the marks back.                                                   *)
LockToken(w) ==
    /\ work[w].op = "refresh" /\ work[w].pc = "lock"
    /\ LET t == work[w].token
       IN /\ LockFree(t)
          /\ IF token[t].state = "live"
             THEN /\ lock' = [lock EXCEPT ![t] = w]
                  /\ Goto(w, [op |-> "refresh", pc |-> "session", token |-> t])
             ELSE Goto(w, Idle) /\ UNCHANGED lock
    /\ UNCHANGED <<token, session, password, resetUsed, exchanged, issuedFor, spoiled, mixed, changes, faults>>

(* touchSession: findOneBy; whether the session is revoked is not asked. *)
FindSession(w) ==
    /\ work[w].op = "refresh" /\ work[w].pc = "session"
    /\ Goto(w, [op |-> "refresh", pc |-> "touch", token |-> work[w].token,
                copy |-> session[token[work[w].token].session]])
    /\ UNCHANGED <<token, session, password, resetUsed, lock, exchanged, issuedFor, spoiled, mixed, changes, faults>>

\* touchSession: the row takes the copy, outside the transaction
TouchSession(w) ==
    /\ work[w].op = "refresh" /\ work[w].pc = "touch"
    /\ session' = [session EXCEPT ![token[work[w].token].session] = work[w].copy]
    /\ Goto(w, [op |-> "refresh", pc |-> "commit", token |-> work[w].token])
    /\ UNCHANGED <<token, password, resetUsed, lock, exchanged, issuedFor, spoiled, mixed, changes, faults>>

(* The old token revoked and the new one inserted, with the same session. *)
Commit(w) ==
    /\ work[w].op = "refresh" /\ work[w].pc = "commit"
    /\ Fresh /= {}
    /\ LET t == work[w].token
           n == AnyOf(Fresh)
       IN /\ token' = [token EXCEPT ![t] = [state |-> "revoked", session |-> token[t].session],
                                    ![n] = [state |-> "live", session |-> token[t].session]]
          /\ exchanged' = [exchanged EXCEPT ![t] = exchanged[t] + 1]
          /\ issuedFor' = [issuedFor EXCEPT ![n] = issuedFor[t]]
          /\ lock' = [lock EXCEPT ![t] = NoOne]
    /\ Goto(w, Idle)
    /\ UNCHANGED <<session, password, resetUsed, spoiled, mixed, changes, faults>>

-----------------------------------------------------------------------------
\* logout: one UPDATE of one row
Logout(t) ==
    /\ t \in Issued /\ LockFree(t)
    /\ token' = [token EXCEPT ![t] = [state |-> "revoked", session |-> token[t].session]]
    /\ UNCHANGED <<session, password, resetUsed, lock, work, exchanged, issuedFor, spoiled, mixed, changes, faults>>

(* SessionsService.revokeForUser *)
RevokeSession(w) ==
    /\ work[w] = Idle
    /\ \E s \in Sessions :
        /\ session[s] /= "unborn"
        /\ Goto(w, [op |-> "revoke", pc |-> "save", session |-> s])
        /\ spoiled' = IF \E v \in Others(w) : Issuing(v) THEN spoiled \cup {s} ELSE spoiled
    /\ UNCHANGED <<token, session, password, resetUsed, lock, exchanged, issuedFor, mixed, changes, faults>>

SaveRevoked(w) ==
    /\ work[w].op = "revoke" /\ work[w].pc = "save"
    /\ session' = [session EXCEPT ![work[w].session] = "revoked"]
    /\ Goto(w, [op |-> "revoke", pc |-> "update", session |-> work[w].session])
    /\ UNCHANGED <<token, password, resetUsed, lock, exchanged, issuedFor, spoiled, mixed, changes, faults>>

-----------------------------------------------------------------------------
(* resetPassword, and UsersService.update with a new password *)
StartChange(w) ==
    /\ work[w] = Idle
    /\ changes < MaxChanges /\ changes' = changes + 1
    /\ \/ ~resetUsed /\ Goto(w, [op |-> "reset", pc |-> "save"])
       \/ Goto(w, [op |-> "change", pc |-> "update"])
    /\ mixed' = (mixed \/ \E v \in Others(w) : Issuing(v) \/ Changing(v))
    /\ UNCHANGED <<token, session, password, resetUsed, lock, exchanged, issuedFor, spoiled, faults>>

\* updatePassword, or the save at the end of update
SavePassword(w) ==
    /\ Changing(w) /\ work[w].pc = "save"
    /\ password' = password + 1
    /\ Goto(w, IF work[w].op = "reset" THEN [op |-> "reset", pc |-> "used"] ELSE Idle)
    /\ UNCHANGED <<token, session, resetUsed, lock, exchanged, issuedFor, spoiled, mixed, changes, faults>>

MarkUsed(w) ==
    /\ work[w].op = "reset" /\ work[w].pc = "used"
    /\ resetUsed' = TRUE
    /\ Goto(w, [op |-> "reset", pc |-> "update"])
    /\ UNCHANGED <<token, session, password, lock, exchanged, issuedFor, spoiled, mixed, changes, faults>>

-----------------------------------------------------------------------------
\* the tokens of a revoked session only, or of the user whose password changed
WhereSession(r) == {t \in Issued : r.op = "revoke" /\ token[t].session = r.session}
WhereUser(r) == {t \in Issued : r.op /= "revoke"}

\* UPDATE ... WHERE sessionId = s, or WHERE userId = u
Where(r) == {t \in Issued : r.op = "revoke" => token[t].session = r.session}

AfterUpdate(r) == IF r.op = "change" THEN [op |-> "change", pc |-> "save"] ELSE Idle

Locked(rows) == \E t \in rows : lock[t] /= NoOne

RevokeRows(w, rows) ==
    /\ token' = [t \in Tokens |-> IF t \in rows THEN [state |-> "revoked", session |-> token[t].session]
                                  ELSE token[t]]
    /\ Goto(w, AfterUpdate(work[w]))

\* the UPDATE goes through at once, or has to wait for a row
UpdateTokens(w) ==
    /\ work[w].op \in {"revoke", "reset", "change"} /\ work[w].pc = "update"
    /\ LET rows == Where(work[w])
       IN IF Locked(rows)
          THEN /\ Goto(w, [rows |-> rows, pc |-> "wait", op |-> work[w].op,
                           session |-> IF work[w].op = "revoke" THEN work[w].session ELSE NoOne])
               /\ UNCHANGED token
          ELSE RevokeRows(w, rows)
    /\ UNCHANGED <<session, password, resetUsed, lock, exchanged, issuedFor, spoiled, mixed, changes, faults>>

Unblocked(w) ==
    /\ work[w].op \in {"revoke", "reset", "change"} /\ work[w].pc = "wait"
    /\ ~Locked(work[w].rows)
    /\ RevokeRows(w, work[w].rows)
    /\ UNCHANGED <<session, password, resetUsed, lock, exchanged, issuedFor, spoiled, mixed, changes, faults>>

(* The process dies, or a statement fails: a transaction is rolled back,   *)
(* what was saved outside one stays.                                       *)
Die(w) ==
    /\ work[w] /= Idle
    /\ faults < MaxFaults /\ faults' = faults + 1
    /\ Goto(w, Idle)
    /\ lock' = [t \in Tokens |-> IF lock[t] = w THEN NoOne ELSE lock[t]]
    /\ spoiled' = IF work[w].op = "revoke" THEN spoiled \cup {work[w].session} ELSE spoiled
    /\ mixed' = (mixed \/ Changing(w))
    /\ UNCHANGED <<token, session, password, resetUsed, exchanged, issuedFor, changes>>

Next ==
    \/ \E w \in Workers :
        \/ Login(w) \/ CreateSession(w) \/ Issue(w)
        \/ Refresh(w) \/ LockToken(w) \/ FindSession(w) \/ TouchSession(w) \/ Commit(w)
        \/ RevokeSession(w) \/ SaveRevoked(w)
        \/ StartChange(w) \/ SavePassword(w) \/ MarkUsed(w)
        \/ UpdateTokens(w) \/ Unblocked(w) \/ Die(w)
    \/ \E t \in Tokens : Logout(t)

Spec == Init /\ [][Next]_vars

-----------------------------------------------------------------------------
(* A refresh token buys one new token, however many requests bring it at   *)
(* once and whatever is revoked meanwhile (auth.service.ts:664-691).       *)
ExchangedOnce == \A t \in Tokens : exchanged[t] <= 1

(* Once a session has been revoked none of its tokens can be refreshed,    *)
(* unless tokens were being issued when the revocation came or it was cut  *)
(* off (sessions.service.ts:66-82).                                        *)
RevokedSessionIsDead ==
    \A s \in Sessions :
        session[s] = "revoked" /\ s \notin spoiled
          /\ ~(\E w \in Workers : Revokes(w, s))
        => \A t \in Tokens : token[t].state = "live" => token[t].session /= s

(* Every live token goes back to a login with the present password, unless *)
(* the password changed while tokens were being issued, or a change was    *)
(* cut off half-way (auth.service.ts:997-1020, users.service.ts:178-204).  *)
NoTokenOutlivesPassword ==
    ~mixed /\ ~(\E w \in Workers : Changing(w)) =>
        \A t \in Tokens : token[t].state = "live" => issuedFor[t] = password

-----------------------------------------------------------------------------
(* The inductive invariants behind these three.                            *)

\* A request past the lock of its token holds it,
HoldsLock(w) == work[w].op = "refresh" /\ work[w].pc /= "lock"
LocksHeld == \A w \in Workers : HoldsLock(w) => lock[work[w].token] = w

\* an UPDATE waits for rows that there are,
RowsIssued == \A w \in Workers : work[w] \in Waits => work[w].rows \subseteq Issued

\* and a token is exchanged as it is revoked.
LiveUnexchanged == \A t \in Tokens : token[t].state /= "revoked" => exchanged[t] = 0

\* What is issued, revoked or touched belongs to a session that exists.
Opening(w, s) == work[w].op = "login" /\ work[w].pc = "issue" /\ work[w].session = s
SessionsBorn ==
    /\ \A t \in Issued : session[token[t].session] /= "unborn"
    /\ \A w \in Workers, s \in Sessions : Opening(w, s) \/ Revokes(w, s) => session[s] /= "unborn"
    /\ \A w \in Workers : work[w].op = "refresh" /\ work[w].pc = "touch" => work[w].copy /= "unborn"
    /\ \A w \in Workers : work[w].op = "refresh" => token[work[w].token].state /= "unborn"

\* While an undisturbed revocation runs nothing is refreshed, so it has not to wait;
\* once it has run the session has no live token, and no request that could make one.
Live(s) == {t \in Tokens : token[t].state = "live" /\ token[t].session = s}
Touching(w, s) == work[w].op = "refresh" /\ work[w].pc = "touch" /\ token[work[w].token].session = s
RevocationClean(s) ==
    /\ \A w \in Workers : Revokes(w, s) =>
         /\ work[w].pc /= "wait"
         /\ \A v \in Workers : work[v].op /= "refresh" /\ ~Opening(v, s)
    /\ session[s] = "revoked" => \A w \in Workers : ~Opening(w, s)
    /\ session[s] = "revoked" /\ (\A w \in Workers : ~Revokes(w, s)) => Live(s) = {}
    /\ \A w \in Workers : Touching(w, s) => work[w].copy /= "revoked"
RevocationsClean == \A s \in Sessions \ spoiled : RevocationClean(s)

\* An undisturbed change of the password runs alone, and has no live token left when
\* it ends; otherwise all that is or will be issued is for the present password.
ChangesClean ==
    /\ \A w \in Workers : Changing(w) =>
         /\ work[w].pc /= "wait"
         /\ \A v \in Workers : Issuing(v) \/ Changing(v) => v = w
         /\ work[w].op = "change" /\ work[w].pc = "save" =>
              \A t \in Tokens : token[t].state /= "live"
    /\ (\A w \in Workers : ~Changing(w)) =>
         /\ \A t \in Tokens : token[t].state = "live" => issuedFor[t] = password
         /\ \A w \in Workers : work[w].op = "login" => work[w].password = password
PasswordsClean == mixed \/ ChangesClean
===============================================================================
