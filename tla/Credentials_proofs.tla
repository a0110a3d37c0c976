--------------------------- MODULE Credentials_proofs ---------------------------
(***************************************************************************)
(* What a revoked session, a changed password and a rotated API key put an *)
(* end to, proved for any number of tokens, sessions, keys and requests.   *)
(***************************************************************************)
EXTENDS Tokens, FiniteSetTheorems, TLAPS

\* The API keys, beside the tokens: the two share the requests and no table.
CONSTANTS Keys, MaxCalls, AkMaxFaults
VARIABLES key, akWork, version, lost, ended, heir, wanted, calls, akFaults
AK == INSTANCE ApiKeys WITH MaxFaults <- AkMaxFaults, work <- akWork, faults <- akFaults

(* A step of a request; the others are logouts. *)
Step(w) ==
    \/ Login(w) \/ CreateSession(w) \/ Issue(w)
    \/ Refresh(w) \/ LockToken(w) \/ FindSession(w) \/ TouchSession(w) \/ Commit(w)
    \/ RevokeSession(w) \/ SaveRevoked(w)
    \/ StartChange(w) \/ SavePassword(w) \/ MarkUsed(w)
    \/ UpdateTokens(w) \/ Unblocked(w) \/ Die(w)

LEMMA AnyIsOneOf == ASSUME NEW S, S # {} PROVE AnyOf(S) \in S
  BY Zenon DEF AnyOf

(* What is known of a request from its operation and its step. *)
LEMMA WorkShape ==
    ASSUME TypeOK, NEW w \in Workers
    PROVE  /\ work[w].op = "login" => work[w] \in Logins
           /\ work[w].op = "refresh" => work[w] \in Refreshes /\ work[w].token \in Tokens
           /\ work[w].op = "revoke" =>
                /\ work[w].session \in Sessions
                /\ work[w].pc = "wait" => work[w].rows \subseteq Tokens
                /\ work[w].pc \in {"save", "update", "wait"}
           /\ Changing(w) => /\ work[w].pc = "wait" => work[w].rows \subseteq Tokens
                             /\ work[w].pc \in {"save", "used", "update", "wait"}
                             /\ work[w].op = "change" => work[w].pc # "used"
           /\ work[w] \in Work
  <1>1. work[w] \in Work
    BY DEF TypeOK
  <1> QED
    BY <1>1 DEF Work, Idle, Logins, Refreshes, Revocations, Changes, Waits, Changing

-----------------------------------------------------------------------------
(* Types. *)

(* A request that is not a refresh holds no lock, and one that is past its *)
(* lock has a live token of a session.                                     *)
LEMMA HoldsNone ==
    ASSUME TypeOK, NEW w \in Workers, work[w].op # "refresh"
    PROVE  \A t \in Tokens : lock[t] # w \/ w = NoOne
  BY DEF TypeOK, LocksServe

LEMMA HeldIsLive ==
    ASSUME TypeOK, LocksHeld, NoOne \notin Workers, NEW w \in Workers, HoldsLock(w)
    PROVE  /\ work[w].token \in Tokens
           /\ token[work[w].token].state = "live" /\ token[work[w].token].session \in Sessions
           /\ \A t \in Tokens : lock[t] = w <=> t = work[w].token
  <1>1. work[w].token \in Tokens
    BY WorkShape DEF HoldsLock
  <1>2. lock[work[w].token] = w
    BY DEF LocksHeld
  <1> QED
    BY <1>1, <1>2 DEF TypeOK, LocksServe, Row

(* The lock stays with a refresh that goes on. *)
LEMMA LocksServeOn ==
    ASSUME TypeOK, LocksHeld, NoOne \notin Workers, NEW w \in Workers, HoldsLock(w),
           UNCHANGED <<lock, token>>, \A v \in Workers : v # w => work'[v] = work[v],
           work'[w].op = "refresh", work'[w].token = work[w].token
    PROVE  LocksServe'
  BY HeldIsLive DEF LocksServe, TypeOK

LEMMA LoginTypes ==
    ASSUME TypeOK, NoOne \notin Workers, NEW w \in Workers, Login(w) \/ CreateSession(w) \/ Issue(w)
    PROVE  TypeOK'
  <1>0. work[w].op # "refresh"
    BY DEF Login, CreateSession, Issue, Idle
  <1>1. CASE Login(w)
    <2>1. work' \in [Workers -> Work] /\ \A v \in Workers : v # w => work'[v] = work[v]
      BY <1>1 DEF Login, Goto, TypeOK, Work, Logins
    <2>2. LocksServe'
      BY <1>0, <1>1, <2>1, HoldsNone DEF TypeOK, LocksServe, Login
    <2> QED
      BY <1>1, <2>1, <2>2 DEF Login, TypeOK
  <1>2. CASE CreateSession(w)
    <2> DEFINE s == AnyOf(NewSessions)
    <2>1. s \in Sessions
      BY <1>2, AnyIsOneOf DEF CreateSession, NewSessions
    <2>2. work[w].password \in Nat
      BY <1>2, WorkShape DEF CreateSession, Logins
    <2>3. /\ session' = [session EXCEPT ![s] = "active"]
          /\ Goto(w, [op |-> "login", pc |-> "issue", password |-> work[w].password, session |-> s])
      BY <1>2 DEF CreateSession
    <2> HIDE DEF s
    <2>4. work' \in [Workers -> Work] /\ \A v \in Workers : v # w => work'[v] = work[v]
      BY <2>1, <2>2, <2>3 DEF Goto, TypeOK, Work, Logins
    <2>5. LocksServe'
      BY <1>0, <1>2, <2>4, HoldsNone DEF TypeOK, LocksServe, CreateSession
    <2>6. session' \in [Sessions -> SessionStates]
      BY <2>1, <2>3 DEF TypeOK, SessionStates
    <2> QED
      BY <1>2, <2>4, <2>5, <2>6 DEF CreateSession, TypeOK
  <1>3. CASE Issue(w)
    <2> DEFINE t == AnyOf(Fresh)
    <2>1. t \in Tokens /\ token[t].state = "unborn"
      BY <1>3, AnyIsOneOf DEF Issue, Fresh
    <2>2. work[w].password \in Nat /\ work[w].session \in Sessions
      BY <1>3, WorkShape DEF Issue, Logins
    <2>3. /\ token' = [token EXCEPT ![t] = [state |-> "live", session |-> work[w].session]]
          /\ issuedFor' = [issuedFor EXCEPT ![t] = work[w].password]
          /\ Goto(w, Idle)
      BY <1>3 DEF Issue
    <2> HIDE DEF t
    <2>4. work' \in [Workers -> Work] /\ \A v \in Workers : v # w => work'[v] = work[v]
      BY <2>3 DEF Goto, TypeOK, Work
    <2>5. token' \in [Tokens -> Row] /\ issuedFor' \in [Tokens -> Nat]
      BY <2>1, <2>2, <2>3 DEF TypeOK, Row
    <2>6. LocksServe'
      <3>1. lock[t] = NoOne
        BY <2>1 DEF TypeOK, LocksServe
      <3>2. \A u \in Tokens : u # t => token'[u] = token[u]
        BY <2>3 DEF TypeOK
      <3> QED
        BY <1>0, <1>3, <2>4, <3>1, <3>2, HoldsNone DEF TypeOK, LocksServe, Issue
    <2> QED
      BY <1>3, <2>4, <2>5, <2>6 DEF Issue, TypeOK
  <1> QED
    BY <1>1, <1>2, <1>3

LEMMA RefreshTypes ==
    ASSUME TypeOK, LocksHeld, NoOne \notin Workers, NEW w \in Workers,
           Refresh(w) \/ LockToken(w) \/ FindSession(w) \/ TouchSession(w)
    PROVE  TypeOK'
  <1>1. CASE Refresh(w)
    <2>0. work[w].op # "refresh"
      BY <1>1 DEF Refresh, Idle
    <2>1. work' \in [Workers -> Work] /\ \A v \in Workers : v # w => work'[v] = work[v]
      BY <1>1 DEF Refresh, Goto, TypeOK, Work, Refreshes, Issued
    <2>2. LocksServe'
      BY <1>1, <2>0, <2>1, HoldsNone DEF TypeOK, LocksServe, Refresh
    <2>3. spoiled' \subseteq Sessions
      BY <1>1 DEF Refresh, TypeOK
    <2> QED
      BY <1>1, <2>1, <2>2, <2>3 DEF Refresh, TypeOK
  <1>2. CASE LockToken(w)
    <2> DEFINE t == work[w].token
    <2>1. t \in Tokens /\ lock[t] = NoOne
      BY <1>2, WorkShape DEF LockToken, LockFree
    <2>2. CASE /\ token[t].state = "live"
               /\ lock' = [lock EXCEPT ![t] = w]
               /\ Goto(w, [op |-> "refresh", pc |-> "session", token |-> t])
      <3> HIDE DEF t
      <3>1. /\ work' \in [Workers -> Work] /\ work'[w] = [op |-> "refresh", pc |-> "session", token |-> t]
            /\ \A v \in Workers : v # w => work'[v] = work[v]
        BY <2>1, <2>2 DEF Goto, TypeOK, Work, Refreshes
      <3>2. lock' \in [Tokens -> Workers \cup {NoOne}] /\ lock'[t] = w
            /\ \A u \in Tokens : u # t => lock'[u] = lock[u]
        BY <2>1, <2>2 DEF TypeOK
      <3>3. \A u \in Tokens : u # t => lock[u] # w
        BY <1>2 DEF TypeOK, LocksServe, LockToken, t
      <3>4. LocksServe'
        BY <1>2, <2>2, <3>1, <3>2, <3>3 DEF TypeOK, LocksServe, LockToken
      <3> QED
        BY <1>2, <3>1, <3>2, <3>4 DEF LockToken, TypeOK
    <2>3. CASE Goto(w, Idle) /\ UNCHANGED lock /\ token[t].state # "live"
      <3>1. /\ work' \in [Workers -> Work]
            /\ \A v \in Workers : v # w => work'[v] = work[v]
        BY <2>3 DEF Goto, TypeOK, Work
      <3>2. \A u \in Tokens : lock[u] # w
        BY <2>1, <2>3 DEF TypeOK, LocksServe
      <3>3. LocksServe'
        BY <1>2, <2>3, <3>1, <3>2 DEF TypeOK, LocksServe, LockToken
      <3> QED
        BY <1>2, <2>3, <3>1, <3>3 DEF LockToken, TypeOK
    <2> QED
      BY <1>2, <2>2, <2>3 DEF LockToken
  <1>3. CASE FindSession(w)
    <2>0. HoldsLock(w)
      BY <1>3 DEF FindSession, HoldsLock
    <2> DEFINE t == work[w].token
               copy == session[token[t].session]
    <2>1. t \in Tokens /\ token[t].session \in Sessions
      BY <2>0, HeldIsLive
    <2>2. copy \in SessionStates
      BY <2>1 DEF TypeOK
    <2>3. Goto(w, [op |-> "refresh", pc |-> "touch", token |-> t, copy |-> copy])
      BY <1>3 DEF FindSession
    <2> HIDE DEF t, copy
    <2>4. /\ work' \in [Workers -> Work] /\ work'[w].op = "refresh" /\ work'[w].token = t
          /\ \A v \in Workers : v # w => work'[v] = work[v]
      BY <2>1, <2>2, <2>3 DEF Goto, TypeOK, Work, Refreshes
    <2>5. LocksServe'
      BY <1>3, <2>0, <2>4, LocksServeOn DEF FindSession, t
    <2> QED
      BY <1>3, <2>4, <2>5 DEF FindSession, TypeOK
  <1>4. CASE TouchSession(w)
    <2>0. HoldsLock(w)
      BY <1>4 DEF TouchSession, HoldsLock
    <2> DEFINE t == work[w].token
    <2>1. t \in Tokens /\ token[t].session \in Sessions
      BY <2>0, HeldIsLive
    <2>2. work[w].copy \in SessionStates
      BY <1>4, WorkShape DEF TouchSession, Refreshes
    <2>3. /\ Goto(w, [op |-> "refresh", pc |-> "commit", token |-> t])
          /\ session' = [session EXCEPT ![token[t].session] = work[w].copy]
      BY <1>4 DEF TouchSession
    <2> HIDE DEF t
    <2>4. /\ work' \in [Workers -> Work] /\ work'[w].op = "refresh" /\ work'[w].token = t
          /\ \A v \in Workers : v # w => work'[v] = work[v]
      BY <2>1, <2>3 DEF Goto, TypeOK, Work, Refreshes
    <2>5. LocksServe'
      BY <1>4, <2>0, <2>4, LocksServeOn DEF TouchSession, t
    <2>6. session' \in [Sessions -> SessionStates]
      BY <2>1, <2>2, <2>3 DEF TypeOK
    <2> QED
      BY <1>4, <2>4, <2>5, <2>6 DEF TouchSession, TypeOK
  <1> QED
    BY <1>1, <1>2, <1>3, <1>4

LEMMA CommitTypes ==
    ASSUME TypeOK, LocksHeld, NoOne \notin Workers, NEW w \in Workers, Commit(w)
    PROVE  TypeOK'
  <1>0. HoldsLock(w)
    BY DEF Commit, HoldsLock
  <1> DEFINE t == work[w].token
             n == AnyOf(Fresh)
  <1>1. n \in Tokens /\ token[n].state = "unborn"
    BY AnyIsOneOf DEF Commit, Fresh
  <1>2. /\ t \in Tokens /\ token[t].state = "live" /\ token[t].session \in Sessions
        /\ \A u \in Tokens : lock[u] = w <=> u = t
    BY <1>0, HeldIsLive
  <1>3. /\ token' = [token EXCEPT ![t] = [state |-> "revoked", session |-> token[t].session],
                                  ![n] = [state |-> "live", session |-> token[t].session]]
        /\ exchanged' = [exchanged EXCEPT ![t] = exchanged[t] + 1]
        /\ issuedFor' = [issuedFor EXCEPT ![n] = issuedFor[t]]
        /\ lock' = [lock EXCEPT ![t] = NoOne]
        /\ Goto(w, Idle)
    BY DEF Commit
  <1> HIDE DEF t, n
  <1>4. work' \in [Workers -> Work] /\ \A v \in Workers : v # w => work'[v] = work[v]
    BY <1>3 DEF Goto, TypeOK, Work
  <1>5. /\ token' \in [Tokens -> Row]
        /\ \A u \in Tokens : u # t /\ u # n => token'[u] = token[u]
    BY <1>1, <1>2, <1>3 DEF TypeOK, Row
  <1>6. exchanged' \in [Tokens -> Nat] /\ issuedFor' \in [Tokens -> Nat]
    BY <1>1, <1>2, <1>3 DEF TypeOK
  <1>7. /\ lock' \in [Tokens -> Workers \cup {NoOne}] /\ lock'[t] = NoOne
        /\ \A u \in Tokens : u # t => lock'[u] = lock[u]
    BY <1>2, <1>3 DEF TypeOK
  <1>8. lock[n] = NoOne
    BY <1>1 DEF TypeOK, LocksServe
  <1>9. LocksServe'
    BY <1>2, <1>4, <1>5, <1>7, <1>8 DEF LocksServe, TypeOK
  <1> QED
    BY <1>4, <1>5, <1>6, <1>7, <1>9 DEF Commit, TypeOK

(* A step of a request without a lock that leaves locks and tokens alone,  *)
(* or revokes only tokens nobody holds.                                    *)
LEMMA UnlockedOn ==
    ASSUME TypeOK, NoOne \notin Workers, NEW w \in Workers, work[w].op # "refresh",
           lock' = lock, \A v \in Workers : v # w => work'[v] = work[v],
           \A t \in Tokens : lock[t] # NoOne => token'[t] = token[t]
    PROVE  LocksServe'
  BY HoldsNone DEF LocksServe, TypeOK

LEMMA RevokeTypes ==
    ASSUME TypeOK, NoOne \notin Workers, NEW w \in Workers, RevokeSession(w) \/ SaveRevoked(w)
    PROVE  TypeOK'
  <1>0. work[w].op # "refresh"
    BY DEF RevokeSession, SaveRevoked, Idle
  <1>1. CASE RevokeSession(w)
    <2>1. PICK s \in Sessions :
             /\ Goto(w, [op |-> "revoke", pc |-> "save", session |-> s])
             /\ spoiled' = IF \E v \in Others(w) : Issuing(v) THEN spoiled \cup {s} ELSE spoiled
      BY <1>1 DEF RevokeSession
    <2>2. work' \in [Workers -> Work] /\ \A v \in Workers : v # w => work'[v] = work[v]
      BY <2>1 DEF Goto, TypeOK, Work, Revocations
    <2>3. spoiled' \subseteq Sessions
      BY <2>1 DEF TypeOK
    <2>4. LocksServe'
      BY <1>0, <1>1, <2>2, UnlockedOn DEF RevokeSession
    <2> QED
      BY <1>1, <2>2, <2>3, <2>4 DEF RevokeSession, TypeOK
  <1>2. CASE SaveRevoked(w)
    <2> DEFINE s == work[w].session
    <2>1. s \in Sessions
      BY <1>2, WorkShape DEF SaveRevoked
    <2>2. /\ session' = [session EXCEPT ![s] = "revoked"]
          /\ Goto(w, [op |-> "revoke", pc |-> "update", session |-> s])
      BY <1>2 DEF SaveRevoked
    <2> HIDE DEF s
    <2>3. work' \in [Workers -> Work] /\ \A v \in Workers : v # w => work'[v] = work[v]
      BY <2>1, <2>2 DEF Goto, TypeOK, Work, Revocations
    <2>4. session' \in [Sessions -> SessionStates]
      BY <2>1, <2>2 DEF TypeOK, SessionStates
    <2>5. LocksServe'
      BY <1>0, <1>2, <2>3, UnlockedOn DEF SaveRevoked
    <2> QED
      BY <1>2, <2>3, <2>4, <2>5 DEF SaveRevoked, TypeOK
  <1> QED
    BY <1>1, <1>2

LEMMA ChangeTypes ==
    ASSUME TypeOK, NoOne \notin Workers, MaxChanges \in Nat, NEW w \in Workers,
           StartChange(w) \/ SavePassword(w) \/ MarkUsed(w)
    PROVE  TypeOK'
  <1>0. work[w].op # "refresh"
    BY DEF StartChange, SavePassword, MarkUsed, Idle, Changing
  <1>1. work' \in [Workers -> Work] /\ \A v \in Workers : v # w => work'[v] = work[v]
    <2>1. CASE StartChange(w)
      BY <2>1 DEF StartChange, Goto, TypeOK, Work, Changes
    <2>2. CASE SavePassword(w)
      BY <2>2 DEF SavePassword, Goto, TypeOK, Work, Changes
    <2>3. CASE MarkUsed(w)
      BY <2>3 DEF MarkUsed, Goto, TypeOK, Work, Changes
    <2> QED
      BY <2>1, <2>2, <2>3
  <1>2. UNCHANGED <<lock, token>>
    BY DEF StartChange, SavePassword, MarkUsed
  <1>3. LocksServe'
    BY <1>0, <1>1, <1>2, UnlockedOn
  <1>4. password' \in Nat /\ changes' \in 0 .. MaxChanges
    BY DEF StartChange, SavePassword, MarkUsed, TypeOK
  <1> QED
    BY <1>1, <1>3, <1>4 DEF StartChange, SavePassword, MarkUsed, TypeOK

(* Rows an UPDATE revokes, none of them locked. *)
LEMMA RowsRevoked ==
    ASSUME TypeOK, NEW w \in Workers, NEW rows \in SUBSET Issued, ~Locked(rows), RevokeRows(w, rows)
    PROVE  /\ work' \in [Workers -> Work] /\ work'[w] = AfterUpdate(work[w])
           /\ \A v \in Workers : v # w => work'[v] = work[v]
           /\ token' \in [Tokens -> Row]
           /\ \A t \in rows : token'[t] = [state |-> "revoked", session |-> token[t].session]
           /\ \A t \in Tokens \ rows : token'[t] = token[t]
           /\ \A t \in Tokens : lock[t] # NoOne => token'[t] = token[t]
  <1>1. AfterUpdate(work[w]) \in Work
    BY DEF AfterUpdate, Work, Changes
  <1>2. /\ work' \in [Workers -> Work] /\ work'[w] = AfterUpdate(work[w])
        /\ \A v \in Workers : v # w => work'[v] = work[v]
    BY <1>1 DEF RevokeRows, Goto, TypeOK
  <1>3. \A t \in rows : t \in Tokens /\ token[t].session \in Sessions
    BY DEF Issued, TypeOK, Row
  <1>4. \A t \in rows : token'[t] = [state |-> "revoked", session |-> token[t].session]
    BY <1>3 DEF RevokeRows
  <1>5. \A t \in Tokens \ rows : token'[t] = token[t]
    BY DEF RevokeRows
  <1>6. token' \in [Tokens -> Row]
    <2>1. ASSUME NEW t \in rows PROVE token'[t] \in Row
      <3>1. [state |-> "revoked", session |-> token[t].session] \in Row
        BY <1>3 DEF Row
      <3> QED
        BY <1>4, <3>1
    <2>2. \A t \in Tokens \ rows : token'[t] \in Row
      BY <1>5 DEF TypeOK
    <2> QED
      BY <2>1, <2>2 DEF RevokeRows
  <1>7. \A t \in Tokens : lock[t] # NoOne => token'[t] = token[t]
    BY <1>5 DEF Locked
  <1> QED
    BY <1>2, <1>4, <1>5, <1>6, <1>7

LEMMA UpdateTypes ==
    ASSUME TypeOK, RowsIssued, NoOne \notin Workers, NEW w \in Workers,
           UpdateTokens(w) \/ Unblocked(w)
    PROVE  TypeOK'
  <1>0. work[w].op # "refresh"
    BY DEF UpdateTokens, Unblocked
  <1>1. ASSUME NEW rows \in SUBSET Issued, ~Locked(rows), RevokeRows(w, rows) PROVE TypeOK'
    <2>1. /\ work' \in [Workers -> Work] /\ token' \in [Tokens -> Row]
          /\ \A v \in Workers : v # w => work'[v] = work[v]
          /\ \A t \in Tokens : lock[t] # NoOne => token'[t] = token[t]
      BY <1>1, RowsRevoked
    <2>2. UNCHANGED <<session, password, lock, exchanged, issuedFor, spoiled, changes>>
      BY DEF UpdateTokens, Unblocked
    <2>3. LocksServe'
      BY <1>0, <2>1, <2>2, UnlockedOn
    <2> QED
      BY <2>1, <2>2, <2>3 DEF TypeOK
  <1>2. CASE UpdateTokens(w) /\ ~Locked(Where(work[w]))
    BY <1>1, <1>2 DEF UpdateTokens, Where
  <1>3. CASE UpdateTokens(w) /\ Locked(Where(work[w]))
    <2> DEFINE rows == Where(work[w])
               s == IF work[w].op = "revoke" THEN work[w].session ELSE NoOne
    <2>1. rows \subseteq Tokens
      BY DEF Where, Issued
    <2>2. /\ Goto(w, [rows |-> rows, pc |-> "wait", op |-> work[w].op, session |-> s])
          /\ UNCHANGED <<token, session, password, lock, exchanged, issuedFor, spoiled, changes>>
      BY <1>3 DEF UpdateTokens
    <2>3. \/ work[w].op = "revoke" /\ s \in Sessions
          \/ work[w].op \in {"reset", "change"} /\ s = NoOne
      BY <1>3, WorkShape DEF UpdateTokens
    <2> HIDE DEF rows, s
    <2>4. [rows |-> rows, pc |-> "wait", op |-> work[w].op, session |-> s] \in Waits
      BY <2>1, <2>3 DEF Waits
    <2>5. work' \in [Workers -> Work] /\ \A v \in Workers : v # w => work'[v] = work[v]
      BY <2>2, <2>4 DEF Goto, TypeOK, Work
    <2>6. LocksServe'
      BY <1>0, <2>2, <2>5, UnlockedOn
    <2> QED
      BY <2>2, <2>5, <2>6 DEF TypeOK
  <1>4. CASE Unblocked(w)
    <2>1. work[w] \in Waits
      BY <1>4, WorkShape DEF Unblocked, Work, Idle, Logins, Refreshes, Revocations, Changes
    <2> QED
      BY <1>1, <1>4, <2>1 DEF Unblocked, RowsIssued
  <1> QED
    BY <1>2, <1>3, <1>4

LEMMA LogoutTypes == ASSUME TypeOK, NEW t \in Tokens, Logout(t) PROVE TypeOK'
  <1>1. token[t].session \in Sessions /\ lock[t] = NoOne
    BY DEF Logout, LockFree, Issued, TypeOK, Row
  <1>2. token' \in [Tokens -> Row] /\ \A u \in Tokens : u # t => token'[u] = token[u]
    BY <1>1 DEF Logout, TypeOK, Row
  <1>3. LocksServe'
    BY <1>1, <1>2 DEF Logout, TypeOK, LocksServe
  <1> QED
    BY <1>2, <1>3 DEF Logout, TypeOK

LEMMA DieTypes == ASSUME TypeOK, NoOne \notin Workers, NEW w \in Workers, Die(w) PROVE TypeOK'
  <1>1. work' \in [Workers -> Work] /\ \A v \in Workers : v # w => work'[v] = work[v]
    BY DEF Die, Goto, TypeOK, Work
  <1>2. lock' = [t \in Tokens |-> IF lock[t] = w THEN NoOne ELSE lock[t]]
    BY DEF Die
  <1>3. /\ lock' \in [Tokens -> Workers \cup {NoOne}]
        /\ \A t \in Tokens : lock'[t] # NoOne => lock'[t] = lock[t] /\ lock[t] # w
    BY <1>2 DEF TypeOK
  <1>4. LocksServe'
    BY <1>1, <1>3 DEF Die, TypeOK, LocksServe
  <1>5. spoiled' \subseteq Sessions
    <2>1. work[w].op = "revoke" => work[w].session \in Sessions
      BY WorkShape
    <2> QED
      BY <2>1 DEF Die, TypeOK
  <1> QED
    BY <1>1, <1>3, <1>4, <1>5 DEF Die, TypeOK

(* LocksHeld and RowsIssued: a request not past a lock takes none along,   *)
(* and issued tokens stay issued.                                          *)
LEMMA StepsApart ==
    ASSUME TypeOK, NoOne \notin Workers, NEW w \in Workers, Step(w)
    PROVE  \A v \in Workers : v # w => work'[v] = work[v]
  BY DEF Step, TypeOK, Goto, RevokeRows, Login, CreateSession, Issue, Refresh, LockToken, FindSession,
         TouchSession, Commit, RevokeSession, SaveRevoked, StartChange, SavePassword, MarkUsed,
         UpdateTokens, Unblocked, Die

(* A request moves by its own steps. *)
LEMMA Moves ==
    ASSUME TypeOK, NoOne \notin Workers, [Next]_vars, NEW w \in Workers
    PROVE  work'[w] = work[w] \/ Step(w)
  BY StepsApart DEF Next, Step, vars, Logout

LEMMA NextTypes ==
    ASSUME TypeOK, LocksHeld, RowsIssued, NoOne \notin Workers, MaxChanges \in Nat, [Next]_vars
    PROVE  TypeOK'
  <1>1. CASE UNCHANGED vars
    BY <1>1 DEF vars, TypeOK, LocksServe
  <1> QED
    BY <1>1, LoginTypes, RefreshTypes, CommitTypes, RevokeTypes, ChangeTypes, UpdateTypes, LogoutTypes,
       DieTypes DEF Next

(* What a step does to a token: nothing, or one of these. *)
LEMMA TokenSteps ==
    ASSUME TypeOK, LocksHeld, RowsIssued, NoOne \notin Workers, [Next]_vars, NEW t \in Tokens
    PROVE  \/ token'[t] = token[t]
           \/ /\ token[t].state = "unborn" /\ token'[t].state = "live" /\ lock[t] = NoOne
              /\ \E w \in Workers : \/ Issue(w) /\ token'[t].session = work[w].session
                                       /\ issuedFor'[t] = work[w].password
                                    \/ Commit(w) /\ token'[t].session = token[work[w].token].session
                                       /\ issuedFor'[t] = issuedFor[work[w].token]
           \/ /\ token[t].state # "unborn" /\ token'[t].state = "revoked"
              /\ token'[t].session = token[t].session
              /\ lock[t] = NoOne \/ \E w \in Workers : Commit(w) /\ work[w].token = t
  <1>1. ASSUME NEW w \in Workers, Issue(w), token'[t] # token[t]
        PROVE  /\ token[t].state = "unborn" /\ token'[t].state = "live" /\ lock[t] = NoOne
               /\ token'[t].session = work[w].session /\ issuedFor'[t] = work[w].password
    <2> DEFINE n == AnyOf(Fresh)
    <2>1. n \in Tokens /\ token[n].state = "unborn"
      BY <1>1, AnyIsOneOf DEF Issue, Fresh
    <2>2. /\ token' = [token EXCEPT ![n] = [state |-> "live", session |-> work[w].session]]
          /\ issuedFor' = [issuedFor EXCEPT ![n] = work[w].password]
      BY <1>1 DEF Issue
    <2> HIDE DEF n
    <2>3. t = n
      BY <1>1, <2>2 DEF TypeOK
    <2> QED
      BY <2>1, <2>2, <2>3 DEF TypeOK, LocksServe
  <1>2. ASSUME NEW w \in Workers, Commit(w), token'[t] # token[t]
        PROVE  \/ /\ token[t].state = "unborn" /\ token'[t].state = "live" /\ lock[t] = NoOne
                  /\ token'[t].session = token[work[w].token].session
                  /\ issuedFor'[t] = issuedFor[work[w].token]
               \/ /\ token[t].state # "unborn" /\ token'[t].state = "revoked"
                  /\ token'[t].session = token[t].session /\ work[w].token = t
    <2> DEFINE n == AnyOf(Fresh)
               u == work[w].token
    <2>0. HoldsLock(w)
      BY <1>2 DEF Commit, HoldsLock
    <2>1. /\ n \in Tokens /\ token[n].state = "unborn"
          /\ u \in Tokens /\ token[u].state = "live"
      BY <1>2, <2>0, AnyIsOneOf, HeldIsLive DEF Commit, Fresh
    <2>2. /\ token' = [token EXCEPT ![u] = [state |-> "revoked", session |-> token[u].session],
                                    ![n] = [state |-> "live", session |-> token[u].session]]
          /\ issuedFor' = [issuedFor EXCEPT ![n] = issuedFor[u]]
      BY <1>2 DEF Commit
    <2>3. lock[n] = NoOne
      BY <2>1 DEF TypeOK, LocksServe
    <2> HIDE DEF n, u
    <2>4. t \in {n, u}
      BY <1>2, <2>2 DEF TypeOK
    <2>5. CASE t = n
      BY <2>1, <2>2, <2>3, <2>5 DEF TypeOK, u
    <2>6. CASE t = u
      BY <2>1, <2>2, <2>6 DEF TypeOK, u
    <2> QED
      BY <2>4, <2>5, <2>6
  <1>3. ASSUME NEW w \in Workers, UpdateTokens(w) \/ Unblocked(w), token'[t] # token[t]
        PROVE  /\ token[t].state # "unborn" /\ token'[t].state = "revoked"
               /\ token'[t].session = token[t].session /\ lock[t] = NoOne
    <2>1. PICK rows \in SUBSET Issued : ~Locked(rows) /\ RevokeRows(w, rows)
      <3>1. CASE UpdateTokens(w)
        BY <1>3, <3>1 DEF UpdateTokens, Where
      <3>2. CASE Unblocked(w)
        <4>1. work[w] \in Waits
          BY <3>2, WorkShape DEF Unblocked, Work, Idle, Logins, Refreshes, Revocations, Changes
        <4> QED
          BY <3>2, <4>1 DEF Unblocked, RowsIssued
      <3> QED
        BY <1>3, <3>1, <3>2
    <2>2. t \in rows
      BY <1>3, <2>1, RowsRevoked
    <2>3. token'[t] = [state |-> "revoked", session |-> token[t].session]
      BY <2>1, <2>2, RowsRevoked
    <2> QED
      BY <2>1, <2>2, <2>3 DEF Issued, Locked
  <1>4. ASSUME NEW u \in Tokens, Logout(u), token'[t] # token[t]
        PROVE  /\ token[t].state # "unborn" /\ token'[t].state = "revoked"
               /\ token'[t].session = token[t].session /\ lock[t] = NoOne
    BY <1>4 DEF Logout, LockFree, Issued, TypeOK
  <1>5. ASSUME token'[t] # token[t]
        PROVE  \/ \E w \in Workers : Issue(w) \/ Commit(w) \/ UpdateTokens(w) \/ Unblocked(w)
               \/ \E u \in Tokens : Logout(u)
    BY <1>5 DEF Next, vars, Login, CreateSession, Refresh, LockToken, FindSession, TouchSession,
                RevokeSession, SaveRevoked, StartChange, SavePassword, MarkUsed, Die
  <1> QED
    BY <1>1, <1>2, <1>3, <1>4, <1>5

LEMMA StaysIssued ==
    ASSUME TypeOK, LocksHeld, RowsIssued, NoOne \notin Workers, [Next]_vars
    PROVE  Issued \subseteq Issued'
  BY TokenSteps DEF Issued

(* Where a request gets to. *)
LEMMA Lockless ==
    ASSUME TypeOK, NEW w \in Workers,
           \/ Login(w) \/ CreateSession(w) \/ Issue(w) \/ Refresh(w) \/ Commit(w) \/ RevokeSession(w)
           \/ SaveRevoked(w) \/ StartChange(w) \/ SavePassword(w) \/ MarkUsed(w) \/ UpdateTokens(w)
           \/ Unblocked(w) \/ Die(w)
    PROVE  ~HoldsLock(w)'
  <1>1. CASE \/ Login(w) \/ Issue(w) \/ Commit(w) \/ SaveRevoked(w) \/ SavePassword(w)
             \/ MarkUsed(w) \/ Die(w)
    BY <1>1 DEF Login, Issue, Commit, SaveRevoked, SavePassword, MarkUsed, Die, Goto, Idle, HoldsLock, TypeOK
  <1>2. CASE CreateSession(w)
    <2>1. work'[w].op = "login"
      BY <1>2 DEF CreateSession, Goto, TypeOK
    <2> QED
      BY <2>1 DEF HoldsLock
  <1>3. CASE Refresh(w) \/ RevokeSession(w) \/ StartChange(w)
    BY <1>3 DEF Refresh, RevokeSession, StartChange, Goto, HoldsLock, TypeOK
  <1>4. CASE UpdateTokens(w) \/ Unblocked(w)
    <2>1. work'[w].op # "refresh"
      BY <1>4 DEF UpdateTokens, Unblocked, RevokeRows, AfterUpdate, Goto, Idle, TypeOK
    <2> QED
      BY <2>1 DEF HoldsLock
  <1> QED
    BY <1>1, <1>2, <1>3, <1>4

LEMMA Locking ==
    ASSUME TypeOK, NEW w \in Workers, LockToken(w), HoldsLock(w)'
    PROVE  /\ work[w].token \in Tokens /\ lock[work[w].token] = NoOne
           /\ lock' = [lock EXCEPT ![work[w].token] = w]
           /\ work'[w].token = work[w].token
  <1> DEFINE t == work[w].token
  <1>1. t \in Tokens /\ lock[t] = NoOne
    BY WorkShape DEF LockToken, LockFree
  <1>2. CASE lock' = [lock EXCEPT ![t] = w] /\ Goto(w, [op |-> "refresh", pc |-> "session", token |-> t])
    BY <1>1, <1>2 DEF Goto, TypeOK
  <1>3. CASE Goto(w, Idle)
    BY <1>3 DEF Goto, Idle, HoldsLock, TypeOK
  <1> QED
    BY <1>1, <1>2, <1>3 DEF LockToken

LEMMA LocksHeldKept ==
    ASSUME TypeOK, LocksHeld, NoOne \notin Workers, [Next]_vars
    PROVE  LocksHeld'
  <1> SUFFICES ASSUME NEW v \in Workers, HoldsLock(v)' PROVE lock'[work'[v].token] = v
    BY DEF LocksHeld
  <1>1. ASSUME NEW w \in Workers, w # v, work'[v] = work[v], HoldsLock(v),
               \/ UNCHANGED lock
               \/ LockToken(w) \/ Commit(w) \/ Die(w)
        PROVE  lock'[work'[v].token] = v
    <2>1. work[v].token \in Tokens /\ lock[work[v].token] = v
      BY <1>1, HeldIsLive DEF LocksHeld
    <2>2. CASE LockToken(w)
      <3>1. work[w].token \in Tokens /\ lock[work[w].token] = NoOne
        BY <2>2, WorkShape DEF LockToken, LockFree
      <3> QED
        BY <1>1, <2>1, <2>2, <3>1 DEF LockToken, TypeOK
    <2>3. CASE Commit(w)
      <3>1. HoldsLock(w) /\ lock' = [lock EXCEPT ![work[w].token] = NoOne]
        BY <2>3 DEF Commit, HoldsLock
      <3>2. work[w].token \in Tokens /\ lock[work[w].token] = w
        BY <3>1, HeldIsLive DEF LocksHeld
      <3> QED
        BY <1>1, <2>1, <3>1, <3>2 DEF TypeOK
    <2>4. CASE Die(w)
      BY <1>1, <2>1, <2>4 DEF Die, TypeOK
    <2> QED
      BY <1>1, <2>1, <2>2, <2>3, <2>4
  <1>2. ASSUME NEW w \in Workers, Step(w)
        PROVE  lock'[work'[v].token] = v
    <2>1. CASE v # w
      <3>1. work'[v] = work[v] /\ HoldsLock(v)
        BY <1>2, <2>1, StepsApart DEF HoldsLock
      <3>2. UNCHANGED lock \/ LockToken(w) \/ Commit(w) \/ Die(w)
        BY <1>2 DEF Step, Login, CreateSession, Issue, Refresh, FindSession, TouchSession,
                    RevokeSession, SaveRevoked, StartChange, SavePassword, MarkUsed, UpdateTokens, Unblocked
      <3> QED
        BY <1>1, <2>1, <3>1, <3>2
    <2>2. CASE v = w
      <3>1. LockToken(w) \/ FindSession(w) \/ TouchSession(w)
        BY <1>2, <2>2, Lockless DEF Step
      <3>2. CASE LockToken(w)
        BY <2>2, <3>2, Locking DEF TypeOK
      <3>3. CASE FindSession(w) \/ TouchSession(w)
        <4>1. HoldsLock(w) /\ UNCHANGED lock /\ work'[w].token = work[w].token
          BY <3>3 DEF FindSession, TouchSession, HoldsLock, Goto, TypeOK
        <4> QED
          BY <2>2, <4>1 DEF LocksHeld
      <3> QED
        BY <3>1, <3>2, <3>3
    <2> QED
      BY <2>1, <2>2
  <1>3. CASE UNCHANGED <<lock, work>>
    BY <1>3 DEF LocksHeld, HoldsLock
  <1> QED
    BY <1>2, <1>3 DEF Next, Step, vars, Logout

LEMMA RowsIssuedKept ==
    ASSUME TypeOK, LocksHeld, RowsIssued, NoOne \notin Workers, [Next]_vars
    PROVE  RowsIssued'
  <1> SUFFICES ASSUME NEW w \in Workers, work'[w] \in Waits PROVE work'[w].rows \subseteq Issued'
    BY DEF RowsIssued, Waits
  <1>0. Issued \subseteq Issued'
    BY StaysIssued
  <1>1. CASE work'[w] = work[w]
    BY <1>0, <1>1 DEF RowsIssued
  <1>2. CASE Step(w)
    <2>1. work'[w].op \in {"revoke", "reset", "change"} /\ work'[w].pc = "wait"
      BY DEF Waits
    <2>2. CASE UpdateTokens(w) /\ Locked(Where(work[w]))
      BY <1>0, <2>2 DEF UpdateTokens, Goto, TypeOK, Where
    <2>3. CASE (UpdateTokens(w) /\ ~Locked(Where(work[w]))) \/ Unblocked(w)
      BY <2>1, <2>3 DEF UpdateTokens, Unblocked, RevokeRows, AfterUpdate, Goto, Idle, TypeOK
    <2>4. CASE ~UpdateTokens(w) /\ ~Unblocked(w)
      BY <1>2, <2>1, <2>4 DEF Step, Login, CreateSession, Issue, Refresh, LockToken, FindSession,
           TouchSession, Commit, RevokeSession, SaveRevoked, StartChange, SavePassword, MarkUsed, Die,
           Goto, Idle, TypeOK
    <2> QED
      BY <2>2, <2>3, <2>4
  <1> QED
    BY <1>1, <1>2, Moves

(* A token is exchanged as it is revoked. *)
LEMMA UnexchangedKept ==
    ASSUME TypeOK, LocksHeld, RowsIssued, LiveUnexchanged, NoOne \notin Workers, [Next]_vars,
           NEW t \in Tokens, token'[t].state # "revoked"
    PROVE  exchanged'[t] = 0
  <1>1. token[t].state # "revoked"
    BY TokenSteps
  <1>2. ASSUME NEW w \in Workers, Commit(w) PROVE exchanged'[t] = exchanged[t]
    <2>1. HoldsLock(w)
      BY <1>2 DEF Commit, HoldsLock
    <2> DEFINE n == AnyOf(Fresh)
               u == work[w].token
    <2>2. u \in Tokens /\ n # u
      BY <1>2, <2>1, AnyIsOneOf, HeldIsLive DEF Commit, Fresh
    <2>3. /\ token' = [token EXCEPT ![u] = [state |-> "revoked", session |-> token[u].session],
                                    ![n] = [state |-> "live", session |-> token[u].session]]
          /\ exchanged' = [exchanged EXCEPT ![u] = exchanged[u] + 1]
      BY <1>2 DEF Commit
    <2> HIDE DEF n, u
    <2>4. token'[u].state = "revoked"
      BY <2>2, <2>3 DEF TypeOK
    <2> QED
      BY <2>3, <2>4 DEF TypeOK
  <1>3. exchanged'[t] = exchanged[t]
    BY <1>2 DEF Next, vars, Login, CreateSession, Issue, Refresh, LockToken, FindSession, TouchSession,
         RevokeSession, SaveRevoked, StartChange, SavePassword, MarkUsed, UpdateTokens, Unblocked, Die,
         Logout
  <1> QED
    BY <1>1, <1>3 DEF LiveUnexchanged

LEMMA ExchangedKept ==
    ASSUME TypeOK, LocksHeld, RowsIssued, LiveUnexchanged, ExchangedOnce, NoOne \notin Workers,
           [Next]_vars
    PROVE  ExchangedOnce'
  <1> SUFFICES ASSUME NEW t \in Tokens PROVE exchanged'[t] <= 1
    BY DEF ExchangedOnce
  <1>1. ASSUME NEW w \in Workers, Commit(w) PROVE exchanged'[t] <= 1
    <2>1. HoldsLock(w)
      BY <1>1 DEF Commit, HoldsLock
    <2>2. work[w].token \in Tokens /\ exchanged[work[w].token] = 0
      BY <2>1, HeldIsLive DEF LiveUnexchanged
    <2>3. exchanged' = [exchanged EXCEPT ![work[w].token] = exchanged[work[w].token] + 1]
      BY <1>1 DEF Commit
    <2> QED
      BY <2>2, <2>3 DEF TypeOK, ExchangedOnce
  <1>2. CASE UNCHANGED exchanged
    BY <1>2 DEF ExchangedOnce
  <1> QED
    BY <1>1, <1>2 DEF Next, vars, Login, CreateSession, Issue, Refresh, LockToken, FindSession,
         TouchSession, RevokeSession, SaveRevoked, StartChange, SavePassword, MarkUsed, UpdateTokens,
         Unblocked, Die, Logout

(* How a request came to be what it is. *)
LEMMA LoginCame ==
    ASSUME TypeOK, NEW w \in Workers, Step(w), work'[w].op = "login"
    PROVE  \/ Login(w) /\ work'[w].pc = "session" /\ work'[w].password = password
           \/ /\ CreateSession(w) /\ work'[w].password = work[w].password
              /\ work'[w].session = AnyOf(NewSessions)
  <1>1. Login(w) \/ CreateSession(w)
    BY DEF Step, Issue, Refresh, LockToken, FindSession, TouchSession, Commit, RevokeSession,
           SaveRevoked, StartChange, SavePassword, MarkUsed, UpdateTokens, Unblocked, Die,
           RevokeRows, AfterUpdate, Goto, Idle, TypeOK
  <1>2. CASE Login(w)
    BY <1>2 DEF Login, Goto, TypeOK
  <1>3. CASE CreateSession(w)
    <2> DEFINE s == AnyOf(NewSessions)
    <2>1. work' = [work EXCEPT ![w] = [op |-> "login", pc |-> "issue", password |-> work[w].password,
                                       session |-> s]]
      BY <1>3 DEF CreateSession, Goto
    <2> HIDE DEF s
    <2>2. work'[w].password = work[w].password /\ work'[w].session = s
      BY <2>1 DEF TypeOK
    <2> QED
      BY <1>3, <2>2 DEF s
  <1> QED
    BY <1>1, <1>2, <1>3

LEMMA RefreshCame ==
    ASSUME TypeOK, NEW w \in Workers, Step(w), work'[w].op = "refresh"
    PROVE  \/ Refresh(w) /\ work'[w].pc = "lock" /\ work'[w].token \in Issued
           \/ /\ work[w].op = "refresh" /\ work'[w].token = work[w].token /\ work'[w].pc # "touch"
              /\ LockToken(w) \/ TouchSession(w)
           \/ /\ FindSession(w) /\ work'[w].token = work[w].token
              /\ work'[w].copy = session[token[work[w].token].session]
  <1>1. Refresh(w) \/ LockToken(w) \/ FindSession(w) \/ TouchSession(w)
    BY DEF Step, Login, CreateSession, Issue, Commit, RevokeSession,
           SaveRevoked, StartChange, SavePassword, MarkUsed, UpdateTokens, Unblocked, Die,
           RevokeRows, AfterUpdate, Goto, Idle, TypeOK
  <1>2. CASE Refresh(w)
    <2>1. PICK t \in Issued : Goto(w, [op |-> "refresh", pc |-> "lock", token |-> t])
      BY <1>2 DEF Refresh
    <2>2. work'[w].pc = "lock" /\ work'[w].token = t
      BY <2>1 DEF Goto, TypeOK
    <2> QED
      BY <1>2, <2>2
  <1>3. CASE LockToken(w)
    BY <1>3 DEF LockToken, Goto, TypeOK, Idle
  <1>4. CASE FindSession(w)
    BY <1>4 DEF FindSession, Goto, TypeOK
  <1>5. CASE TouchSession(w)
    BY <1>5 DEF TouchSession, Goto, TypeOK
  <1> QED
    BY <1>1, <1>2, <1>3, <1>4, <1>5

LEMMA RevocationCame ==
    ASSUME TypeOK, NEW w \in Workers, Step(w), work'[w].op = "revoke"
    PROVE  \/ /\ RevokeSession(w) /\ work'[w].session \in Sessions
              /\ work'[w].pc = "save" /\ session[work'[w].session] # "unborn"
              /\ (\E v \in Others(w) : Issuing(v)) => work'[w].session \in spoiled'
           \/ /\ work[w].op = "revoke" /\ work'[w].session = work[w].session
              /\ \/ SaveRevoked(w) /\ work'[w].pc = "update"
                 \/ UpdateTokens(w) /\ Locked(Where(work[w]))
  <1>1. RevokeSession(w) \/ SaveRevoked(w) \/ UpdateTokens(w)
    BY DEF Step, Login, CreateSession, Issue, Refresh, LockToken, FindSession, TouchSession, Commit,
           StartChange, SavePassword, MarkUsed, Unblocked, Die, RevokeRows, AfterUpdate, Goto, Idle, TypeOK
  <1>2. CASE RevokeSession(w)
    <2>1. PICK s \in Sessions :
             /\ session[s] # "unborn"
             /\ Goto(w, [op |-> "revoke", pc |-> "save", session |-> s])
             /\ spoiled' = IF \E v \in Others(w) : Issuing(v) THEN spoiled \cup {s} ELSE spoiled
      BY <1>2 DEF RevokeSession
    <2>2. work'[w].pc = "save" /\ work'[w].session = s
      BY <2>1 DEF Goto, TypeOK
    <2>3. (\E v \in Others(w) : Issuing(v)) => s \in spoiled'
      BY <2>1
    <2> QED
      BY <1>2, <2>1, <2>2, <2>3
  <1>3. CASE SaveRevoked(w)
    BY <1>3 DEF SaveRevoked, Goto, TypeOK
  <1>4. CASE UpdateTokens(w)
    BY <1>4 DEF UpdateTokens, RevokeRows, AfterUpdate, Goto, Idle, TypeOK
  <1> QED
    BY <1>1, <1>2, <1>3, <1>4

LEMMA ChangeCame ==
    ASSUME TypeOK, NEW w \in Workers, Step(w), Changing(w)'
    PROVE  \/ StartChange(w) /\ (work'[w].op = "change" => work'[w].pc = "update")
              /\ work'[w].pc # "wait"
           \/ Changing(w) /\ UpdateTokens(w) /\ Locked(Where(work[w]))
           \/ Changing(w) /\ (SavePassword(w) \/ MarkUsed(w)) /\ work'[w].op = "reset"
              /\ work'[w].pc # "wait"
           \/ /\ Changing(w) /\ work'[w].op = "change" /\ work'[w].pc = "save"
              /\ \/ UpdateTokens(w) /\ ~Locked(Where(work[w]))
                 \/ Unblocked(w)
  <1>1. \/ StartChange(w) \/ SavePassword(w) \/ MarkUsed(w) \/ UpdateTokens(w) \/ Unblocked(w)
    BY DEF Step, Login, CreateSession, Issue, Refresh, LockToken, FindSession, TouchSession, Commit,
           RevokeSession, SaveRevoked, Die, Goto, Idle, Changing, TypeOK
  <1>2. CASE StartChange(w)
    BY <1>2 DEF StartChange, Goto, TypeOK
  <1>3. CASE SavePassword(w) \/ MarkUsed(w)
    BY <1>3 DEF SavePassword, MarkUsed, Goto, Changing, Idle, TypeOK
  <1>4. CASE UpdateTokens(w)
    BY <1>4 DEF UpdateTokens, RevokeRows, AfterUpdate, Goto, Idle, Changing, TypeOK
  <1>5. CASE Unblocked(w)
    BY <1>5 DEF Unblocked, RevokeRows, AfterUpdate, Goto, Idle, Changing, TypeOK
  <1> QED
    BY <1>1, <1>2, <1>3, <1>4, <1>5

-----------------------------------------------------------------------------
(* Sessions: what is opened, revoked or touched was created.               *)
LEMMA StaysBorn ==
    ASSUME TypeOK, SessionsBorn, [Next]_vars, NEW s \in Sessions, session[s] # "unborn"
    PROVE  session'[s] # "unborn"
  <1>1. ASSUME NEW w \in Workers, CreateSession(w) PROVE session'[s] # "unborn"
    BY <1>1 DEF CreateSession, TypeOK
  <1>2. ASSUME NEW w \in Workers, TouchSession(w) PROVE session'[s] # "unborn"
    BY <1>2 DEF TouchSession, SessionsBorn, TypeOK
  <1>3. ASSUME NEW w \in Workers, SaveRevoked(w) PROVE session'[s] # "unborn"
    BY <1>3 DEF SaveRevoked, TypeOK
  <1>4. CASE UNCHANGED session
    BY <1>4
  <1> QED
    BY <1>1, <1>2, <1>3, <1>4 DEF Next, vars, Login, Issue, Refresh, LockToken, FindSession, Commit,
       RevokeSession, StartChange, SavePassword, MarkUsed, UpdateTokens, Unblocked, Die, Logout

LEMMA SessionsBornKept ==
    ASSUME TypeOK, TypeOK', LocksHeld, RowsIssued, SessionsBorn, NoOne \notin Workers, [Next]_vars
    PROVE  SessionsBorn'
  <1>1. ASSUME NEW t \in Tokens, token'[t].state # "unborn"
        PROVE  session'[token'[t].session] # "unborn"
    <2>1. token'[t].session \in Sessions
      BY <1>1 DEF TypeOK, Row
    <2>2. CASE token[t].state # "unborn" /\ token'[t].session = token[t].session
      BY <2>1, <2>2, StaysBorn DEF SessionsBorn, Issued
    <2>3. ASSUME NEW w \in Workers, Issue(w), token'[t].session = work[w].session
          PROVE  session'[token'[t].session] # "unborn"
      BY <2>1, <2>3, StaysBorn DEF Issue, SessionsBorn, Opening
    <2>4. ASSUME NEW w \in Workers, Commit(w), token'[t].session = token[work[w].token].session
          PROVE  session'[token'[t].session] # "unborn"
      <3>1. HoldsLock(w)
        BY <2>4 DEF Commit, HoldsLock
      <3>2. work[w].token \in Issued
        BY <3>1, HeldIsLive DEF Issued
      <3> QED
        BY <2>1, <2>4, <3>2, StaysBorn DEF SessionsBorn
    <2> QED
      BY <1>1, <2>2, <2>3, <2>4, TokenSteps
  <1>2. ASSUME NEW w \in Workers, NEW s \in Sessions, Opening(w, s)' \/ Revokes(w, s)'
        PROVE  session'[s] # "unborn"
    <2>1. CASE work'[w] = work[w]
      BY <1>2, <2>1, StaysBorn DEF SessionsBorn, Opening, Revokes
    <2>2. CASE Step(w) /\ Opening(w, s)'
      <3>1. CreateSession(w) /\ s = AnyOf(NewSessions)
        BY <2>2, LoginCame DEF Opening
      <3>2. session' = [session EXCEPT ![s] = "active"]
        BY <3>1 DEF CreateSession
      <3> QED
        BY <3>2 DEF TypeOK
    <2>3. CASE Step(w) /\ Revokes(w, s)'
      BY <2>3, RevocationCame, StaysBorn DEF SessionsBorn, Revokes
    <2> QED
      BY <1>2, <2>1, <2>2, <2>3, Moves
  <1>3. ASSUME NEW w \in Workers, work'[w].op = "refresh"
        PROVE  /\ token'[work'[w].token].state # "unborn"
               /\ work'[w].pc = "touch" => work'[w].copy # "unborn"
    <2>0. Issued \subseteq Issued'
      BY StaysIssued
    <2>1. CASE work'[w] = work[w]
      BY <1>3, <2>0, <2>1, WorkShape DEF SessionsBorn, Issued
    <2>2. CASE Refresh(w) /\ work'[w].pc = "lock" /\ work'[w].token \in Issued
      BY <2>0, <2>2 DEF Issued
    <2>3. CASE /\ work[w].op = "refresh" /\ work'[w].token = work[w].token /\ work'[w].pc # "touch"
      BY <2>0, <2>3, WorkShape DEF SessionsBorn, Issued
    <2>4. CASE /\ FindSession(w) /\ work'[w].token = work[w].token
               /\ work'[w].copy = session[token[work[w].token].session]
      <3>1. work[w].token \in Issued
        BY <2>4, WorkShape DEF FindSession, SessionsBorn, Issued
      <3> QED
        BY <2>0, <2>4, <3>1 DEF SessionsBorn, Issued
    <2> QED
      BY <1>3, <2>1, <2>2, <2>3, <2>4, Moves, RefreshCame
  <1> QED
    BY <1>1, <1>2, <1>3 DEF SessionsBorn, Issued

(* Revocations.  What a step does to a session: nothing, or one of these. *)
LEMMA SessionSteps ==
    ASSUME TypeOK, LocksHeld, NoOne \notin Workers, [Next]_vars, NEW s \in Sessions
    PROVE  \/ session'[s] = session[s]
           \/ session'[s] = "active"
           \/ \E w \in Workers : SaveRevoked(w) /\ Revokes(w, s)
           \/ \E w \in Workers : TouchSession(w) /\ Touching(w, s) /\ session'[s] = work[w].copy
  <1>1. ASSUME NEW w \in Workers, CreateSession(w), session'[s] # session[s] PROVE session'[s] = "active"
    BY <1>1 DEF CreateSession, TypeOK
  <1>2. ASSUME NEW w \in Workers, SaveRevoked(w), session'[s] # session[s] PROVE Revokes(w, s)
    BY <1>2 DEF SaveRevoked, Revokes, TypeOK
  <1>3. ASSUME NEW w \in Workers, TouchSession(w), session'[s] # session[s]
        PROVE  Touching(w, s) /\ session'[s] = work[w].copy
    <2>1. HoldsLock(w)
      BY <1>3 DEF TouchSession, HoldsLock
    <2>2. token[work[w].token].session \in Sessions
      BY <2>1, HeldIsLive
    <2>3. session' = [session EXCEPT ![token[work[w].token].session] = work[w].copy]
      BY <1>3 DEF TouchSession
    <2> QED
      BY <1>3, <2>2, <2>3 DEF TouchSession, Touching, TypeOK
  <1> QED
    BY <1>1, <1>2, <1>3 DEF Next, vars, Login, Issue, Refresh, LockToken, FindSession, Commit,
       RevokeSession, StartChange, SavePassword, MarkUsed, UpdateTokens, Unblocked, Die, Logout

LEMMA SpoiledStays == ASSUME [Next]_vars PROVE spoiled \subseteq spoiled'
  BY DEF Next, vars, Login, CreateSession, Issue, Refresh, LockToken, FindSession, TouchSession, Commit,
       RevokeSession, SaveRevoked, StartChange, SavePassword, MarkUsed, UpdateTokens, Unblocked, Die, Logout

(* An undisturbed revocation finds no row locked. *)
LEMMA NothingLocked ==
    ASSUME TypeOK, NEW s \in Sessions, RevocationClean(s), NEW w \in Workers, Revokes(w, s)
    PROVE  ~Locked(Where(work[w]))
  <1>1. \A v \in Workers : work[v].op # "refresh"
    BY DEF RevocationClean
  <1>2. \A t \in Tokens : lock[t] = NoOne
    BY <1>1 DEF TypeOK, LocksServe
  <1> QED
    BY <1>2 DEF Locked, Where, Issued

LEMMA OpeningCame ==
    ASSUME TypeOK, NoOne \notin Workers, [Next]_vars, NEW w \in Workers, NEW s \in Sessions, Opening(w, s)'
    PROVE  \/ Opening(w, s) /\ work'[w] = work[w]
           \/ Step(w) /\ session[s] = "unborn" /\ session'[s] = "active"
  <1>1. CASE work'[w] = work[w]
    BY <1>1 DEF Opening
  <1>2. CASE Step(w)
    <2>1. CreateSession(w) /\ s = AnyOf(NewSessions)
      BY <1>2, LoginCame DEF Opening
    <2>2. NewSessions # {} /\ session' = [session EXCEPT ![s] = "active"]
      BY <2>1 DEF CreateSession
    <2>3. session[s] = "unborn"
      BY <2>1, <2>2, AnyIsOneOf DEF NewSessions
    <2> QED
      BY <1>2, <2>2, <2>3 DEF TypeOK
  <1> QED
    BY <1>1, <1>2, Moves

(* (a) nothing is refreshed or opened while it runs *)
LEMMA RunsClean ==
    ASSUME TypeOK, LocksHeld, SessionsBorn, NoOne \notin Workers, [Next]_vars,
           NEW s \in Sessions \ spoiled', RevocationClean(s), NEW w \in Workers, Revokes(w, s)'
    PROVE  /\ work'[w].pc # "wait"
           /\ \A v \in Workers : work'[v].op # "refresh" /\ ~Opening(v, s)'
  <1>1. \/ Revokes(w, s) /\ work'[w].pc # "wait"
        \/ /\ RevokeSession(w) /\ work'[w].pc = "save"
           /\ \A v \in Others(w) : ~Issuing(v)
    <2>1. CASE work'[w] = work[w]
      BY <2>1 DEF Revokes, RevocationClean
    <2>2. CASE Step(w)
      BY <2>2, RevocationCame, NothingLocked DEF Revokes
    <2> QED
      BY <2>1, <2>2, Moves
  <1>2. ASSUME NEW v \in Workers, work'[v].op = "refresh" \/ Opening(v, s)' PROVE FALSE
    <2>1. v # w
      BY <1>2 DEF Opening, Revokes
    <2>2. CASE RevokeSession(w) /\ \A u \in Others(w) : ~Issuing(u)
      <3>1. work'[v] = work[v]
        BY <2>1, <2>2, StepsApart DEF Step
      <3> QED
        BY <1>2, <2>1, <2>2, <3>1 DEF Others, Issuing, Opening
    <2>3. CASE Revokes(w, s) /\ work'[v] = work[v]
      BY <1>2, <2>3 DEF RevocationClean, Opening
    <2>4. CASE Revokes(w, s) /\ Step(v)
      <3>1. ~Opening(v, s)'
        BY <2>4, OpeningCame DEF SessionsBorn, RevocationClean
      <3>2. work[v].op # "refresh"
        BY <2>4 DEF RevocationClean
      <3>3. Refresh(v)
        BY <1>2, <2>4, <3>1, <3>2, RefreshCame DEF FindSession
      <3>4. s \in spoiled'
        BY <2>1, <2>4, <3>3 DEF Refresh, Others
      <3> QED
        BY <3>4
    <2> QED
      BY <1>1, <2>2, <2>3, <2>4, Moves
  <1> QED
    BY <1>1, <1>2

(* (b), (d) what was or is being opened or touched is not revoked, *)
LEMMA OpeningClean ==
    ASSUME TypeOK, LocksHeld, SessionsBorn, NoOne \notin Workers, [Next]_vars,
           NEW s \in Sessions \ spoiled', RevocationClean(s), session'[s] = "revoked"
    PROVE  \A w \in Workers : ~Opening(w, s)'
  <1> SUFFICES ASSUME NEW w \in Workers, Opening(w, s)' PROVE FALSE
    OBVIOUS
  <1>1. Opening(w, s)
    BY OpeningCame
  <1>2. session[s] # "revoked" /\ \A v \in Workers : ~Revokes(v, s)
    BY <1>1 DEF RevocationClean
  <1>3. \A v \in Workers : Touching(v, s) => work[v].copy # "revoked"
    BY DEF RevocationClean
  <1> QED
    BY <1>2, <1>3, SessionSteps

LEMMA TouchingClean ==
    ASSUME TypeOK, LocksHeld, RowsIssued, SessionsBorn, NoOne \notin Workers, [Next]_vars,
           NEW s \in Sessions \ spoiled', RevocationClean(s), NEW w \in Workers, Touching(w, s)'
    PROVE  work'[w].copy # "revoked"
  <1>1. CASE work'[w] = work[w]
    <2>1. work[w].token \in Tokens /\ token[work[w].token].state # "unborn"
      BY <1>1, WorkShape DEF Touching, SessionsBorn
    <2>2. token'[work[w].token].session = token[work[w].token].session
      BY <2>1, TokenSteps
    <2> QED
      BY <1>1, <2>2 DEF Touching, RevocationClean
  <1>2. CASE Step(w)
    <2>1. /\ FindSession(w) /\ work'[w].token = work[w].token
          /\ work'[w].copy = session[token[work[w].token].session]
      BY <1>2, RefreshCame DEF Touching
    <2>2. HoldsLock(w) /\ token' = token
      BY <2>1 DEF FindSession, HoldsLock
    <2>3. work[w].token \in Live(s) /\ work'[w].copy = session[s]
      BY <2>1, <2>2, HeldIsLive DEF Touching, Live
    <2>4. \A v \in Workers : ~Revokes(v, s)
      BY <2>2 DEF HoldsLock, RevocationClean
    <2> QED
      BY <2>3, <2>4 DEF RevocationClean
  <1> QED
    BY <1>1, <1>2, Moves

(* (c) and a session that was revoked is left without a live token. *)
LEMMA RevocationEnds ==
    ASSUME TypeOK, LocksHeld, RowsIssued, NoOne \notin Workers, [Next]_vars,
           NEW s \in Sessions \ spoiled', RevocationClean(s), NEW w \in Workers, Revokes(w, s), ~Revokes(w, s)',
           NEW t \in Live(s)
    PROVE  token'[t].state = "revoked"
  <1>1. Step(w)
    BY Moves DEF Revokes
  <1>2. ~Locked(Where(work[w]))
    BY NothingLocked
  <1>3. work[w].pc # "wait"
    BY DEF RevocationClean
  <1>4. ~SaveRevoked(w)
    BY DEF SaveRevoked, Goto, Revokes, TypeOK
  <1>5. ~Die(w)
    BY DEF Die, Revokes
  <1>6. UpdateTokens(w)
    BY <1>1, <1>3, <1>4, <1>5 DEF Step, Revokes, Login, CreateSession, Issue, Refresh, LockToken,
       FindSession, TouchSession, Commit, RevokeSession, StartChange, SavePassword, MarkUsed, Unblocked,
       Idle, Changing
  <1>7. t \in Where(work[w]) /\ Where(work[w]) \in SUBSET Issued
    BY DEF Where, Issued, Live, Revokes
  <1>8. RevokeRows(w, Where(work[w]))
    BY <1>2, <1>6 DEF UpdateTokens
  <1>9. token'[t] = [state |-> "revoked", session |-> token[t].session]
    BY <1>2, <1>7, <1>8, RowsRevoked
  <1> QED
    BY <1>9

LEMMA RevokedClean ==
    ASSUME TypeOK, LocksHeld, RowsIssued, SessionsBorn, NoOne \notin Workers, [Next]_vars,
           NEW s \in Sessions \ spoiled', RevocationClean(s), session'[s] = "revoked",
           \A w \in Workers : ~Revokes(w, s)'
    PROVE  Live(s)' = {}
  <1> SUFFICES ASSUME NEW t \in Tokens, token'[t].state = "live", token'[t].session = s PROVE FALSE
    BY DEF Live
  <1>1. ASSUME Live(s) # {}, UNCHANGED session PROVE \E w \in Workers : Revokes(w, s)
    BY <1>1 DEF RevocationClean
  <1>2. CASE token'[t] = token[t]
    <2>1. t \in Live(s)
      BY <1>2 DEF Live
    <2>2. \A w \in Workers : ~Revokes(w, s)
      BY <2>1, RevocationEnds
    <2>3. session[s] # "revoked"
      BY <2>1, <2>2 DEF RevocationClean
    <2>4. \A w \in Workers : Touching(w, s) => work[w].copy # "revoked"
      BY DEF RevocationClean
    <2> QED
      BY <2>2, <2>3, <2>4, SessionSteps
  <1>3. ASSUME NEW w \in Workers, Issue(w), token'[t].session = work[w].session PROVE FALSE
    <2>1. Opening(w, s) /\ session[s] = "revoked"
      BY <1>3 DEF Issue, Opening
    <2> QED
      BY <2>1 DEF RevocationClean
  <1>4. ASSUME NEW w \in Workers, Commit(w), token'[t].session = token[work[w].token].session PROVE FALSE
    <2>1. HoldsLock(w) /\ UNCHANGED session
      BY <1>4 DEF Commit, HoldsLock
    <2>2. work[w].token \in Live(s)
      BY <1>4, <2>1, HeldIsLive DEF Live
    <2>3. \E v \in Workers : Revokes(v, s)
      BY <1>1, <2>1, <2>2
    <2> QED
      BY <2>1, <2>3 DEF RevocationClean, HoldsLock
  <1> QED
    BY <1>2, <1>3, <1>4, TokenSteps

LEMMA RevocationsCleanKept ==
    ASSUME TypeOK, LocksHeld, RowsIssued, SessionsBorn, RevocationsClean, NoOne \notin Workers, [Next]_vars
    PROVE  RevocationsClean'
  <1> SUFFICES ASSUME NEW s \in Sessions \ spoiled' PROVE RevocationClean(s)'
    BY DEF RevocationsClean
  <1>1. RevocationClean(s)
    BY SpoiledStays DEF RevocationsClean
  <1>2. \A w \in Workers : Revokes(w, s)' =>
           work'[w].pc # "wait" /\ \A v \in Workers : work'[v].op # "refresh" /\ ~Opening(v, s)'
    BY <1>1, RunsClean
  <1>3. session'[s] = "revoked" => \A w \in Workers : ~Opening(w, s)'
    BY <1>1, OpeningClean
  <1>4. session'[s] = "revoked" /\ (\A w \in Workers : ~Revokes(w, s)') => Live(s)' = {}
    BY <1>1, RevokedClean
  <1>5. \A w \in Workers : Touching(w, s)' => work'[w].copy # "revoked"
    BY <1>1, TouchingClean
  <1> QED
    BY <1>2, <1>3, <1>4, <1>5 DEF RevocationClean

-----------------------------------------------------------------------------
(* Passwords: a change that nothing overlaps.                              *)
LEMMA MixedStays == ASSUME [Next]_vars, mixed PROVE mixed'
  BY Zenon DEF Next, vars, Login, CreateSession, Issue, Refresh, LockToken, FindSession, TouchSession,
     Commit, RevokeSession, SaveRevoked, StartChange, SavePassword, MarkUsed, UpdateTokens, Unblocked, Die,
     Logout

LEMMA ChangesOnItsOwn ==
    ASSUME NEW w \in Workers, ~mixed'
    PROVE  /\ Login(w) \/ Refresh(w) => \A v \in Others(w) : ~Changing(v)
           /\ StartChange(w) => \A v \in Others(w) : ~Issuing(v) /\ ~Changing(v)
           /\ Die(w) => ~Changing(w)
  BY Zenon DEF Login, Refresh, StartChange, Die

(* Where something is issued, or a change begins, nothing else changes. *)
LEMMA IssuerCame ==
    ASSUME TypeOK, NEW w \in Workers, Step(w), ~mixed', Issuing(w)'
    PROVE  Issuing(w) \/ \A v \in Others(w) : ~Changing(v)
  <1>1. CASE work'[w].op = "login"
    BY <1>1, LoginCame, ChangesOnItsOwn DEF CreateSession, Issuing
  <1>2. CASE work'[w].op = "refresh"
    BY <1>2, RefreshCame, ChangesOnItsOwn DEF FindSession, Issuing
  <1> QED
    BY <1>1, <1>2 DEF Issuing

LEMMA ChangerCame ==
    ASSUME TypeOK, NEW w \in Workers, Step(w), ~mixed', Changing(w)'
    PROVE  Changing(w) \/ \A v \in Others(w) : ~Issuing(v) /\ ~Changing(v)
  BY ChangeCame, ChangesOnItsOwn

LEMMA ChangeAlone ==
    ASSUME TypeOK, ChangesClean, NoOne \notin Workers, [Next]_vars, ~mixed',
           NEW w \in Workers, Changing(w)', NEW v \in Workers, Issuing(v)' \/ Changing(v)'
    PROVE  v = w
  <1> SUFFICES ASSUME v # w PROVE FALSE
    OBVIOUS
  <1>1. ASSUME Changing(w), Issuing(v) \/ Changing(v) PROVE FALSE
    BY <1>1 DEF ChangesClean
  <1>2. CASE work'[w] = work[w] /\ work'[v] = work[v]
    BY <1>1, <1>2 DEF Changing, Issuing
  <1>3. CASE Step(w)
    <2>1. work'[v] = work[v]
      BY <1>3, StepsApart
    <2> QED
      BY <1>1, <1>3, <2>1, ChangerCame DEF Changing, Issuing, Others
  <1>4. CASE Step(v)
    <2>1. work'[w] = work[w]
      BY <1>4, StepsApart
    <2> QED
      BY <1>1, <1>4, <2>1, ChangerCame, IssuerCame DEF Changing, Issuing, Others
  <1> QED
    BY <1>2, <1>3, <1>4, Moves

LEMMA ChangeFindsNoLock ==
    ASSUME TypeOK, ChangesClean, NEW w \in Workers, Changing(w)
    PROVE  ~Locked(Where(work[w])) /\ work[w].pc # "wait"
  <1>1. \A v \in Workers : work[v].op # "refresh"
    BY DEF ChangesClean, Issuing, Changing
  <1>2. \A t \in Tokens : lock[t] = NoOne
    BY <1>1 DEF TypeOK, LocksServe
  <1> QED
    BY <1>2 DEF Locked, Where, Issued, ChangesClean

(* The UPDATE of a change that nothing overlaps leaves no live token. *)
LEMMA AllRevoked ==
    ASSUME TypeOK, ChangesClean, NEW w \in Workers, Changing(w), UpdateTokens(w)
    PROVE  \A t \in Tokens : token'[t].state # "live"
  <1>1. Where(work[w]) = Issued /\ ~Locked(Where(work[w]))
    BY ChangeFindsNoLock DEF Where, Changing
  <1>2. RevokeRows(w, Issued) /\ ~Locked(Issued)
    BY <1>1 DEF UpdateTokens
  <1>3. \A t \in Issued : token'[t].state = "revoked"
    <2> SUFFICES ASSUME NEW t \in Issued PROVE token'[t].state = "revoked"
      OBVIOUS
    <2>1. token'[t] = [state |-> "revoked", session |-> token[t].session]
      BY <1>2, RowsRevoked
    <2> QED
      BY <2>1
  <1>4. \A t \in Tokens \ Issued : token'[t] = token[t]
    BY <1>2, RowsRevoked
  <1> QED
    BY <1>3, <1>4 DEF Issued

(* New tokens come of what issues them. *)
LEMMA NoneIssued ==
    ASSUME TypeOK, LocksHeld, RowsIssued, NoOne \notin Workers, [Next]_vars,
           \A t \in Tokens : token[t].state # "live", \A w \in Workers : ~Issuing(w)
    PROVE  \A t \in Tokens : token'[t].state # "live"
  <1>1. \A w \in Workers : ~Issue(w) /\ ~Commit(w)
    BY DEF Issue, Commit, Issuing
  <1> QED
    BY <1>1, TokenSteps

LEMMA ChangesRunClean ==
    ASSUME TypeOK, LocksHeld, RowsIssued, ChangesClean, NoOne \notin Workers, [Next]_vars, ~mixed',
           NEW w \in Workers, Changing(w)'
    PROVE  /\ work'[w].pc # "wait"
           /\ \A v \in Workers : Issuing(v)' \/ Changing(v)' => v = w
           /\ work'[w].op = "change" /\ work'[w].pc = "save" => \A t \in Tokens : token'[t].state # "live"
  <1>1. CASE work'[w] = work[w]
    <2>1. Changing(w) /\ \A v \in Workers : ~Issuing(v)
      BY <1>1 DEF Changing, Issuing, ChangesClean
    <2> QED
      BY <1>1, <2>1, ChangeAlone, NoneIssued DEF ChangesClean
  <1>2. CASE Step(w)
    <2>1. ~Changing(w) \/ (~Locked(Where(work[w])) /\ ~Unblocked(w))
      BY ChangeFindsNoLock DEF Unblocked
    <2>2. \/ work'[w].pc # "wait" /\ (work'[w].op = "change" => work'[w].pc # "save")
          \/ Changing(w) /\ UpdateTokens(w) /\ work'[w].pc = "save"
      BY <1>2, <2>1, ChangeCame
    <2> QED
      BY <2>2, ChangeAlone, AllRevoked
  <1> QED
    BY <1>1, <1>2, Moves

LEMMA IssuedForStays ==
    ASSUME TypeOK, [Next]_vars, NEW t \in Tokens, token[t].state # "unborn"
    PROVE  issuedFor'[t] = issuedFor[t]
  <1>1. t # AnyOf(Fresh) \/ Fresh = {}
    BY AnyIsOneOf DEF Fresh
  <1>2. ASSUME NEW w \in Workers, Issue(w) PROVE issuedFor'[t] = issuedFor[t]
    BY <1>1, <1>2 DEF Issue, TypeOK
  <1>3. ASSUME NEW w \in Workers, Commit(w) PROVE issuedFor'[t] = issuedFor[t]
    BY <1>1, <1>3 DEF Commit, TypeOK
  <1>4. CASE UNCHANGED issuedFor
    BY <1>4
  <1> QED
    BY <1>2, <1>3, <1>4 DEF Next, vars, Login, CreateSession, Refresh, LockToken, FindSession, TouchSession,
       RevokeSession, SaveRevoked, StartChange, SavePassword, MarkUsed, UpdateTokens, Unblocked, Die, Logout

LEMMA PasswordStays ==
    ASSUME [Next]_vars, \A w \in Workers : ~Changing(w)
    PROVE  password' = password
  BY DEF Next, vars, Login, CreateSession, Issue, Refresh, LockToken, FindSession, TouchSession, Commit,
       RevokeSession, SaveRevoked, StartChange, SavePassword, MarkUsed, UpdateTokens, Unblocked, Die, Logout

(* When a change ends there is no live token and no login under way, *)
LEMMA ChangeEnds ==
    ASSUME TypeOK, ChangesClean, NoOne \notin Workers, [Next]_vars, ~mixed',
           NEW w \in Workers, Changing(w), ~Changing(w)'
    PROVE  /\ \A t \in Tokens : token'[t].state # "live"
           /\ \A v \in Workers : work'[v].op # "login"
  <1>1. Step(w)
    BY Moves DEF Changing
  <1>2. ~Unblocked(w) /\ ~Die(w)
    BY ChangeFindsNoLock, ChangesOnItsOwn DEF Unblocked
  <1>3. ~MarkUsed(w)
    BY DEF MarkUsed, Goto, Changing, TypeOK
  <1>4. UpdateTokens(w) \/ SavePassword(w)
    BY <1>1, <1>2, <1>3 DEF Step, Changing, Login, CreateSession, Issue, Refresh, LockToken, FindSession,
       TouchSession, Commit, RevokeSession, SaveRevoked, StartChange, Idle
  <1>5. \A t \in Tokens : token'[t].state # "live"
    <2>1. CASE SavePassword(w)
      <3>1. work[w].op = "change" /\ work[w].pc = "save"
        BY <2>1 DEF SavePassword, Changing, Goto, TypeOK
      <3>2. \A t \in Tokens : token[t].state # "live"
        BY <3>1 DEF ChangesClean
      <3> QED
        BY <2>1, <3>2 DEF SavePassword
    <2> QED
      BY <1>4, <2>1, AllRevoked
  <1>6. ASSUME NEW v \in Workers PROVE work'[v].op # "login"
    <2>1. CASE v = w
      <3>1. ~Login(w) /\ ~CreateSession(w)
        BY DEF Login, CreateSession, Changing, Idle
      <3> QED
        BY <1>1, <2>1, <3>1, LoginCame
    <2>2. CASE v # w
      <3>1. work'[v] = work[v] /\ ~Issuing(v)
        BY <1>1, <2>2, StepsApart DEF ChangesClean
      <3> QED
        BY <3>1 DEF Issuing
    <2> QED
      BY <2>1, <2>2
  <1> QED
    BY <1>5, <1>6

(* and while none runs all that is issued is for the present password. *)
LEMMA IssuedForPresent ==
    ASSUME TypeOK, LocksHeld, RowsIssued, ChangesClean, NoOne \notin Workers, [Next]_vars,
           \A w \in Workers : ~Changing(w)
    PROVE  /\ \A t \in Tokens : token'[t].state = "live" => issuedFor'[t] = password'
           /\ \A w \in Workers : work'[w].op = "login" => work'[w].password = password'
  <1>0. password' = password
    BY PasswordStays
  <1>1. /\ \A t \in Tokens : token[t].state = "live" => issuedFor[t] = password
        /\ \A w \in Workers : work[w].op = "login" => work[w].password = password
    BY DEF ChangesClean
  <1>2. ASSUME NEW t \in Tokens, token'[t].state = "live" PROVE issuedFor'[t] = password
    <2>1. CASE token'[t] = token[t]
      BY <1>1, <1>2, <2>1, IssuedForStays
    <2>2. ASSUME NEW w \in Workers, Issue(w), issuedFor'[t] = work[w].password
          PROVE  issuedFor'[t] = password
      BY <1>1, <2>2 DEF Issue
    <2>3. ASSUME NEW w \in Workers, Commit(w), issuedFor'[t] = issuedFor[work[w].token]
          PROVE  issuedFor'[t] = password
      <3>1. HoldsLock(w)
        BY <2>3 DEF Commit, HoldsLock
      <3> QED
        BY <1>1, <2>3, <3>1, HeldIsLive
    <2> QED
      BY <1>2, <2>1, <2>2, <2>3, TokenSteps
  <1>3. ASSUME NEW w \in Workers, work'[w].op = "login" PROVE work'[w].password = password
    <2>1. CASE work'[w] = work[w]
      BY <1>1, <1>3, <2>1
    <2>2. CASE Step(w)
      BY <1>1, <1>3, <2>2, LoginCame DEF CreateSession
    <2> QED
      BY <2>1, <2>2, Moves
  <1> QED
    BY <1>0, <1>2, <1>3

LEMMA PasswordsCleanKept ==
    ASSUME TypeOK, LocksHeld, RowsIssued, PasswordsClean, NoOne \notin Workers, [Next]_vars
    PROVE  PasswordsClean'
  <1> SUFFICES ASSUME ~mixed' PROVE ChangesClean'
    BY Zenon DEF PasswordsClean
  <1>1. ChangesClean
    BY Zenon, MixedStays DEF PasswordsClean
  <1>2. \A w \in Workers : Changing(w)' =>
          /\ work'[w].pc # "wait"
          /\ \A v \in Workers : Issuing(v)' \/ Changing(v)' => v = w
          /\ work'[w].op = "change" /\ work'[w].pc = "save" => \A t \in Tokens : token'[t].state # "live"
    BY <1>1, ChangesRunClean
  <1>3. (\A w \in Workers : ~Changing(w)') =>
          /\ \A t \in Tokens : token'[t].state = "live" => issuedFor'[t] = password'
          /\ \A w \in Workers : work'[w].op = "login" => work'[w].password = password'
    <2>1. CASE \A w \in Workers : ~Changing(w)
      BY <1>1, <2>1, IssuedForPresent
    <2>2. CASE \E w \in Workers : Changing(w)
      BY <1>1, <2>2, ChangeEnds
    <2> QED
      BY <2>1, <2>2
  <1> QED
    BY <1>2, <1>3 DEF ChangesClean

-----------------------------------------------------------------------------
CredentialsInv == LocksHeld /\ RowsIssued /\ LiveUnexchanged /\ SessionsBorn /\ RevocationsClean /\ PasswordsClean

LEMMA InitCredentials == ASSUME Init, MaxChanges \in Nat PROVE TypeOK /\ CredentialsInv /\ ExchangedOnce
  <1>1. TypeOK
    BY DEF Init, TypeOK, Row, SessionStates, Work, LocksServe
  <1>2. LocksHeld /\ RowsIssued /\ LiveUnexchanged /\ ExchangedOnce
    BY DEF Init, LocksHeld, HoldsLock, RowsIssued, Waits, Idle, LiveUnexchanged, ExchangedOnce
  <1>3. SessionsBorn
    BY DEF Init, SessionsBorn, Opening, Revokes, Idle, Issued
  <1>4. RevocationsClean
    BY DEF Init, RevocationsClean, RevocationClean, Opening, Revokes, Touching, Live, Idle
  <1>5. ChangesClean
    BY DEF Init, ChangesClean, Changing, Issuing, Idle
  <1> QED
    BY <1>1, <1>2, <1>3, <1>4, <1>5 DEF CredentialsInv, PasswordsClean

LEMMA NextCredentials ==
    ASSUME TypeOK, CredentialsInv, ExchangedOnce, NoOne \notin Workers, MaxChanges \in Nat, [Next]_vars
    PROVE  TypeOK' /\ CredentialsInv' /\ ExchangedOnce'
  <1>1. TypeOK'
    BY NextTypes DEF CredentialsInv
  <1>2. LocksHeld' /\ RowsIssued' /\ RevocationsClean' /\ PasswordsClean'
    BY LocksHeldKept, RowsIssuedKept, RevocationsCleanKept, PasswordsCleanKept DEF CredentialsInv
  <1>3. LiveUnexchanged' /\ ExchangedOnce'
    BY UnexchangedKept, ExchangedKept DEF CredentialsInv, LiveUnexchanged
  <1>4. SessionsBorn'
    BY <1>1, SessionsBornKept DEF CredentialsInv
  <1> QED
    BY <1>1, <1>2, <1>3, <1>4 DEF CredentialsInv

(* Every variable of the tokens' rows, sessions and requests keeps to its  *)
(* type, and whoever holds a row lock refreshes that token, which is live  *)
(* (auth.service.ts:640-700, sessions.service.ts:40-100).                  *)
THEOREM TypeCorrect ==
    ASSUME NoOne \notin Workers, MaxChanges \in Nat PROVE Spec => []TypeOK
  <1>1. Init => TypeOK /\ CredentialsInv /\ ExchangedOnce
    BY InitCredentials
  <1>2. TypeOK /\ CredentialsInv /\ ExchangedOnce /\ [Next]_vars
          => TypeOK' /\ CredentialsInv' /\ ExchangedOnce'
    BY NextCredentials
  <1> QED
    BY <1>1, <1>2, PTL DEF Spec

(* A refresh token buys one new token; the tokens of a session revoked     *)
(* undisturbed are dead; and after an undisturbed change of the password   *)
(* every live token goes back to a login with the new one, for any number  *)
(* of tokens, sessions, requests and deaths (auth.service.ts:664-691 and   *)
(* 997-1020, sessions.service.ts:66-82, users.service.ts:178-204).         *)
THEOREM CredentialsExpire ==
    ASSUME NoOne \notin Workers, MaxChanges \in Nat
    PROVE  Spec => [](ExchangedOnce /\ RevokedSessionIsDead /\ NoTokenOutlivesPassword)
  <1>1. Init => TypeOK /\ CredentialsInv /\ ExchangedOnce
    BY InitCredentials
  <1>2. TypeOK /\ CredentialsInv /\ ExchangedOnce /\ [Next]_vars
          => TypeOK' /\ CredentialsInv' /\ ExchangedOnce'
    BY NextCredentials
  <1>3. CredentialsInv => RevokedSessionIsDead
    BY DEF CredentialsInv, RevocationsClean, RevocationClean, RevokedSessionIsDead, Live
  <1>4. CredentialsInv => NoTokenOutlivesPassword
    BY Zenon DEF CredentialsInv, PasswordsClean, ChangesClean, NoTokenOutlivesPassword
  <1> QED
    BY <1>1, <1>2, <1>3, <1>4, PTL DEF Spec

-----------------------------------------------------------------------------
(* API keys: types, copies, heirs, settings.                               *)

(* Saves and insertions of a key's rows by a request, and the others. *)
LEMMA KeyWork ==
    ASSUME AK!TypeOK, NEW w \in Workers
    PROVE  /\ akWork[w].op \in AK!Calls => akWork[w] \in AK!Saves
           /\ akWork[w].op = "insert" => akWork[w] \in AK!Inserts
  BY DEF AK!TypeOK, AK!Idle, AK!Saves, AK!Inserts, AK!Calls

(* What a save makes of its key, from the request r to the row new. *)
KeySave(w, r, new) ==
    /\ r = akWork[w] /\ r \in AK!Saves
    /\ new \in AK!Row /\ new.born = r.copy.born
    /\ new.settings = IF r.op = "update" THEN r.call ELSE r.copy.settings
    /\ new.active = IF r.op \in {"revoke", "rotate"} THEN FALSE ELSE r.copy.active
    /\ key' \in [Keys -> AK!Row] /\ key'[r.key] = new /\ \A k \in Keys : k # r.key => key'[k] = key[k]
    /\ version' = [version EXCEPT ![r.key] = version[r.key] + 1]
    /\ lost' = [lost EXCEPT ![r.key] = lost[r.key] + (version[r.key] - r.version)]
    /\ ended' = IF r.op \in {"revoke", "rotate"} THEN ended \cup {r.key} ELSE ended
    /\ wanted' = IF r.op = "update" THEN [wanted EXCEPT ![r.key] = r.call] ELSE wanted
    /\ akWork' = [akWork EXCEPT ![w] = IF r.op = "rotate"
                                      THEN [op |-> "insert", key |-> r.key, copy |-> r.copy] ELSE AK!Idle]
    /\ UNCHANGED <<heir, calls, akFaults>>

LEMMA KeySaved ==
    ASSUME AK!TypeOK, NEW w \in Workers, AK!Save(w) PROVE \E r, new : KeySave(w, r, new)
  <1> DEFINE r == akWork[w]
             new == AK!Changed(r.op, r.copy, r.call)
  <1>1. r \in AK!Saves
    BY KeyWork DEF AK!Save
  <1>2. /\ new \in AK!Row /\ new.born = r.copy.born
        /\ new.settings = IF r.op = "update" THEN r.call ELSE r.copy.settings
        /\ new.active = IF r.op \in {"revoke", "rotate"} THEN FALSE ELSE r.copy.active
    BY <1>1 DEF AK!Changed, AK!Saves, AK!Calls, AK!Row
  <1>3. key' = [key EXCEPT ![r.key] = new]
    BY DEF AK!Save
  <1>4. key' \in [Keys -> AK!Row] /\ key'[r.key] = new /\ \A k \in Keys : k # r.key => key'[k] = key[k]
    BY <1>1, <1>2, <1>3 DEF AK!TypeOK, AK!Saves
  <1>5. akWork' = [akWork EXCEPT ![w] = IF r.op = "rotate"
                                        THEN [op |-> "insert", key |-> r.key, copy |-> r.copy] ELSE AK!Idle]
    BY DEF AK!Save, AK!Goto
  <1> HIDE DEF r, new
  <1>6. UNCHANGED <<heir, calls, akFaults>>
    BY DEF AK!Save
  <1>7. /\ version' = [version EXCEPT ![r.key] = version[r.key] + 1]
        /\ lost' = [lost EXCEPT ![r.key] = lost[r.key] + (version[r.key] - r.version)]
        /\ ended' = IF r.op \in {"revoke", "rotate"} THEN ended \cup {r.key} ELSE ended
        /\ wanted' = IF r.op = "update" THEN [wanted EXCEPT ![r.key] = r.call] ELSE wanted
    BY DEF AK!Save, r
  <1> WITNESS r, new
  <1> QED
    BY <1>1, <1>2, <1>4, <1>5, <1>6, <1>7 DEF KeySave, r

(* A new key, by create or as the heir of a rotated one. *)
LEMMA KeyCreated ==
    ASSUME AK!TypeOK, MaxCalls \in Nat, NEW n \in Keys, AK!Create(n)
    PROVE  /\ ~key[n].born /\ key' \in [Keys -> AK!Row]
           /\ key'[n] = [active |-> TRUE, settings |-> 0, born |-> TRUE]
           /\ \A k \in Keys : k # n => key'[k] = key[k]
           /\ calls' \in 0 .. MaxCalls
           /\ UNCHANGED <<akWork, version, lost, ended, heir, wanted, akFaults>>
  <1>1. [active |-> TRUE, settings |-> 0, born |-> TRUE] \in AK!Row
    BY DEF AK!TypeOK, AK!Row
  <1> QED
    BY <1>1 DEF AK!Create, AK!TypeOK

(* What an insertion makes of the new key n, from the request r. *)
HeirInsert(w, r, n) ==
    /\ r = akWork[w] /\ r \in AK!Inserts
    /\ n \in Keys /\ ~key[n].born
    /\ key' \in [Keys -> AK!Row]
    /\ key'[n] = [active |-> TRUE, settings |-> r.copy.settings, born |-> TRUE]
    /\ \A k \in Keys : k # n => key'[k] = key[k]
    /\ heir' = [heir EXCEPT ![r.key] = heir[r.key] \cup {n}]
    /\ wanted' = [wanted EXCEPT ![n] = r.copy.settings]
    /\ akWork' = [akWork EXCEPT ![w] = AK!Idle]
    /\ UNCHANGED <<version, lost, ended, calls, akFaults>>

LEMMA HeirInserted ==
    ASSUME AK!TypeOK, NEW w \in Workers, AK!InsertHeir(w) PROVE \E r, n : HeirInsert(w, r, n)
  <1> DEFINE r == akWork[w]
  <1>1. r \in AK!Inserts
    BY KeyWork DEF AK!InsertHeir
  <1>2. PICK n \in Keys :
          /\ ~key[n].born
          /\ key' = [key EXCEPT ![n] = [active |-> TRUE, settings |-> r.copy.settings, born |-> TRUE]]
          /\ heir' = [heir EXCEPT ![r.key] = heir[r.key] \cup {n}]
          /\ wanted' = [wanted EXCEPT ![n] = r.copy.settings]
    BY DEF AK!InsertHeir
  <1>3. [active |-> TRUE, settings |-> r.copy.settings, born |-> TRUE] \in AK!Row
    BY <1>1 DEF AK!Inserts, AK!Row
  <1>4. key' \in [Keys -> AK!Row] /\ key'[n] = [active |-> TRUE, settings |-> r.copy.settings, born |-> TRUE]
        /\ \A k \in Keys : k # n => key'[k] = key[k]
    BY <1>2, <1>3 DEF AK!TypeOK
  <1> QED
    BY <1>1, <1>2, <1>4 DEF AK!InsertHeir, AK!Goto, HeirInsert

LEMMA KeyFound ==
    ASSUME AK!TypeOK, MaxCalls \in Nat, NEW w \in Workers, NEW k \in Keys, NEW op \in AK!Calls, AK!Find(w, op, k)
    PROVE  /\ key[k].born /\ (op # "revoke" => key[k].active)
           /\ \E c \in 0 .. MaxCalls :
                 LET r == [op |-> op, key |-> k, copy |-> key[k], version |-> version[k], call |-> c]
                 IN  /\ r \in AK!Saves /\ calls' = c
                     /\ akWork' = [akWork EXCEPT ![w] = r]
           /\ akWork[w] = AK!Idle
           /\ UNCHANGED <<key, version, lost, ended, heir, wanted, akFaults>>
  <1>1. calls' \in 0 .. MaxCalls
    BY DEF AK!Find, AK!TypeOK
  <1>2. [op |-> op, key |-> k, copy |-> key[k], version |-> version[k], call |-> calls'] \in AK!Saves
    BY <1>1 DEF AK!Saves, AK!TypeOK
  <1> QED
    BY <1>1, <1>2 DEF AK!Find, AK!Finds, AK!Goto

LEMMA KeyTypes ==
    ASSUME AK!TypeOK, AK!CopiesTrue, MaxCalls \in Nat, AkMaxFaults \in Nat, [AK!Next]_(AK!vars)
    PROVE  AK!TypeOK'
  <1>1. ASSUME NEW n \in Keys, AK!Create(n) PROVE AK!TypeOK'
    BY <1>1, KeyCreated DEF AK!TypeOK
  <1>2. ASSUME NEW w \in Workers, NEW k \in Keys, NEW op \in AK!Calls, AK!Find(w, op, k) PROVE AK!TypeOK'
    <2>1. PICK r \in AK!Saves : akWork' = [akWork EXCEPT ![w] = r] /\ calls' \in 0 .. MaxCalls
      BY <1>2, KeyFound
    <2>2. akWork' \in [Workers -> {AK!Idle} \cup AK!Saves \cup AK!Inserts]
      BY <2>1 DEF AK!TypeOK
    <2> QED
      BY <1>2, <2>1, <2>2, KeyFound DEF AK!TypeOK
  <1>3. ASSUME NEW w \in Workers, AK!Save(w) PROVE AK!TypeOK'
    <2>0. PICK r, new : KeySave(w, r, new)
      BY <1>3, KeySaved
    <2>1. /\ r \in AK!Saves /\ new.born = r.copy.born
          /\ key' \in [Keys -> AK!Row] /\ key'[r.key] = new /\ \A k \in Keys : k # r.key => key'[k] = key[k]
          /\ version' = [version EXCEPT ![r.key] = version[r.key] + 1]
          /\ lost' = [lost EXCEPT ![r.key] = lost[r.key] + (version[r.key] - r.version)]
          /\ ended' = IF r.op \in {"revoke", "rotate"} THEN ended \cup {r.key} ELSE ended
          /\ wanted' = IF r.op = "update" THEN [wanted EXCEPT ![r.key] = r.call] ELSE wanted
          /\ akWork' = [akWork EXCEPT ![w] = IF r.op = "rotate"
                                            THEN [op |-> "insert", key |-> r.key, copy |-> r.copy] ELSE AK!Idle]
          /\ UNCHANGED <<heir, calls, akFaults>>
      BY <2>0 DEF KeySave
    <2>2. r.copy.born /\ r.version <= version[r.key]
      BY <1>3, <2>0 DEF AK!Save, AK!CopiesTrue, AK!Copied, KeySave
    <2>3. version' \in [Keys -> Nat] /\ version'[r.key] = version[r.key] + 1
          /\ (\A k \in Keys : k # r.key => version'[k] = version[k])
      BY <2>1 DEF AK!TypeOK, AK!Saves
    <2>4. lost' \in [Keys -> Nat]
      <3>1. version[r.key] - r.version \in Nat
        BY <2>1, <2>2 DEF AK!TypeOK, AK!Saves
      <3> QED
        BY <2>1, <3>1 DEF AK!TypeOK, AK!Saves
    <2>5. akWork' \in [Workers -> {AK!Idle} \cup AK!Saves \cup AK!Inserts]
      <3>1. [op |-> "insert", key |-> r.key, copy |-> r.copy] \in AK!Inserts
        BY <2>1 DEF AK!Saves, AK!Inserts
      <3> QED
        BY <2>1, <3>1 DEF AK!TypeOK
    <2>6. ended' \subseteq Keys /\ wanted' \in [Keys -> 0 .. MaxCalls]
      BY <2>1 DEF AK!TypeOK, AK!Saves
    <2>7. \A k \in Keys : ~key'[k].born => key'[k] = AK!Unborn /\ version'[k] = 0
      BY <2>1, <2>2, <2>3 DEF AK!TypeOK
    <2> QED
      BY <2>1, <2>3, <2>4, <2>5, <2>6, <2>7 DEF AK!TypeOK
  <1>4. ASSUME NEW w \in Workers, AK!InsertHeir(w) PROVE AK!TypeOK'
    <2>0. PICK r, n : HeirInsert(w, r, n)
      BY <1>4, HeirInserted
    <2>1. /\ r \in AK!Inserts /\ n \in Keys /\ ~key[n].born /\ key' \in [Keys -> AK!Row]
          /\ key'[n] = [active |-> TRUE, settings |-> r.copy.settings, born |-> TRUE]
          /\ \A k \in Keys : k # n => key'[k] = key[k]
          /\ heir' = [heir EXCEPT ![r.key] = heir[r.key] \cup {n}]
          /\ wanted' = [wanted EXCEPT ![n] = r.copy.settings]
          /\ akWork' = [akWork EXCEPT ![w] = AK!Idle]
          /\ UNCHANGED <<version, lost, ended, calls, akFaults>>
      BY <2>0 DEF HeirInsert
    <2>2. heir' \in [Keys -> SUBSET Keys] /\ wanted' \in [Keys -> 0 .. MaxCalls]
      BY <2>1 DEF AK!TypeOK, AK!Inserts, AK!Row
    <2>3. akWork' \in [Workers -> {AK!Idle} \cup AK!Saves \cup AK!Inserts]
      BY <2>1 DEF AK!TypeOK
    <2> QED
      BY <2>1, <2>2, <2>3 DEF AK!TypeOK
  <1>5. ASSUME NEW w \in Workers, AK!Die(w) PROVE AK!TypeOK'
    BY <1>5 DEF AK!Die, AK!Goto, AK!TypeOK
  <1>6. CASE UNCHANGED AK!vars
    BY <1>6 DEF AK!vars, AK!TypeOK
  <1> QED
    BY <1>1, <1>2, <1>3, <1>4, <1>5, <1>6 DEF AK!Next

LEMMA CopiesKept ==
    ASSUME AK!TypeOK, AK!CopiesTrue, MaxCalls \in Nat, [AK!Next]_(AK!vars)
    PROVE  AK!CopiesTrue'
  <1> SUFFICES ASSUME NEW v \in Workers, akWork'[v].op \in AK!Calls PROVE AK!Copied(akWork[v])'
    BY DEF AK!CopiesTrue
  <1> DEFINE c == akWork[v]
  <1>1. ASSUME akWork'[v] = akWork[v]
        PROVE  /\ c \in AK!Saves /\ key[c.key].born /\ c.copy.born /\ c.version <= version[c.key]
               /\ c.version = version[c.key] => c.copy = key[c.key]
               /\ c.op # "revoke" => c.copy.active
    BY <1>1, KeyWork DEF AK!CopiesTrue, AK!Copied
  <1>2. ASSUME NEW n \in Keys, ~key[n].born, \A k \in Keys : k # n => key'[k] = key[k],
               version' = version, akWork'[v] = akWork[v]
        PROVE  AK!Copied(akWork[v])'
    <2> HIDE DEF c
    <2>1. c.key \in Keys /\ c.key # n
      BY <1>1, <1>2 DEF AK!Saves
    <2> QED
      BY <1>1, <1>2, <2>1 DEF AK!Copied, c
  <1>3. ASSUME NEW n \in Keys, AK!Create(n) PROVE AK!Copied(akWork[v])'
    BY <1>2, <1>3, KeyCreated
  <1>4. ASSUME NEW w \in Workers, NEW k \in Keys, NEW op \in AK!Calls, AK!Find(w, op, k)
        PROVE  AK!Copied(akWork[v])'
    <2>1. PICK r \in AK!Saves :
             /\ akWork' = [akWork EXCEPT ![w] = r] /\ r.key = k /\ r.copy = key[k] /\ r.version = version[k]
             /\ r.op = op
      <3>1. PICK x \in 0 .. MaxCalls :
               LET r == [op |-> op, key |-> k, copy |-> key[k], version |-> version[k], call |-> x]
               IN  r \in AK!Saves /\ akWork' = [akWork EXCEPT ![w] = r]
        BY <1>4, KeyFound
      <3> QED
        BY <3>1
    <2>2. UNCHANGED <<key, version>> /\ key[k].born /\ (op # "revoke" => key[k].active)
      BY <1>4, KeyFound
    <2>3. CASE v = w
      <3>1. akWork'[v] = r
        BY <2>1, <2>3 DEF AK!TypeOK
      <3> QED
        BY <2>1, <2>2, <3>1 DEF AK!Copied, AK!TypeOK
    <2>4. CASE v # w
      <3>1. akWork'[v] = akWork[v]
        BY <2>1, <2>4 DEF AK!TypeOK
      <3> QED
        BY <1>1, <2>2, <3>1 DEF AK!Copied
    <2> QED
      BY <2>3, <2>4
  <1>5. ASSUME NEW w \in Workers, AK!Save(w) PROVE AK!Copied(akWork[v])'
    <2>0. PICK r, new : KeySave(w, r, new)
      BY <1>5, KeySaved
    <2>1. v # w
      BY <2>0 DEF KeySave, AK!TypeOK, AK!Idle, AK!Calls
    <2>2. akWork'[v] = akWork[v]
      BY <2>0, <2>1 DEF KeySave, AK!TypeOK
    <2>3. c \in AK!Saves /\ r \in AK!Saves
      BY <1>1, <2>0, <2>2 DEF KeySave
    <2>4. r.copy.born
      BY <1>5, <2>0 DEF AK!Save, AK!CopiesTrue, AK!Copied, KeySave
    <2>5. /\ version'[r.key] = version[r.key] + 1 /\ key'[r.key].born
          /\ \A k \in Keys : k # r.key => version'[k] = version[k] /\ key'[k] = key[k]
      BY <2>0, <2>3, <2>4 DEF KeySave, AK!TypeOK, AK!Saves
    <2>6. version[r.key] \in Nat /\ c.version \in Nat
      BY <2>3 DEF AK!TypeOK, AK!Saves
    <2> HIDE DEF c
    <2>7. CASE c.key = r.key
      BY <1>1, <2>2, <2>5, <2>6, <2>7 DEF AK!Copied, c
    <2>8. CASE c.key # r.key
      BY <1>1, <2>2, <2>3, <2>5, <2>8 DEF AK!Copied, AK!Saves, c
    <2> QED
      BY <2>7, <2>8
  <1>6. ASSUME NEW w \in Workers, AK!InsertHeir(w) PROVE AK!Copied(akWork[v])'
    <2>0. PICK r, n : HeirInsert(w, r, n)
      BY <1>6, HeirInserted
    <2>1. /\ n \in Keys /\ ~key[n].born /\ \A k \in Keys : k # n => key'[k] = key[k]
          /\ akWork' = [akWork EXCEPT ![w] = AK!Idle] /\ version' = version
      BY <2>0 DEF HeirInsert
    <2>2. v # w
      BY <2>1 DEF AK!TypeOK, AK!Idle, AK!Calls
    <2>3. akWork'[v] = akWork[v]
      BY <2>1, <2>2 DEF AK!TypeOK
    <2> QED
      BY <1>2, <2>1, <2>3
  <1>7. ASSUME NEW w \in Workers, AK!Die(w) PROVE AK!Copied(akWork[v])'
    <2>1. v # w /\ UNCHANGED <<key, version>>
      BY <1>7 DEF AK!Die, AK!Goto, AK!TypeOK, AK!Idle, AK!Calls
    <2>2. akWork'[v] = akWork[v]
      BY <1>7, <2>1 DEF AK!Die, AK!Goto, AK!TypeOK
    <2> QED
      BY <1>1, <2>1, <2>2 DEF AK!Copied
  <1>8. CASE UNCHANGED AK!vars
    BY <1>1, <1>8 DEF AK!vars, AK!Copied
  <1> QED
    BY <1>3, <1>4, <1>5, <1>6, <1>7, <1>8 DEF AK!Next

(* Who is about to insert an heir of a key. *)
LEMMA InsertingStays ==
    ASSUME NEW w \in Workers, \A v \in Workers : v # w => akWork'[v] = akWork[v],
           akWork[w].op # "insert", akWork'[w].op # "insert"
    PROVE  \A k : AK!Inserting(k)' = AK!Inserting(k)
  BY DEF AK!Inserting

LEMMA InsertingByFind ==
    ASSUME AK!TypeOK, MaxCalls \in Nat, NEW w \in Workers, NEW k \in Keys, NEW op \in AK!Calls, AK!Find(w, op, k)
    PROVE  \A x : AK!Inserting(x)' = AK!Inserting(x)
  <1>1. PICK r \in AK!Saves : akWork' = [akWork EXCEPT ![w] = r]
    BY KeyFound
  <1>2. akWork'[w] = r /\ \A v \in Workers : v # w => akWork'[v] = akWork[v]
    BY <1>1 DEF AK!TypeOK
  <1>3. akWork[w].op # "insert" /\ akWork'[w].op # "insert"
    BY <1>2, KeyFound DEF AK!Idle, AK!Saves, AK!Calls
  <1> QED
    BY <1>2, <1>3, InsertingStays

LEMMA InsertingBySave ==
    ASSUME AK!TypeOK, NEW w \in Workers, NEW r, NEW new, KeySave(w, r, new)
    PROVE  /\ r.op # "rotate" => \A k : AK!Inserting(k)' = AK!Inserting(k)
           /\ r.op = "rotate" => /\ \A k : k # r.key => AK!Inserting(k)' = AK!Inserting(k)
                                 /\ AK!Inserting(r.key)' = AK!Inserting(r.key) \cup {w}
                                 /\ akWork'[w].copy = r.copy
           /\ w \notin AK!Inserting(r.key)
           /\ \A v \in Workers : v # w => akWork'[v] = akWork[v]
  <1>1. akWork[w].op # "insert" /\ \A v \in Workers : v # w => akWork'[v] = akWork[v]
    BY DEF KeySave, AK!TypeOK, AK!Saves, AK!Calls
  <1>2. CASE r.op # "rotate"
    <2>1. akWork'[w] = AK!Idle
      BY <1>2 DEF KeySave, AK!TypeOK
    <2>2. akWork'[w].op # "insert"
      BY <2>1 DEF AK!Idle
    <2> QED
      BY <1>1, <1>2, <2>2, InsertingStays DEF AK!Inserting
  <1>3. CASE r.op = "rotate"
    <2>1. akWork'[w] = [op |-> "insert", key |-> r.key, copy |-> r.copy]
      BY <1>3 DEF KeySave, AK!TypeOK
    <2>2. akWork'[w].op = "insert" /\ akWork'[w].key = r.key /\ akWork'[w].copy = r.copy
      BY <2>1
    <2> QED
      BY <1>1, <1>3, <2>2 DEF AK!Inserting
  <1> QED
    BY <1>2, <1>3

LEMMA InsertingByInsert ==
    ASSUME AK!TypeOK, NEW w \in Workers, akWork' = [akWork EXCEPT ![w] = AK!Idle]
    PROVE  \A k : AK!Inserting(k)' = AK!Inserting(k) \ {w}
  <1>1. akWork'[w].op # "insert" /\ \A v \in Workers : v # w => akWork'[v] = akWork[v]
    BY DEF AK!TypeOK, AK!Idle
  <1> QED
    BY <1>1 DEF AK!Inserting

(* A key that has ended, or that has heirs. *)
LEMMA EndedKept ==
    ASSUME AK!TypeOK, AK!CopiesTrue, AK!Ended, MaxCalls \in Nat, [AK!Next]_(AK!vars)
    PROVE  AK!Ended'
  <1> SUFFICES ASSUME NEW k \in Keys
               PROVE  /\ k \in ended' => key'[k].born /\ (key'[k].active => lost'[k] > 0)
                      /\ heir'[k] # {} \/ AK!Inserting(k)' # {} => k \in ended'
    BY DEF AK!Ended
  <1>0. /\ k \in ended => key[k].born /\ (key[k].active => lost[k] > 0)
        /\ heir[k] # {} \/ AK!Inserting(k) # {} => k \in ended
    BY DEF AK!Ended
  <1>1. ASSUME NEW n \in Keys, AK!Create(n)
        PROVE  /\ k \in ended' => key'[k].born /\ (key'[k].active => lost'[k] > 0)
               /\ heir'[k] # {} \/ AK!Inserting(k)' # {} => k \in ended'
    <2>1. AK!Inserting(k)' = AK!Inserting(k)
      BY <1>1, KeyCreated DEF AK!Inserting
    <2> QED
      BY <1>0, <1>1, <2>1, KeyCreated
  <1>2. ASSUME NEW w \in Workers, NEW x \in Keys, NEW op \in AK!Calls, AK!Find(w, op, x)
        PROVE  /\ k \in ended' => key'[k].born /\ (key'[k].active => lost'[k] > 0)
               /\ heir'[k] # {} \/ AK!Inserting(k)' # {} => k \in ended'
    BY <1>0, <1>2, InsertingByFind, KeyFound
  <1>3. ASSUME NEW w \in Workers, AK!Save(w)
        PROVE  /\ k \in ended' => key'[k].born /\ (key'[k].active => lost'[k] > 0)
               /\ heir'[k] # {} \/ AK!Inserting(k)' # {} => k \in ended'
    <2>0. PICK r, new : KeySave(w, r, new)
      BY <1>3, KeySaved
    <2>1. /\ r \in AK!Saves /\ key[r.key].born /\ r.copy.born /\ r.version <= version[r.key]
          /\ r.version = version[r.key] => r.copy = key[r.key]
      BY <1>3, <2>0 DEF AK!Save, AK!CopiesTrue, AK!Copied, KeySave
    <2>2. heir'[k] # {} \/ AK!Inserting(k)' # {} => k \in ended'
      <3>1. heir' = heir /\ ended \subseteq ended'
        BY <2>0 DEF KeySave
      <3>2. CASE AK!Inserting(k)' = AK!Inserting(k)
        BY <1>0, <3>1, <3>2
      <3>3. CASE r.op = "rotate" /\ k = r.key
        BY <2>0, <3>3 DEF KeySave
      <3> QED
        BY <2>0, <3>2, <3>3, InsertingBySave
    <2>3. CASE k # r.key
      <3>1. key'[k] = key[k] /\ lost'[k] = lost[k] /\ (k \in ended' => k \in ended)
        BY <2>0, <2>1, <2>3 DEF KeySave, AK!TypeOK, AK!Saves
      <3> QED
        BY <1>0, <2>2, <3>1
    <2>4. CASE k = r.key
      <3>1. key'[k].born
        BY <2>0, <2>1, <2>4 DEF KeySave
      <3>2. ASSUME k \in ended', key'[k].active PROVE lost'[k] > 0
        <4>1. r.op \notin {"revoke", "rotate"} /\ r.copy.active /\ k \in ended
          BY <2>0, <2>4, <3>2 DEF KeySave
        <4>2. lost'[k] = lost[k] + (version[k] - r.version) /\ lost[k] \in Nat /\ version[k] \in Nat
              /\ r.version \in Nat
          BY <2>0, <2>1, <2>4 DEF KeySave, AK!TypeOK, AK!Saves
        <4>3. lost[k] > 0 \/ r.version # version[k]
          BY <1>0, <2>1, <2>4, <4>1
        <4> QED
          BY <2>1, <2>4, <4>2, <4>3
      <3> QED
        BY <2>2, <3>1, <3>2
    <2> QED
      BY <2>3, <2>4
  <1>4. ASSUME NEW w \in Workers, AK!InsertHeir(w)
        PROVE  /\ k \in ended' => key'[k].born /\ (key'[k].active => lost'[k] > 0)
               /\ heir'[k] # {} \/ AK!Inserting(k)' # {} => k \in ended'
    <2>0. PICK r, n : HeirInsert(w, r, n)
      BY <1>4, HeirInserted
    <2>1. /\ n \in Keys /\ ~key[n].born
          /\ \A x \in Keys : x # n => key'[x] = key[x]
          /\ heir' = [heir EXCEPT ![r.key] = heir[r.key] \cup {n}]
          /\ akWork' = [akWork EXCEPT ![w] = AK!Idle]
          /\ UNCHANGED <<lost, ended>>
      BY <2>0 DEF HeirInsert
    <2>2. AK!Inserting(k)' = AK!Inserting(k) \ {w}
      BY <2>1, InsertingByInsert
    <2>3. w \in AK!Inserting(r.key) /\ r.key \in Keys
      BY <2>0 DEF AK!Inserting, AK!Inserts, HeirInsert
    <2>4. k \in ended => key'[k] = key[k]
      BY <1>0, <2>1
    <2>5. heir'[k] # {} => heir[k] # {} \/ k = r.key
      BY <2>1 DEF AK!TypeOK
    <2> QED
      BY <1>0, <2>1, <2>2, <2>3, <2>4, <2>5
  <1>5. ASSUME NEW w \in Workers, AK!Die(w)
        PROVE  /\ k \in ended' => key'[k].born /\ (key'[k].active => lost'[k] > 0)
               /\ heir'[k] # {} \/ AK!Inserting(k)' # {} => k \in ended'
    <2>1. AK!Inserting(k)' = AK!Inserting(k) \ {w}
      BY <1>5, InsertingByInsert DEF AK!Die, AK!Goto
    <2> QED
      BY <1>0, <1>5, <2>1 DEF AK!Die
  <1>6. CASE UNCHANGED AK!vars
    <2>1. AK!Inserting(k)' = AK!Inserting(k)
      BY <1>6 DEF AK!vars, AK!Inserting
    <2> QED
      BY <1>0, <1>6, <2>1 DEF AK!vars
  <1> QED
    BY <1>1, <1>2, <1>3, <1>4, <1>5, <1>6 DEF AK!Next

(* How many heirs a key has and gets. *)
LEMMA SameCount ==
    ASSUME NEW S PROVE AK!Cardinality(S) = Cardinality(S) /\ (AK!IsFiniteSet(S) <=> IsFiniteSet(S))
  <1>1. AK!Cardinality(S) = Cardinality(S)
    BY DEF AK!Cardinality, Cardinality
  <1>2. AK!IsFiniteSet(S) <=> IsFiniteSet(S)
    BY Zenon DEF AK!IsFiniteSet, IsFiniteSet
  <1> QED
    BY <1>1, <1>2

LEMMA CountedAfter ==
    ASSUME NEW k, NEW H, NEW I, H = Cardinality(heir'[k]), I = Cardinality(AK!Inserting(k)')
    PROVE  AK!HeirCount(k)' = H + I
  BY SameCount DEF AK!HeirCount

LEMMA HeirsCounted ==
    ASSUME AK!HeirsFew, IsFiniteSet(Workers), NEW k \in Keys
    PROVE  /\ IsFiniteSet(heir[k]) /\ IsFiniteSet(AK!Inserting(k))
           /\ Cardinality(heir[k]) \in Nat /\ Cardinality(AK!Inserting(k)) \in Nat
           /\ Cardinality(heir[k]) + Cardinality(AK!Inserting(k)) <= lost[k] + 1
           /\ key[k].active => Cardinality(heir[k]) + Cardinality(AK!Inserting(k)) <= lost[k]
  <1>1. AK!Inserting(k) \in SUBSET Workers
    BY DEF AK!Inserting
  <1>2. IsFiniteSet(AK!Inserting(k))
    BY <1>1, FS_Subset
  <1>3. IsFiniteSet(heir[k])
    BY SameCount DEF AK!HeirsFew
  <1>4. Cardinality(heir[k]) \in Nat /\ Cardinality(AK!Inserting(k)) \in Nat
    BY <1>2, <1>3, FS_CardinalityType
  <1> QED
    BY <1>2, <1>3, <1>4, SameCount DEF AK!HeirsFew, AK!HeirCount

LEMMA HeirsStayFew ==
    ASSUME AK!HeirsFew, NEW k \in Keys, heir'[k] = heir[k], AK!Inserting(k)' = AK!Inserting(k),
           lost'[k] = lost[k], key'[k] = key[k]
    PROVE  /\ IsFiniteSet(heir'[k]) /\ AK!HeirCount(k)' <= lost'[k] + 1
           /\ key'[k].active => AK!HeirCount(k)' <= lost'[k]
  <1>1. AK!HeirCount(k)' = AK!HeirCount(k)
    BY DEF AK!HeirCount
  <1> QED
    BY <1>1, SameCount DEF AK!HeirsFew

LEMMA NoHeirs ==
    ASSUME AK!TypeOK, NEW k \in Keys, heir'[k] = {}, AK!Inserting(k)' = {}, lost' = lost
    PROVE  /\ IsFiniteSet(heir'[k]) /\ AK!HeirCount(k)' <= lost'[k] + 1
           /\ key'[k].active => AK!HeirCount(k)' <= lost'[k]
  <1>1. lost[k] \in Nat
    BY DEF AK!TypeOK
  <1>2. AK!HeirCount(k)' = 0 + 0
    BY FS_EmptySet, CountedAfter
  <1> QED
    BY <1>1, <1>2, FS_EmptySet

LEMMA HeirsFewKept ==
    ASSUME AK!TypeOK, AK!CopiesTrue, AK!Ended, AK!HeirsFew, IsFiniteSet(Workers), MaxCalls \in Nat,
           [AK!Next]_(AK!vars)
    PROVE  AK!HeirsFew'
  <1> SUFFICES ASSUME NEW k \in Keys
               PROVE  /\ IsFiniteSet(heir'[k]) /\ AK!HeirCount(k)' <= lost'[k] + 1
                      /\ key'[k].active => AK!HeirCount(k)' <= lost'[k]
    BY SameCount DEF AK!HeirsFew
  <1> DEFINE H == Cardinality(heir[k])
             I == Cardinality(AK!Inserting(k))
             Few == /\ IsFiniteSet(heir'[k]) /\ AK!HeirCount(k)' <= lost'[k] + 1
                    /\ key'[k].active => AK!HeirCount(k)' <= lost'[k]
  <1>0. /\ IsFiniteSet(heir[k]) /\ IsFiniteSet(AK!Inserting(k)) /\ H \in Nat /\ I \in Nat
        /\ H + I <= lost[k] + 1
        /\ key[k].active => H + I <= lost[k]
        /\ lost[k] \in Nat
    BY HeirsCounted DEF AK!TypeOK
  <1>1. ASSUME NEW n \in Keys, AK!Create(n) PROVE Few
    <2>1. AK!Inserting(k)' = AK!Inserting(k) /\ heir' = heir /\ lost' = lost
      BY <1>1, KeyCreated DEF AK!Inserting
    <2>2. CASE k = n
      <3>1. heir[k] = {} /\ AK!Inserting(k) = {}
        BY <1>1, <2>2, KeyCreated DEF AK!Ended
      <3> QED
        BY <2>1, <3>1, NoHeirs
    <2>3. CASE k # n
      BY <1>1, <2>1, <2>3, KeyCreated, HeirsStayFew
    <2> QED
      BY <2>2, <2>3
  <1>2. ASSUME NEW w \in Workers, NEW x \in Keys, NEW op \in AK!Calls, AK!Find(w, op, x) PROVE Few
    BY <1>2, InsertingByFind, KeyFound, HeirsStayFew
  <1>3. ASSUME NEW w \in Workers, AK!Save(w) PROVE Few
    <2>0. PICK r, new : KeySave(w, r, new)
      BY <1>3, KeySaved
    <2>1. /\ r \in AK!Saves /\ key[r.key].born /\ r.version <= version[r.key]
          /\ r.version = version[r.key] => r.copy = key[r.key]
          /\ r.op # "revoke" => r.copy.active
      BY <1>3, <2>0 DEF AK!Save, AK!CopiesTrue, AK!Copied, KeySave
    <2>2. heir' = heir
      BY <2>0 DEF KeySave
    <2>3. CASE k # r.key
      <3>1. key'[k] = key[k] /\ lost'[k] = lost[k] /\ AK!Inserting(k)' = AK!Inserting(k)
        <4>1. key'[k] = key[k] /\ lost'[k] = lost[k]
          BY <2>0, <2>1, <2>3 DEF KeySave, AK!TypeOK, AK!Saves
        <4>2. AK!Inserting(k)' = AK!Inserting(k)
          BY <2>0, <2>3, InsertingBySave
        <4> QED
          BY <4>1, <4>2
      <3> QED
        BY <2>2, <3>1, HeirsStayFew
    <2>4. CASE k = r.key
      <3>1. lost'[k] = lost[k] + (version[k] - r.version) /\ version[k] \in Nat /\ r.version \in Nat
        BY <2>0, <2>1, <2>4 DEF KeySave, AK!TypeOK, AK!Saves
      <3>2. \/ r.version = version[k] /\ lost'[k] = lost[k]
            \/ lost'[k] \in Nat /\ lost'[k] >= lost[k] + 1
        BY <1>0, <2>1, <2>4, <3>1
      <3>3. CASE r.op = "rotate"
        <4>1. ~key'[k].active
          BY <2>0, <2>4, <3>3 DEF KeySave
        <4>2. Cardinality(AK!Inserting(k)') = I + 1
          <5>1. AK!Inserting(k)' = AK!Inserting(k) \cup {w} /\ w \notin AK!Inserting(k)
            BY <2>0, <2>4, <3>3, InsertingBySave
          <5> QED
            BY <1>0, <5>1, FS_AddElement
        <4>3. AK!HeirCount(k)' = H + I + 1
          BY <1>0, <2>2, <4>2, CountedAfter
        <4>4. H + I <= lost'[k]
          <5>1. CASE r.version = version[k] /\ lost'[k] = lost[k]
            <6>1. key[k].active
              BY <2>1, <2>4, <3>3, <5>1
            <6> QED
              BY <1>0, <5>1, <6>1
          <5> QED
            BY <1>0, <3>2, <5>1
        <4> QED
          BY <1>0, <2>2, <3>2, <4>1, <4>3, <4>4
      <3>4. CASE r.op # "rotate"
        <4>1. AK!HeirCount(k)' = H + I
          <5>1. AK!Inserting(k)' = AK!Inserting(k)
            BY <2>0, <3>4, InsertingBySave
          <5> QED
            BY <2>2, <5>1, CountedAfter
        <4>2. H + I <= lost'[k] + 1
          BY <1>0, <3>2
        <4>3. key'[k].active => H + I <= lost'[k]
          <5>1. CASE r.version = version[k] /\ lost'[k] = lost[k]
            <6>1. key'[k].active => key[k].active
              BY <2>0, <2>1, <2>4, <5>1 DEF KeySave
            <6> QED
              BY <1>0, <5>1, <6>1
          <5> QED
            BY <1>0, <3>2, <5>1
        <4> QED
          BY <1>0, <2>2, <4>1, <4>2, <4>3
      <3> QED
        BY <3>3, <3>4
    <2> QED
      BY <2>3, <2>4
  <1>4. ASSUME NEW w \in Workers, AK!InsertHeir(w) PROVE Few
    <2>0. PICK r, n : HeirInsert(w, r, n)
      BY <1>4, HeirInserted
    <2>1. /\ n \in Keys /\ ~key[n].born /\ r.key \in Keys /\ lost' = lost
          /\ \A x \in Keys : x # n => key'[x] = key[x]
          /\ heir' = [heir EXCEPT ![r.key] = heir[r.key] \cup {n}]
          /\ w \in AK!Inserting(r.key) /\ \A x : x # r.key => w \notin AK!Inserting(x)
      BY <2>0 DEF HeirInsert, AK!Inserts, AK!Inserting
    <2>2. AK!Inserting(k)' = AK!Inserting(k) \ {w}
      BY <2>0, InsertingByInsert DEF HeirInsert
    <2>3. r.key # n /\ heir[n] = {} /\ AK!Inserting(n) = {}
      BY <2>1 DEF AK!Ended
    <2>4. CASE k = n
      <3>1. heir'[k] = {} /\ AK!Inserting(k)' = {}
        BY <2>1, <2>2, <2>3, <2>4 DEF AK!TypeOK
      <3> QED
        BY <2>1, <3>1, NoHeirs
    <2>5. CASE k = r.key
      <3>1. key'[k] = key[k] /\ heir'[k] = heir[k] \cup {n}
        BY <2>1, <2>3, <2>5 DEF AK!TypeOK
      <3>2. IsFiniteSet(heir'[k]) /\ Cardinality(heir'[k]) \in {H, H + 1}
        <4>1. IsFiniteSet(heir[k] \cup {n}) /\ Cardinality(heir[k] \cup {n}) \in {H, H + 1}
          BY <1>0, FS_AddElement
        <4> QED
          BY <3>1, <4>1
      <3>3. Cardinality(AK!Inserting(k)') = I - 1
        BY <1>0, <2>1, <2>2, <2>5, FS_RemoveElement
      <3>4. AK!HeirCount(k)' <= H + I /\ AK!HeirCount(k)' \in Int
        <4>1. AK!HeirCount(k)' = Cardinality(heir'[k]) + Cardinality(AK!Inserting(k)')
          BY CountedAfter
        <4> QED
          BY <1>0, <3>2, <3>3, <4>1
      <3> QED
        BY <1>0, <2>1, <3>1, <3>2, <3>4
    <2>6. CASE k # n /\ k # r.key
      <3>1. key'[k] = key[k] /\ heir'[k] = heir[k] /\ AK!Inserting(k)' = AK!Inserting(k)
        BY <2>1, <2>2, <2>6 DEF AK!TypeOK
      <3> QED
        BY <2>1, <3>1, HeirsStayFew
    <2> QED
      BY <2>4, <2>5, <2>6
  <1>5. ASSUME NEW w \in Workers, AK!Die(w) PROVE Few
    <2>1. AK!Inserting(k)' = AK!Inserting(k) \ {w} /\ UNCHANGED <<heir, lost, key>>
      BY <1>5, InsertingByInsert DEF AK!Die, AK!Goto
    <2>2. Cardinality(AK!Inserting(k)') \in {I, I - 1}
      BY <1>0, <2>1, FS_RemoveElement
    <2>3. AK!HeirCount(k)' <= H + I /\ AK!HeirCount(k)' \in Int
      <3>1. AK!HeirCount(k)' = H + Cardinality(AK!Inserting(k)')
        BY <2>1, CountedAfter
      <3> QED
        BY <1>0, <2>2, <3>1
    <2> QED
      BY <1>0, <2>1, <2>3
  <1>6. CASE UNCHANGED AK!vars
    <2>1. AK!Inserting(k)' = AK!Inserting(k)
      BY <1>6 DEF AK!vars, AK!Inserting
    <2> QED
      BY <1>6, <2>1, HeirsStayFew DEF AK!vars
  <1> QED
    BY <1>1, <1>2, <1>3, <1>4, <1>5, <1>6 DEF AK!Next

(* The settings of a key and of its heirs. *)
LEMMA EndedNotUpdated ==
    ASSUME AK!TypeOK, AK!CopiesTrue, AK!Ended, NEW w \in Workers, AK!Save(w), NEW r, NEW new, KeySave(w, r, new),
           lost'[r.key] = 0
    PROVE  /\ r.key \in Keys /\ lost[r.key] = 0 /\ r.copy = key[r.key]
           /\ r.key \in ended => r.op # "update"
  <1>1. /\ r \in AK!Saves /\ r.version <= version[r.key]
        /\ r.version = version[r.key] => r.copy = key[r.key]
        /\ r.op # "revoke" => r.copy.active
    BY DEF AK!Save, AK!CopiesTrue, AK!Copied, KeySave
  <1>2. /\ r.key \in Keys /\ lost'[r.key] = lost[r.key] + (version[r.key] - r.version)
        /\ lost[r.key] \in Nat /\ version[r.key] \in Nat /\ r.version \in Nat
    BY <1>1 DEF KeySave, AK!TypeOK, AK!Saves
  <1>3. lost[r.key] = 0 /\ r.version = version[r.key]
    <2> DEFINE l == lost[r.key]
               v == version[r.key]
               u == r.version
    <2>1. l \in Nat /\ v \in Nat /\ u \in Nat /\ u <= v /\ l + (v - u) = 0
      BY <1>1, <1>2
    <2> HIDE DEF l, v, u
    <2>2. l = 0 /\ u = v
      BY <2>1
    <2> QED
      BY <2>2 DEF l, v, u
  <1>4. ASSUME r.key \in ended, r.op = "update" PROVE FALSE
    <2>1. key[r.key].active
      BY <1>1, <1>3, <1>4
    <2>2. lost[r.key] > 0
      BY <1>2, <1>4, <2>1 DEF AK!Ended
    <2> QED
      BY <1>3, <2>2
  <1> QED
    BY <1>1, <1>2, <1>3, <1>4

LEMMA SettingsSame ==
    ASSUME AK!SettingsKept, NEW k \in Keys, key'[k] = key[k], lost'[k] = lost[k], wanted'[k] = wanted[k],
           \A w \in AK!Inserting(k)' : w \in AK!Inserting(k) /\ akWork'[w] = akWork[w]
    PROVE  lost'[k] = 0 => /\ key'[k].settings = wanted'[k]
                           /\ \A w \in AK!Inserting(k)' : akWork'[w].copy.settings = wanted'[k]
  BY DEF AK!SettingsKept

LEMMA SettingsKeptOn ==
    ASSUME AK!TypeOK, AK!CopiesTrue, AK!Ended, AK!SettingsKept, MaxCalls \in Nat, [AK!Next]_(AK!vars)
    PROVE  AK!SettingsKept'
  <1> SUFFICES ASSUME NEW k \in Keys
               PROVE  lost'[k] = 0 => /\ key'[k].settings = wanted'[k]
                                      /\ \A w \in AK!Inserting(k)' : akWork'[w].copy.settings = wanted'[k]
    BY DEF AK!SettingsKept
  <1> DEFINE Kept == lost'[k] = 0 => /\ key'[k].settings = wanted'[k]
                                     /\ \A w \in AK!Inserting(k)' : akWork'[w].copy.settings = wanted'[k]
  <1>1. ASSUME NEW n \in Keys, AK!Create(n) PROVE Kept
    <2>1. AK!Inserting(k)' = AK!Inserting(k) /\ UNCHANGED <<akWork, lost, wanted>>
      BY <1>1, KeyCreated DEF AK!Inserting
    <2>2. key'[k].settings = key[k].settings
      BY <1>1, KeyCreated DEF AK!TypeOK, AK!Unborn
    <2> QED
      BY <2>1, <2>2 DEF AK!SettingsKept
  <1>2. ASSUME NEW w \in Workers, NEW x \in Keys, NEW op \in AK!Calls, AK!Find(w, op, x) PROVE Kept
    <2>1. UNCHANGED <<key, lost, wanted>> /\ AK!Inserting(k)' = AK!Inserting(k) /\ akWork[w] = AK!Idle
      BY <1>2, InsertingByFind, KeyFound
    <2>2. \A v \in AK!Inserting(k) : v # w /\ v \in Workers
      BY <2>1 DEF AK!Inserting, AK!Idle
    <2>3. \A v \in AK!Inserting(k) : akWork'[v] = akWork[v]
      BY <1>2, <2>2 DEF AK!Find, AK!Goto, AK!TypeOK
    <2> QED
      BY <2>1, <2>3, SettingsSame
  <1>3. ASSUME NEW w \in Workers, AK!Save(w), lost'[k] = 0
        PROVE  /\ key'[k].settings = wanted'[k]
               /\ \A v \in AK!Inserting(k)' : akWork'[v].copy.settings = wanted'[k]
    <2>0. PICK r, new : KeySave(w, r, new)
      BY <1>3, KeySaved
    <2>1. \A v \in Workers : v # w => akWork'[v] = akWork[v]
      BY <2>0, InsertingBySave
    <2>2. CASE k # r.key
      <3>1. key'[k] = key[k] /\ lost'[k] = lost[k] /\ wanted'[k] = wanted[k]
        BY <2>0, <2>2 DEF KeySave, AK!TypeOK, AK!Saves
      <3>2. AK!Inserting(k)' = AK!Inserting(k)
        BY <2>0, <2>2, InsertingBySave
      <3>3. w \notin AK!Inserting(k)
        BY <2>0, <2>2 DEF KeySave, AK!Inserting
      <3> QED
        BY <1>3, <2>1, <3>1, <3>2, <3>3 DEF AK!SettingsKept, AK!Inserting
    <2>3. CASE k = r.key
      <3>1. /\ lost[k] = 0 /\ r.copy = key[k]
            /\ r.op = "update" => k \notin ended
        BY <1>3, <2>0, <2>3, EndedNotUpdated
      <3>2. key[k].settings = wanted[k] /\ \A v \in AK!Inserting(k) : akWork[v].copy.settings = wanted[k]
        BY <3>1 DEF AK!SettingsKept
      <3>3. w \notin AK!Inserting(k) /\ \A v \in AK!Inserting(k) : akWork'[v] = akWork[v]
        BY <2>0, <2>1, <2>3, InsertingBySave DEF AK!Inserting
      <3>4. CASE r.op = "update"
        <4>1. AK!Inserting(k) = {} /\ AK!Inserting(k)' = AK!Inserting(k)
          BY <2>0, <3>1, <3>4, InsertingBySave DEF AK!Ended
        <4>2. key'[k].settings = r.call /\ wanted'[k] = r.call
          BY <2>0, <2>3, <3>4 DEF KeySave, AK!TypeOK, AK!Saves
        <4> QED
          BY <4>1, <4>2
      <3>5. CASE r.op # "update"
        <4>1. key'[k].settings = key[k].settings /\ wanted'[k] = wanted[k]
          BY <2>0, <2>3, <3>1, <3>5 DEF KeySave
        <4>2. \A v \in AK!Inserting(k)' : v \in AK!Inserting(k) \/ (v = w /\ akWork'[w].copy = r.copy)
          BY <2>0, <2>3, InsertingBySave
        <4> QED
          BY <3>1, <3>2, <3>3, <4>1, <4>2
      <3> QED
        BY <3>4, <3>5
    <2> QED
      BY <2>2, <2>3
  <1>4. ASSUME NEW w \in Workers, AK!InsertHeir(w) PROVE Kept
    <2>0. PICK r, n : HeirInsert(w, r, n)
      BY <1>4, HeirInserted
    <2>1. AK!Inserting(k)' = AK!Inserting(k) \ {w} /\ \A v \in Workers : v # w => akWork'[v] = akWork[v]
      BY <2>0, InsertingByInsert DEF HeirInsert, AK!TypeOK
    <2>2. CASE k = n
      <3>1. AK!Inserting(k)' = {}
        BY <2>0, <2>1, <2>2 DEF AK!Ended, HeirInsert
      <3>2. key'[k].settings = r.copy.settings /\ wanted'[k] = r.copy.settings
        BY <2>0, <2>2 DEF HeirInsert, AK!TypeOK
      <3> QED
        BY <3>1, <3>2
    <2>3. CASE k # n
      <3>1. key'[k] = key[k] /\ lost'[k] = lost[k] /\ wanted'[k] = wanted[k]
        BY <2>0, <2>3 DEF HeirInsert, AK!TypeOK
      <3> QED
        BY <2>1, <3>1, SettingsSame DEF AK!Inserting
    <2> QED
      BY <2>2, <2>3
  <1>5. ASSUME NEW w \in Workers, AK!Die(w) PROVE Kept
    <2>1. AK!Inserting(k)' = AK!Inserting(k) \ {w} /\ \A v \in Workers : v # w => akWork'[v] = akWork[v]
      BY <1>5, InsertingByInsert DEF AK!Die, AK!Goto, AK!TypeOK
    <2> QED
      BY <1>5, <2>1, SettingsSame DEF AK!Die, AK!Inserting
  <1>6. CASE UNCHANGED AK!vars
    BY <1>6, SettingsSame DEF AK!vars, AK!Inserting
  <1> QED
    BY <1>1, <1>2, <1>3, <1>4, <1>5, <1>6 DEF AK!Next

LEMMA HeirsAlikeKept ==
    ASSUME AK!TypeOK, AK!CopiesTrue, AK!Ended, AK!SettingsKept, AK!HeirsAlike, MaxCalls \in Nat,
           [AK!Next]_(AK!vars)
    PROVE  AK!HeirsAlike'
  <1> SUFFICES ASSUME NEW k \in Keys, NEW n \in heir'[k]
               PROVE  key'[n].born /\ (lost'[k] = 0 /\ version'[n] = 0 => key'[n].settings = wanted'[k])
    BY DEF AK!HeirsAlike
  <1> DEFINE Alike == key'[n].born /\ (lost'[k] = 0 /\ version'[n] = 0 => key'[n].settings = wanted'[k])
  <1>0. ASSUME n \in heir[k]
        PROVE  n \in Keys /\ key[n].born /\ k \in ended
               /\ (lost[k] = 0 /\ version[n] = 0 => key[n].settings = wanted[k])
    BY <1>0 DEF AK!HeirsAlike, AK!Ended, AK!TypeOK
  <1>1. ASSUME NEW x \in Keys, AK!Create(x) PROVE Alike
    BY <1>0, <1>1, KeyCreated
  <1>2. ASSUME NEW w \in Workers, NEW x \in Keys, NEW op \in AK!Calls, AK!Find(w, op, x) PROVE Alike
    BY <1>0, <1>2, KeyFound
  <1>3. ASSUME NEW w \in Workers, AK!Save(w) PROVE Alike
    <2>0. PICK r, new : KeySave(w, r, new)
      BY <1>3, KeySaved
    <2>1. n \in heir[k]
      BY <2>0 DEF KeySave
    <2>2. r \in AK!Saves /\ r.copy.born
      BY <1>3, <2>0 DEF AK!Save, AK!CopiesTrue, AK!Copied, KeySave
    <2>3. key'[n].born
      BY <1>0, <2>0, <2>1, <2>2 DEF KeySave
    <2>4. CASE n = r.key
      <3>1. version'[n] = version[n] + 1 /\ version[n] \in Nat
        BY <1>0, <2>0, <2>1, <2>4 DEF KeySave, AK!TypeOK
      <3> QED
        BY <2>3, <3>1
    <2>5. CASE n # r.key
      <3>1. key'[n] = key[n] /\ version'[n] = version[n]
        BY <1>0, <2>0, <2>1, <2>5 DEF KeySave, AK!TypeOK
      <3>2. ASSUME lost'[k] = 0 PROVE lost[k] = 0 /\ wanted'[k] = wanted[k]
        <4>1. CASE k = r.key
          <5>1. lost[k] = 0 /\ r.op # "update"
            BY <1>0, <1>3, <2>0, <2>1, <3>2, <4>1, EndedNotUpdated
          <5> QED
            BY <2>0, <5>1 DEF KeySave
        <4>2. CASE k # r.key
          BY <2>0, <3>2, <4>2 DEF KeySave, AK!TypeOK, AK!Saves
        <4> QED
          BY <4>1, <4>2
      <3> QED
        BY <1>0, <2>1, <2>3, <3>1, <3>2
    <2> QED
      BY <2>4, <2>5
  <1>4. ASSUME NEW w \in Workers, AK!InsertHeir(w) PROVE Alike
    <2>0. PICK r, x : HeirInsert(w, r, x)
      BY <1>4, HeirInserted
    <2>1. /\ r.key \in Keys /\ x \in Keys /\ ~key[x].born /\ w \in AK!Inserting(r.key) /\ akWork[w] = r
          /\ heir' = [heir EXCEPT ![r.key] = heir[r.key] \cup {x}] /\ UNCHANGED <<lost, version>>
      BY <2>0 DEF HeirInsert, AK!Inserts, AK!Inserting
    <2>2. k # x
      <3>1. heir[x] = {} /\ r.key # x
        BY <2>1 DEF AK!Ended
      <3> QED
        BY <2>1, <3>1 DEF AK!TypeOK
    <2>3. wanted'[k] = wanted[k]
      BY <2>0, <2>2 DEF HeirInsert, AK!TypeOK
    <2>4. CASE n \in heir[k]
      <3>1. key'[n] = key[n]
        BY <1>0, <2>0, <2>1, <2>4 DEF HeirInsert
      <3> QED
        BY <1>0, <2>1, <2>3, <2>4, <3>1
    <2>5. CASE n \notin heir[k]
      <3>1. n = x /\ k = r.key
        BY <2>1, <2>5 DEF AK!TypeOK
      <3>2. key'[n].born /\ key'[n].settings = r.copy.settings
        BY <2>0, <3>1 DEF HeirInsert
      <3>3. lost[k] = 0 => r.copy.settings = wanted[k]
        BY <2>1, <3>1 DEF AK!SettingsKept
      <3> QED
        BY <2>1, <2>3, <3>2, <3>3
    <2> QED
      BY <2>4, <2>5
  <1>5. CASE (\E w \in Workers : AK!Die(w)) \/ UNCHANGED AK!vars
    BY <1>0, <1>5 DEF AK!Die, AK!vars
  <1> QED
    BY <1>1, <1>2, <1>3, <1>4, <1>5 DEF AK!Next

KeysInv == AK!CopiesTrue /\ AK!Ended /\ AK!HeirsFew /\ AK!SettingsKept /\ AK!HeirsAlike

LEMMA InitKeys ==
    ASSUME AK!Init, MaxCalls \in Nat, AkMaxFaults \in Nat PROVE AK!TypeOK /\ KeysInv
  <1>1. \A k : AK!Inserting(k) = {}
    BY DEF AK!Init, AK!Inserting, AK!Idle
  <1>2. AK!TypeOK
    BY DEF AK!Init, AK!TypeOK, AK!Row, AK!Unborn, AK!Idle
  <1>3. AK!CopiesTrue
    BY DEF AK!Init, AK!CopiesTrue, AK!Idle, AK!Calls
  <1>4. AK!Ended /\ AK!SettingsKept /\ AK!HeirsAlike
    BY <1>1 DEF AK!Init, AK!Ended, AK!SettingsKept, AK!HeirsAlike, AK!Unborn
  <1>5. AK!HeirsFew
    <2> SUFFICES ASSUME NEW k \in Keys
                 PROVE  IsFiniteSet(heir[k]) /\ AK!HeirCount(k) <= lost[k] + 1 /\ AK!HeirCount(k) <= lost[k]
      BY SameCount DEF AK!HeirsFew
    <2>1. heir[k] = {} /\ lost[k] = 0
      BY DEF AK!Init
    <2>2. AK!HeirCount(k) = 0 + 0
      BY <1>1, <2>1, SameCount, FS_EmptySet DEF AK!HeirCount
    <2> QED
      BY <2>1, <2>2, FS_EmptySet
  <1> QED
    BY <1>2, <1>3, <1>4, <1>5 DEF KeysInv

LEMMA KeysEnd ==
    ASSUME AK!TypeOK, KeysInv, IsFiniteSet(Workers) PROVE AK!KeysEndForGood
  <1>1. \A k \in ended : key[k].active => lost[k] > 0
    BY DEF KeysInv, AK!Ended, AK!TypeOK
  <1>2. ASSUME NEW k \in Keys PROVE AK!Cardinality(heir[k]) <= 1 + lost[k]
    <2>1. /\ Cardinality(heir[k]) \in Nat /\ Cardinality(AK!Inserting(k)) \in Nat /\ lost[k] \in Nat
          /\ Cardinality(heir[k]) + Cardinality(AK!Inserting(k)) <= lost[k] + 1
      BY HeirsCounted DEF KeysInv, AK!TypeOK
    <2> QED
      BY <2>1, SameCount
  <1>3. \A k \in Keys : \A n \in heir[k] : lost[k] = 0 /\ version[n] = 0 => key[n].settings = wanted[k]
    BY DEF KeysInv, AK!HeirsAlike
  <1> QED
    BY <1>1, <1>2, <1>3 DEF AK!KeysEndForGood

LEMMA NextKeys ==
    ASSUME AK!TypeOK, KeysInv, IsFiniteSet(Workers), MaxCalls \in Nat, AkMaxFaults \in Nat,
           [AK!Next]_(AK!vars)
    PROVE  AK!TypeOK' /\ KeysInv'
  <1>1. AK!CopiesTrue /\ AK!Ended /\ AK!HeirsFew /\ AK!SettingsKept /\ AK!HeirsAlike
    BY DEF KeysInv
  <1>2. AK!TypeOK'
    BY <1>1, KeyTypes
  <1>3. AK!CopiesTrue' /\ AK!Ended'
    BY <1>1, CopiesKept, EndedKept
  <1>4. AK!HeirsFew'
    BY <1>1, HeirsFewKept
  <1>5. AK!SettingsKept' /\ AK!HeirsAlike'
    BY <1>1, SettingsKeptOn, HeirsAlikeKept
  <1> QED
    BY <1>2, <1>3, <1>4, <1>5 DEF KeysInv

(* The keys, their versions and the requests about them keep to their      *)
(* types (api-keys.service.ts:34-211).                                     *)
THEOREM KeyTypesCorrect ==
    ASSUME IsFiniteSet(Workers), MaxCalls \in Nat, AkMaxFaults \in Nat
    PROVE  AK!Spec => []AK!TypeOK
  <1>1. AK!Init => AK!TypeOK /\ KeysInv
    BY InitKeys
  <1>2. AK!TypeOK /\ KeysInv /\ [AK!Next]_(AK!vars) => AK!TypeOK' /\ KeysInv'
    BY NextKeys
  <1> QED
    BY <1>1, <1>2, PTL DEF AK!Spec

(* An API key whose revocation or rotation was saved stays inactive, a     *)
(* rotation leaves one heir and the heir has the settings last given,      *)
(* but for one exception for each save that overwrote another, for any     *)
(* number of keys and of requests at once (api-keys.service.ts:102-211).   *)
THEOREM KeysStayEnded ==
    ASSUME IsFiniteSet(Workers), MaxCalls \in Nat, AkMaxFaults \in Nat
    PROVE  AK!Spec => []AK!KeysEndForGood
  <1>1. AK!Init => AK!TypeOK /\ KeysInv
    BY InitKeys
  <1>2. AK!TypeOK /\ KeysInv /\ [AK!Next]_(AK!vars) => AK!TypeOK' /\ KeysInv'
    BY NextKeys
  <1>3. AK!TypeOK /\ KeysInv => AK!KeysEndForGood
    BY KeysEnd
  <1> QED
    BY <1>1, <1>2, <1>3, PTL DEF AK!Spec
=============================================================================
