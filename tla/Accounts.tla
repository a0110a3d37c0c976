------------------------------- MODULE Accounts -------------------------------
(***************************************************************************)
(* The row of one user as logins, the lockout, two-factor authentication   *)
(* and the profile change it.  Every change is a read of the whole row     *)
(* and, some awaits later, a save of the copy: what happened to the row    *)
(* meanwhile is overwritten.  A secret and a set of backup codes are the   *)
(* number of the call that made them; a set holds one code.  Calls that    *)
(* are refused change nothing and are left out, as are the columns that no *)
(* condition here reads.                                                   *)
(***************************************************************************)
EXTENDS Naturals, Sequences, FiniteSets

CONSTANTS
    Workers,      \* requests being served at a time
    Threshold,    \* LOGIN_MAX_ATTEMPTS
    MaxTime,      \* bound: times a lock duration passes
    MaxCalls      \* bound: requests in all

VARIABLES
    row,         \* the row of users
    now,
    work,        \* per worker, the request it serves
    late,        \* saves that nobody awaits
    version,     \* history: saves of the row so far
    lost,        \* history: saves that were overwritten unseen
    guesses,     \* history: wrong passwords and codes since the count was reset
    uses,        \* history: logins let in with a backup code
    verified,    \* history: secrets a code of which was shown
    crossed,     \* history: two-factor was set up while on, or verified while set up or disabled
    calls
vars == <<row, now, work, late, version, lost, guesses, uses, verified, crossed, calls>>

Calls == 1 .. MaxCalls
Rows == [failed : 0 .. MaxCalls, lockedUntil : 0 .. MaxTime + 1, enabled : BOOLEAN,
         secret : 0 .. MaxCalls, codes : SUBSET Calls]
Changes == {"fail", "reset", "consume", "secret", "codes", "enable", "disable", "regenerate",
            "unlock", "other"}
NoCopy == [none |-> TRUE]
Idle == [op |-> "idle", call |-> 0, todo |-> <<>>, user |-> NoCopy, copy |-> NoCopy, version |-> 0]

TypeOK ==
    /\ row \in Rows /\ now \in 0 .. MaxTime /\ calls \in 0 .. MaxCalls
    /\ late \subseteq [copy : Rows, version : Nat]
    /\ \A w \in Workers :
        /\ work[w].todo \in Seq(Changes \cup {"compare", "factor"})
        /\ work[w].copy \in Rows \cup {NoCopy}
        /\ work[w].version <= version

\* an account without two-factor, and one that has set it up: secret and codes are number 1
Plain == [failed |-> 0, lockedUntil |-> 0, enabled |-> FALSE, secret |-> 0, codes |-> {}]
Enrolled == [Plain EXCEPT !.enabled = TRUE, !.secret = 1, !.codes = {1}]

Init ==
    /\ row \in {Plain, Enrolled}
    /\ now = 0
    /\ work = [w \in Workers |-> Idle]
    /\ late = {}
    /\ version = 0 /\ lost = 0 /\ guesses = 0
    /\ uses = [c \in Calls |-> 0]
    /\ verified = {row.secret} \ {0} /\ crossed = FALSE
    /\ calls = row.secret

Goto(w, r) == work' = [work EXCEPT ![w] = r]
Next1(w) == IF work[w].todo = <<>> THEN "done" ELSE Head(work[w].todo)
Then(w, todo) == Goto(w, IF todo = <<>> THEN Idle
                         ELSE [work[w] EXCEPT !.todo = todo, !.copy = NoCopy, !.version = 0])

Busy(op) == \E w \in Workers : work[w].op = op
Locked(u) == u.lockedUntil > now

-----------------------------------------------------------------------------
\* a setup that turns two-factor on at once
PlanEager(op) ==
    CASE op \in {"login", "verify", "disable"} -> <<"compare">>
      [] op = "setup" -> <<"secret", "codes", "enable">>
      [] OTHER -> <<op>>

\* what each call does once the user is read
Plan(op) ==
    CASE op \in {"login", "verify", "disable"} -> <<"compare">>
      [] op = "setup" -> <<"secret", "codes">>
      [] OTHER -> <<op>>

\* ... and once the password, or the TOTP of verify, is right
Accepted(op) ==
    CASE op = "login" -> <<"reset", "factor">>
      [] op = "verify" -> <<"reset", "enable">>
      [] op = "disable" -> <<"reset", "disable">>

Allowed(op) ==
    CASE op = "verify" -> row.secret /= 0
      [] op \in {"disable", "regenerate"} -> row.enabled /\ row.secret /= 0
      [] OTHER -> TRUE

\* isAccountLocked clears an expired lock in the copy it was given
Cleared(u) == IF u.lockedUntil /= 0 /\ ~Locked(u) THEN [u EXCEPT !.lockedUntil = 0, !.failed = 0] ELSE u

Begun(op) == [Idle EXCEPT !.op = op, !.call = calls + 1, !.todo = Plan(op)]

(* A call comes in and reads the user.  While locked, the three that count *)
(* guesses are refused; a lock that has expired is cleared by a save that  *)
(* is not awaited.                                                         *)
Begin(w, op) ==
    /\ work[w] = Idle
    /\ calls < MaxCalls /\ calls' = calls + 1
    /\ Allowed(op)
    /\ IF op \in {"login", "verify", "disable"}
       THEN /\ ~Locked(row)
            /\ Goto(w, [Begun(op) EXCEPT !.user = Cleared(row)])
            /\ late' = IF Cleared(row) = row THEN late
                       ELSE late \cup {[copy |-> Cleared(row), version |-> version]}
       ELSE Goto(w, Begun(op)) /\ UNCHANGED late
    /\ crossed' = \/ crossed
                  \/ op = "setup" /\ row.enabled
                  \/ op \in {"setup", "disable"} /\ Busy("verify")
                  \/ op = "verify" /\ (Busy("setup") \/ Busy("disable"))
    /\ UNCHANGED <<row, now, version, lost, guesses, uses, verified>>

(* bcrypt.compare of login and disable, verifySync of verify. *)
Compare(w) ==
    /\ Next1(w) = "compare"
    /\ \/ /\ Then(w, Accepted(work[w].op))
          /\ verified' = IF work[w].op = "verify" THEN verified \cup {work[w].user.secret} ELSE verified
          /\ UNCHANGED guesses
       \/ Then(w, <<"fail">>) /\ guesses' = guesses + 1 /\ UNCHANGED verified
    /\ UNCHANGED <<row, now, late, version, lost, uses, crossed, calls>>

(* The second factor of login: nothing more is asked of a user without     *)
(* one, and a right TOTP changes nothing; otherwise a backup code is tried.*)
Factor(w) ==
    /\ Next1(w) = "factor"
    /\ \/ Then(w, <<>>)
       \/ work[w].user.enabled /\ work[w].user.secret /= 0 /\ Then(w, <<"consume">>)
    /\ UNCHANGED <<row, now, late, version, lost, guesses, uses, verified, crossed, calls>>

-----------------------------------------------------------------------------
(* findOne of a change; a reset with nothing to reset and a backup code    *)
(* that is not there end it.                                               *)
Find(w) ==
    /\ Next1(w) \in Changes /\ work[w].copy = NoCopy
    /\ IF \/ Next1(w) = "reset" /\ row.failed = 0 /\ row.lockedUntil = 0
          \/ Next1(w) = "consume" /\ row.codes = {}
       THEN Then(w, Tail(work[w].todo))
       ELSE Goto(w, [work[w] EXCEPT !.copy = row, !.version = version])
    /\ UNCHANGED <<row, now, late, version, lost, guesses, uses, verified, crossed, calls>>

\* the count starts over before the lock
FailedUncounted(u) == IF u.failed + 1 >= Threshold THEN [u EXCEPT !.lockedUntil = now + 1, !.failed = 0]
                      ELSE [u EXCEPT !.failed = 0]

\* incrementFailedLoginAttempts
Failed(u) ==
    [u EXCEPT !.failed = @ + 1,
              !.lockedUntil = IF u.failed + 1 >= Threshold /\ ~Locked(u) THEN now + 1 ELSE @]

\* a code is compared and never taken out of the row
ConsumeNot(u, c) == u

\* consumeBackupCode
Consume(u, c) == [u EXCEPT !.codes = @ \ {c}]

\* what a change makes of the copy; a new secret and new codes have the number of their call
Changed(change, u, call) ==
    CASE change = "fail" -> Failed(u)
      [] change \in {"reset", "unlock"} -> [u EXCEPT !.failed = 0, !.lockedUntil = 0]
      [] change = "consume" -> Consume(u, CHOOSE c \in u.codes : TRUE)
      [] change = "secret" -> [u EXCEPT !.secret = call]
      [] change \in {"codes", "regenerate"} -> [u EXCEPT !.codes = {call}]
      [] change = "enable" -> [u EXCEPT !.enabled = TRUE]
      [] change = "disable" -> [u EXCEPT !.enabled = FALSE, !.secret = 0, !.codes = {}]
      [] change = "other" -> u

Overwrite(copy, read) ==
    /\ row' = copy
    /\ version' = version + 1
    /\ lost' = lost + (version - read)

(* save: the row takes the copy.  A backup code that was found lets in. *)
Save(w) ==
    /\ Next1(w) \in Changes /\ work[w].copy /= NoCopy
    /\ LET u == work[w].copy  change == Next1(w)
       IN /\ Overwrite(Changed(change, u, work[w].call), work[w].version)
          /\ guesses' = IF change \in {"reset", "unlock"} THEN 0 ELSE guesses
          /\ uses' = IF change = "consume" THEN [uses EXCEPT ![CHOOSE c \in u.codes : TRUE] = @ + 1] ELSE uses
    /\ Then(w, Tail(work[w].todo))
    /\ UNCHANGED <<now, late, verified, crossed, calls>>

\* the save that isAccountLocked left running
LateSave ==
    /\ \E s \in late : Overwrite(s.copy, s.version) /\ late' = late \ {s}
    /\ guesses' = 0
    /\ UNCHANGED <<now, work, uses, verified, crossed, calls>>

\* the lock duration passes
Tick == /\ now < MaxTime /\ now' = now + 1
        /\ UNCHANGED <<row, work, late, version, lost, guesses, uses, verified, crossed, calls>>

Next ==
    \/ \E w \in Workers :
        \/ \E op \in {"login", "verify", "disable", "setup", "regenerate", "unlock", "other"} : Begin(w, op)
        \/ Compare(w) \/ Factor(w) \/ Find(w) \/ Save(w)
    \/ LateSave \/ Tick

Spec == Init /\ [][Next]_vars

-----------------------------------------------------------------------------
Pending == {w \in Workers : Next1(w) = "fail"}

(* Wrong passwords and codes are not forgotten: the row counts each of     *)
(* them, except as many as there were saves that overwrote another one and *)
(* requests about to count; and the account is locked from the threshold   *)
(* on (users.service.ts:332-377).                                          *)
GuessesCounted ==
    /\ guesses <= row.failed + lost + Cardinality(Pending)
    /\ row.failed >= Threshold => row.lockedUntil /= 0

(* A backup code lets in once, and once more at most for each save that    *)
(* overwrote another (users.service.ts:510-526).                           *)
CodesRunOut == \A c \in Calls : uses[c] <= 1 + lost

(* Two-factor is on with a secret only if a code of that secret was shown, *)
(* unless a save overwrote another, the secret was replaced while it was   *)
(* on, or a verification overlapped a setup or a disabling                 *)
(* (auth.service.ts:271-432).                                              *)
EnabledSecretVerified == row.enabled /\ lost = 0 /\ ~crossed => row.secret \in verified

(* "Each backup code is single-use and is permanently consumed on          *)
(* successful authentication" (docs/TWO_FACTOR_AUTH.md:163).               *)
BackupCodeSingleUse == \A c \in Calls : uses[c] <= 1

-----------------------------------------------------------------------------
(* The inductive invariant behind the three.                               *)

\* What a call may have ahead of it.
Ahead(op) ==
    CASE op = "login"   -> {<<"compare">>, <<"fail">>, <<"reset", "factor">>, <<"factor">>, <<"consume">>}
      [] op = "verify"  -> {<<"compare">>, <<"fail">>, <<"reset", "enable">>, <<"enable">>}
      [] op = "disable" -> {<<"compare">>, <<"fail">>, <<"reset", "disable">>, <<"disable">>}
      [] op = "setup"   -> {<<"secret", "codes">>, <<"codes">>}
      [] OTHER          -> {<<op>>}

UserRow == [failed : Nat, lockedUntil : Nat, enabled : BOOLEAN, secret : Nat, codes : SUBSET Nat]

\* A copy of version v is as far behind the row as saves went by, which will be lost
\* if the copy is saved: by so much it may count too little and know too much.
Behind(u, v) ==
    /\ u \in UserRow
    /\ v \in Nat /\ v <= version
    /\ u.failed >= Threshold => u.lockedUntil /= 0
    /\ \A c \in Calls : c \in u.codes => uses[c] <= lost + (version - v)
Counts(u, v) == guesses <= u.failed + lost + (version - v) + Cardinality(Pending)

Served(w) ==
    LET r == work[w]
    IN  /\ r.op \in {"login", "verify", "disable", "setup", "regenerate", "unlock", "other"}
        /\ r.call \in 1 .. calls
        /\ r.todo \in Ahead(r.op)
        /\ r.copy /= NoCopy =>
             /\ Behind(r.copy, r.version) /\ Counts(r.copy, r.version)
             /\ r.version = version => r.copy = row
             /\ Next1(w) = "consume" => r.copy.codes /= {}

\* Codes that no call has made yet.
Unmade(c) ==
    /\ uses[c] = 0 /\ c \notin row.codes
    /\ \A w \in Workers : work[w].copy /= NoCopy => c \notin work[w].copy.codes
    /\ \A s \in late : c \notin s.copy.codes

\* While no save is lost and no setup crosses, the row has the secret that a
\* verification was shown a code of, or is about to be.
Proven ==
    /\ row.enabled => row.secret \in verified
    /\ \A w \in Workers : work[w].op = "setup" => ~row.enabled
    /\ \A w \in Workers : work[w].op = "verify" =>
         /\ work[w].user.secret = row.secret
         /\ ~Busy("setup") /\ ~Busy("disable")
         /\ work[w].todo \in {<<"reset", "enable">>, <<"enable">>} => row.secret \in verified

AccountInv ==
    /\ version \in Nat /\ lost \in Nat /\ guesses \in Nat /\ now \in Nat /\ calls \in 0 .. MaxCalls
    /\ uses \in [Calls -> Nat] /\ \A c \in Calls : uses[c] <= 1 + lost
    /\ Behind(row, version) /\ Counts(row, version)
    /\ \A s \in late : /\ Behind(s.copy, s.version)
                       /\ s.version = version => /\ s.copy.enabled = row.enabled
                                                 /\ s.copy.secret = row.secret
    /\ DOMAIN work = Workers /\ \A w \in Workers : work[w] = Idle \/ Served(w)
    /\ \A v, w \in Workers : work[v].call = work[w].call /\ work[v] /= Idle => v = w
    /\ \A c \in Calls : c > calls => Unmade(c)
    /\ \A w \in Workers, c \in Calls :
         work[w].op \in {"setup", "regenerate"} /\ work[w].call = c => Unmade(c)
    /\ lost = 0 /\ ~crossed => Proven
===============================================================================
