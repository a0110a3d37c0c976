---------------------------- MODULE PartsTypes_proofs ----------------------------
(***************************************************************************)
(* The rest of what is proved of PartsMC: the components whose proofs are  *)
(* in modules of their own, instantiated as PartsMC has them; settlements; *)
(* and that every variable of every component keeps to its type.           *)
(***************************************************************************)
EXTENDS PartsMC_proofs

DIP == INSTANCE Disputes_proofs WITH job <- diJob
TKP == INSTANCE Credentials_proofs
        WITH MaxFaults <- TkMaxFaults, lock <- tkLock, work <- tkWork, mixed <- tkMixed,
             faults <- tkFaults, MaxCalls <- AkMaxCalls, version <- akVersion, lost <- akLost,
             calls <- akCalls

-----------------------------------------------------------------------------
(* Disputes.                                                               *)

LEMMA DisputesBegin == Init => DIP!Init
  BY DEF Init,
      DI!Init, DI!Endings, DI!Idle, DIP!Init, DIP!Endings, DIP!Idle

LEMMA DisputesSame == DI!Next => DIP!Next
  BY DEF DI!Next, DI!PaymentMoves, DI!StartUpdate, DI!StartOpen, DI!Open, DI!SaveUpdate, DI!Announce,
      DI!Cut, DI!At, DI!Exists, DI!Transitions, DI!Disputable, DI!NoneFoundActive, DI!Others,
      DI!Existing, DI!NewDispute, DI!Idle, DI!Announced, DI!Endings, DI!Finish, DI!DisputeStatus,
      DI!ActiveStatus, DI!Terminal, DIP!Next, DIP!PaymentMoves, DIP!StartUpdate, DIP!StartOpen,
      DIP!Open, DIP!SaveUpdate, DIP!Announce, DIP!Cut, DIP!At, DIP!Exists, DIP!Transitions,
      DIP!Disputable, DIP!NoneFoundActive, DIP!Others, DIP!Existing, DIP!NewDispute, DIP!Idle,
      DIP!Announced, DIP!Endings, DIP!Finish, DIP!DisputeStatus, DIP!ActiveStatus, DIP!Terminal

LEMMA DisputesMoves == [Next]_vars => [DIP!Next]_(DIP!vars)
  BY DisputesSame DEF Next, vars, plVars, wdVars, acVars, tkVars, auVars, akVars, diVars, thVars, wnVars,
     raVars, ejVars, msVars, seVars, DIP!vars

(* Each ending of a dispute is announced once, and the first dispute of a  *)
(* payment is alone until it ends, unless handlers overlapped, for any     *)
(* number of disputes, updates and handlers (disputes.service.ts:30-150).  *)
THEOREM DisputesEnd == ASSUME MaxUpdates \in Nat PROVE Spec => []DisputesEndOnce
  <1>1. DIP!Spec => []DIP!DisputesEndOnce
    BY DIP!EndingsToldOnce
  <1>2. DIP!DisputesEndOnce => DisputesEndOnce
    BY DEF DisputesEndOnce, DI!Cardinality, DIP!Cardinality, DI!IsFiniteSet, DIP!IsFiniteSet,
      DI!DisputesEndOnce, DI!EndsOnce, DI!FirstDisputeAlone, DI!Terminal, DI!Existing, DI!Exists,
      DIP!DisputesEndOnce, DIP!EndsOnce, DIP!FirstDisputeAlone, DIP!Terminal, DIP!Existing,
      DIP!Exists
  <1> QED
    BY <1>1, <1>2, DisputesBegin, DisputesMoves, PTL DEF Spec, DIP!Spec

-----------------------------------------------------------------------------
(* Tokens, sessions and API keys.                                          *)

LEMMA TokensBegin == Init => TKP!Init
  BY DEF Init,
      TK!Init, TK!NoOne, TK!Idle, TKP!Init, TKP!NoOne, TKP!Idle

LEMMA TokensSame == TK!Next => TKP!Next
  BY DEF TK!Next, TK!Login, TK!CreateSession, TK!Issue, TK!Refresh, TK!LockToken, TK!FindSession,
      TK!TouchSession, TK!Commit, TK!RevokeSession, TK!SaveRevoked, TK!StartChange, TK!SavePassword,
      TK!MarkUsed, TK!UpdateTokens, TK!Unblocked, TK!Die, TK!Logout, TK!Idle, TK!Goto, TK!Others,
      TK!Changing, TK!NewSessions, TK!AnyOf, TK!Fresh, TK!Issued, TK!Revokes, TK!LockFree, TK!NoOne,
      TK!Issuing, TK!Where, TK!Locked, TK!RevokeRows, TK!Claimed, TK!AfterUpdate, TKP!Next,
      TKP!Login, TKP!CreateSession, TKP!Issue, TKP!Refresh, TKP!LockToken, TKP!FindSession,
      TKP!TouchSession, TKP!Commit, TKP!RevokeSession, TKP!SaveRevoked, TKP!StartChange,
      TKP!SavePassword, TKP!MarkUsed, TKP!UpdateTokens, TKP!Unblocked, TKP!Die, TKP!Logout, TKP!Idle,
      TKP!Goto, TKP!Others, TKP!Changing, TKP!NewSessions, TKP!AnyOf, TKP!Fresh, TKP!Issued,
      TKP!Revokes, TKP!LockFree, TKP!NoOne, TKP!Issuing, TKP!Where, TKP!Locked, TKP!RevokeRows,
      TKP!Claimed, TKP!AfterUpdate

LEMMA TokensMoves == [Next]_vars => [TKP!Next]_(TKP!vars)
  BY TokensSame DEF Next, vars, plVars, wdVars, acVars, tkVars, auVars, akVars, diVars, thVars, wnVars,
     raVars, ejVars, msVars, seVars, TKP!vars

LEMMA KeysBegin == Init => TKP!AK!Init
  BY DEF Init,
      AK!Init, AK!Unborn, AK!Idle, TKP!AK!Init, TKP!AK!Unborn, TKP!AK!Idle

LEMMA KeysSame == AK!Next => TKP!AK!Next
  BY DEF AK!Next, AK!Create, AK!Calls, AK!Find, AK!Save, AK!InsertHeir, AK!Die, AK!NewKey, AK!Idle,
      AK!Finds, AK!Goto, AK!Changed, TKP!AK!Next, TKP!AK!Create, TKP!AK!Calls, TKP!AK!Find,
      TKP!AK!Save, TKP!AK!InsertHeir, TKP!AK!Die, TKP!AK!NewKey, TKP!AK!Idle, TKP!AK!Finds,
      TKP!AK!Goto, TKP!AK!Changed

LEMMA KeysMoves == [Next]_vars => [TKP!AK!Next]_(TKP!AK!vars)
  BY KeysSame DEF Next, vars, plVars, wdVars, acVars, tkVars, auVars, akVars, diVars, thVars, wnVars,
     raVars, ejVars, msVars, seVars, TKP!AK!vars

(* A refresh token buys one new token, and nothing that ended comes back:  *)
(* no live token after its session was revoked or the password changed,    *)
(* no active API key after its revocation or rotation, but for the         *)
(* exceptions that CredentialsEnd names, for any number of tokens,         *)
(* sessions, keys, requests and deaths (auth.service.ts:627-731,           *)
(* sessions.service.ts:66-82, api-keys.service.ts:102-211).                *)
THEOREM CredentialsStayEnded ==
    ASSUME TK!NoOne \notin Workers, IsFiniteSet(Workers), MaxChanges \in Nat, AkMaxCalls \in Nat,
           AkMaxFaults \in Nat
    PROVE  Spec => []CredentialsEnd
  <1>1. TKP!Spec => [](TKP!ExchangedOnce /\ TKP!RevokedSessionIsDead /\ TKP!NoTokenOutlivesPassword)
    BY TKP!CredentialsExpire DEF TK!NoOne, TKP!NoOne
  <1>2. TKP!AK!Spec => []TKP!AK!KeysEndForGood
    BY TKP!KeysStayEnded DEF IsFiniteSet, TKP!IsFiniteSet
  <1>3. /\ TKP!ExchangedOnce => TK!ExchangedOnce
        /\ TKP!RevokedSessionIsDead => TK!RevokedSessionIsDead
        /\ TKP!NoTokenOutlivesPassword => TK!NoTokenOutlivesPassword
    BY DEF TK!ExchangedOnce, TK!RevokedSessionIsDead, TK!NoTokenOutlivesPassword, TK!Revokes, TK!Changing,
      TKP!ExchangedOnce, TKP!RevokedSessionIsDead, TKP!NoTokenOutlivesPassword, TKP!Revokes,
      TKP!Changing
  <1>4. TKP!AK!KeysEndForGood => AK!KeysEndForGood
    BY DEF AK!Cardinality, TKP!AK!Cardinality, AK!IsFiniteSet, TKP!AK!IsFiniteSet,
      AK!KeysEndForGood, TKP!AK!KeysEndForGood
  <1> QED
    BY <1>1, <1>2, <1>3, <1>4, TokensBegin, TokensMoves, KeysBegin, KeysMoves, PTL
    DEF Spec, TKP!Spec, TKP!AK!Spec, CredentialsEnd

-----------------------------------------------------------------------------
(* Settlements.                                                            *)

Saves == [op : {"default", "update", "verify"}, pc : {"save"}, copy : SE!Destination]
Writes == [op : {"default", "update", "verify"}, pc : {"write"}, copy : SE!Destination,
           cols : SUBSET SE!Columns]
Selects == [op : {"run"}, pc : {"select"}, address : 0 .. MaxEntered, day : 0 .. SeMaxTime]
Completes == [op : {"run"}, pc : {"complete"}, payments : SUBSET Payments]

(* What a worker does, by its pc. *)
LEMMA WorkShape ==
    ASSUME SE!TypeOK, NEW w \in Workers
    PROVE  /\ seWork[w] \in SE!Work
           /\ seWork[w].pc = "save" => seWork[w] \in Saves
           /\ seWork[w].pc = "write" => seWork[w] \in Writes
           /\ seWork[w].pc = "select" => seWork[w] \in Selects
           /\ seWork[w].pc = "complete" => seWork[w] \in Completes
  <1>1. seWork[w] \in SE!Work
    BY DEF SE!TypeOK
  <1> QED
    BY <1>1 DEF SE!Work, SE!Idle, Saves, Writes, Selects, Completes

LEMMA GotoKeeps ==
    ASSUME SE!TypeOK, NEW w \in Workers, NEW r \in SE!Work, SE!Goto(w, r)
    PROVE  /\ seWork' \in [Workers -> SE!Work]
           /\ seWork'[w] = r
           /\ \A v \in Workers : v /= w => seWork'[v] = seWork[v]
  BY DEF SE!TypeOK, SE!Goto

LEMMA InitTypes == ASSUME MaxEntered \in Nat, SeMaxTime \in Nat, SE!Init PROVE SE!TypeOK
  <1>1. destination \in SE!Destination
    BY DEF SE!Init, SE!NoDestination, SE!Destination
  <1>2. seWork \in [Workers -> SE!Work]
    BY DEF SE!Init, SE!Work
  <1>3. entered \in Seq(0 .. SeMaxTime) /\ Len(entered) <= MaxEntered
    BY DEF SE!Init
  <1>4. seNow \in 0 .. SeMaxTime /\ listed \in [Payments -> Nat]
    BY DEF SE!Init
  <1>5. seLock \in Workers \cup {SE!NoOne} /\ (seLock /= SE!NoOne => SE!Locked(seLock))
    BY DEF SE!Init
  <1> QED
    BY <1>1, <1>2, <1>3, <1>4, <1>5 DEF SE!Init, SE!TypeOK

(* The address that is entered next. *)
LEMMA EnteredTypes ==
    ASSUME MaxEntered \in Nat, SeMaxTime \in Nat, SE!TypeOK, SE!Number <= MaxEntered,
           NEW v \in BOOLEAN
    PROVE  /\ SE!Entered(v) \in SE!Destination
           /\ Append(entered, seNow) \in Seq(0 .. SeMaxTime)
           /\ Len(Append(entered, seNow)) = SE!Number
  <1>1. SE!Number \in 0 .. MaxEntered /\ seNow + 1 \in 0 .. SeMaxTime + 1
    BY DEF SE!TypeOK, SE!Number
  <1>2. SE!Entered(v) \in SE!Destination
    BY <1>1 DEF SE!Entered, SE!Destination
  <1> QED
    BY <1>2 DEF SE!TypeOK, SE!Number

(* A step of a worker that neither has nor takes the lock. *)
LEMMA NotLocked ==
    ASSUME SE!TypeOK, NEW w \in Workers, ~SE!Locked(w) \/ SE!Locked(w)',
           \A v \in Workers : v /= w => seWork'[v] = seWork[v], UNCHANGED seLock
    PROVE  seLock' /= SE!NoOne => SE!Locked(seLock)'
  BY DEF SE!TypeOK, SE!Locked

LEMMA DestinationTypes ==
    ASSUME MaxEntered \in Nat, SeMaxTime \in Nat, SE!TypeOK, NEW w \in Workers,
           SE!Create(w) \/ SE!Update(w) \/ SE!Verify(w) \/ SE!SelectDestination(w)
             \/ SE!WriteDestination(w)
    PROVE  SE!TypeOK'
  <1>1. CASE SE!Create(w)
    <2>1. /\ SE!Entered(FALSE) \in SE!Destination
          /\ Append(entered, seNow) \in Seq(0 .. SeMaxTime)
          /\ Len(Append(entered, seNow)) <= MaxEntered
      BY <1>1, EnteredTypes DEF SE!Create, SE!Enter
    <2> DEFINE r == [op |-> "default", pc |-> "save", copy |-> SE!Entered(FALSE)]
    <2>2. r \in SE!Work
      BY <2>1 DEF SE!Work
    <2>3. seWork' \in [Workers -> SE!Work] /\ (seLock' /= SE!NoOne => SE!Locked(seLock)')
      <3>1. CASE SE!Goto(w, r)
        <4>1. /\ seWork' \in [Workers -> SE!Work] /\ seWork'[w] = r
              /\ \A v \in Workers : v /= w => seWork'[v] = seWork[v]
          BY <2>2, <3>1, GotoKeeps
        <4>2. ~SE!Locked(w)
          BY <1>1 DEF SE!Create, SE!Idle, SE!Locked
        <4> QED
          BY <1>1, <4>1, <4>2, NotLocked DEF SE!Create
      <3>2. CASE UNCHANGED seWork
        BY <1>1, <3>2 DEF SE!Create, SE!TypeOK, SE!Locked
      <3> QED
        BY <1>1, <3>1, <3>2 DEF SE!Create
    <2> QED
      BY <1>1, <2>1, <2>3 DEF SE!Create, SE!Enter, SE!TypeOK
  <1>2. CASE SE!Update(w)
    <2> DEFINE r == [op |-> "update", pc |-> "save", copy |-> destination]
    <2>1. r \in SE!Work
      BY DEF SE!Work, SE!TypeOK
    <2>2. /\ seWork' \in [Workers -> SE!Work] /\ seWork'[w] = r
          /\ \A v \in Workers : v /= w => seWork'[v] = seWork[v]
      BY <1>2, <2>1, GotoKeeps DEF SE!Update
    <2>3. ~SE!Locked(w)
      BY <1>2 DEF SE!Update, SE!Idle, SE!Locked
    <2>4. seLock' /= SE!NoOne => SE!Locked(seLock)'
      BY <1>2, <2>2, <2>3, NotLocked DEF SE!Update
    <2> QED
      BY <1>2, <2>2, <2>4 DEF SE!Update, SE!TypeOK
  <1>3. CASE SE!Verify(w)
    <2> DEFINE r == [op |-> "verify", pc |-> "save",
                     copy |-> SE!Verified(destination)]
    <2>1. SE!Verified(destination) \in SE!Destination
      BY DEF SE!TypeOK, SE!Destination, SE!Verified
    <2>2. r \in SE!Work
      BY <2>1 DEF SE!Work
    <2>3. /\ seWork' \in [Workers -> SE!Work] /\ seWork'[w] = r
          /\ \A v \in Workers : v /= w => seWork'[v] = seWork[v]
      BY <1>3, <2>2, GotoKeeps DEF SE!Verify
    <2>4. ~SE!Locked(w)
      BY <1>3 DEF SE!Verify, SE!Idle, SE!Locked
    <2>5. seLock' /= SE!NoOne => SE!Locked(seLock)'
      BY <1>3, <2>3, <2>4, NotLocked DEF SE!Verify
    <2> QED
      BY <1>3, <2>3, <2>5 DEF SE!Verify, SE!TypeOK
  <1>4. CASE SE!SelectDestination(w)
    <2> DEFINE entity == IF seWork[w].op = "update" THEN SE!Entered(seWork[w].copy.verified)
                                                    ELSE seWork[w].copy
               r == [op |-> seWork[w].op, pc |-> "write", copy |-> entity,
                     cols |-> SE!Diff(entity, destination)]
    <2>1. seWork[w] \in Saves
      BY <1>4, WorkShape DEF SE!SelectDestination
    <2>2. seWork[w].copy \in SE!Destination /\ seWork[w].copy.verified \in BOOLEAN
      BY <2>1 DEF Saves, SE!Destination
    <2>3. entity \in SE!Destination /\ entered' \in Seq(0 .. SeMaxTime) /\ Len(entered') <= MaxEntered
      BY <1>4, <2>2, EnteredTypes DEF SE!SelectDestination, SE!Enter, SE!TypeOK
    <2>4. SE!Goto(w, r)
      BY <1>4 DEF SE!SelectDestination
    <2> HIDE DEF entity
    <2>5. r \in SE!Work
      BY <2>1, <2>3 DEF SE!Work, Saves, SE!Diff
    <2>6. /\ seWork' \in [Workers -> SE!Work]
          /\ \A v \in Workers : v /= w => seWork'[v] = seWork[v]
      BY <2>4, <2>5, GotoKeeps
    <2>7. ~SE!Locked(w)
      BY <2>1 DEF Saves, SE!Locked
    <2>8. seLock' /= SE!NoOne => SE!Locked(seLock)'
      BY <1>4, <2>6, <2>7, NotLocked DEF SE!SelectDestination
    <2> QED
      BY <1>4, <2>3, <2>6, <2>8 DEF SE!SelectDestination, SE!TypeOK
  <1>5. CASE SE!WriteDestination(w)
    <2>1. seWork[w] \in Writes
      BY <1>5, WorkShape DEF SE!WriteDestination
    <2>2. destination' \in SE!Destination /\ blended' \in BOOLEAN
      BY <1>5, <2>1 DEF SE!WriteDestination, SE!Patch, SE!Destination, Writes, SE!TypeOK
    <2>3. /\ seWork' \in [Workers -> SE!Work]
          /\ \A v \in Workers : v /= w => seWork'[v] = seWork[v]
      BY <1>5, GotoKeeps DEF SE!WriteDestination, SE!Work
    <2>4. ~SE!Locked(w)
      BY <2>1 DEF Writes, SE!Locked
    <2>5. seLock' /= SE!NoOne => SE!Locked(seLock)'
      BY <1>5, <2>3, <2>4, NotLocked DEF SE!WriteDestination
    <2> QED
      BY <1>5, <2>2, <2>3, <2>5 DEF SE!WriteDestination, SE!TypeOK
  <1> QED
    BY <1>1, <1>2, <1>3, <1>4, <1>5

(* A settlement that is committed is listed once more. *)
LEMMA InsertListed ==
    ASSUME SE!TypeOK, NEW s, SE!Insert(s), NEW p \in Payments
    PROVE  /\ listed' \in [Payments -> Nat]
           /\ listed'[p] <= listed[p] + 1
           /\ s.status /= "COMPLETED" => listed'[p] = listed[p]
  BY DEF SE!TypeOK, SE!Insert

LEMMA InsertTypes ==
    ASSUME SE!TypeOK, NEW s, SE!Insert(s)
    PROVE  listed' \in [Payments -> Nat]
  BY DEF SE!TypeOK, SE!Insert

LEMMA RunTypes ==
    ASSUME SeMaxTime \in Nat, SE!TypeOK, NEW w \in Workers,
           SE!StartRun(w) \/ SE!LockConfig(w) \/ SE!CheckDestination(w) \/ SE!Select(w)
             \/ SE!SaveCompleted(w) \/ SE!BreakInsert(w) \/ SE!BreakTransaction(w)
    PROVE  SE!TypeOK'
  <1>0. SE!Idle \in SE!Work
    BY DEF SE!Work
  <1>1. CASE SE!StartRun(w)
    <2> DEFINE r == [op |-> "run", pc |-> "lock"]
    <2>1. r \in SE!Work
      BY DEF SE!Work
    <2>2. /\ seWork' \in [Workers -> SE!Work] /\ seWork'[w] = r
          /\ \A v \in Workers : v /= w => seWork'[v] = seWork[v]
      BY <1>1, <2>1, GotoKeeps DEF SE!StartRun
    <2>3. ~SE!Locked(w)
      BY <1>1 DEF SE!StartRun, SE!Idle, SE!Locked
    <2>4. seLock' /= SE!NoOne => SE!Locked(seLock)'
      BY <1>1, <2>2, <2>3, NotLocked DEF SE!StartRun
    <2> QED
      BY <1>1, <2>2, <2>4 DEF SE!StartRun, SE!TypeOK
  <1>2. CASE SE!LockConfig(w)
    <2> DEFINE r == [op |-> "run", pc |-> "check"]
    <2>1. r \in SE!Work
      BY DEF SE!Work
    <2>2. seWork' \in [Workers -> SE!Work] /\ seWork'[w] = r
      BY <1>2, <2>1, GotoKeeps DEF SE!LockConfig
    <2> QED
      BY <1>2, <2>2 DEF SE!LockConfig, SE!TypeOK, SE!Locked
  <1>3. CASE SE!CheckDestination(w)
    <2>1. CASE SE!Eligible
      <3> DEFINE r == [op |-> "run", pc |-> "select", address |-> destination.address, day |-> seNow]
      <3>1. destination.address \in 0 .. MaxEntered
        BY DEF SE!TypeOK, SE!Destination
      <3>2. r \in SE!Work
        BY <3>1 DEF SE!Work, SE!TypeOK
      <3>3. /\ seWork' \in [Workers -> SE!Work] /\ seWork'[w] = r
            /\ \A v \in Workers : v /= w => seWork'[v] = seWork[v]
        BY <1>3, <2>1, <3>2, GotoKeeps DEF SE!CheckDestination
      <3>4. SE!Locked(w)'
        BY <3>3 DEF SE!Locked
      <3>5. seLock' /= SE!NoOne => SE!Locked(seLock)'
        BY <1>3, <2>1, <3>3, <3>4, NotLocked DEF SE!CheckDestination
      <3> QED
        BY <1>3, <2>1, <3>3, <3>5 DEF SE!CheckDestination, SE!TypeOK
    <2>2. CASE ~SE!Eligible
      <3>1. seWork' \in [Workers -> SE!Work]
        BY <1>0, <1>3, <2>2, GotoKeeps DEF SE!CheckDestination, SE!Fail
      <3>2. listed' \in [Payments -> Nat]
        BY <1>3, <2>2, InsertTypes DEF SE!CheckDestination, SE!Fail
      <3> QED
        BY <1>3, <2>2, <3>1, <3>2 DEF SE!CheckDestination, SE!Fail, SE!TypeOK
    <2> QED
      BY <2>1, <2>2
  <1>4. CASE SE!Select(w)
    <2>1. CASE ready = {}
      <3>1. seWork' \in [Workers -> SE!Work]
        BY <1>0, <1>4, <2>1, GotoKeeps DEF SE!Select
      <3> QED
        BY <1>4, <2>1, <3>1 DEF SE!Select, SE!TypeOK
    <2>2. CASE ready /= {}
      <3> DEFINE r == [op |-> "run", pc |-> "complete", payments |-> ready]
      <3>1. r \in SE!Work
        BY DEF SE!Work, SE!TypeOK
      <3>2. /\ seWork' \in [Workers -> SE!Work] /\ seWork'[w] = r
            /\ \A v \in Workers : v /= w => seWork'[v] = seWork[v]
        BY <1>4, <2>2, <3>1, GotoKeeps DEF SE!Select
      <3>3. SE!Locked(w)'
        BY <3>2 DEF SE!Locked
      <3>4. seLock' /= SE!NoOne => SE!Locked(seLock)'
        BY <1>4, <2>2, <3>2, <3>3, NotLocked DEF SE!Select
      <3> QED
        BY <1>4, <3>2, <3>4 DEF SE!Select, SE!TypeOK
    <2> QED
      BY <2>1, <2>2
  <1>5. CASE SE!SaveCompleted(w) \/ SE!BreakInsert(w) \/ SE!BreakTransaction(w)
    <2>1. seWork[w].payments \in SUBSET Payments
      BY <1>5, WorkShape DEF SE!SaveCompleted, SE!BreakInsert, SE!BreakTransaction, Completes
    <2>2. seWork' \in [Workers -> SE!Work]
      BY <1>0, <1>5, GotoKeeps DEF SE!SaveCompleted, SE!BreakInsert, SE!BreakTransaction, SE!Fail
    <2>3. listed' \in [Payments -> Nat]
      BY <1>5, InsertTypes DEF SE!SaveCompleted, SE!BreakInsert, SE!BreakTransaction, SE!Fail
    <2> QED
      BY <1>5, <2>1, <2>2, <2>3
      DEF SE!SaveCompleted, SE!BreakInsert, SE!BreakTransaction, SE!Fail, SE!TypeOK
  <1> QED
    BY <1>1, <1>2, <1>3, <1>4, <1>5

LEMMA NextTypes ==
    ASSUME MaxEntered \in Nat, SeMaxTime \in Nat, SE!TypeOK, [SE!Next]_(SE!vars)
    PROVE  SE!TypeOK'
  <1>1. CASE SE!UpsertConfig \/ SE!Tick \/ (\E p \in Payments : SE!Complete(p)) \/ UNCHANGED SE!vars
    <2>1. UNCHANGED <<destination, seWork, seLock, listed, stamped, entered, blended, broken>>
      BY <1>1 DEF SE!UpsertConfig, SE!Tick, SE!Complete, SE!vars
    <2>2. seLock' /= SE!NoOne => SE!Locked(seLock)'
      BY <2>1 DEF SE!TypeOK, SE!Locked
    <2>3. config' \in BOOLEAN /\ ready' \subseteq Payments
      BY <1>1, Zenon DEF SE!UpsertConfig, SE!Tick, SE!Complete, SE!vars, SE!TypeOK
    <2>4. seNow' \in 0 .. SeMaxTime
      BY <1>1 DEF SE!UpsertConfig, SE!Tick, SE!Complete, SE!vars, SE!TypeOK
    <2> QED
      BY <2>1, <2>2, <2>3, <2>4 DEF SE!TypeOK
  <1> QED
    BY <1>1, DestinationTypes, RunTypes DEF SE!Next, SE!Steps

-----------------------------------------------------------------------------
(* Where the money goes.                                                   *)

(* Addresses are only added, and what was confirmed stays so. *)
LEMMA EntriesGrow ==
    ASSUME SE!TypeOK, [SE!Next]_(SE!vars)
    PROVE  /\ entered' = entered \/ entered' = Append(entered, seNow)
           /\ confirmed \subseteq confirmed'
  BY DEF SE!Next, SE!Steps, SE!vars, SE!Create, SE!Update, SE!Verify, SE!SelectDestination, SE!WriteDestination, SE!Enter, SE!UpsertConfig, SE!Complete,
         SE!StartRun, SE!LockConfig, SE!CheckDestination, SE!Fail, SE!Select, SE!SaveCompleted, SE!BreakInsert,
         SE!BreakTransaction, SE!Tick

LEMMA EntryStays ==
    ASSUME SE!TypeOK, entered' = entered \/ entered' = Append(entered, seNow),
           NEW a \in 1 .. Len(entered)
    PROVE  a \in 1 .. Len(entered') /\ entered'[a] = entered[a]
  BY DEF SE!TypeOK

LEMMA TrustStays ==
    ASSUME SE!TypeOK, entered' = entered \/ entered' = Append(entered, seNow),
           confirmed \subseteq confirmed', NEW d \in SE!Destination, SE!Trusted(d)
    PROVE  SE!Trusted(d)'
  <1>1. SE!Cools(d) => SE!Cools(d)'
    BY EntryStays DEF SE!Cools
  <1> QED
    BY <1>1 DEF SE!Trusted

(* An address that is entered cools off, and is not verified. *)
LEMMA EnteredTrusted ==
    ASSUME SE!TypeOK, entered' = Append(entered, seNow), NEW d, d = SE!Entered(FALSE)
    PROVE  SE!Trusted(d)'
  <1>1. SE!Number \in 1 .. Len(entered') /\ entered'[SE!Number] = seNow /\ seNow \in Nat
    BY DEF SE!TypeOK, SE!Number
  <1>2. d.address = SE!Number /\ d.verified = FALSE /\ d.until = seNow + 1
    BY DEF SE!Entered
  <1>3. d.address \in 1 .. Len(entered') /\ entered'[d.address] = seNow
    BY <1>1, <1>2
  <1>4. seNow < seNow + 1
    BY <1>1
  <1>5. SE!Cools(d)'
    BY <1>2, <1>3, <1>4 DEF SE!Cools
  <1> QED
    BY <1>2, <1>5 DEF SE!Trusted

LEMMA EnteredUnverified == \A v \in BOOLEAN : SE!Entered(v) = SE!Entered(FALSE)
  BY DEF SE!Entered

LEMMA TrustKept ==
    ASSUME MaxEntered \in Nat, SeMaxTime \in Nat, SE!TypeOK, SE!TypeOK', SE!DestinationsTrusted,
           ~blended', [SE!Next]_(SE!vars)
    PROVE  SE!DestinationsTrusted'
  <1>1. \A d \in SE!Destination : SE!Trusted(d) => SE!Trusted(d)'
    BY EntriesGrow, TrustStays
  <1>2. ASSUME NEW d \in SE!Destination, d = destination' PROVE SE!Trusted(d)'
    <2>1. CASE destination' = destination
      BY <1>1, <1>2, <2>1 DEF SE!DestinationsTrusted
    <2>2. ASSUME NEW w \in Workers, SE!Create(w) PROVE SE!Trusted(d)'
      <3>1. entered' = Append(entered, seNow) /\ d = SE!Entered(FALSE)
        BY <1>2, <2>2 DEF SE!Create, SE!Enter
      <3> QED
        BY <3>1, EnteredTrusted
    <2>3. ASSUME NEW w \in Workers, SE!WriteDestination(w) PROVE SE!Trusted(d)'
      <3>1. seWork[w] \in Writes
        BY <2>3, WorkShape DEF SE!WriteDestination
      <3>2. CASE seWork[w].cols = {}
        <4>1. d = destination
          BY <1>2, <2>3, <3>2 DEF SE!WriteDestination, SE!Patch, SE!TypeOK, SE!Destination
        <4> QED
          BY <1>1, <1>2, <4>1 DEF SE!DestinationsTrusted
      <3>3. CASE seWork[w].cols /= {}
        <4>1. d = seWork[w].copy
          BY <1>2, <2>3, <3>3 DEF SE!WriteDestination, SE!Blends
        <4>2. SE!Trusted(d)
          BY <2>3, <4>1 DEF SE!WriteDestination, SE!DestinationsTrusted
        <4> QED
          BY <1>1, <1>2, <4>2
      <3> QED
        BY <3>2, <3>3
    <2> QED
      BY <2>1, <2>2, <2>3 DEF SE!Next, SE!Steps, SE!vars, SE!Update, SE!Verify, SE!SelectDestination, SE!UpsertConfig, SE!Complete, SE!StartRun,
         SE!LockConfig, SE!CheckDestination, SE!Fail, SE!Select, SE!SaveCompleted, SE!BreakInsert, SE!BreakTransaction, SE!Tick
  <1>3. ASSUME NEW w \in Workers, seWork'[w].pc \in {"save", "write"}, NEW d \in SE!Destination, d = seWork'[w].copy
        PROVE  SE!Trusted(d)'
    <2>1. CASE seWork'[w] = seWork[w]
      BY <1>1, <1>3, <2>1 DEF SE!DestinationsTrusted
    <2>2. CASE SE!Create(w)
      <3>1. CASE UNCHANGED seWork
        BY <2>1, <3>1
      <3>2. CASE SE!Goto(w, [op |-> "default", pc |-> "save", copy |-> SE!Entered(FALSE)])
        <4>1. entered' = Append(entered, seNow) /\ d = SE!Entered(FALSE)
          BY <1>3, <2>2, <3>2 DEF SE!Create, SE!Enter, SE!Goto, SE!TypeOK
        <4> QED
          BY <4>1, EnteredTrusted
      <3> QED
        BY <2>2, <3>1, <3>2 DEF SE!Create
    <2>3. CASE SE!Update(w)
      <3>1. d = destination
        BY <1>3, <2>3 DEF SE!Update, SE!Goto, SE!TypeOK
      <3> QED
        BY <1>1, <1>3, <3>1 DEF SE!DestinationsTrusted
    <2>4. CASE SE!Verify(w)
      <3>1. /\ d = SE!Verified(destination)
            /\ destination.token /= 0
            /\ confirmed' = confirmed \cup {destination.address}
            /\ entered' = entered
        BY <1>3, <2>4 DEF SE!Verify, SE!Goto, SE!TypeOK
      <3>2. SE!Cools(destination)
        BY <3>1 DEF SE!DestinationsTrusted, SE!Trusted
      <3>3. d.address = destination.address /\ d.until = destination.until /\ d.token = 0
        BY <3>1 DEF SE!Verified
      <3>4. SE!Cools(d)' /\ d.address \in confirmed'
        BY <3>1, <3>2, <3>3 DEF SE!Cools
      <3> QED
        BY <3>3, <3>4 DEF SE!Trusted
    <2>5. CASE SE!StartRun(w) \/ SE!LockConfig(w) \/ SE!CheckDestination(w) \/ SE!Select(w) \/ SE!SaveCompleted(w)
                 \/ SE!BreakInsert(w) \/ SE!BreakTransaction(w) \/ SE!WriteDestination(w)
      <3>1. seWork'[w].pc \notin {"save", "write"}
        BY <2>5 DEF SE!StartRun, SE!LockConfig, SE!CheckDestination, SE!Select, SE!SaveCompleted, SE!BreakInsert,
                    SE!BreakTransaction, SE!WriteDestination, SE!Fail, SE!Goto, SE!Idle, SE!TypeOK
      <3> QED
        BY <1>3, <3>1
    <2>6. ASSUME NEW v \in Workers, v /= w,
                 SE!Create(v) \/ SE!Update(v) \/ SE!Verify(v) \/ SE!StartRun(v) \/ SE!Steps(v) \/ SE!BreakInsert(v)
                   \/ SE!BreakTransaction(v)
          PROVE  seWork'[w] = seWork[w]
      BY <2>6 DEF SE!Steps, SE!Create, SE!Update, SE!Verify, SE!StartRun, SE!LockConfig, SE!CheckDestination, SE!Select,
           SE!SaveCompleted, SE!BreakInsert, SE!BreakTransaction, SE!SelectDestination, SE!WriteDestination, SE!Fail, SE!Goto, SE!TypeOK
    <2>7. CASE SE!UpsertConfig \/ SE!Tick \/ (\E p \in Payments : SE!Complete(p)) \/ UNCHANGED SE!vars
      BY <2>1, <2>7 DEF SE!UpsertConfig, SE!Tick, SE!Complete, SE!vars
    <2>8. CASE SE!SelectDestination(w)
      <3>1. seWork[w] \in Saves
        BY <2>8, WorkShape DEF SE!SelectDestination
      <3>2. CASE seWork[w].op = "update"
        <4>1. seWork[w].copy.verified \in BOOLEAN
          BY <3>1 DEF Saves, SE!Destination
        <4>2. entered' = Append(entered, seNow) /\ d = SE!Entered(seWork[w].copy.verified)
          BY <1>3, <2>8, <3>2 DEF SE!SelectDestination, SE!Enter, SE!Goto, SE!TypeOK
        <4> QED
          BY <4>1, <4>2, EnteredUnverified, EnteredTrusted
      <3>3. CASE seWork[w].op /= "update"
        <4>1. d = seWork[w].copy
          BY <1>3, <2>8, <3>3 DEF SE!SelectDestination, SE!Goto, SE!TypeOK
        <4>2. SE!Trusted(d)
          BY <2>8, <4>1 DEF SE!SelectDestination, SE!DestinationsTrusted
        <4> QED
          BY <1>1, <1>3, <4>2
      <3> QED
        BY <3>2, <3>3
    <2> QED
      BY <2>1, <2>2, <2>3, <2>4, <2>5, <2>6, <2>7, <2>8 DEF SE!Next, SE!Steps
  <1>4. destination' \in SE!Destination
    BY DEF SE!TypeOK
  <1>5. \A w \in Workers : seWork'[w].pc \in {"save", "write"} => seWork'[w].copy \in SE!Destination
    <2> SUFFICES ASSUME NEW w \in Workers, seWork'[w].pc \in {"save", "write"} PROVE seWork'[w].copy \in SE!Destination
      OBVIOUS
    <2>1. seWork'[w] \in SE!Work
      BY DEF SE!TypeOK
    <2> QED
      BY <2>1 DEF SE!Work, SE!Idle
  <1> QED
    BY <1>2, <1>3, <1>4, <1>5 DEF SE!DestinationsTrusted

(* A run takes the address from the row, as it is eligible. *)
LEMMA RunsStayTrusted ==
    ASSUME SeMaxTime \in Nat, SE!TypeOK, SE!DestinationsTrusted, SE!RunsTrusted, [SE!Next]_(SE!vars)
    PROVE  SE!RunsTrusted'
  <1> SUFFICES ASSUME NEW w \in Workers, seWork'[w].op = "run", seWork'[w].pc = "select"
               PROVE  /\ seWork'[w].address \in 1 .. Len(entered') /\ seWork'[w].address \in confirmed'
                      /\ entered'[seWork'[w].address] < seWork'[w].day
    BY DEF SE!RunsTrusted
  <1>1. CASE seWork'[w] = seWork[w]
    <2>1. /\ seWork[w].address \in 1 .. Len(entered) /\ seWork[w].address \in confirmed
          /\ entered[seWork[w].address] < seWork[w].day
      BY <1>1 DEF SE!RunsTrusted
    <2>2. entered' = entered \/ entered' = Append(entered, seNow)
      BY EntriesGrow
    <2>3. confirmed \subseteq confirmed'
      BY EntriesGrow
    <2>4. \A a \in 1 .. Len(entered) : a \in 1 .. Len(entered') /\ entered'[a] = entered[a]
      BY <2>2, EntryStays
    <2> QED
      BY <1>1, <2>1, <2>3, <2>4
  <1>2. CASE SE!CheckDestination(w)
    <2>1. SE!Eligible
      BY <1>2 DEF SE!CheckDestination, SE!Fail, SE!Goto, SE!Idle, SE!TypeOK
    <2>2. /\ seWork'[w].address = destination.address /\ seWork'[w].day = seNow
          /\ UNCHANGED <<confirmed, entered>>
      BY <1>2, <2>1 DEF SE!CheckDestination, SE!Goto, SE!TypeOK
    <2>3. SE!Cools(destination) /\ destination.address \in confirmed
      BY <2>1 DEF SE!DestinationsTrusted, SE!Trusted, SE!Eligible
    <2> DEFINE a == destination.address
               u == destination.until
               e == entered[a]
    <2>4. a \in 1 .. Len(entered) /\ e < u /\ u <= seNow
      BY <2>1, <2>3 DEF SE!Cools, SE!Eligible
    <2>5. e \in 0 .. SeMaxTime
      BY <2>4 DEF SE!TypeOK
    <2>6. u \in 0 .. SeMaxTime + 1 /\ seNow \in 0 .. SeMaxTime
      BY DEF SE!TypeOK, SE!Destination
    <2> HIDE DEF e, u
    <2>7. e < seNow
      BY <2>4, <2>5, <2>6
    <2> USE DEF e
    <2> QED
      BY <2>2, <2>3, <2>4, <2>7
  <1>3. ASSUME NEW v \in Workers, v /= w,
               SE!Create(v) \/ SE!Update(v) \/ SE!Verify(v) \/ SE!StartRun(v) \/ SE!Steps(v) \/ SE!BreakInsert(v)
                 \/ SE!BreakTransaction(v)
        PROVE  seWork'[w] = seWork[w]
    BY <1>3 DEF SE!Steps, SE!Create, SE!Update, SE!Verify, SE!StartRun, SE!LockConfig, SE!CheckDestination, SE!Select,
         SE!SaveCompleted, SE!BreakInsert, SE!BreakTransaction, SE!SelectDestination, SE!WriteDestination, SE!Fail, SE!Goto, SE!TypeOK
  <1>4. ~(\/ SE!Update(w) \/ SE!Verify(w) \/ SE!StartRun(w) \/ SE!LockConfig(w) \/ SE!SelectDestination(w) \/ SE!WriteDestination(w) \/ SE!Select(w)
          \/ SE!SaveCompleted(w) \/ SE!BreakInsert(w) \/ SE!BreakTransaction(w))
    BY DEF SE!Update, SE!Verify, SE!StartRun, SE!LockConfig, SE!SelectDestination, SE!WriteDestination, SE!Select, SE!SaveCompleted,
           SE!BreakInsert, SE!BreakTransaction, SE!Fail, SE!Goto, SE!Idle, SE!TypeOK
  <1>5. CASE SE!Create(w)
    <2>1. CASE UNCHANGED seWork
      BY <1>1, <2>1
    <2>2. CASE SE!Goto(w, [op |-> "default", pc |-> "save", copy |-> SE!Entered(FALSE)])
      BY <2>2 DEF SE!Goto, SE!TypeOK
    <2> QED
      BY <1>5, <2>1, <2>2 DEF SE!Create
  <1>6. CASE SE!UpsertConfig \/ SE!Tick \/ (\E p \in Payments : SE!Complete(p)) \/ UNCHANGED SE!vars
    BY <1>1, <1>6 DEF SE!UpsertConfig, SE!Tick, SE!Complete, SE!vars
  <1> QED
    BY <1>1, <1>2, <1>3, <1>4, <1>5, <1>6 DEF SE!Next, SE!Steps

-----------------------------------------------------------------------------
(* What is listed.                                                         *)

(* A worker that neither has nor takes the lock, and the lock stays. *)
LEMMA OthersRun ==
    ASSUME SE!TypeOK, SE!OneRunAtATime, NEW w \in Workers, ~SE!Locked(w)' \/ SE!Locked(w),
           \A v \in Workers : v /= w => seWork'[v] = seWork[v], UNCHANGED seLock
    PROVE  SE!OneRunAtATime'
  BY DEF SE!OneRunAtATime, SE!Locked

(* The run that has the lock ends, and gives it back. *)
LEMMA RunEnds ==
    ASSUME SE!TypeOK, SE!OneRunAtATime, NEW w \in Workers, SE!Locked(w), SE!Goto(w, SE!Idle)
    PROVE  SE!OneRunAtATime'
  BY DEF SE!OneRunAtATime, SE!Locked, SE!Goto, SE!Idle, SE!TypeOK

LEMMA OneRunKept ==
    ASSUME SE!NoOne \notin Workers, SE!TypeOK, SE!OneRunAtATime, [SE!Next]_(SE!vars)
    PROVE  SE!OneRunAtATime'
  <1>1. ASSUME NEW w \in Workers,
               SE!Create(w) \/ SE!Update(w) \/ SE!Verify(w) \/ SE!StartRun(w) \/ SE!SelectDestination(w)
                 \/ SE!WriteDestination(w)
        PROVE  SE!OneRunAtATime'
    <2>1. UNCHANGED seLock /\ \A v \in Workers : v /= w => seWork'[v] = seWork[v]
      BY <1>1 DEF SE!Create, SE!Update, SE!Verify, SE!StartRun, SE!SelectDestination, SE!WriteDestination, SE!Goto, SE!TypeOK
    <2>2. ~SE!Locked(w)' \/ SE!Locked(w)
      <3>1. CASE UNCHANGED seWork
        BY <3>1 DEF SE!Locked
      <3>2. CASE ~UNCHANGED seWork
        <4>1. ASSUME NEW r, SE!Goto(w, r), r.op /= "run" \/ r.pc = "lock" PROVE ~SE!Locked(w)'
          BY <4>1 DEF SE!Goto, SE!Locked, SE!TypeOK
        <4>2. CASE SE!Create(w)
          BY <3>2, <4>1, <4>2 DEF SE!Create
        <4>3. CASE SE!Update(w)
          BY <4>1, <4>3 DEF SE!Update
        <4>4. CASE SE!Verify(w)
          BY <4>1, <4>4 DEF SE!Verify
        <4>5. CASE SE!StartRun(w)
          BY <4>1, <4>5 DEF SE!StartRun
        <4>6. CASE SE!SelectDestination(w)
          BY <4>1, <4>6, WorkShape DEF SE!SelectDestination, Saves
        <4>7. CASE SE!WriteDestination(w)
          BY <4>1, <4>7 DEF SE!WriteDestination, SE!Idle
        <4> QED
          BY <1>1, <4>2, <4>3, <4>4, <4>5, <4>6, <4>7
      <3> QED
        BY <3>1, <3>2
    <2> QED
      BY <2>1, <2>2, OthersRun
  <1>2. ASSUME NEW w \in Workers, SE!LockConfig(w) PROVE SE!OneRunAtATime'
    <2>1. \A v \in Workers : ~SE!Locked(v)
      BY <1>2 DEF SE!LockConfig, SE!OneRunAtATime
    <2>2. seLock' = w /\ \A v \in Workers : v /= w => seWork'[v] = seWork[v]
      BY <1>2 DEF SE!LockConfig, SE!Goto, SE!TypeOK
    <2> QED
      BY <2>1, <2>2 DEF SE!OneRunAtATime, SE!Locked
  <1>3. ASSUME NEW w \in Workers,
               SE!CheckDestination(w) \/ SE!Select(w) \/ SE!SaveCompleted(w) \/ SE!BreakInsert(w) \/ SE!BreakTransaction(w)
        PROVE  SE!OneRunAtATime'
    <2>1. SE!Locked(w)
      BY <1>3 DEF SE!CheckDestination, SE!Select, SE!SaveCompleted, SE!BreakInsert, SE!BreakTransaction, SE!Locked
    <2>2. CASE SE!Goto(w, SE!Idle)
      BY <2>1, <2>2, RunEnds
    <2>3. CASE ~SE!Goto(w, SE!Idle)
      <3>1. UNCHANGED seLock /\ \A v \in Workers : v /= w => seWork'[v] = seWork[v]
        BY <1>3, <2>3 DEF SE!CheckDestination, SE!Select, SE!SaveCompleted, SE!BreakInsert, SE!BreakTransaction,
                          SE!Fail, SE!Goto, SE!TypeOK
      <3> QED
        BY <2>1, <3>1, OthersRun
    <2> QED
      BY <2>2, <2>3
  <1>4. CASE SE!UpsertConfig \/ SE!Tick \/ (\E p \in Payments : SE!Complete(p)) \/ UNCHANGED SE!vars
    <2>1. UNCHANGED <<seWork, seLock>>
      BY <1>4 DEF SE!UpsertConfig, SE!Tick, SE!Complete, SE!vars
    <2> QED
      BY <2>1 DEF SE!OneRunAtATime, SE!Locked
  <1> QED
    BY <1>1, <1>2, <1>3, <1>4 DEF SE!Next, SE!Steps

(* A run with payments holds the lock, so that its save waits for itself. *)
LEMMA SaveNeverPasses ==
    ASSUME SE!OneRunAtATime, NEW w \in Workers
    PROVE  ~SE!SaveCompleted(w)
  BY DEF SE!OneRunAtATime, SE!SaveCompleted, SE!Waits, SE!Locked

LEMMA ListedKept ==
    ASSUME SE!TypeOK, SE!OneRunAtATime, SE!OnlyBrokenListed, [SE!Next]_(SE!vars)
    PROVE  SE!OnlyBrokenListed'
  <1>1. stamped' = {}
    BY SaveNeverPasses DEF SE!OnlyBrokenListed, SE!Next, SE!Steps, SE!vars, SE!Create, SE!Update, SE!Verify, SE!SelectDestination, SE!WriteDestination,
       SE!Enter, SE!UpsertConfig, SE!Complete, SE!StartRun, SE!LockConfig, SE!CheckDestination, SE!Fail, SE!Select,
       SE!BreakInsert, SE!BreakTransaction, SE!Tick
  <1>2. \A p \in Payments : listed[p] \in Nat /\ listed[p] <= broken /\ broken \in Nat
    BY DEF SE!TypeOK, SE!OnlyBrokenListed
  <1>3. CASE UNCHANGED <<listed, broken>>
    BY <1>1, <1>2, <1>3 DEF SE!OnlyBrokenListed
  <1>4. ASSUME NEW w \in Workers, SE!CheckDestination(w) \/ SE!BreakInsert(w)
        PROVE  \A p \in Payments : listed'[p] = listed[p]
    BY <1>4, <1>2 DEF SE!CheckDestination, SE!BreakInsert, SE!Fail, SE!FailedRow, SE!Insert
  <1>5. ASSUME NEW w \in Workers, SE!CheckDestination(w) \/ SE!BreakInsert(w) PROVE SE!OnlyBrokenListed'
    <2>1. broken' = broken
      BY <1>5 DEF SE!CheckDestination, SE!BreakInsert
    <2> QED
      BY <1>1, <1>2, <1>4, <1>5, <2>1 DEF SE!OnlyBrokenListed
  <1>6. ASSUME NEW w \in Workers, SE!BreakTransaction(w) PROVE SE!OnlyBrokenListed'
    <2>1. broken' = broken + 1
      BY <1>6 DEF SE!BreakTransaction
    <2>2. \A p \in Payments : listed'[p] <= listed[p] + 1 /\ listed'[p] \in Nat
      BY <1>6, InsertListed DEF SE!BreakTransaction
    <2>3. \A p \in Payments : listed'[p] <= broken'
      BY <1>2, <2>1, <2>2
    <2> QED
      BY <1>1, <2>3 DEF SE!OnlyBrokenListed
  <1> QED
    BY <1>3, <1>5, <1>6, SaveNeverPasses DEF SE!Next, SE!Steps, SE!vars, SE!Create, SE!Update, SE!Verify, SE!SelectDestination, SE!WriteDestination,
       SE!Enter, SE!UpsertConfig, SE!Complete, SE!StartRun, SE!LockConfig, SE!Select, SE!Tick

-----------------------------------------------------------------------------
SettleInv == SE!TypeOK /\ SE!TrustedUnblended /\ SE!OneRunAtATime /\ SE!OnlyBrokenListed

LEMMA InitSettle == ASSUME MaxEntered \in Nat, SeMaxTime \in Nat, SE!Init PROVE SettleInv
  <1>1. SE!TypeOK
    BY InitTypes
  <1>2. SE!TrustedUnblended
    BY DEF SE!Init, SE!TrustedUnblended, SE!DestinationsTrusted, SE!RunsTrusted, SE!Trusted, SE!NoDestination, SE!Idle
  <1>3. SE!OneRunAtATime /\ SE!OnlyBrokenListed
    BY DEF SE!Init, SE!OneRunAtATime, SE!OnlyBrokenListed, SE!Locked, SE!Idle
  <1> QED
    BY <1>1, <1>2, <1>3 DEF SettleInv

LEMMA SettleKept ==
    ASSUME MaxEntered \in Nat, SeMaxTime \in Nat, SE!NoOne \notin Workers, SettleInv, [SE!Next]_(SE!vars)
    PROVE  SettleInv'
  <1> USE DEF SettleInv
  <1>1. SE!TypeOK'
    BY NextTypes
  <1>2. blended => blended'
    BY DEF SE!Next, SE!Steps, SE!vars, SE!Create, SE!Update, SE!Verify, SE!SelectDestination,
           SE!WriteDestination, SE!UpsertConfig, SE!Complete, SE!StartRun, SE!LockConfig,
           SE!CheckDestination, SE!Select, SE!SaveCompleted, SE!BreakInsert, SE!BreakTransaction, SE!Tick
  <1>3. SE!TrustedUnblended'
    <2>1. ASSUME ~blended' PROVE SE!DestinationsTrusted' /\ SE!RunsTrusted'
      <3>1. SE!DestinationsTrusted /\ SE!RunsTrusted
        BY <1>2, <2>1 DEF SE!TrustedUnblended
      <3> QED
        BY <1>1, <2>1, <3>1, TrustKept, RunsStayTrusted
    <2> QED
      BY <2>1 DEF SE!TrustedUnblended
  <1> QED
    BY <1>1, <1>3, OneRunKept, ListedKept

LEMMA SettlementsMove == [Next]_vars => [SE!Next]_(SE!vars)
  BY DEF Next, vars, plVars, wdVars, acVars, tkVars, auVars, akVars, diVars, thVars, wnVars,
     raVars, ejVars, msVars, seVars, SE!vars

LEMMA SettledHolds == SettleInv => SettledOnce
  <1>1. SettleInv => (~blended => SE!PaysConfirmedAddress)
    BY DEF SettleInv, SE!TrustedUnblended, SE!RunsTrusted, SE!PaysConfirmedAddress
  <1>2. SettleInv => SE!ListedOnce
    <2> SUFFICES ASSUME SettleInv, NEW p \in Payments PROVE listed[p] <= 1 + broken
      BY DEF SE!ListedOnce
    <2>1. listed[p] \in Nat /\ broken \in Nat /\ listed[p] <= broken
      BY DEF SettleInv, SE!OnlyBrokenListed, SE!TypeOK
    <2> QED
      BY <2>1
  <1> QED
    BY <1>1, <1>2 DEF SettledOnce, SE!SettledOnce

(* As long as no UPDATE of the destination falls on a row that another     *)
(* save changed since its SELECT, a run goes on only to an address whose   *)
(* own token came back and that was entered a day before; and a payment is *)
(* listed once, and once more at most for each broken connection, whatever *)
(* the UPDATEs do, for any number of runs and of edits of the destination  *)
(* (settlements.service.ts:96-229, 555-695).                               *)
THEOREM SettlementsKept ==
    ASSUME MaxEntered \in Nat, SeMaxTime \in Nat, SE!NoOne \notin Workers PROVE Spec => []SettledOnce
  <1>1. Init => SettleInv
    BY InitSettle DEF Init
  <1>2. SettleInv /\ [Next]_vars => SettleInv'
    BY SettlementsMove, SettleKept
  <1> QED
    BY <1>1, <1>2, SettledHolds, PTL DEF Spec

(* No run with payments ever commits: no payment is stamped with its       *)
(* settlement, and a settlement that lists one as completed was let        *)
(* through by a connection that broke (settlements.service.ts:555-695).    *)
THEOREM NothingCommits ==
    ASSUME MaxEntered \in Nat, SeMaxTime \in Nat, SE!NoOne \notin Workers
    PROVE  Spec => []SE!OnlyBrokenListed
  <1>1. Init => SettleInv
    BY InitSettle DEF Init
  <1>2. SettleInv /\ [Next]_vars => SettleInv'
    BY SettlementsMove, SettleKept
  <1>3. SettleInv => SE!OnlyBrokenListed
    BY DEF SettleInv
  <1> QED
    BY <1>1, <1>2, <1>3, PTL DEF Spec

-----------------------------------------------------------------------------
(* The types of all.                                                       *)

(* The bounds begin.                                                       *)
LEMMA PeriodsBegin ==
    ASSUME WnMaxTime \in Nat \ {0}, MaxRestarts \in Nat, Tolerance \in Nat,
           RaMaxTime \in Nat \ {0}, RaMaxFaults \in Nat, Ttl \in Nat, Init
    PROVE  NonceBounds /\ RateBounds
  <1>1. NonceBounds
    BY DEF Init, WN!Init, WN!Absent, NonceBounds
  <1>2. RateBounds
    BY DEF Init, RA!Init, RA!None, RateBounds
  <1> QED
    BY <1>1, <1>2

LEMMA CallsBegin ==
    ASSUME AcMaxCalls \in Nat, MaxUpsets \in Nat, Init PROVE acCalls \in 0 .. AcMaxCalls /\ UpsetBounds
  <1>1. acCalls = 0
    BY DEF Init, AC!Init
  <1>2. upsets = 0 /\ wdOverwritten = FALSE
    BY DEF Init, WD!Init
  <1>3. wdOverwritten \in BOOLEAN
    BY <1>2, Zenon
  <1> QED
    BY <1>1, <1>2, <1>3 DEF UpsetBounds

(* The types of a component with proofs of its own are the same here.      *)
LEMMA TypesSame ==
    /\ DIP!TypeOK => DI!TypeOK
    /\ TKP!TypeOK => TK!TypeOK
    /\ TKP!AK!TypeOK => AK!TypeOK
  <1>1. DIP!TypeOK => DI!TypeOK
    BY DEF DIP!TypeOK, DI!TypeOK, DIP!PaymentStatus, DI!PaymentStatus, DIP!DisputeStatus, DI!DisputeStatus,
      DIP!Endings, DI!Endings, DIP!Jobs, DI!Jobs, DIP!Idle, DI!Idle, DIP!At, DI!At, DIP!Exists, DI!Exists,
      DIP!Events, DI!Events
  <1>2. TKP!TypeOK => TK!TypeOK
    BY DEF TKP!TypeOK, TK!TypeOK, TKP!Row, TK!Row, TKP!NoOne, TK!NoOne, TKP!SessionStates, TK!SessionStates,
      TKP!Work, TK!Work, TKP!Idle, TK!Idle, TKP!Logins, TK!Logins, TKP!Refreshes, TK!Refreshes,
      TKP!Revocations, TK!Revocations, TKP!Changes, TK!Changes, TKP!Waits, TK!Waits,
      TKP!LocksServe, TK!LocksServe
  <1>3. TKP!AK!TypeOK => AK!TypeOK
    BY DEF TKP!AK!TypeOK, AK!TypeOK, TKP!AK!Row, AK!Row, TKP!AK!Unborn, AK!Unborn, TKP!AK!Idle, AK!Idle,
      TKP!AK!Saves, AK!Saves, TKP!AK!Calls, AK!Calls, TKP!AK!Inserts, AK!Inserts
  <1> QED
    BY <1>1, <1>2, <1>3

\* What the code configures, with the number of its workers and of the
\* transactions it stores finite.
Configured ==
    /\ IsFiniteSet(Workers) /\ IsFiniteSet(Txs) /\ "nobody" \notin Workers
    /\ AdminRole \in Roles /\ AC!NoRole \notin Roles
    /\ Threshold \in Nat \ {0} /\ Tolerance \in Nat /\ Ttl \in Nat /\ EjAttempts \in Nat \ {0}
    /\ ThrottlersOn /\ AccountWeighed

\* The bounds of the models leave each room to begin.
Bounded ==
    /\ {PlMaxTime, AcMaxCalls, AuMaxTime, MaxChanges, AkMaxCalls, AkMaxFaults, MaxUpdates, MaxEntered,
        SeMaxTime, MaxRestarts, RaMaxFaults, MaxUpsets, EjMaxFaults, MsMaxCalls, MsMaxFaults} \subseteq Nat
    /\ {AuMaxCalls, ThMaxTime, WnMaxTime, RaMaxTime} \subseteq Nat \ {0}

(* Every variable of every component keeps to its type, for any accounts,  *)
(* links, mails and workers that the code may be configured with: among    *)
(* others a bucket never holds more than its limit and the hit that blocks *)
(* it, a mail is tried no more often than its attempts, and the account's  *)
(* sequence number runs ahead of the ledger only by calls that paid or are *)
(* about to (throttler.config.module.ts:13-23, email.service.ts:31-95,     *)
(* stellar.service.ts:45-206).                                             *)
THEOREM TypesHold == ASSUME Configured, Bounded PROVE Spec => []TypeOK
  <1> USE DEF Configured, Bounded
  <1>1. Spec => []PL!TypeOK
    <2>1. Init => PL!LinksInv /\ LinkBounds
      BY LinksBegin, LinkBoundsBegin DEF Init
    <2>2. PL!LinksInv /\ LinkBounds /\ [Next]_vars => PL!LinksInv' /\ LinkBounds'
      BY LinksMove, LinksStep, LinkBoundsKept
    <2> QED
      BY <2>1, <2>2, LinksTyped, PTL DEF Spec
  <1>2. Spec => []WD!TypeOK
    <2>1. Init => WD!DeliveryInv /\ UpsetBounds
      BY Registered, CallsBegin
    <2>2. WD!DeliveryInv /\ UpsetBounds /\ [Next]_vars => WD!DeliveryInv' /\ UpsetBounds'
      BY WebhooksMove, DeliveryStep, UpsetsKept
    <2> QED
      BY <2>1, <2>2, DeliveriesTyped, PTL DEF Spec
  <1>3. Spec => []AC!TypeOK
    <2>1. Init => AC!AccessInv /\ acCalls \in 0 .. AcMaxCalls
      BY AccessBegins, CallsBegin
    <2>2. /\ AC!AccessInv /\ acCalls \in 0 .. AcMaxCalls /\ [Next]_vars
             => AC!AccessInv' /\ acCalls' \in 0 .. AcMaxCalls
      BY AccessMoves, AccessStep, CallsCounted
    <2> DEFINE Inv == AC!AccessInv /\ acCalls \in 0 .. AcMaxCalls
    <2>3. /\ Init => Inv
          /\ Inv /\ [Next]_vars => Inv'
          /\ Inv => AC!TypeOK
      BY <2>1, <2>2, AccessTyped
    <2> QED
      BY <2>3, PTL DEF Spec
  <1>4. Spec => []TK!TypeOK
    <2>1. TKP!Spec => []TKP!TypeOK
      BY TKP!TypeCorrect DEF TKP!NoOne
    <2> QED
      BY <2>1, TypesSame, TokensBegin, TokensMoves, PTL DEF Spec, TKP!Spec
  <1>5. Spec => []AU!TypeOK
    <2>1. Init => AU!AccountInv /\ AccountBounds
      BY AccountBegins, AccountBoundsBegin
    <2>2. AU!AccountInv /\ AccountBounds /\ [Next]_vars => AU!AccountInv' /\ AccountBounds'
      BY AccountsMove, AccountStep, AccountBoundsKept
    <2>3. AU!AccountInv /\ AccountBounds => AU!TypeOK
      BY AccountTyped
    <2> QED
      BY <2>1, <2>2, <2>3, PTL DEF Spec
  <1>6. Spec => []AK!TypeOK
    <2>1. TKP!AK!Spec => []TKP!AK!TypeOK
      BY TKP!KeyTypesCorrect DEF IsFiniteSet, TKP!IsFiniteSet
    <2> QED
      BY <2>1, TypesSame, KeysBegin, KeysMoves, PTL DEF Spec, TKP!AK!Spec
  <1>7. Spec => []DI!TypeOK
    <2>1. DIP!Spec => []DIP!TypeOK
      BY DIP!TypeCorrect
    <2> QED
      BY <2>1, TypesSame, DisputesBegin, DisputesMoves, PTL DEF Spec, DIP!Spec
  <1>8. Spec => []TH!TypeOK
    <2>1. Init => TH!WindowsInv /\ HitBounds
      BY WindowsBegin, HitBoundsBegin
    <2>2. TH!WindowsInv /\ HitBounds /\ [Next]_vars => TH!WindowsInv' /\ HitBounds'
      BY PeriodsMove, WindowsStep, HitBoundsKept
    <2>3. TH!WindowsInv /\ HitBounds => TH!TypeOK
      BY HitsTyped
    <2> QED
      BY <2>1, <2>2, <2>3, PTL DEF Spec
  <1>9. Spec => []WN!TypeOK
    <2>1. Init => WN!NoncesInv /\ NonceBounds
      BY NoncesBegin, PeriodsBegin
    <2>2. WN!NoncesInv /\ NonceBounds /\ [Next]_vars => WN!NoncesInv' /\ NonceBounds'
      BY PeriodsMove, NoncesStep, NonceBoundsKept
    <2>3. WN!NoncesInv /\ NonceBounds => WN!TypeOK
      BY NoncesTyped
    <2> QED
      BY <2>1, <2>2, <2>3, PTL DEF Spec
  <1>10. Spec => []RA!TypeOK
    <2>1. Init => RA!RatesInv /\ RateBounds
      BY RatesBegin, PeriodsBegin
    <2>2. RA!RatesInv /\ RateBounds /\ [Next]_vars => RA!RatesInv' /\ RateBounds'
      BY PeriodsMove, RatesStep, RateBoundsKept
    <2>3. RA!RatesInv /\ RateBounds => RA!TypeOK
      BY RatesTyped
    <2> QED
      BY <2>1, <2>2, <2>3, PTL DEF Spec
  <1>11. Spec => []EJ!TypeOK
    <2>1. Init => EJ!MailsInv /\ MailBounds
      BY MailsBegin, MailBoundsBegin
    <2>2. EJ!MailsInv /\ MailBounds /\ [Next]_vars => EJ!MailsInv' /\ MailBounds'
      BY MailsMove, MailsStep, MailBoundsKept
    <2>3. EJ!MailsInv /\ MailBounds => EJ!TypeOK
      BY MailsTyped
    <2> QED
      BY <2>1, <2>2, <2>3, PTL DEF Spec
  <1>12. Spec => []MS!TypeOK
    <2>1. Init => MS!WeightsInv /\ SignBounds
      BY WeightsBegin, SignBoundsBegin
    <2>2. MS!WeightsInv /\ SignBounds /\ [Next]_vars => MS!WeightsInv' /\ SignBounds'
      BY SignaturesMove, WeightsStep, SignBoundsKept
    <2>3. MS!WeightsInv /\ SignBounds => MS!TypeOK
      BY SignsTyped
    <2> QED
      BY <2>1, <2>2, <2>3, PTL DEF Spec
  <1>13. Spec => []SE!TypeOK
    <2>1. Init => SettleInv
      BY InitSettle DEF Init
    <2>2. SettleInv /\ [Next]_vars => SettleInv'
      BY SettlementsMove, SettleKept DEF SE!NoOne
    <2>3. SettleInv => SE!TypeOK
      BY DEF SettleInv
    <2> QED
      BY <2>1, <2>2, <2>3, PTL DEF Spec
  <1>14. PL!TypeOK /\ WD!TypeOK /\ AC!TypeOK /\ TK!TypeOK /\ AU!TypeOK /\ AK!TypeOK /\ DI!TypeOK
         /\ TH!TypeOK /\ WN!TypeOK /\ RA!TypeOK /\ EJ!TypeOK /\ MS!TypeOK /\ SE!TypeOK
         => TypeOK
    BY DEF TypeOK
  <1> QED
    BY <1>1, <1>2, <1>3, <1>4, <1>5, <1>6, <1>7, <1>8, <1>9, <1>10, <1>11, <1>12, <1>13, <1>14, PTL
=================================================================================
