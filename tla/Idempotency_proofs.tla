------------------------- MODULE Idempotency_proofs -------------------------
(***************************************************************************)
(* Proofs about Idempotency, for any number of requests and every bound:   *)
(* the type invariant; that no request touches a claim of another before   *)
(* something expires; how many payments and concurrent handlers a key can  *)
(* have; and that the requests implement OncePerKey.                       *)
(***************************************************************************)
EXTENDS Idempotency, FiniteSetTheorems, TLAPS

----------------------------------------------------------------------------
(* Bounded sets.                                                           *)

\* A subset is bounded by what bounds the set.
LEMMA AtMostSubset ==
    ASSUME NEW S, NEW T, T \subseteq S, NEW n \in Nat, AtMost(S, n)
    PROVE  AtMost(T, n)
<1>1. IsFiniteSet(T) /\ Cardinality(T) <= Cardinality(S)
  BY FS_Subset DEF AtMost
<1>2. Cardinality(T) \in Nat /\ Cardinality(S) \in Nat
  BY <1>1, FS_CardinalityType DEF AtMost
<1> QED
  BY <1>1, <1>2, SMT DEF AtMost

\* One more element, one more in the bound.
LEMMA AtMostAdd ==
    ASSUME NEW S, NEW x, NEW T, T \subseteq S \cup {x}, NEW n \in Nat, AtMost(S, n)
    PROVE  AtMost(T, n + 1)
<1>1. /\ IsFiniteSet(S \cup {x})
      /\ Cardinality(S \cup {x}) = IF x \in S THEN Cardinality(S) ELSE Cardinality(S) + 1
  BY FS_AddElement DEF AtMost
<1>2. Cardinality(S) \in Nat
  BY FS_CardinalityType DEF AtMost
<1>3. AtMost(S \cup {x}, n + 1)
  BY <1>1, <1>2, SMT DEF AtMost
<1> QED
  BY <1>3, AtMostSubset

\* A larger bound will do.
LEMMA AtMostWeaken ==
    ASSUME NEW S, NEW n \in Nat, NEW m \in Nat, n <= m, AtMost(S, n)
    PROVE  AtMost(S, m)
<1>1. Cardinality(S) \in Nat
  BY FS_CardinalityType DEF AtMost
<1> QED
  BY <1>1, SMT DEF AtMost

\* Nothing is in a set of at most no elements.
LEMMA AtMostZero ==
    ASSUME NEW S, AtMost(S, 0)
    PROVE  S = {}
<1>1. Cardinality(S) \in Nat
  BY FS_CardinalityType DEF AtMost
<1>2. Cardinality(S) = 0
  BY <1>1, SMT DEF AtMost
<1> QED
  BY <1>2, FS_EmptySet DEF AtMost

----------------------------------------------------------------------------
(* Types.                                                                  *)

\* The names of the program points, of the answers and of the rows are distinct.
LEMMA Names ==
    /\ \A r \in Requests : r \notin Refusals /\ r # InProgress /\ r # Unanswered
                           /\ r # "nobody"
    /\ Unanswered \notin Refusals /\ InProgress \notin Refusals
    /\ \A k \in Row : k # NoRow
<1>1. Requests \cap (Refusals \cup {InProgress, Unanswered, "nobody"}) = {}
  BY IdempotencyAssumption DEF IdempotencyAssumption
<1>2. \A r \in Requests : r \notin Refusals /\ r # InProgress /\ r # Unanswered
                           /\ r # "nobody"
  BY <1>1
<1>3. \A k \in Row : k # NoRow
  BY <1>2, SMT DEF Row, NoRow
<1> QED
  BY <1>2, <1>3 DEF Unanswered, InProgress, Refusals

\* What a request makes of a row is a response or a refusal.
LEMMA VerdictType ==
    ASSUME NEW r \in Requests, NEW k \in Row
    PROVE  Verdict(r, k) \in Requests \cup Refusals
  BY SMT DEF Verdict, Row, Refusals

\* A request claims the key with a row of its own.
LEMMA Claimed ==
    ASSUME NEW r \in Requests
    PROVE  /\ Claim(r) \in Row /\ Claim(r).by = r /\ Claim(r).body = Body[r]
           /\ Claim(r).response = InProgress /\ Claim(r).expired = FALSE
<1>1. Body[r] \in Bodies
  BY IdempotencyAssumption DEF IdempotencyAssumption
<1> QED
  BY <1>1, Zenon DEF Row, Claim

\* The two changes that a row sees.
LEMMA RowChanges ==
    ASSUME NEW k \in Row
    PROVE  /\ \A r \in Requests :
                 LET j == [k EXCEPT !.response = r]
                 IN  /\ j \in Row /\ j.response = r
                     /\ j.by = k.by /\ j.body = k.body /\ j.expired = k.expired
           /\ LET j == [k EXCEPT !.expired = TRUE]
              IN  /\ j \in Row /\ j.expired = TRUE
                  /\ j.by = k.by /\ j.body = k.body /\ j.response = k.response
  BY Zenon DEF Row

\* The bounds are natural numbers.
LEMMA BoundsType ==
    MaxExpiries \in Nat /\ MaxLost \in Nat /\ MaxCuts \in Nat /\ MaxFailures \in Nat
    /\ \A r \in Requests : Body[r] \in Bodies
  BY IdempotencyAssumption DEF IdempotencyAssumption

\* Every step of a request keeps the types.
LEMMA StepType ==
    ASSUME TypeOK, NEW r \in Requests, Step(r)
    PROVE  TypeOK'
<1> USE DEF Claiming, Handling, Finished
<1>1. CASE Find(r) \/ Recheck(r)
  <2>1. /\ UNCHANGED <<row, payments, expiries, lost, cuts, failures, stolen>>
        /\ \E next \in {"inserting", "deleting", "done", "finding", "redeleting"} :
              Go(r, next)
        /\ UNCHANGED answer \/ (row # NoRow /\ Tell(r, Verdict(r, row)))
    BY <1>1 DEF Find, Recheck, bounds
  <2>2. answer' \in [Requests -> Requests \cup Refusals \cup {Unanswered}]
    BY <2>1, VerdictType DEF TypeOK, Tell
  <2>3. pc' \in [Requests -> Claiming \cup Handling \cup Finished]
    BY <2>1 DEF TypeOK, Go
  <2> QED
    BY <2>1, <2>2, <2>3 DEF TypeOK
<1>2. CASE Delete(r) \/ Clear(r)
  BY <1>2 DEF TypeOK, Delete, Clear, Go, bounds, Robs
<1>3. CASE Insert(r)
  <2>1. /\ UNCHANGED <<payments, answer, expiries, lost, cuts, stolen>>
        /\ \E next \in {"running", "conflicted"} : Go(r, next)
        /\ row' = row \/ row' = Claim(r)
    BY <1>3 DEF Insert
  <2>2. row' \in Row \cup {NoRow}
    BY <2>1, Claimed, Zenon DEF TypeOK
  <2>3. pc' \in [Requests -> Claiming \cup Handling \cup Finished]
    BY <2>1 DEF TypeOK, Go
  <2>4. failures' \in 0..MaxFailures
    BY <1>3, BoundsType, SMT DEF TypeOK, Insert
  <2> QED
    BY <2>1, <2>2, <2>3, <2>4 DEF TypeOK
<1>4. CASE Create(r)
  BY <1>4 DEF TypeOK, Create, Go, bounds
<1>5. CASE Return(r)
  BY <1>5 DEF TypeOK, Return, Go, Tell, bounds
<1>6. CASE Throw(r)
  <2>1. lost' \in 0..MaxLost /\ payments' \subseteq Requests
    BY <1>6, BoundsType, SMT DEF TypeOK, Throw
  <2> QED
    BY <1>6, <2>1 DEF TypeOK, Throw, Go, Tell, Refusals
<1>7. CASE Save(r)
  <2>1. row' \in Row \cup {NoRow}
    BY <1>7, RowChanges, Zenon DEF TypeOK, Save
  <2> QED
    BY <1>7, <2>1 DEF TypeOK, Save, Go, bounds, Robs
<1> QED
  BY <1>1, <1>2, <1>3, <1>4, <1>5, <1>6, <1>7 DEF Step

\* Every variable keeps its type, whatever requests interleave, crash and expire.
THEOREM TypeCorrect == Spec => []TypeOK
<1>1. Init => TypeOK
  <2>1. 0 \in 0..MaxExpiries /\ 0 \in 0..MaxLost /\ 0 \in 0..MaxCuts
        /\ 0 \in 0..MaxFailures
    BY BoundsType, SMT
  <2> QED
    BY <2>1 DEF Init, TypeOK, Claiming
<1>2. TypeOK /\ [Next]_vars => TypeOK'
  <2> SUFFICES ASSUME TypeOK, [Next]_vars PROVE TypeOK'
    OBVIOUS
  <2>1. CASE UNCHANGED vars
    BY <2>1 DEF vars, TypeOK
  <2>2. ASSUME NEW r \in Requests, Cut(r)
        PROVE  TypeOK'
    <3>1. cuts' \in 0..MaxCuts
      BY <2>2, BoundsType, SMT DEF TypeOK, Cut
    <3> QED
      BY <2>2, <3>1 DEF TypeOK, Cut, Go, Finished
  <2>3. CASE Expire
    <3>1. expiries' \in 0..MaxExpiries
      BY <2>3, BoundsType, SMT DEF TypeOK, Expire
    <3>2. row' \in Row
      BY <2>3, RowChanges, Zenon DEF TypeOK, Expire
    <3> QED
      BY <2>3, <3>1, <3>2 DEF TypeOK, Expire
  <2>4. CASE CleanupExpired
    BY <2>4 DEF TypeOK, CleanupExpired, bounds
  <2> QED
    BY <2>1, <2>2, <2>3, <2>4, StepType DEF Next
<1> QED
  BY <1>1, <1>2, PTL DEF Spec

----------------------------------------------------------------------------
(* Where a request is, and whose row it is.                                *)

\* A request that moves leaves the others where they are.
LEMMA Moved ==
    ASSUME TypeOK, NEW r \in Requests, NEW next, Go(r, next)
    PROVE  pc'[r] = next /\ \A q \in Requests : q # r => pc'[q] = pc[q]
  BY DEF TypeOK, Go

\* A request that is answered leaves the answers of the others alone.
LEMMA Told ==
    ASSUME TypeOK, NEW r \in Requests, NEW what, Tell(r, what)
    PROVE  answer'[r] = what /\ \A q \in Requests : q # r => answer'[q] = answer[q]
  BY DEF TypeOK, Tell

\* The row, while there is one, keeps belonging to a request past its INSERT.
LEMMA OwnedStep ==
    ASSUME TypeOK, RowOwned, [Next]_vars
    PROVE  RowOwned'
<1> DEFINE Before == {"finding", "deleting", "inserting"}
<1>1. CASE UNCHANGED vars
  BY <1>1 DEF vars, RowOwned
<1>2. ASSUME NEW r \in Requests, NEW next, Go(r, next), UNCHANGED row,
             \/ pc[r] \in Before
             \/ row = NoRow
             \/ /\ next \notin Before
                /\ next = "redeleting" => row.expired
      PROVE  RowOwned'
  <2>1. row # NoRow => row.by \in Requests
    BY SMT DEF TypeOK, Row
  <2> QED
    BY <1>2, <2>1, Moved, Zenon DEF RowOwned
<1>3. ASSUME row' = NoRow PROVE RowOwned'
  BY <1>3 DEF RowOwned
<1>4. ASSUME NEW r \in Requests, Find(r) \/ Recheck(r)
      PROVE  RowOwned'
  BY <1>2, <1>4, Zenon DEF Find, Recheck
<1>5. ASSUME NEW r \in Requests, Create(r) \/ Return(r) \/ Throw(r) \/ Cut(r)
      PROVE  RowOwned'
  <2>1. {"made", "saving", "clearing", "dead"} \cap (Before \cup {"redeleting"}) = {}
    OBVIOUS
  <2> QED
    BY <1>2, <1>5, <2>1 DEF Create, Return, Throw, Cut
<1>6. ASSUME NEW r \in Requests, Insert(r)
      PROVE  RowOwned'
  <2>1. CASE row' = Claim(r)
    <3>1. pc'[r] \in {"running", "conflicted"} /\ row'.by = r /\ row'.body = Body[r]
      BY <1>6, <2>1, Moved, Claimed DEF Insert
    <3> QED
      BY <3>1, SMT DEF RowOwned
  <2>2. CASE UNCHANGED row
    BY <1>2, <1>6, <2>2 DEF Insert
  <2> QED
    BY <1>6, <2>1, <2>2 DEF Insert
<1>7. ASSUME NEW r \in Requests, Delete(r) \/ Clear(r) \/ CleanupExpired
      PROVE  RowOwned'
  BY <1>3, <1>7 DEF Delete, Clear, CleanupExpired
<1>8. ASSUME NEW r \in Requests, Save(r)
      PROVE  RowOwned'
  <2>1. pc'[r] = "done" /\ \A q \in Requests : q # r => pc'[q] = pc[q]
    BY <1>8, Moved DEF Save
  <2>2. row = NoRow \/ (row' \in Row /\ row'.by = row.by /\ row'.body = row.body
                        /\ row'.expired = row.expired)
    BY <1>8, RowChanges, Zenon DEF Save, TypeOK
  <2>3. row # NoRow => row.by \in Requests
    BY SMT DEF TypeOK, Row
  <2> QED
    BY <1>3, <1>8, <2>1, <2>2, <2>3, SMT DEF RowOwned, Save
<1>9. CASE Expire
  <2>1. row'.by = row.by /\ row'.body = row.body /\ row'.expired
        /\ UNCHANGED pc /\ row # NoRow
    BY <1>9, RowChanges, Zenon DEF Expire, TypeOK
  <2> QED
    BY <2>1, Zenon DEF RowOwned
<1>10. CASE CleanupExpired
  BY <1>3, <1>10 DEF CleanupExpired
<1> QED
  BY <1>1, <1>4, <1>5, <1>6, <1>7, <1>8, <1>9, <1>10 DEF Next, Step

\* Payments and answers keep in step with the requests.
LEMMA ProgressStep ==
    ASSUME TypeOK, Progress, [Next]_vars
    PROVE  Progress'
<1> USE DEF Claiming
<1>1. CASE UNCHANGED <<pc, payments, answer>>
  BY <1>1 DEF Progress
<1>2. ASSUME NEW r \in Requests, Step(r) \/ Cut(r)
      PROVE  Progress'
  <2>1. PICK next : Go(r, next)
    BY <1>2 DEF Step, Find, Delete, Insert, Recheck, Create, Return, Throw, Save, Clear, Cut
  <2>2. pc'[r] = next /\ \A q \in Requests : q # r => pc'[q] = pc[q]
    BY <2>1, Moved
  <2>3. UNCHANGED answer \/ \E what : Tell(r, what)
    BY <1>2 DEF Step, Find, Delete, Insert, Recheck, Create, Return, Throw, Save, Clear, Cut
  <2>4. \A q \in Requests : q # r => answer'[q] = answer[q]
    BY <2>3, Told
  <2>5. \A q \in Requests : q # r => (q \in payments' <=> q \in payments)
    BY <1>2 DEF Step, Find, Delete, Insert, Recheck, Create, Return, Throw, Save, Clear, Cut
  <2>6. /\ pc'[r] \in Claiming \cup {"running"} => r \notin payments'
        /\ pc'[r] \in {"made", "saving"} => r \in payments'
        /\ pc'[r] \in Claiming \cup {"running", "made"} => answer'[r] = Unanswered
    <3>1. CASE Find(r) \/ Recheck(r)
      BY <3>1, Moved, Told DEF Find, Recheck, Progress
    <3>2. CASE Delete(r) \/ Insert(r)
      BY <3>2, Moved DEF Delete, Insert, Progress
    <3>3. CASE Create(r) \/ Return(r) \/ Throw(r)
      BY <3>3, Moved, Told DEF Create, Return, Throw, Progress
    <3>4. CASE Save(r) \/ Clear(r) \/ Cut(r)
      BY <3>4, Moved DEF Save, Clear, Cut
    <3> QED
      BY <1>2, <3>1, <3>2, <3>3, <3>4 DEF Step
  <2> QED
    BY <2>2, <2>4, <2>5, <2>6 DEF Progress
<1> QED
  BY <1>1, <1>2 DEF Next, vars, Expire, CleanupExpired

----------------------------------------------------------------------------
(* Claims and payments.                                                    *)

\* While nothing has expired, the request that handles the key owns the row.
LEMMA HandlerOwns ==
    ASSUME KeyInv, expiries = 0, NEW r \in Requests, pc[r] \in Handling
    PROVE  row # NoRow /\ ~row.expired /\ row.by = r
<1>1. AtMost(Handlers \ Current, 0)
  BY DEF KeyInv, NothingExpired, Accounted
<1>2. r \in Handlers
  BY DEF Handlers
<1>3. r \in Current
  BY <1>1, <1>2, AtMostZero
<1> QED
  BY <1>3 DEF Current

\* Nothing is stolen, and no row deleted, before something expires.
LEMMA NothingStep ==
    ASSUME TypeOK, KeyInv, [Next]_vars
    PROVE  NothingExpired'
<1> SUFFICES ASSUME expiries' = 0
             PROVE  /\ ~stolen'
                    /\ row' # NoRow => ~row'.expired
                    /\ \A r \in Requests : pc'[r] \notin {"deleting", "redeleting"}
  BY DEF NothingExpired
<1>1. ~Expire
  BY SMT DEF Expire, TypeOK
<1>2. expiries = 0
  BY <1>1 DEF Next, Step, Cut, Find, Delete, Insert, Recheck, Create, Return, Throw, Save,
              Clear, CleanupExpired, bounds, vars
<1>3. /\ ~stolen
      /\ row # NoRow => ~row.expired
      /\ \A r \in Requests : pc[r] \notin {"deleting", "redeleting"}
  BY <1>2 DEF KeyInv, NothingExpired
<1>4. CASE UNCHANGED <<row, pc, stolen>>
  BY <1>3, <1>4
<1>5. ASSUME NEW r \in Requests, NEW next, Go(r, next),
             next \notin {"deleting", "redeleting"},
             stolen' = stolen, row' # NoRow => ~row'.expired
      PROVE  /\ ~stolen'
             /\ row' # NoRow => ~row'.expired
             /\ \A q \in Requests : pc'[q] \notin {"deleting", "redeleting"}
  BY <1>3, <1>5, Moved
<1>6. ASSUME NEW r \in Requests, Find(r) \/ Recheck(r)
      PROVE  /\ ~stolen'
             /\ row' # NoRow => ~row'.expired
             /\ \A q \in Requests : pc'[q] \notin {"deleting", "redeleting"}
  BY <1>3, <1>5, <1>6 DEF Find, Recheck
<1>7. ASSUME NEW r \in Requests, Insert(r)
      PROVE  /\ ~stolen'
             /\ row' # NoRow => ~row'.expired
             /\ \A q \in Requests : pc'[q] \notin {"deleting", "redeleting"}
  <2>1. /\ row' = row \/ row' = Claim(r)
        /\ stolen' = stolen
        /\ \E next \in {"running", "conflicted"} : Go(r, next)
    BY <1>7 DEF Insert
  <2>2. row' # NoRow => ~row'.expired
    BY <1>3, <2>1, Claimed
  <2> QED
    BY <1>5, <2>1, <2>2
<1>8. ASSUME NEW r \in Requests, Create(r) \/ Return(r) \/ Throw(r) \/ Cut(r)
      PROVE  /\ ~stolen'
             /\ row' # NoRow => ~row'.expired
             /\ \A q \in Requests : pc'[q] \notin {"deleting", "redeleting"}
  BY <1>3, <1>5, <1>8 DEF Create, Return, Throw, Cut
<1>9. ASSUME NEW r \in Requests, Save(r) \/ Clear(r)
      PROVE  /\ ~stolen'
             /\ row' # NoRow => ~row'.expired
             /\ \A q \in Requests : pc'[q] \notin {"deleting", "redeleting"}
  <2>1. pc[r] \in Handling
    BY <1>9 DEF Save, Clear, Handling
  <2>2. row # NoRow /\ row.by = r /\ ~Robs(r)
    BY <1>2, <2>1, HandlerOwns DEF Robs
  <2>3. row' # NoRow => row'.expired = row.expired
    <3>1. row \in Row
      BY <2>2 DEF TypeOK
    <3>2. row' = NoRow \/ row' = [row EXCEPT !.response = r]
      BY <1>9 DEF Save, Clear
    <3>3. [row EXCEPT !.response = r].expired = row.expired
      BY <3>1, RowChanges, Zenon
    <3> QED
      BY <3>2, <3>3
  <2>4. Go(r, "done") /\ stolen' = stolen
    BY <1>9, <2>2, Zenon DEF Save, Clear, TypeOK
  <2>5. row' # NoRow => ~row'.expired
    BY <1>3, <2>2, <2>3
  <2> QED
    BY <1>5, <2>4, <2>5
<1>10. CASE CleanupExpired
  BY <1>3, <1>10 DEF CleanupExpired
<1>11. ASSUME NEW r \in Requests
       PROVE  ~Delete(r)
  BY <1>3 DEF Delete
<1> QED
  BY <1>1, <1>4, <1>6, <1>7, <1>8, <1>9, <1>10, <1>11 DEF Next, Step, vars

\* A step that sets nothing free, and does not touch the claim of another, keeps the
\* handlers and the payments accounted for.
LEMMA AccountedKept ==
    ASSUME TypeOK, Accounted,
           expiries' = expiries, lost' = lost,
           \A q \in Requests : q \in Handlers' /\ q \notin Current'
                               => q \in Handlers /\ q \notin Current,
           \A q \in Requests : q \in Paying' /\ q \notin Payer'
                               => q \in Paying /\ q \notin Payer,
           payments' \subseteq Requests
    PROVE  /\ AtMost(Handlers \ Current, expiries)'
           /\ AtMost(Paying \ Payer, expiries + lost)'
<1>1. expiries \in Nat /\ expiries + lost \in Nat
  BY BoundsType, SMT DEF TypeOK
<1>2. /\ (Handlers \ Current)' \subseteq Handlers \ Current
      /\ (Paying \ Payer)' \subseteq Paying \ Payer
  BY DEF Handlers, Paying
<1>3. AtMost((Handlers \ Current)', expiries)
  BY <1>1, <1>2, AtMostSubset DEF Accounted
<1>4. AtMost((Paying \ Payer)', expiries + lost)
  BY <1>1, <1>2, AtMostSubset DEF Accounted
<1> QED
  BY <1>3, <1>4 DEF AtMost

\* Reading the row, and answering from it, keeps everything accounted for.
LEMMA AccountedRead ==
    ASSUME TypeOK, KeyInv, Accounted, NEW r \in Requests, Find(r) \/ Recheck(r)
    PROVE  Accounted'
<1>1. PICK next \in {"inserting", "deleting", "done", "finding", "redeleting"} :
         Go(r, next)
  BY DEF Find, Recheck
<1>2. pc'[r] = next /\ \A q \in Requests : q # r => pc'[q] = pc[q]
  BY <1>1, Moved
<1>3. pc[r] \in {"finding", "conflicted"}
  BY DEF Find, Recheck
<1>4. UNCHANGED <<row, payments, expiries, lost>>
  BY DEF Find, Recheck, bounds
<1>5. StoredFits'
  BY <1>4 DEF Accounted, StoredFits
<1>6. AnswerFitsBody'
  <2>1. CASE UNCHANGED answer
    BY <1>4, <2>1 DEF Accounted, AnswerFitsBody
  <2>2. CASE row # NoRow /\ ~row.expired /\ Tell(r, Verdict(r, row))
    <3>1. answer'[r] = Verdict(r, row)
          /\ \A q \in Requests : q # r => answer'[q] = answer[q]
      BY <2>2, Told
    <3>2. Verdict(r, row) \in Requests =>
             Verdict(r, row) \in payments /\ Body[Verdict(r, row)] = Body[r]
      <4>1. "mismatch" \notin Requests /\ "conflict" \notin Requests
        BY Names, SMT DEF Refusals
      <4> QED
        BY <2>2, <4>1, SMT DEF Verdict, Accounted, StoredFits
    <3> QED
      BY <1>4, <3>1, <3>2 DEF Accounted, AnswerFitsBody
  <2> QED
    BY <2>1, <2>2 DEF Find, Recheck
<1>7. /\ \A q \in Requests : q \in Handlers' => q \in Handlers
      /\ \A q \in Requests : q \in Paying' => q \in Paying
      /\ \A q \in Requests : q \in Payer => q \in Payer'
      /\ Current' = Current
  BY <1>2, <1>3, <1>4, SMT DEF Handlers, Paying, Payer, Current, Handling
<1>8. payments' \subseteq Requests
  BY <1>4 DEF TypeOK
<1> QED
  BY <1>4, <1>5, <1>6, <1>7, <1>8, AccountedKept DEF Accounted

\* So does a handler that makes its payment, answers, or fails: a failure gives the
\* claim up, and is accounted for by a lost answer if it had made a payment.
LEMMA AccountedHandled ==
    ASSUME TypeOK, KeyInv, Accounted, NEW r \in Requests,
           Create(r) \/ Return(r) \/ Throw(r) \/ Cut(r)
    PROVE  Accounted'
<1>1. UNCHANGED <<row, expiries>> /\ Current' = Current
  BY DEF Create, Return, Throw, Cut, bounds, Current
<1>2. payments \subseteq payments' /\ payments' \subseteq Requests
  BY DEF Create, Return, Throw, Cut, TypeOK
<1>3. StoredFits'
  BY <1>1, <1>2 DEF Accounted, StoredFits
<1>4. PICK next \in {"made", "saving", "clearing", "dead"} : Go(r, next)
  BY DEF Create, Return, Throw, Cut
<1>5. pc'[r] = next /\ \A q \in Requests : q # r => pc'[q] = pc[q]
  BY <1>4, Moved
<1>6. AnswerFitsBody'
  <2>1. CASE UNCHANGED answer
    BY <1>2, <2>1 DEF Accounted, AnswerFitsBody
  <2>2. CASE Return(r)
    <3>1. r \in payments
      BY <2>2 DEF Return, KeyInv, Progress
    <3> QED
      BY <1>2, <2>2, <3>1, Told DEF Return, Accounted, AnswerFitsBody
  <2>3. CASE Throw(r)
    <3>1. "error" \notin Requests
      BY Names, SMT DEF Refusals
    <3> QED
      BY <1>2, <2>3, <3>1, Told DEF Throw, Accounted, AnswerFitsBody
  <2> QED
    BY <2>1, <2>2, <2>3 DEF Create, Cut
<1>7. \A q \in Requests : q \in Handlers' => q \in Handlers
  <2>1. pc'[r] = "dead" \/ pc[r] \in {"running", "made"}
    BY Moved DEF Create, Return, Throw, Cut
  <2> QED
    BY <1>5, <2>1, SMT DEF Handlers, Handling
<1>8. CASE UNCHANGED lost
  <2>1. \A q \in Requests : q \in Paying' /\ q \notin Payer'
                            => q \in Paying /\ q \notin Payer
    <3>1. CASE Create(r)
      <4>1. pc[r] = "running" /\ pc'[r] = "made" /\ payments' = payments \cup {r}
        BY <3>1, Moved DEF Create
      <4> QED
        BY <1>1, <1>5, <4>1, SMT DEF Paying, Payer
    <3>2. CASE Return(r) \/ Cut(r)
      <4>1. pc'[r] \in {"saving", "dead"} /\ UNCHANGED payments
        BY <3>2, Moved DEF Return, Cut
      <4> QED
        BY <1>1, <1>5, <4>1, SMT DEF Paying, Payer
    <3>3. CASE Throw(r)
      <4>1. UNCHANGED payments
        BY <1>8, <3>3, SMT DEF Throw, TypeOK
      <4>2. r \notin payments /\ pc[r] = "running" /\ pc'[r] = "clearing"
        BY <1>5, <3>3, Moved DEF Throw, KeyInv, Progress
      <4> QED
        BY <1>1, <1>5, <4>1, <4>2, SMT DEF Paying, Payer
    <3> QED
      BY <3>1, <3>2, <3>3
  <2> QED
    BY <1>1, <1>2, <1>3, <1>6, <1>7, <1>8, <2>1, AccountedKept DEF Accounted
<1>9. CASE ~UNCHANGED lost
  <2>1. /\ Throw(r) /\ lost' = lost + 1 /\ payments' = payments \cup {r}
        /\ pc[r] = "running" /\ pc'[r] = "clearing"
    BY <1>9, Moved DEF Create, Return, Throw, Cut, bounds
  <2>2. expiries \in Nat /\ lost \in Nat
    BY BoundsType, SMT DEF TypeOK
  <2>3. (Handlers \ Current)' \subseteq Handlers \ Current
    BY <1>1, <1>7 DEF Handlers
  <2>4. (Paying \ Payer)' \subseteq (Paying \ Payer) \cup {r}
    BY <1>1, <1>5, <2>1, SMT DEF Paying, Payer
  <2>5. AtMost((Handlers \ Current)', expiries)
    BY <2>2, <2>3, AtMostSubset DEF Accounted
  <2>6. AtMost((Paying \ Payer)', expiries + lost + 1)
    <3>1. expiries + lost \in Nat
      BY <2>2, SMT
    <3> QED
      BY <2>4, <3>1, AtMostAdd DEF Accounted
  <2>7. expiries' + lost' = expiries + lost + 1
    BY <1>1, <2>1, <2>2, SMT
  <2> QED
    BY <1>1, <1>3, <1>6, <2>5, <2>6, <2>7 DEF Accounted, AtMost
<1> QED
  BY <1>8, <1>9

\* So does a change of the row by a request that owns it, or finds none that is valid.
LEMMA AccountedOwned ==
    ASSUME TypeOK, KeyInv, Accounted, NEW r \in Requests, ~stolen',
           Delete(r) \/ Insert(r) \/ Save(r) \/ Clear(r)
    PROVE  Accounted'
<1>1. UNCHANGED <<payments, answer, expiries, lost>>
  BY DEF Delete, Insert, Save, Clear, bounds
<1>2. AnswerFitsBody' /\ payments' \subseteq Requests
  BY <1>1 DEF Accounted, AnswerFitsBody, TypeOK
<1>3. PICK next : Go(r, next)
  BY DEF Delete, Insert, Save, Clear
<1>4. pc'[r] = next /\ \A q \in Requests : q # r => pc'[q] = pc[q]
  BY <1>3, Moved
<1>5. ASSUME StoredFits',
             \A q \in Requests : q \in Handlers' /\ q \notin Current'
                                => q \in Handlers /\ q \notin Current,
             \A q \in Requests : q \in Paying' /\ q \notin Payer'
                                => q \in Paying /\ q \notin Payer
      PROVE  Accounted'
  BY <1>1, <1>2, <1>5, AccountedKept DEF Accounted
<1>6. CASE Delete(r)
  <2>1. Current = {} /\ Payer = {}
    <3>1. pc[r] \in {"deleting", "redeleting"} /\ ~Robs(r)
      BY <1>6 DEF Delete
    <3>2. row # NoRow => row.by # r \/ row.expired
      BY <3>1 DEF KeyInv, RowOwned
    <3> QED
      BY <3>1, <3>2 DEF Robs, Current, Payer
  <2>2. pc'[r] \in {"inserting", "finding"} /\ row' = NoRow
    BY <1>6, Moved DEF Delete
  <2>3. StoredFits'
    BY <2>2 DEF StoredFits
  <2>4. \A q \in Requests : (q \in Handlers' => q \in Handlers)
                           /\ (q \in Paying' => q \in Paying)
    BY <1>1, <1>4, <2>2, SMT DEF Handlers, Paying, Handling
  <2> QED
    BY <1>5, <2>1, <2>3, <2>4
<1>7. CASE Insert(r) /\ UNCHANGED row
  <2>1. pc[r] = "inserting" /\ pc'[r] = "conflicted"
    BY <1>7, Moved, Claimed, Names DEF Insert
  <2>2. StoredFits'
    BY <1>1, <1>7 DEF Accounted, StoredFits
  <2>3. /\ \A q \in Requests : (q \in Handlers' => q \in Handlers)
                               /\ (q \in Paying' => q \in Paying)
                               /\ (q \in Payer => q \in Payer')
        /\ Current' = Current
    BY <1>1, <1>4, <1>7, <2>1, SMT DEF Handlers, Paying, Payer, Current, Handling
  <2> QED
    BY <1>5, <2>2, <2>3
<1>8. CASE Insert(r) /\ row' # row
  <2>1. pc[r] = "inserting" /\ pc'[r] \in {"running", "conflicted"} /\ row' \in Row
        /\ row'.by = r /\ row'.response = InProgress /\ row'.expired = FALSE
        /\ row = NoRow
    BY <1>8, Moved, Claimed, ZenonT(30) DEF Insert
  <2>2. StoredFits'
    BY <2>1, Names DEF StoredFits
  <2>3. Current = {} /\ Payer = {} /\ Current' = {r} /\ r \in Payer'
    BY <1>8, <2>1, Names, SMT DEF Current, Payer
  <2>4. \A q \in Requests : q # r => (q \in Handlers' => q \in Handlers)
                                   /\ (q \in Paying' => q \in Paying)
    BY <1>1, <1>4, <2>1, SMT DEF Handlers, Paying
  <2> QED
    BY <1>5, <2>2, <2>3, <2>4
<1>9. CASE Save(r)
  <2>1. pc[r] = "saving" /\ pc'[r] = "done" /\ r \in payments
    BY <1>9, Moved DEF Save, KeyInv, Progress
  <2>2. row = NoRow \/ row.by = r \/ row.expired
    BY <1>9 DEF Save, Robs
  <2>3. \/ row = NoRow /\ row' = NoRow
        \/ /\ row # NoRow /\ row' # NoRow /\ row'.response = r
           /\ row'.by = row.by /\ row'.body = row.body /\ row'.expired = row.expired
    <3>1. CASE row = NoRow
      BY <1>9, <3>1 DEF Save
    <3>2. CASE row # NoRow
      <4> DEFINE k == [row EXCEPT !.response = r]
      <4>1. row \in Row /\ row' = k
        BY <1>9, <3>2 DEF TypeOK, Save
      <4>2. k \in Row /\ k.response = r /\ k.by = row.by /\ k.body = row.body
            /\ k.expired = row.expired
        BY <4>1, RowChanges, Zenon
      <4> HIDE DEF k
      <4> QED
        BY <3>2, <4>1, <4>2, Names
    <3> QED
      BY <3>1, <3>2
  <2>4. Current' = Current
    BY <2>3 DEF Current
  <2>5. StoredFits'
    BY <1>1, <2>1, <2>2, <2>3, Zenon DEF StoredFits, KeyInv, RowOwned
  <2>6. \A q \in Requests : (q \in Handlers' => q \in Handlers)
                           /\ (q \in Paying' => q \in Paying)
                           /\ (q \in Payer => q \in Payer')
    BY <1>1, <1>4, <2>1, <2>4, SMT DEF Handlers, Paying, Payer, Handling
  <2> QED
    BY <1>5, <2>4, <2>5, <2>6
<1>10. CASE Clear(r)
  <2>1. pc[r] = "clearing" /\ pc'[r] = "done" /\ row' = NoRow
    BY <1>10, Moved DEF Clear
  <2>2. row = NoRow \/ row.by = r \/ row.expired
    BY <1>10 DEF Clear, Robs
  <2>3. StoredFits'
    BY <2>1 DEF StoredFits
  <2>4. Payer = {} /\ \A q \in Requests : q \in Current => q = r
    BY <2>1, <2>2, SMT DEF Payer, Current
  <2>5. \A q \in Requests : (q \in Handlers' => q \in Handlers /\ q # r)
                           /\ (q \in Paying' => q \in Paying)
    BY <1>1, <1>4, <2>1, SMT DEF Handlers, Paying, Handling
  <2> QED
    BY <1>5, <2>3, <2>4, <2>5
<1> QED
  BY <1>6, <1>7, <1>8, <1>9, <1>10

\* So do the clock and the clean-up: an expiry sets at most the owner of the row free.
LEMMA AccountedOutside ==
    ASSUME TypeOK, KeyInv, Accounted, Expire \/ CleanupExpired
    PROVE  Accounted'
<1>1. UNCHANGED <<pc, payments, answer, lost>>
  BY DEF Expire, CleanupExpired, bounds
<1>2. AnswerFitsBody' /\ Handlers' = Handlers /\ Paying' = Paying
      /\ payments' \subseteq Requests
  BY <1>1 DEF Accounted, AnswerFitsBody, Handlers, Paying, TypeOK
<1>3. CASE CleanupExpired
  <2>1. Current = {} /\ Payer = {} /\ row' = NoRow /\ UNCHANGED expiries
    BY <1>3 DEF CleanupExpired, Current, Payer, bounds
  <2> QED
    BY <1>1, <1>2, <2>1, AccountedKept DEF Accounted, StoredFits
<1>4. CASE Expire
  <2>1. row \in Row /\ ~row.expired /\ expiries' = expiries + 1 /\ Current = {row.by}
    BY <1>4 DEF Expire, TypeOK, Current
  <2> DEFINE k == [row EXCEPT !.expired = TRUE]
  <2>2. row' = k /\ k.expired = TRUE
    BY <1>4, <2>1, RowChanges, Zenon DEF Expire
  <2> HIDE DEF k
  <2>3. StoredFits'
    BY <2>2 DEF StoredFits
  <2>4. Payer \subseteq {row.by}
    BY <2>1 DEF Payer
  <2>5. expiries \in Nat /\ lost \in Nat
    BY BoundsType, SMT DEF TypeOK
  <2>6. expiries + lost \in Nat /\ expiries' + lost' = expiries + lost + 1
    BY <1>1, <2>1, <2>5, SMT
  <2>7. AtMost(Handlers \ Current, expiries) /\ AtMost(Paying \ Payer, expiries + lost)
    BY DEF Accounted
  <2>8. AtMost((Handlers \ Current)', expiries + 1)
    <3>1. (Handlers \ Current)' \subseteq (Handlers \ Current) \cup {row.by}
      BY <1>2, <2>1
    <3> QED
      BY <2>5, <2>7, <3>1, AtMostAdd
  <2>9. AtMost((Paying \ Payer)', expiries + lost + 1)
    <3>1. (Paying \ Payer)' \subseteq (Paying \ Payer) \cup {row.by}
      BY <1>2, <2>4
    <3> QED
      BY <2>6, <2>7, <3>1, AtMostAdd
  <2> QED
    BY <1>2, <2>1, <2>3, <2>6, <2>8, <2>9 DEF Accounted, AtMost
<1> QED
  BY <1>3, <1>4

\* Every step keeps the inductive invariant.
LEMMA KeyStep ==
    ASSUME TypeOK, KeyInv, [Next]_vars
    PROVE  KeyInv'
<1>1. RowOwned' /\ Progress' /\ NothingExpired'
  BY OwnedStep, ProgressStep, NothingStep DEF KeyInv
<1>2. ASSUME ~stolen' PROVE Accounted'
  <2>1. ~stolen
    BY <1>2 DEF Next, Step, Cut, Find, Delete, Insert, Recheck, Create, Return, Throw,
                Save, Clear, Expire, CleanupExpired, vars, TypeOK
  <2>2. Accounted
    BY <2>1 DEF KeyInv
  <2>3. CASE UNCHANGED vars
    BY <2>2, <2>3 DEF vars, Accounted, AtMost, Handlers, Current, Paying, Payer,
                      StoredFits, AnswerFitsBody
  <2> QED
    BY <1>2, <2>2, <2>3, AccountedRead, AccountedHandled, AccountedOwned,
       AccountedOutside, Zenon DEF Next, Step
<1> QED
  BY <1>1, <1>2 DEF KeyInv

\* Before anything has happened nothing is claimed, paid or answered.
LEMMA InitKey == Init => KeyInv
<1> SUFFICES ASSUME Init PROVE KeyInv
  OBVIOUS
<1>1. RowOwned /\ Progress /\ NothingExpired
  BY DEF Init, RowOwned, Progress, NothingExpired
<1>2. Handlers = {} /\ Paying = {}
  BY SMT DEF Init, Handlers, Paying, Handling
<1>3. AtMost(Handlers \ Current, expiries) /\ AtMost(Paying \ Payer, expiries + lost)
  BY <1>2, FS_EmptySet, SMT DEF Init, AtMost
<1>4. StoredFits /\ AnswerFitsBody
  BY Names DEF Init, StoredFits, AnswerFitsBody
<1> QED
  BY <1>1, <1>3, <1>4 DEF KeyInv, Accounted

\* The inductive invariant holds of every behaviour.
LEMMA KeyKept == Spec => []KeyInv
  BY InitKey, KeyStep, TypeCorrect, PTL DEF Spec

\* As long as nothing expires no request touches the claim of another, although every
\* statement names the row by its key only.
THEOREM ClaimsKept == Spec => []ClaimsRespected
<1>1. KeyInv => ClaimsRespected
  BY DEF KeyInv, NothingExpired, ClaimsRespected
<1> QED
  BY <1>1, KeyKept, PTL

\* As long as nobody took the valid claim of another, a key yields one payment and has
\* one handler at a time, plus one for every expiry (and payment for every lost
\* answer), and answers go to the body that asked for them.
THEOREM OnePerKey == Spec => []PaymentsPerKey
<1>1. TypeOK /\ KeyInv => PaymentsPerKey
  <2> SUFFICES ASSUME TypeOK, KeyInv, ~stolen
               PROVE  /\ Cardinality(payments) <= 1 + expiries + lost
                      /\ HandlersPerLifetime
                      /\ AnswerFitsBody
    BY DEF PaymentsPerKey
  <2>1. Accounted
    BY DEF KeyInv
  <2>2. expiries \in Nat /\ lost \in Nat /\ expiries + lost \in Nat
    BY BoundsType, SMT DEF TypeOK
  <2>3. PICK x : Current \subseteq {x} /\ Payer \subseteq {x}
    BY DEF Current, Payer
  <2>4. Handlers \subseteq (Handlers \ Current) \cup {x}
        /\ payments \subseteq (Paying \ Payer) \cup {x}
    BY <2>3 DEF Paying
  <2>5. AtMost(Handlers, expiries + 1) /\ AtMost(payments, expiries + lost + 1)
    BY <2>1, <2>2, <2>4, AtMostAdd DEF Accounted
  <2>6. Cardinality(Handlers) \in Nat /\ Cardinality(payments) \in Nat
    BY <2>5, FS_CardinalityType DEF AtMost
  <2>7. /\ Cardinality(payments) <= 1 + expiries + lost
        /\ Cardinality(Handlers) <= 1 + expiries
    BY <2>2, <2>5, <2>6, SMT DEF AtMost
  <2> QED
    BY <2>1, <2>7 DEF Accounted, HandlersPerLifetime, Handlers
<1> QED
  BY <1>1, KeyKept, TypeCorrect, PTL

----------------------------------------------------------------------------
(* The requests implement OncePerKey.                                      *)

\* What the client of a request was told, as OncePerKey has it.
LEMMA GivenIs ==
    /\ DOMAIN Given = Requests
    /\ \A r \in Requests :
          /\ answer[r] = Unanswered => Given[r] = "open"
          /\ answer[r] \in Refusals => Given[r] = "refused"
          /\ answer[r] \in Requests => Given[r] = answer[r]
<1>1. \A r \in Requests : answer[r] \in Refusals => answer[r] # Unanswered
  BY Names
<1> QED
  BY <1>1, Names, Zenon DEF Given

\* While nothing has expired and no answer was lost, whoever pays or has paid is the
\* owner of the row.
LEMMA OnePayer ==
    ASSUME TypeOK, KeyInv, expiries = 0, lost = 0
    PROVE  /\ \A q \in Paying : row # NoRow /\ q = row.by
           /\ Accounted
<1>1. Accounted /\ AtMost(Paying \ Payer, 0)
  BY DEF KeyInv, NothingExpired, Accounted
<1>2. Paying \subseteq Payer
  BY <1>1, AtMostZero
<1> QED
  BY <1>1, <1>2 DEF Payer, Current

\* The only payment is the one made.
LEMMA MakerIs ==
    /\ payments = {} => Maker = "nobody"
    /\ \A r : payments = {r} => Maker = r
<1>1. ASSUME NEW r, payments = {r}
      PROVE  Maker = r
  <2>1. \E q \in payments : TRUE
    BY <1>1
  <2>2. (CHOOSE q \in payments : TRUE) \in payments
    BY <2>1
  <2> QED
    BY <1>1, <2>2 DEF Maker
<1> QED
  BY <1>1 DEF Maker

\* One answer changes, the others do not.
LEMMA GivenStep ==
    ASSUME TypeOK, NEW r \in Requests, NEW what, Tell(r, what), NEW told,
           Given'[r] = told
    PROVE  Given' = [Given EXCEPT ![r] = told]
<1>1. ASSUME NEW q \in Requests, q # r
      PROVE  Given'[q] = Given[q]
  <2>1. answer'[q] = answer[q]
    BY <1>1, Told
  <2> QED
    BY <2>1, SMT DEF Given
<1>2. /\ Given = [q \in Requests |-> Given[q]]
      /\ Given' = [q \in Requests |-> Given'[q]]
  BY DEF Given
<1> QED
  BY <1>1, <1>2

\* A step of the requests is a step of OncePerKey, or changes nothing it can see.
LEMMA PromiseStep ==
    ASSUME TypeOK, KeyInv, [Next]_vars
    PROVE  [Promise!Next]_<<expiries = 0 /\ lost = 0, Maker, Given>>
<1> DEFINE valid == expiries = 0 /\ lost = 0
<1> SUFFICES ASSUME valid'
             PROVE  \/ valid /\ valid' = valid /\ Promise!Keep
                    \/ UNCHANGED <<valid, Maker, Given>>
  BY DEF Promise!Next
<1>1. valid /\ valid' = valid
  BY SMT DEF Next, Step, Cut, Find, Delete, Insert, Recheck, Create, Return, Throw,
             Save, Clear, Expire, CleanupExpired, vars, bounds, TypeOK
<1>2. Accounted /\ \A q \in Paying : row # NoRow /\ q = row.by
  BY <1>1, OnePayer
<1>3. CASE UNCHANGED <<payments, answer>>
  BY <1>1, <1>3 DEF Maker, Given
\* A refusal.
<1>4. ASSUME NEW r \in Requests, NEW what \in Refusals, Tell(r, what),
             answer[r] = Unanswered, UNCHANGED payments
      PROVE  Promise!Keep
  <2>1. Given[r] = "open"
    BY <1>4, GivenIs
  <2>2. answer'[r] = what
    BY <1>4, Told
  <2>3. Given'[r] = "refused"
    BY <1>4, <2>2, Names, Zenon DEF Given
  <2>4. Given' = [Given EXCEPT ![r] = "refused"]
    BY <1>4, <2>3, GivenStep
  <2>5. UNCHANGED Maker
    BY <1>4 DEF Maker
  <2> QED
    BY <2>1, <2>4, <2>5
    DEF Promise!Keep, Promise!Refuse, Promise!Open, Promise!Refused
\* An answer with the payment that was made.
<1>5. ASSUME NEW r \in Requests, NEW q \in payments, Tell(r, q), Body[q] = Body[r],
             answer[r] = Unanswered, UNCHANGED payments
      PROVE  Promise!Keep
  <2>1. Given[r] = "open"
    BY <1>5, GivenIs
  <2>2. q \in Requests /\ payments = {q}
    BY <1>2, <1>5 DEF Paying, TypeOK
  <2>3. Maker = q /\ UNCHANGED Maker
    BY <1>5, <2>2, MakerIs DEF Maker
  <2>4. answer'[r] = q
    BY <1>5, Told
  <2>5. Given'[r] = q
    BY <2>2, <2>4, Names, Zenon DEF Given
  <2>6. Given' = [Given EXCEPT ![r] = q]
    BY <1>5, <2>5, GivenStep
  <2> QED
    BY <1>5, <2>1, <2>2, <2>3, <2>6 DEF Promise!Keep, Promise!Answer, Promise!Open
<1>6. ASSUME NEW r \in Requests, Find(r) \/ Recheck(r), row # NoRow, ~row.expired,
             Tell(r, Verdict(r, row))
      PROVE  Promise!Keep
  <2>1. row \in Row /\ UNCHANGED payments
    BY <1>6 DEF TypeOK, Find, Recheck
  <2>2. answer[r] = Unanswered
    BY <1>6 DEF Find, Recheck, KeyInv, Progress, Claiming
  <2>3. CASE Verdict(r, row) \in Refusals
    BY <1>4, <1>6, <2>1, <2>2, <2>3
  <2>4. CASE Verdict(r, row) \notin Refusals
    <3>1. Verdict(r, row) = row.response /\ row.body = Body[r] /\ row.response \in Requests
      BY <2>1, <2>4, SMT DEF Verdict, Refusals, Row
    <3>2. row.response \in payments /\ Body[row.response] = Body[r]
      BY <1>2, <1>6, <3>1 DEF Accounted, StoredFits
    <3> QED
      BY <1>5, <1>6, <2>1, <2>2, <3>1, <3>2
  <2> QED
    BY <2>3, <2>4
<1>7. ASSUME NEW r \in Requests, Create(r)
      PROVE  Promise!Keep
  <2>1. pc[r] = "running" /\ r \notin payments /\ answer[r] = Unanswered
    BY <1>7 DEF Create, KeyInv, Progress, Claiming
  <2>2. payments = {}
    <3>1. r \in Paying /\ payments \subseteq Paying
      BY <2>1 DEF Paying
    <3> QED
      BY <1>2, <2>1, <3>1
  <2>3. payments' = {r} /\ UNCHANGED Given
    BY <1>7, <2>2 DEF Create, Given
  <2>4. Maker = "nobody" /\ Maker' = r
    BY <2>2, <2>3, MakerIs DEF Maker
  <2>5. Given[r] = "open"
    BY <2>1, GivenIs
  <2> QED
    BY <2>3, <2>4, <2>5 DEF Promise!Keep, Promise!Make, Promise!Nobody, Promise!Open
<1>8. ASSUME NEW r \in Requests, Return(r)
      PROVE  Promise!Keep
  <2>1. r \in payments /\ answer[r] = Unanswered /\ Tell(r, r) /\ UNCHANGED payments
    BY <1>8 DEF Return, KeyInv, Progress
  <2> QED
    BY <1>5, <2>1
<1>9. ASSUME NEW r \in Requests, Throw(r)
      PROVE  Promise!Keep
  <2>1. UNCHANGED payments
    BY <1>1, <1>9, SMT DEF Throw
  <2>2. answer[r] = Unanswered /\ Tell(r, "error") /\ "error" \in Refusals
    BY <1>9 DEF Throw, KeyInv, Progress, Refusals
  <2> QED
    BY <1>4, <2>1, <2>2
<1>10. ASSUME NEW r \in Requests, Find(r) \/ Recheck(r)
       PROVE  Promise!Keep \/ UNCHANGED <<payments, answer>>
  BY <1>6, <1>10 DEF Find, Recheck
<1>11. ASSUME NEW r \in Requests,
              Delete(r) \/ Insert(r) \/ Save(r) \/ Clear(r) \/ Cut(r)
       PROVE  UNCHANGED <<payments, answer>>
  BY <1>11 DEF Delete, Insert, Save, Clear, Cut
<1>12. CASE UNCHANGED vars \/ Expire \/ CleanupExpired
  BY <1>3, <1>12 DEF vars, Expire, CleanupExpired
<1> QED
  BY <1>1, <1>3, <1>7, <1>8, <1>9, <1>10, <1>11, <1>12 DEF Next, Step

\* While the key is valid and no answer has been lost, the requests that carry it
\* behave as OncePerKey says, which is what docs/IDEMPOTENCY.md promises.
THEOREM PromiseKept == Spec => KeepsPromise
<1>1. Init => Promise!Init
  <2> SUFFICES ASSUME Init PROVE Promise!Init
    OBVIOUS
  <2>1. Maker = "nobody"
    BY MakerIs DEF Init
  <2>2. Given = [r \in Requests |-> "open"]
    BY Names DEF Init, Given
  <2> QED
    BY <2>1, <2>2 DEF Init, Promise!Init, Promise!Nobody, Promise!Open
<1>2. TypeOK /\ KeyInv /\ [Next]_vars =>
         [Promise!Next]_<<expiries = 0 /\ lost = 0, Maker, Given>>
  BY PromiseStep
<1> QED
  BY <1>1, <1>2, TypeCorrect, KeyKept, PTL DEF Spec, KeepsPromise, Promise!Spec
=============================================================================
