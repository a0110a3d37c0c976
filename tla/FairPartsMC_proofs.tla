----------------------------- MODULE FairPartsMC_proofs -----------------------------
(***************************************************************************)
(* What is proved of the components that FairPartsMC puts side by side, as *)
(* properties of FairPartsMC: the sale of a checkout session, the stream   *)
(* of payments, the review of a merchant, the creation of payments under   *)
(* limits, the listing of payments, the reports, and the types of all of   *)
(* them and of the migrations.  A step of FairPartsMC is one of the        *)
(* component in focus or leaves its variables alone.                       *)
(***************************************************************************)
EXTENDS FairPartsMC, Sequences, FiniteSetTheorems, SequenceTheorems,
        WellFoundedInduction, TLAPS

-----------------------------------------------------------------------------
(* Checkout sessions: what a job is.                                       *)
(* What a job is, by its pc. *)
LEMMA JobShape ==
    ASSUME CO!TypeOK, NEW w \in Sellers
    PROVE  /\ coJob[w] \in CO!Jobs
           /\ coJob[w].pc \in {"paying", "completing", "expiring"} =>
                coJob[w] \in [pc : {"paying", "completing", "expiring"}, s : Sessions,
                   copy : CO!Row]
           /\ CO!At(w, "sweeping") =>
                coJob[w] \in [pc : {"sweeping"}, now : SUBSET Sessions, stale : SUBSET Sessions]
           /\ CO!At(w, "announcing") =>
                coJob[w] \in [pc : {"announcing"}, todo : SUBSET Sessions, event : CO!Events]
  <1>1. coJob[w] \in CO!Jobs
    BY DEF CO!TypeOK
  <1> QED
    BY <1>1 DEF CO!Jobs, CO!Idle, CO!At

(* A slot gets a new job, or none. *)
LEMMA JobsKept ==
    ASSUME CO!TypeOK, NEW w \in Sellers, NEW new \in CO!Jobs, coJob' = [coJob EXCEPT ![w] = new]
    PROVE  coJob' \in [Sellers -> CO!Jobs]
  BY DEF CO!TypeOK

LEMMA IdleIsJob == CO!Idle \in CO!Jobs
  BY DEF CO!Jobs

LEMMA NoRowUntyped == \A r \in CO!Row : r # CO!NoRow
  BY DEF CO!Row, CO!NoRow, CO!CheckoutSessionStatus

(* A record that keeps its fields but the status is a row. *)
LEMMA RowWithStatus ==
    ASSUME NEW r \in CO!Row, NEW x \in CO!CheckoutSessionStatus
    PROVE  /\ [r EXCEPT !.status = x] \in CO!Row
           /\ [r EXCEPT !.status = x].status = x
  BY DEF CO!Row

-----------------------------------------------------------------------------
(* Types.                                                                  *)

LEMMA InitTypes == ASSUME MaxCuts \in Nat, CO!Init PROVE CO!TypeOK
  BY DEF CO!Init, CO!TypeOK, CO!Jobs

LEMMA LoadTypes ==
    ASSUME CO!TypeOK, NEW w \in Sellers, NEW s \in Sessions,
           NEW pc \in {"paying", "expiring"}, CO!Load(w, s, pc)
    PROVE  CO!TypeOK'
  <1> DEFINE new == [pc |-> pc, s |-> s, copy |-> session[s]]
  <1>1. session[s] \in CO!Row
    BY DEF CO!TypeOK, CO!Load
  <1>2. new \in CO!Jobs
    BY <1>1 DEF CO!Jobs
  <1>3. coJob' = [coJob EXCEPT ![w] = new]
    BY DEF CO!Load
  <1>4. coJob' \in [Sellers -> CO!Jobs]
    BY <1>2, <1>3, JobsKept
  <1> QED
    BY <1>4 DEF CO!TypeOK, CO!Load

LEMMA CreatePaymentTypes ==
    ASSUME CO!TypeOK, NEW w \in Sellers, CO!CreatePayment(w)
    PROVE  CO!TypeOK'
  <1> DEFINE s == coJob[w].s
             new == [pc |-> "completing", s |-> s,
                     copy |-> [status |-> "COMPLETE", payment |-> made[s] + 1]]
  <1>1. /\ coJob[w] \in [pc : {"paying", "completing", "expiring"}, s : Sessions, copy : CO!Row]
        /\ CO!At(w, "paying")
    BY JobShape DEF CO!CreatePayment, CO!At
  <1>2. s \in Sessions /\ made[s] \in Nat
    BY <1>1 DEF CO!TypeOK
  <1>3. new \in CO!Jobs
    BY <1>2 DEF CO!Jobs, CO!Row, CO!CheckoutSessionStatus
  <1>4. coJob' = [coJob EXCEPT ![w] = new]
    BY DEF CO!CreatePayment
  <1>5. coJob' \in [Sellers -> CO!Jobs]
    BY <1>3, <1>4, JobsKept
  <1>6. made' \in [Sessions -> Nat]
    BY <1>2 DEF CO!CreatePayment, CO!TypeOK
  <1> QED
    BY <1>5, <1>6 DEF CO!TypeOK, CO!CreatePayment

LEMMA SaveTypes ==
    ASSUME CO!TypeOK, NEW w \in Sellers, CO!Save(w)
    PROVE  CO!TypeOK'
  <1> DEFINE s == coJob[w].s
             new == [pc |-> "announcing", todo |-> {s},
                     event |-> IF CO!At(w, "expiring") THEN "checkout.session.expired"
                               ELSE "checkout.session.completed"]
  <1>1. coJob[w] \in [pc : {"paying", "completing", "expiring"}, s : Sessions, copy : CO!Row]
    BY JobShape DEF CO!Save
  <1>2. s \in Sessions /\ coJob[w].copy \in CO!Row
    BY <1>1
  <1>3. [coJob[w].copy EXCEPT !.status = "EXPIRED"] \in CO!Row
    BY <1>2, RowWithStatus DEF CO!CheckoutSessionStatus
  <1>4. session' \in [Sessions -> CO!Row \cup {CO!NoRow}]
    BY <1>2, <1>3 DEF CO!Save, CO!TypeOK
  <1>5. new \in CO!Jobs
    BY <1>2 DEF CO!Jobs, CO!Events
  <1>6. coJob' = [coJob EXCEPT ![w] = new]
    BY DEF CO!Save
  <1>7. coJob' \in [Sellers -> CO!Jobs]
    BY <1>5, <1>6, JobsKept
  <1> QED
    BY <1>4, <1>7 DEF CO!TypeOK, CO!Save

LEMMA SweepTypes ==
    ASSUME CO!TypeOK, NEW w \in Sellers, CO!Find(w) \/ CO!ExpireStale(w)
    PROVE  CO!TypeOK'
  <1>1. CASE CO!Find(w)
    <2> DEFINE new == [pc |-> "sweeping", now |-> late,
                       stale |-> {s \in late : session[s].status = "OPEN"}]
    <2>1. new \in CO!Jobs
      BY DEF CO!Jobs, CO!TypeOK
    <2>2. coJob' = [coJob EXCEPT ![w] = new]
      BY <1>1 DEF CO!Find
    <2>3. coJob' \in [Sellers -> CO!Jobs]
      BY <2>1, <2>2, JobsKept
    <2> QED
      BY <1>1, <2>3 DEF CO!TypeOK, CO!Find
  <1>2. CASE CO!ExpireStale(w)
    <2> DEFINE new == IF CO!Expirable(w) = {} THEN CO!Idle
                      ELSE [pc |-> "announcing", todo |-> coJob[w].stale,
                            event |-> "checkout.session.expired"]
    <2>1. coJob[w] \in [pc : {"sweeping"}, now : SUBSET Sessions, stale : SUBSET Sessions]
      BY <1>2, JobShape DEF CO!ExpireStale
    <2>2. new \in CO!Jobs
      BY <2>1 DEF CO!Jobs, CO!Events
    <2>3. coJob' = [coJob EXCEPT ![w] = new]
      BY <1>2 DEF CO!ExpireStale
    <2>4. coJob' \in [Sellers -> CO!Jobs]
      BY <2>2, <2>3, JobsKept
    <2>5. \A s \in CO!Expirable(w) : s \in Sessions /\ session[s] \in CO!Row
      BY <2>1 DEF CO!Expirable, CO!TypeOK, CO!NoRow
    <2>6. \A s \in CO!Expirable(w) : [session[s] EXCEPT !.status = "EXPIRED"] \in CO!Row
      BY <2>5, RowWithStatus DEF CO!CheckoutSessionStatus
    <2>7. session' \in [Sessions -> CO!Row \cup {CO!NoRow}]
      BY <1>2, <2>6 DEF CO!ExpireStale, CO!TypeOK
    <2> QED
      BY <1>2, <2>4, <2>7 DEF CO!TypeOK, CO!ExpireStale
  <1> QED
    BY <1>1, <1>2

LEMMA AnnounceTypes ==
    ASSUME CO!TypeOK, NEW w \in Sellers, CO!Announce(w)
    PROVE  CO!TypeOK'
  <1>1. coJob[w] \in [pc : {"announcing"}, todo : SUBSET Sessions, event : CO!Events]
    BY JobShape DEF CO!Announce
  <1>2. PICK s \in coJob[w].todo :
          /\ told' = [told EXCEPT ![s] = @ \cup {coJob[w].event}] \/ UNCHANGED told
          /\ coJob' = [coJob EXCEPT ![w] = IF coJob[w].todo = {s} THEN CO!Idle
                                       ELSE [coJob[w] EXCEPT !.todo = @ \ {s}]]
    BY DEF CO!Announce
  <1> DEFINE new == IF coJob[w].todo = {s} THEN CO!Idle
                    ELSE [coJob[w] EXCEPT !.todo = @ \ {s}]
  <1>3. new \in CO!Jobs
    BY <1>1 DEF CO!Jobs
  <1>4. coJob' = [coJob EXCEPT ![w] = new]
    BY <1>2
  <1>5. coJob' \in [Sellers -> CO!Jobs]
    BY <1>3, <1>4, JobsKept
  <1>6. told' \in [Sessions -> SUBSET CO!Events]
    BY <1>1, <1>2 DEF CO!TypeOK
  <1> QED
    BY <1>5, <1>6 DEF CO!TypeOK, CO!Announce

LEMMA NextTypes ==
    ASSUME MaxCuts \in Nat, CO!TypeOK, [CO!Next]_(CO!vars)
    PROVE  CO!TypeOK'
  <1>1. ASSUME NEW s \in Sessions, CO!Create(s) \/ CO!Lapse(s) PROVE CO!TypeOK'
    BY <1>1 DEF CO!TypeOK, CO!Create, CO!Lapse, CO!Row, CO!CheckoutSessionStatus, CO!NoPayment
  <1>2. ASSUME NEW w \in Sellers, NEW s \in Sessions, CO!StartComplete(w,
     s) \/ CO!StartExpire(w, s)
        PROVE  CO!TypeOK'
    <2>1. CASE CO!Load(w, s, "paying")
      BY <2>1, LoadTypes
    <2>2. CASE CO!Load(w, s, "expiring")
      BY <2>2, LoadTypes
    <2> QED
      BY <1>2, <2>1, <2>2 DEF CO!StartComplete, CO!StartExpire
  <1>3. ASSUME NEW w \in Sellers, CO!CreatePaymentFails(w) PROVE CO!TypeOK'
    <2>1. coJob' \in [Sellers -> CO!Jobs]
      BY <1>3, IdleIsJob, JobsKept DEF CO!CreatePaymentFails, CO!Finish
    <2> QED
      BY <1>3, <2>1 DEF CO!TypeOK, CO!CreatePaymentFails
  <1>4. ASSUME NEW w \in Sellers, CO!Cut(w) PROVE CO!TypeOK'
    <2>1. coJob' \in [Sellers -> CO!Jobs]
      BY <1>4, IdleIsJob, JobsKept DEF CO!Cut, CO!Finish
    <2>2. CO!At(w, "completing") => coJob[w].s \in Sessions
      BY <1>4, JobShape DEF CO!At
    <2>3. cuts' \in 0..MaxCuts /\ orphans' \in [Sessions -> Nat]
      BY <1>4, <2>2 DEF CO!TypeOK, CO!Cut
    <2> QED
      BY <1>4, <2>1, <2>3 DEF CO!TypeOK, CO!Cut
  <1>5. CASE UNCHANGED CO!vars
    BY <1>5 DEF CO!TypeOK, CO!vars
  <1> QED
    BY <1>1, <1>2, <1>3, <1>4, <1>5, CreatePaymentTypes, SaveTypes, SweepTypes, AnnounceTypes
    DEF CO!Next, CO!Step

(* Every reachable state is well typed; in particular a handler that saves *)
(* or announces a session has a copy of one that is there.                 *)
THEOREM TypeCorrect == ASSUME MaxCuts \in Nat PROVE CO!Spec => []CO!TypeOK
  <1>1. CO!Init => CO!TypeOK
    BY InitTypes
  <1>2. CO!TypeOK /\ [CO!Next]_(CO!vars) => CO!TypeOK'
    BY NextTypes
  <1> QED
    BY <1>1, <1>2, PTL DEF CO!Spec

-----------------------------------------------------------------------------
(* The sale of one session.                                                *)

(* A slot that keeps no session any more, while no session changes hands   *)
(* or status, and an orphan is counted if it dropped a payment.            *)
LEMMA LetGo ==
    ASSUME CO!TypeOK, CO!TypeOK', NEW w \in Sellers, NEW s \in Sessions, CO!SaleOf(s),
           \A v \in Sellers : v # w => coJob'[v] = coJob[v],
           coJob'[w].pc \notin {"paying", "completing", "expiring"},
           CO!Completed(s)' <=> CO!Completed(s),
           made'[s] = made[s],
           orphans'[s] >= orphans[s],
           CO!At(w, "completing") /\ coJob[w].s = s => orphans'[s] >= 1 + orphans[s]
    PROVE  CO!SaleOf(s)'
  <1>1. \A v \in Sellers : CO!Holds(v, s)' => v # w /\ CO!Holds(v, s)
    BY DEF CO!Holds
  <1>2. made[s] \in Nat /\ orphans[s] \in Nat /\ orphans'[s] \in Nat
    BY DEF CO!TypeOK
  <1>3. CO!HeldByOne(s)'
    BY <1>1 DEF CO!SaleOf, CO!HeldByOne
  <1>4. CO!NoneHoldsPaid(s)'
    BY <1>1 DEF CO!SaleOf, CO!NoneHoldsPaid
  <1>5. CASE CO!At(w, "completing") /\ coJob[w].s = s
    BY <1>2, <1>3, <1>4, <1>5 DEF CO!SaleOf, CO!PaymentsCounted
  <1>6. CASE ~(CO!At(w, "completing") /\ coJob[w].s = s)
    <2>1. CO!Paid(s) => CO!Paid(s)'
      BY <1>6 DEF CO!Paid, CO!At
    <2> QED
      BY <1>2, <1>3, <1>4, <2>1 DEF CO!SaleOf, CO!PaymentsCounted
  <1> QED
    BY <1>5, <1>6

(* A step that touches neither jobs nor payments, nor whether the session  *)
(* is complete. *)
LEMMA NothingSold ==
    ASSUME NEW s \in Sessions, CO!SaleOf(s), UNCHANGED <<coJob, made, orphans>>,
           CO!Completed(s)' <=> CO!Completed(s)
    PROVE  CO!SaleOf(s)'
  <1>1. \A v \in Sellers : CO!Holds(v, s)' <=> CO!Holds(v, s)
    BY DEF CO!Holds
  <1>2. CO!Paid(s)' <=> CO!Paid(s)
    BY DEF CO!Paid, CO!At
  <1> QED
    BY <1>1, <1>2 DEF CO!SaleOf, CO!HeldByOne, CO!NoneHoldsPaid, CO!PaymentsCounted

(* A session is read by a handler, which shares it if another holds it. *)
LEMMA LoadSale ==
    ASSUME CO!TypeOK, NEW w \in Sellers, NEW t \in Sessions,
           NEW pc \in {"paying", "expiring"}, CO!Load(w, t, pc), ~CO!Completed(t),
           NEW s \in Sessions \ shared', CO!SaleOf(s)
    PROVE  CO!SaleOf(s)'
  <1> DEFINE new == [pc |-> pc, s |-> t, copy |-> session[t]]
  <1>1. coJob'[w] = new /\ \A v \in Sellers : v # w => coJob'[v] = coJob[v]
    BY DEF CO!Load, CO!TypeOK
  <1>2. CO!At(w, "idle")
    BY DEF CO!Load, CO!Active, CO!At
  <1>3. \A v \in Sellers : v # w => (CO!Holds(v, s)' <=> CO!Holds(v, s))
    BY <1>1 DEF CO!Holds
  <1>4. CO!Holds(w, s)' => s = t
    BY <1>1 DEF CO!Holds
  <1>5. s = t => \A v \in Sellers : ~CO!Holds(v, s)
    BY DEF CO!Load
  <1>6. CO!Paid(s) <=> CO!Paid(s)'
    BY <1>1, <1>2 DEF CO!Paid, CO!At
  <1>7. CO!Completed(s)' <=> CO!Completed(s)
    BY DEF CO!Load, CO!Completed
  <1>8. CO!HeldByOne(s)'
    BY <1>3, <1>4, <1>5 DEF CO!SaleOf, CO!HeldByOne
  <1>9. CO!NoneHoldsPaid(s)'
    BY <1>3, <1>4, <1>7 DEF CO!SaleOf, CO!NoneHoldsPaid
  <1>10. CO!PaymentsCounted(s)'
    BY <1>6, <1>7 DEF CO!SaleOf, CO!PaymentsCounted, CO!Load
  <1> QED
    BY <1>8, <1>9, <1>10 DEF CO!SaleOf

(* The payment of a handler that holds the session, for the first time. *)
LEMMA CreatePaymentSale ==
    ASSUME CO!TypeOK, NEW w \in Sellers, CO!CreatePayment(w),
           NEW s \in Sessions \ shared, CO!SaleOf(s)
    PROVE  CO!SaleOf(s)'
  <1> DEFINE t == coJob[w].s
             new == [pc |-> "completing", s |-> t,
                     copy |-> [status |-> "COMPLETE", payment |-> made[t] + 1]]
  <1>1. t \in Sessions /\ CO!At(w, "paying")
    BY JobShape DEF CO!CreatePayment, CO!At
  <1>2. coJob'[w] = new /\ \A v \in Sellers : v # w => coJob'[v] = coJob[v]
    BY DEF CO!CreatePayment, CO!TypeOK
  <1>3. \A v \in Sellers : CO!Holds(v, s)' <=> CO!Holds(v, s)
    BY <1>1, <1>2 DEF CO!Holds, CO!At
  <1>4. CO!Completed(s)' <=> CO!Completed(s)
    BY DEF CO!CreatePayment, CO!Completed
  <1>5. CO!HeldByOne(s)' /\ CO!NoneHoldsPaid(s)'
    BY <1>3, <1>4 DEF CO!SaleOf, CO!HeldByOne, CO!NoneHoldsPaid
  <1>6. made[s] \in Nat /\ orphans[s] \in Nat /\ orphans' = orphans
    BY DEF CO!TypeOK, CO!CreatePayment
  <1>7. CASE t = s
    <2>1. CO!Holds(w, s)
      BY <1>1, <1>7 DEF CO!Holds, CO!At
    <2>2. ~CO!Completed(s)
      BY <2>1 DEF CO!SaleOf, CO!NoneHoldsPaid
    <2>3. ~CO!Paid(s)
      BY <1>1, <2>1 DEF CO!SaleOf, CO!HeldByOne, CO!Paid, CO!Holds, CO!At
    <2>4. made'[s] = made[s] + 1
      BY <1>1, <1>7 DEF CO!CreatePayment, CO!TypeOK
    <2>5. CO!Paid(s)'
      BY <1>2, <1>7 DEF CO!Paid, CO!At
    <2> QED
      BY <1>5, <1>6, <2>2, <2>3, <2>4, <2>5 DEF CO!SaleOf, CO!PaymentsCounted
  <1>8. CASE t # s
    <2>1. made'[s] = made[s]
      BY <1>1, <1>8 DEF CO!CreatePayment, CO!TypeOK
    <2>2. CO!Paid(s)' <=> CO!Paid(s)
      BY <1>1, <1>2, <1>8 DEF CO!Paid, CO!At
    <2> QED
      BY <1>4, <1>5, <1>6, <2>1, <2>2 DEF CO!SaleOf, CO!PaymentsCounted
  <1> QED
    BY <1>7, <1>8

(* The handler saves the session: after a payment the session is complete, *)
(* after an expiry it is not, and was not. *)
LEMMA SaveSale ==
    ASSUME CO!TypeOK, CO!TypeOK', NEW w \in Sellers, CO!Save(w),
           CO!At(w, "completing") => coJob[w].copy.status = "COMPLETE",
           NEW s \in Sessions \ shared, CO!SaleOf(s)
    PROVE  CO!SaleOf(s)'
  <1> DEFINE t == coJob[w].s
  <1>1. /\ coJob[w] \in [pc : {"paying", "completing", "expiring"}, s : Sessions, copy : CO!Row]
        /\ coJob[w].pc \in {"completing", "expiring"}
    BY JobShape DEF CO!Save
  <1>2. t \in Sessions
    BY <1>1
  <1>3. /\ \A v \in Sellers : v # w => coJob'[v] = coJob[v]
        /\ coJob'[w].pc = "announcing"
    BY DEF CO!Save, CO!TypeOK
  <1>4. made' = made /\ orphans' = orphans /\ made[s] \in Nat /\ orphans[s] \in Nat
    BY DEF CO!Save, CO!TypeOK
  <1>5. CASE t # s
    <2>1. CO!Completed(s)' <=> CO!Completed(s)
      BY <1>2, <1>5 DEF CO!Save, CO!Completed, CO!TypeOK
    <2>2. ~(CO!At(w, "completing") /\ coJob[w].s = s)
      BY <1>5
    <2>3. coJob'[w].pc \notin {"paying", "completing", "expiring"}
      BY <1>3
    <2>4. made'[s] = made[s] /\ orphans'[s] >= orphans[s]
      BY <1>4
    <2> QED
      BY <1>3, <2>1, <2>2, <2>3, <2>4, LetGo
  <1>6. CASE t = s
    <2>1. CO!Holds(w, s)
      BY <1>1, <1>6 DEF CO!Holds
    <2>2. \A v \in Sellers : CO!Holds(v, s) => v = w
      BY <2>1 DEF CO!SaleOf, CO!HeldByOne
    <2>3. \A v \in Sellers : ~CO!Holds(v, s)'
      BY <1>3, <2>2 DEF CO!Holds
    <2>4. CO!HeldByOne(s)' /\ CO!NoneHoldsPaid(s)'
      BY <2>3 DEF CO!HeldByOne, CO!NoneHoldsPaid
    <2>5. CASE CO!At(w, "completing")
      <3>1. CO!Completed(s)'
        BY <1>2, <1>6, <2>5 DEF CO!Save, CO!Completed, CO!TypeOK, CO!At
      <3> QED
        BY <1>4, <2>4, <3>1 DEF CO!SaleOf, CO!PaymentsCounted
    <2>6. CASE CO!At(w, "expiring")
      <3>1. ~CO!Completed(s)
        BY <2>1 DEF CO!SaleOf, CO!NoneHoldsPaid
      <3>2. ~CO!Paid(s)
        BY <2>2, <2>6 DEF CO!Paid, CO!Holds, CO!At
      <3> QED
        BY <1>4, <2>4, <3>1, <3>2 DEF CO!SaleOf, CO!PaymentsCounted
    <2> QED
      BY <1>1, <2>5, <2>6 DEF CO!At
  <1> QED
    BY <1>5, <1>6

(* The sweep takes only open sessions, and leaves them not complete. *)
LEMMA SweepSale ==
    ASSUME CO!TypeOK, CO!TypeOK', NEW w \in Sellers, CO!Find(w) \/ CO!ExpireStale(w),
           NEW s \in Sessions, CO!SaleOf(s)
    PROVE  CO!SaleOf(s)'
  <1>1. /\ ~CO!At(w, "completing")
        /\ coJob'[w].pc \notin {"paying", "completing", "expiring"}
        /\ \A v \in Sellers : v # w => coJob'[v] = coJob[v]
    BY DEF CO!Find, CO!ExpireStale, CO!TypeOK, CO!Active, CO!At, CO!Idle
  <1>2. CO!Completed(s)' <=> CO!Completed(s)
    <2>1. CASE CO!Find(w)
      BY <2>1 DEF CO!Find, CO!Completed
    <2>2. CASE CO!ExpireStale(w)
      <3>1. CASE s \in CO!Expirable(w)
        <4>1. session[s] \in CO!Row /\ session[s].status = "OPEN"
          BY <3>1 DEF CO!Expirable, CO!TypeOK, CO!NoRow
        <4>2. [session[s] EXCEPT !.status = "EXPIRED"].status = "EXPIRED"
          BY <4>1, RowWithStatus DEF CO!CheckoutSessionStatus
        <4> QED
          BY <2>2, <3>1, <4>1, <4>2 DEF CO!ExpireStale, CO!Completed
      <3>2. CASE s \notin CO!Expirable(w)
        BY <2>2, <3>2 DEF CO!ExpireStale, CO!Completed
      <3> QED
        BY <3>1, <3>2
    <2> QED
      BY <2>1, <2>2
  <1>3. made'[s] = made[s] /\ orphans' = orphans /\ orphans[s] \in Nat
    BY DEF CO!Find, CO!ExpireStale, CO!TypeOK
  <1>4. orphans'[s] >= orphans[s]
    BY <1>3
  <1> QED
    BY <1>1, <1>2, <1>3, <1>4, LetGo

(* A handler ends, or its process dies: a payment it had made is an orphan. *)
LEMMA EndSale ==
    ASSUME CO!TypeOK, CO!TypeOK', NEW w \in Sellers,
           CO!CreatePaymentFails(w) \/ CO!Announce(w) \/ CO!Cut(w),
           NEW s \in Sessions, CO!SaleOf(s)
    PROVE  CO!SaleOf(s)'
  <1>1. /\ coJob'[w].pc \notin {"paying", "completing", "expiring"}
        /\ \A v \in Sellers : v # w => coJob'[v] = coJob[v]
    <2>1. CASE CO!CreatePaymentFails(w) \/ CO!Cut(w)
      BY <2>1 DEF CO!CreatePaymentFails, CO!Cut, CO!Finish, CO!Idle, CO!TypeOK
    <2>2. CASE CO!Announce(w)
      <3>1. coJob[w] \in [pc : {"announcing"}, todo : SUBSET Sessions, event : CO!Events]
        BY <2>2, JobShape DEF CO!Announce
      <3>2. \A x \in SUBSET Sessions : [coJob[w] EXCEPT !.todo = x].pc = "announcing"
        BY <3>1
      <3>3. PICK x \in coJob[w].todo :
              coJob' = [coJob EXCEPT ![w] = IF coJob[w].todo = {x} THEN CO!Idle
                                        ELSE [coJob[w] EXCEPT !.todo = @ \ {x}]]
        BY <2>2 DEF CO!Announce
      <3> QED
        BY <3>1, <3>3 DEF CO!Idle, CO!TypeOK
    <2> QED
      BY <2>1, <2>2
  <1>2. CO!Completed(s)' <=> CO!Completed(s)
    BY DEF CO!CreatePaymentFails, CO!Announce, CO!Cut, CO!Completed
  <1>3. /\ made'[s] = made[s] /\ orphans[s] \in Nat
        /\ orphans'[s] >= orphans[s]
        /\ CO!At(w, "completing") /\ coJob[w].s = s => orphans'[s] >= 1 + orphans[s]
    BY DEF CO!CreatePaymentFails, CO!Announce, CO!Cut, CO!TypeOK, CO!At
  <1> QED
    BY <1>1, <1>2, <1>3, LetGo

LEMMA SaleKept ==
    ASSUME CO!TypeOK, CO!TypeOK', CO!SaleInv, [CO!Next]_(CO!vars),
           NEW s \in Sessions \ shared'
    PROVE  CO!SaleOf(s)'
  <1>1. s \in Sessions \ shared
    BY DEF CO!Next, CO!Step, CO!vars, CO!Create, CO!Lapse, CO!StartComplete, CO!StartExpire,
       CO!Load, CO!CreatePayment,
           CO!CreatePaymentFails, CO!Save, CO!Find, CO!ExpireStale, CO!Announce, CO!Cut
  <1>2. CO!SaleOf(s)
    BY <1>1 DEF CO!SaleInv
  <1>3. ASSUME NEW t \in Sessions, CO!Create(t) \/ CO!Lapse(t) PROVE CO!SaleOf(s)'
    <2>1. CO!Completed(s)' <=> CO!Completed(s)
      BY <1>3 DEF CO!Create, CO!Lapse, CO!Completed, CO!TypeOK, CO!NoRow
    <2>2. UNCHANGED <<coJob, made, orphans>>
      BY <1>3 DEF CO!Create, CO!Lapse
    <2> QED
      BY <1>2, <2>1, <2>2, NothingSold
  <1>4. ASSUME NEW w \in Sellers, NEW t \in Sessions, CO!StartComplete(w,
     t) \/ CO!StartExpire(w, t)
        PROVE  CO!SaleOf(s)'
    <2>1. ~CO!Completed(t)
      BY <1>4 DEF CO!StartComplete, CO!StartExpire, CO!Completed
    <2>2. CASE CO!Load(w, t, "paying")
      BY <1>2, <2>1, <2>2, LoadSale
    <2>3. CASE CO!Load(w, t, "expiring")
      BY <1>2, <2>1, <2>3, LoadSale
    <2> QED
      BY <1>4, <2>2, <2>3 DEF CO!StartComplete, CO!StartExpire
  <1>5. ASSUME NEW w \in Sellers, CO!Save(w) PROVE CO!SaleOf(s)'
    BY <1>1, <1>2, <1>5, SaveSale DEF CO!SaleInv, CO!CopiesComplete
  <1>6. CASE UNCHANGED CO!vars
    <2>1. CO!Completed(s)' <=> CO!Completed(s)
      BY <1>6 DEF CO!vars, CO!Completed
    <2>2. UNCHANGED <<coJob, made, orphans>>
      BY <1>6 DEF CO!vars
    <2> QED
      BY <1>2, <2>1, <2>2, NothingSold
  <1> QED
    BY <1>1, <1>2, <1>3, <1>4, <1>5, <1>6, CreatePaymentSale, SweepSale, EndSale
    DEF CO!Next, CO!Step

LEMMA CopiesKept ==
    ASSUME CO!TypeOK, CO!CopiesComplete, [CO!Next]_(CO!vars)
    PROVE  CO!CopiesComplete'
  <1> SUFFICES ASSUME NEW v \in Sellers, CO!At(v,
     "completing")' PROVE (coJob[v].copy.status = "COMPLETE")'
    BY DEF CO!CopiesComplete
  <1>1. CASE coJob'[v] = coJob[v]
    BY <1>1 DEF CO!CopiesComplete, CO!At
  <1>2. CASE CO!CreatePayment(v)
    BY <1>2 DEF CO!CreatePayment, CO!TypeOK
  <1>3. CASE \E s \in Sessions : CO!StartComplete(v, s) \/ CO!StartExpire(v, s)
    BY <1>3 DEF CO!StartComplete, CO!StartExpire, CO!Load, CO!TypeOK, CO!At
  <1>4. CASE CO!CreatePaymentFails(v) \/ CO!Cut(v) \/ CO!Find(v) \/ CO!ExpireStale(v) \/ CO!Save(v)
    BY <1>4 DEF CO!CreatePaymentFails, CO!Cut, CO!Find, CO!ExpireStale, CO!Save, CO!Finish,
       CO!Idle, CO!TypeOK, CO!At
  <1>5. CASE CO!Announce(v)
    <2>1. coJob[v] \in [pc : {"announcing"}, todo : SUBSET Sessions, event : CO!Events]
      BY <1>5, JobShape DEF CO!Announce
    <2>2. PICK x \in coJob[v].todo :
            coJob' = [coJob EXCEPT ![v] = IF coJob[v].todo = {x} THEN CO!Idle
                                      ELSE [coJob[v] EXCEPT !.todo = @ \ {x}]]
      BY <1>5 DEF CO!Announce
    <2> QED
      BY <2>1, <2>2 DEF CO!Idle, CO!TypeOK, CO!At
  <1>6. \A w \in Sellers : w # v /\ (CO!Step(w) \/ CO!Find(w) \/ CO!Cut(w)
              \/ \E s \in Sessions : CO!StartComplete(w, s) \/ CO!StartExpire(w, s))
            => coJob'[v] = coJob[v]
    BY DEF CO!Step, CO!CreatePayment, CO!CreatePaymentFails, CO!Save, CO!ExpireStale,
       CO!Announce, CO!Find, CO!Cut,
           CO!Finish, CO!StartComplete, CO!StartExpire, CO!Load, CO!TypeOK
  <1> QED
    BY <1>1, <1>2, <1>3, <1>4, <1>5, <1>6 DEF CO!Next, CO!Step, CO!vars, CO!Create, CO!Lapse

LEMMA InitSale == ASSUME CO!Init PROVE CO!SaleInv
  BY DEF CO!Init, CO!SaleInv, CO!CopiesComplete, CO!SaleOf, CO!HeldByOne, CO!NoneHoldsPaid,
     CO!PaymentsCounted,
         CO!Completed, CO!Holds, CO!At, CO!Idle, CO!NoRow

LEMMA SaleInvKept == ASSUME CO!TypeOK, CO!TypeOK', CO!SaleInv,
   [CO!Next]_(CO!vars) PROVE CO!SaleInv'
  <1>1. CO!CopiesComplete'
    BY CopiesKept DEF CO!SaleInv
  <1>2. \A s \in Sessions \ shared' : CO!SaleOf(s)'
    BY SaleKept
  <1> QED
    BY <1>1, <1>2 DEF CO!SaleInv

(* What a step does to a session that is complete and not shared: nothing. *)
LEMMA PaidStays ==
    ASSUME CO!TypeOK, CO!SaleInv, [CO!Next]_(CO!vars)
    PROVE  CO!PaidKept
  <1> SUFFICES ASSUME NEW s \in Sessions \ shared, CO!Completed(s)
               PROVE  session'[s] = session[s]
    BY DEF CO!PaidKept, CO!Completed
  <1>1. \A w \in Sellers : ~CO!Holds(w, s)
    BY DEF CO!SaleInv, CO!SaleOf, CO!NoneHoldsPaid
  <1>2. ASSUME NEW w \in Sellers, CO!Save(w) PROVE session'[s] = session[s]
    <2>1. coJob[w].s # s
      BY <1>1, <1>2 DEF CO!Save, CO!Holds
    <2> QED
      BY <1>2, <2>1 DEF CO!Save, CO!TypeOK
  <1>3. ASSUME NEW w \in Sellers, CO!ExpireStale(w) PROVE session'[s] = session[s]
    BY <1>3 DEF CO!ExpireStale, CO!Expirable, CO!Completed
  <1>4. ASSUME NEW t \in Sessions, CO!Create(t) PROVE session'[s] = session[s]
    BY <1>4 DEF CO!Create, CO!Completed, CO!NoRow, CO!TypeOK
  <1> QED
    BY <1>2, <1>3, <1>4 DEF CO!Next, CO!Step, CO!vars, CO!Lapse, CO!StartComplete,
       CO!StartExpire, CO!Load,
       CO!CreatePayment, CO!CreatePaymentFails, CO!Find, CO!Announce, CO!Cut

LEMMA SessionsMove == [Next]_vars => [CO!Next]_(CO!vars)
  BY DEF Next, vars, coVars, pcVars, hsVars, liVars, reVars, onVars, miVars, CO!vars

\* The properties of a sale follow from the invariant, before a step and after.
LEMMA SalesStep ==
    ASSUME CO!TypeOK, CO!SaleInv, CO!TypeOK', CO!SaleInv', [CO!Next]_(CO!vars)
    PROVE  CO!SoldOnce' /\ CO!PaidKept
  <1>1. CO!SoldOnce'
    BY DEF CO!SaleInv, CO!SaleOf, CO!PaymentsCounted, CO!SoldOnce
  <1> QED
    BY <1>1, PaidStays

(* A session sells once, and what was paid stays paid, for any number of   *)
(* payers, merchants and sweeps, unless two handlers held the session at   *)
(* once (checkout-sessions.service.ts:138-310).                            *)
THEOREM SessionsSellOnce == ASSUME MaxCuts \in Nat PROVE Spec => SalesKept
  <1>1. Init => CO!TypeOK /\ CO!SaleInv
    BY InitTypes, InitSale DEF Init
  <1>2. CO!TypeOK /\ CO!SaleInv /\ [Next]_vars => CO!TypeOK' /\ CO!SaleInv'
    BY SessionsMove, NextTypes, SaleInvKept
  <1>3. CO!TypeOK /\ CO!SaleInv /\ [Next]_vars
          => [focus = "CheckoutSessions" => CO!SoldOnce' /\ CO!PaidKept]_vars
    BY <1>2, SessionsMove, SalesStep
  <1> QED
    BY <1>1, <1>2, <1>3, PTL DEF Spec, SalesKept

-----------------------------------------------------------------------------
(* The stream of payments.                                                 *)

StreamInv ==
    /\ begun \in BOOLEAN /\ isDestroyed \in BOOLEAN /\ streamClose \in BOOLEAN
    /\ streams \in Nat /\ timers \in Nat
    /\ ~begun => ~isDestroyed
    /\ HS!OneStreamAtATime

\* A start takes the place of the one reconnection that was ahead.
LEMMA StreamStarted ==
    ASSUME NEW armed \in Nat, armed = 0, streams = 0, streamClose \in BOOLEAN, ~streamClose,
           HS!Start(armed)
    PROVE  /\ streams' \in Nat /\ timers' \in Nat /\ streamClose' \in BOOLEAN
           /\ streamClose' <=> streams' > 0
           /\ streams' + timers' = 1
  <1>1. CASE streams' = streams + 1 /\ streamClose' = TRUE /\ timers' = armed
    BY <1>1
  <1>2. CASE timers' = armed + 1 /\ UNCHANGED <<streams, streamClose>>
    BY <1>2
  <1> QED
    BY <1>1, <1>2 DEF HS!Start

LEMMA StreamMoves == [Next]_vars => [HS!Next]_(HS!vars)
  BY DEF Next, vars, coVars, pcVars, hsVars, liVars, reVars, onVars, miVars, HS!vars

LEMMA StreamKept == ASSUME StreamInv, [HS!Next]_(HS!vars) PROVE StreamInv'
  <1>1. CASE HS!OnModuleInit
    <2>1. ~begun /\ begun' /\ timers = 0 /\ streams = 0 /\ ~isDestroyed /\ isDestroyed' = isDestroyed
      BY <1>1 DEF HS!OnModuleInit, StreamInv, HS!OneStreamAtATime
    <2>2. HS!Start(timers) /\ ~streamClose
      BY <1>1, <2>1 DEF HS!OnModuleInit, StreamInv, HS!OneStreamAtATime
    <2> QED
      BY <1>1, <2>1, <2>2, StreamStarted DEF HS!OnModuleInit, StreamInv, HS!OneStreamAtATime
  <1>2. CASE HS!OnError
    <2>1. begun /\ ~isDestroyed /\ streams = 1 /\ timers = 0 /\ streamClose
      BY <1>2 DEF HS!OnError, StreamInv, HS!OneStreamAtATime
    <2>2. streams' = 0 /\ timers' = 1 /\ streamClose' = FALSE
      BY <1>2, <2>1 DEF HS!OnError, HS!CloseStream
    <2>3. begun' /\ ~isDestroyed'
      BY <1>2, <2>1 DEF HS!OnError
    <2>4. streams' \in Nat /\ timers' \in Nat /\ streams' + timers' = 1 /\ ~(streams' > 0)
      BY <2>2
    <2>5. HS!OneStreamAtATime'
      BY <2>2, <2>3, <2>4 DEF HS!OneStreamAtATime
    <2>6. begun' \in BOOLEAN /\ isDestroyed' \in BOOLEAN
      BY <2>1, <1>2 DEF HS!OnError, StreamInv
    <2> QED
      BY <2>2, <2>3, <2>4, <2>5, <2>6 DEF StreamInv
  <1>3. CASE HS!Reconnect
    <2>1. begun /\ ~isDestroyed /\ streams = 0 /\ timers = 1 /\ ~streamClose
      BY <1>3 DEF HS!Reconnect, StreamInv, HS!OneStreamAtATime
    <2>2. HS!Start(0)
      BY <1>3, <2>1 DEF HS!Reconnect
    <2> QED
      BY <1>3, <2>1, <2>2, StreamStarted DEF HS!Reconnect, StreamInv, HS!OneStreamAtATime
  <1>4. CASE HS!OnModuleDestroy
    <2>1. begun /\ ~isDestroyed /\ isDestroyed'
      BY <1>4 DEF HS!OnModuleDestroy
    <2>2. streams' = 0 /\ timers' = 0 /\ streamClose' = FALSE
      BY <1>4, <2>1 DEF HS!OnModuleDestroy, HS!CloseStream, StreamInv, HS!OneStreamAtATime
    <2>3. begun' /\ isDestroyed' = TRUE
      BY <1>4, <2>1 DEF HS!OnModuleDestroy
    <2>4. streams' \in Nat /\ timers' \in Nat /\ streams' + timers' = 0 /\ ~(streams' > 0)
      BY <2>2
    <2>5. HS!OneStreamAtATime'
      BY <2>2, <2>3, <2>4 DEF HS!OneStreamAtATime
    <2>6. begun' \in BOOLEAN /\ isDestroyed' \in BOOLEAN
      BY <2>1, <1>4 DEF HS!OnModuleDestroy, StreamInv
    <2> QED
      BY <2>2, <2>3, <2>4, <2>5, <2>6 DEF StreamInv
  <1>5. CASE UNCHANGED HS!vars
    BY <1>5 DEF HS!vars, StreamInv, HS!OneStreamAtATime
  <1> QED
    BY <1>1, <1>2, <1>3, <1>4, <1>5 DEF HS!Next

LEMMA StreamBegins == HS!Init => StreamInv
  <1> SUFFICES ASSUME HS!Init PROVE StreamInv
    OBVIOUS
  <1>1. streams + timers = 0 /\ ~(streams > 0)
    BY DEF HS!Init
  <1>2. streamClose = FALSE /\ begun = FALSE /\ isDestroyed = FALSE
    BY DEF HS!Init
  <1>3. streams \in Nat /\ timers \in Nat
    BY DEF HS!Init
  <1> QED
    BY <1>1, <1>2, <1>3 DEF StreamInv, HS!OneStreamAtATime

(* While the module lives it has one stream or one reconnection ahead of   *)
(* it, and a destroyed one has neither, whatever fails and for any number  *)
(* of failures (stellar-horizon-stream.service.ts:44-127).                 *)
THEOREM StreamsOneAtATime == Spec => []OneStreamAtATime
  <1>1. Init => StreamInv
    BY StreamBegins DEF Init
  <1>2. StreamInv /\ [Next]_vars => StreamInv'
    BY StreamMoves, StreamKept
  <1>3. StreamInv => OneStreamAtATime
    BY DEF StreamInv, OneStreamAtATime
  <1> QED
    BY <1>1, <1>2, <1>3, PTL DEF Spec

-----------------------------------------------------------------------------
(* The reviews of merchants.                                               *)

LEMMA NoRecordUntyped == \A r \in ON!Row : r # ON!NoRow
  BY DEF ON!Row, ON!NoRow, ON!OnboardingStatus

\* What a worker is at, by the invariant.
Stands(w) ==
    \/ onWork[w] = ON!Idle
    \/ onWork[w].pc = "saving" /\ ON!Pending(w) /\ (~onWork[w].new => onRow # ON!NoRow)
    \/ onWork[w].pc = "updating" /\ ON!Pending(w) /\ ON!Halfway(w)

\* A call that has read the row is as the invariant says, whatever it does.
LEMMA BegunStands ==
    ASSUME ON!StandsInv, NEW w \in Reviewers, NEW op, NEW copy \in ON!Row, ON!Begin(w, op, copy),
           op # "rename" => copy.legalName = onRow.legalName,
           ~crossed => ON!Sound(copy, IF op = "review" THEN approved \cup {copy.legalName} ELSE approved)
    PROVE  ON!StandsInv'
  <1> DEFINE new == [pc |-> "saving", op |-> op, copy |-> copy,
                     new |-> onRow = ON!NoRow, version |-> version]
  <1>1. UNCHANGED <<onRow, version, lost, crossed, approved, named>>
    BY DEF ON!Begin
  <1>2. onWork' = [onWork EXCEPT ![w] = new]
    BY DEF ON!Begin
  <1>3. /\ DOMAIN onWork' = Reviewers /\ onWork'[w] = new
        /\ \A v \in Reviewers : v # w => onWork'[v] = onWork[v]
    BY <1>2 DEF ON!StandsInv
  <1>4. /\ new.pc = "saving" /\ new.op = op /\ new.copy = copy /\ new.version = version
        /\ ~new.new => onRow # ON!NoRow
    OBVIOUS
  <1> HIDE DEF new
  <1>5. ON!Pending(w)'
    BY <1>1, <1>3, <1>4 DEF ON!Pending, ON!Sound, ON!StandsInv
  <1>6. onWork[w].pc = "idle"
    BY DEF ON!Begin, ON!Idle
  <1>7. ASSUME NEW v \in Reviewers, v # w
        PROVE  /\ ON!Pending(v) => ON!Pending(v)'
               /\ ON!Halfway(v) => ON!Halfway(v)'
    BY <1>1, <1>3, <1>4, <1>6, <1>7 DEF ON!Pending, ON!Halfway, ON!Sound
  <1>8. ASSUME NEW v \in Reviewers PROVE Stands(v)'
    <2>1. CASE v = w
      BY <1>1, <1>3, <1>4, <1>5, <2>1 DEF Stands
    <2>2. CASE v # w
      BY <1>1, <1>3, <1>7, <2>2 DEF ON!StandsInv, ON!Idle, Stands
    <2> QED
      BY <2>1, <2>2
  <1> QED
    BY <1>1, <1>3, <1>8 DEF ON!StandsInv, ON!Sound, Stands

\* What a call reads, and the copy it makes of it.
LEMMA ReadsStand ==
    ASSUME ON!StandsInv, NEW w \in Reviewers,
           ON!Submit(w) \/ ON!Review(w) \/ ON!UpdateProfile(w) \/ ON!Read(w)
    PROVE  ON!StandsInv'
  <1>1. /\ ON!Default \in ON!Row /\ ON!Default.status = "pending"
        /\ ON!Default.legalName = ON!Unnamed /\ ON!NoRow.legalName = ON!Unnamed
    BY DEF ON!Default, ON!NoRow, ON!Row, ON!OnboardingStatus
  <1>2. /\ ON!Found \in ON!Row /\ ON!Found.legalName = onRow.legalName
        /\ ~crossed => ON!Sound(ON!Found, approved)
    BY <1>1 DEF ON!Found, ON!StandsInv, ON!Sound
  <1>3. ASSUME NEW r \in ON!Row, NEW status \in ON!OnboardingStatus
        PROVE  /\ [r EXCEPT !.status = status] \in ON!Row
               /\ [r EXCEPT !.status = status].status = status
               /\ [r EXCEPT !.status = status].legalName = r.legalName
               /\ [r EXCEPT !.status = status].requiresReReview = r.requiresReReview
    BY DEF ON!Row
  <1>4. CASE ON!Submit(w)
    <2> DEFINE copy == ON!Submitted(ON!Found)
    <2>1. /\ copy \in ON!Row /\ copy.status = "pending" /\ copy.legalName = onRow.legalName
          /\ copy.requiresReReview = ON!Found.requiresReReview
      BY <1>2, <1>3 DEF ON!Submitted, ON!OnboardingStatus
    <2>2. ~crossed => ON!Sound(copy, approved)
      BY <1>2, <2>1 DEF ON!Sound
    <2>3. ON!Begin(w, "submit", copy)
      BY <1>4 DEF ON!Submit
    <2> HIDE DEF copy
    <2> QED
      BY <2>1, <2>2, <2>3, BegunStands
  <1>5. CASE ON!Review(w)
    <2>1. onRow \in ON!Row
      BY <1>5 DEF ON!Review, ON!StandsInv
    <2>2. PICK status \in ON!OnboardingStatus : ON!Begin(w, "review", ON!Reviewed(onRow, status))
      BY <1>5 DEF ON!Review
    <2> DEFINE copy == ON!Reviewed(onRow, status)
    <2>3. /\ copy \in ON!Row /\ copy.legalName = onRow.legalName
          /\ copy.requiresReReview = onRow.requiresReReview
      BY <1>3, <2>1 DEF ON!Reviewed
    <2>4. ~crossed => ON!Sound(copy, approved \cup {copy.legalName})
      BY <2>3 DEF ON!Sound, ON!StandsInv
    <2>5. ON!Begin(w, "review", copy)
      BY <2>2
    <2> HIDE DEF copy
    <2> QED
      BY <2>3, <2>4, <2>5, BegunStands
  <1>6. CASE ON!UpdateProfile(w)
    <2>1. PICK name \in Names : ON!Begin(w, "rename", ON!Renamed(ON!Found, name))
      BY <1>6 DEF ON!UpdateProfile
    <2> DEFINE copy == ON!Renamed(ON!Found, name)
    <2>2. copy \in ON!Row
      BY <1>2 DEF ON!Renamed, ON!Row, ON!OnboardingStatus
    <2>3. ~crossed => ON!Sound(copy, approved)
      BY <1>2 DEF ON!Renamed, ON!Sound
    <2>4. ON!Begin(w, "rename", copy)
      BY <2>1
    <2> HIDE DEF copy
    <2> QED
      BY <2>2, <2>3, <2>4, BegunStands
  <1>7. CASE ON!Read(w)
    <2>1. ON!Begin(w, "read", ON!Default) /\ onRow = ON!NoRow
      BY <1>7 DEF ON!Read
    <2>2. ON!Sound(ON!Default, approved)
      BY <1>1 DEF ON!Sound
    <2> QED
      BY <1>1, <2>1, <2>2, BegunStands
  <1> QED
    BY <1>4, <1>5, <1>6, <1>7

\* A save: the row becomes what the call has, or stays what it was in the columns
\* that the call found equal.  The other calls have read an earlier version by then.
LEMMA SavedStands ==
    ASSUME ON!StandsInv, NEW w \in Reviewers, NEW r, r = onWork[w], ON!Pending(w), ON!Noted(r),
           onWork' = [onWork EXCEPT ![w] = ON!Idle], crossed' = crossed, onRow' \in ON!Row,
           r.version = version => onRow'.legalName = r.copy.legalName,
           ~crossed => onRow' = r.copy,
           ~crossed => \A v \in Reviewers : v # w => onWork[v].pc # "updating"
    PROVE  ON!StandsInv'
  <1>1. /\ DOMAIN onWork' = Reviewers /\ onWork'[w] = ON!Idle
        /\ \A v \in Reviewers : v # w => onWork'[v] = onWork[v]
    BY DEF ON!StandsInv
  <1>2. version \in Nat /\ version' = version + 1 /\ approved \subseteq approved'
    BY DEF ON!Noted, ON!StandsInv
  <1>3. onRow' # ON!NoRow
    BY NoRecordUntyped
  <1>4. ASSUME NEW v \in Reviewers, v # w, ON!Pending(v)
        PROVE  ON!Pending(v)'
    <2>1. onWork[v].version \in Nat /\ onWork[v].version < version'
      BY <1>2, <1>4 DEF ON!Pending
    <2> QED
      BY <1>1, <1>2, <1>4, <2>1 DEF ON!Pending, ON!Sound
  <1>5. ASSUME NEW v \in Reviewers, v # w, ON!Pending(v), ON!Halfway(v), onWork[v].pc = "updating"
        PROVE  ON!Halfway(v)'
    <2>1. onWork[v].version \in Nat /\ onWork[v].version < version'
      BY <1>2, <1>5 DEF ON!Pending
    <2> QED
      BY <1>1, <1>2, <1>3, <1>5, <2>1 DEF ON!Halfway
  <1>6. ASSUME NEW v \in Reviewers PROVE Stands(v)'
    <2>1. CASE v = w
      BY <1>1, <2>1 DEF Stands, ON!Idle
    <2>2. CASE v # w
      BY <1>1, <1>3, <1>4, <1>5, <2>2 DEF ON!StandsInv, ON!Idle, Stands
    <2> QED
      BY <2>1, <2>2
  <1>7. lost' \in Nat /\ (lost' = 0 => lost = 0 /\ r.version = version)
    <2> DEFINE n == r.version
    <2>1. /\ n \in Nat /\ n <= version /\ version \in Nat /\ lost \in Nat
          /\ lost' = lost + (version - n)
      BY DEF ON!Noted, ON!Pending, ON!StandsInv
    <2> HIDE DEF n
    <2>2. lost' \in Nat /\ (lost' = 0 => lost = 0 /\ n = version)
      BY <2>1
    <2> QED
      BY <2>2 DEF n
  <1>8. lost' = 0 => onRow'.legalName = named'
    BY <1>7 DEF ON!Noted, ON!Pending, ON!StandsInv
  <1>9. ~crossed' => ON!Sound(onRow, approved)'
    BY DEF ON!Noted, ON!Pending, ON!Sound
  <1> QED
    BY <1>1, <1>2, <1>6, <1>7, <1>8, <1>9 DEF ON!StandsInv, Stands

LEMMA InsertStands == ASSUME ON!StandsInv, NEW w \in Reviewers, ON!Insert(w) PROVE ON!StandsInv'
  <1> DEFINE r == onWork[w]
  <1>1. r.pc = "saving" /\ ON!Pending(w)
    BY DEF ON!Insert, ON!StandsInv, ON!Idle
  <1>2. CASE onRow = ON!NoRow
    <2>1. onRow' = r.copy /\ ON!Noted(r) /\ crossed' = crossed
      BY <1>2 DEF ON!Insert
    <2>2. \A v \in Reviewers : onWork[v].pc # "updating"
      BY <1>2 DEF ON!StandsInv, ON!Halfway, ON!Idle
    <2>3. onRow' \in ON!Row
      BY <1>1, <2>1 DEF ON!Pending
    <2>4. onWork' = [onWork EXCEPT ![w] = ON!Idle]
      BY DEF ON!Insert
    <2> HIDE DEF r
    <2>5. r = onWork[w]
      BY DEF r
    <2> QED
      BY <1>1, <2>1, <2>2, <2>3, <2>4, <2>5, SavedStands
  <1>3. CASE onRow # ON!NoRow
    <2>1. UNCHANGED <<onRow, version, lost, crossed, approved, named>>
      BY <1>3 DEF ON!Insert
    <2>2. /\ DOMAIN onWork' = Reviewers /\ onWork'[w] = ON!Idle
          /\ \A v \in Reviewers : v # w => onWork'[v] = onWork[v]
      BY DEF ON!Insert, ON!StandsInv
    <2>3. ASSUME NEW v \in Reviewers PROVE Stands(v)'
      BY <2>1, <2>2, <1>1 DEF Stands, ON!StandsInv, ON!Pending, ON!Halfway, ON!Idle, ON!Sound
    <2> QED
      BY <2>1, <2>2, <2>3 DEF Stands, ON!StandsInv, ON!Sound
  <1> QED
    BY <1>2, <1>3

\* The first half of a save: from here on the columns that differ are known.
LEMMA CompareStands == ASSUME ON!StandsInv, NEW w \in Reviewers, ON!Compare(w) PROVE ON!StandsInv'
  <1> DEFINE r == onWork[w]
             columns == {c \in ON!Columns : r.copy[c] # onRow[c]}
             new == [pc |-> "updating", op |-> r.op, copy |-> r.copy, version |-> r.version,
                     columns |-> columns]
  <1>1. UNCHANGED <<onRow, version, lost, approved, named>>
    BY DEF ON!Compare
  <1>2. /\ crossed' = (crossed \/ \E v \in Reviewers : onWork[v].pc = "updating")
        /\ r.pc = "saving" /\ ~r.new
    BY DEF ON!Compare
  <1>3. onRow # ON!NoRow /\ ON!Pending(w)
    BY <1>2 DEF ON!StandsInv, ON!Idle
  <1>4. onWork' = [onWork EXCEPT ![w] = new]
    BY DEF ON!Compare
  <1>5. /\ DOMAIN onWork' = Reviewers /\ onWork'[w] = new
        /\ \A v \in Reviewers : v # w => onWork'[v] = onWork[v]
    BY <1>4 DEF ON!StandsInv
  <1>6. /\ new.pc = "updating" /\ new.op = r.op /\ new.copy = r.copy /\ new.version = r.version
        /\ \A c \in ON!Columns : c \in new.columns \/ new.copy[c] = onRow[c]
    OBVIOUS
  <1>7. r = onWork[w]
    OBVIOUS
  <1> HIDE DEF new, r
  <1>8. ON!Pending(w)'
    BY <1>1, <1>2, <1>3, <1>5, <1>6, <1>7 DEF ON!Pending, ON!Sound
  <1>9. ~crossed' => ~crossed /\ \A v \in Reviewers : onWork[v].pc # "updating"
    BY <1>2
  <1>10. ON!Halfway(w)'
    BY <1>1, <1>3, <1>5, <1>6, <1>9 DEF ON!Halfway
  <1>11. ASSUME NEW v \in Reviewers, v # w
         PROVE  /\ ON!Pending(v) => ON!Pending(v)'
                /\ onWork[v].pc = "updating" /\ ON!Halfway(v) => ON!Halfway(v)'
    BY <1>1, <1>5, <1>9, <1>11 DEF ON!Pending, ON!Halfway, ON!Sound
  <1>12. ASSUME NEW v \in Reviewers PROVE Stands(v)'
    <2>1. CASE v = w
      BY <1>5, <1>6, <1>8, <1>10, <2>1 DEF Stands
    <2>2. CASE v # w
      BY <1>1, <1>5, <1>11, <2>2 DEF ON!StandsInv, ON!Idle, Stands
    <2> QED
      BY <2>1, <2>2
  <1> QED
    BY <1>1, <1>5, <1>9, <1>12 DEF ON!StandsInv, ON!Sound, Stands

\* The second half writes those columns.
LEMMA UpdateStands == ASSUME ON!StandsInv, NEW w \in Reviewers, ON!Update(w) PROVE ON!StandsInv'
  <1> DEFINE r == onWork[w]
  <1>1. ON!Pending(w) /\ ON!Halfway(w) /\ onRow \in ON!Row
    BY DEF ON!Update, ON!StandsInv, ON!Halfway, ON!Idle
  <1>2. /\ onRow' = [c \in ON!Columns |-> IF c \in r.columns THEN r.copy[c] ELSE onRow[c]]
        /\ ON!Noted(r) /\ onWork' = [onWork EXCEPT ![w] = ON!Idle] /\ crossed' = crossed
    BY DEF ON!Update
  <1>3. r = onWork[w] /\ r.copy \in ON!Row
    BY <1>1 DEF ON!Pending
  <1>4. onRow' \in ON!Row
    BY <1>1, <1>2, <1>3 DEF ON!Row, ON!Columns
  <1>5. \A c \in ON!Columns : c \in r.columns \/ r.copy[c] = onRow[c] => onRow'[c] = r.copy[c]
    BY <1>2
  <1>6. r.version = version => onRow'.legalName = r.copy.legalName
    BY <1>1, <1>5 DEF ON!Halfway, ON!Columns
  <1>7. ~crossed => onRow' = r.copy
    <2>1. ~crossed => \A c \in ON!Columns : onRow'[c] = r.copy[c]
      BY <1>1, <1>5 DEF ON!Halfway
    <2> QED
      BY <1>3, <1>4, <2>1 DEF ON!Row, ON!Columns
  <1>8. ~crossed => \A v \in Reviewers : v # w => onWork[v].pc # "updating"
    BY <1>1 DEF ON!Halfway
  <1> HIDE DEF r
  <1> QED
    BY <1>1, <1>2, <1>3, <1>4, <1>6, <1>7, <1>8, SavedStands

LEMMA StandsKept == ASSUME ON!StandsInv, [ON!Next]_(ON!vars) PROVE ON!StandsInv'
  <1>1. CASE UNCHANGED ON!vars
    BY <1>1 DEF ON!vars, ON!StandsInv, ON!Pending, ON!Halfway, ON!Sound
  <1> QED
    BY <1>1, ReadsStand, InsertStands, CompareStands, UpdateStands DEF ON!Next

LEMMA ReviewsBegin == ON!Init => ON!StandsInv
  BY DEF ON!Init, ON!StandsInv, ON!Sound, ON!NoRow

LEMMA ReviewsMove == [Next]_vars => [ON!Next]_(ON!vars)
  BY DEF Next, vars, coVars, pcVars, hsVars, liVars, reVars, onVars, miVars, ON!vars

(* An approval does not outlive a change of the legal name and the name    *)
(* on record is the last one given, unless saves crossed or overwrote one  *)
(* another, for any number of calls, reviewers and names                   *)
(* (onboarding.service.ts:26-90, merchants.service.ts:135-269).            *)
THEOREM ReviewsStand == Spec => []ReviewStands
  <1>1. Init => ON!StandsInv
    BY ReviewsBegin DEF Init
  <1>2. ON!StandsInv /\ [Next]_vars => ON!StandsInv'
    BY ReviewsMove, StandsKept
  <1>3. ON!StandsInv => ReviewStands
    BY DEF ON!StandsInv, ON!Sound, ON!ReviewStands, ReviewStands
  <1> QED
    BY <1>1, <1>2, <1>3, PTL DEF Spec

-----------------------------------------------------------------------------
(* Numbers.  The library's induction takes an operator as a parameter, so  *)
(* an induction over the naturals is done here through the least element a *)
(* nonempty set of them has (WFMin).  So is that a total, a recursive      *)
(* function over a sequence, is the sum of what the sequence holds.        *)

(* The numbers below a number.                                             *)
Less == {r \in Nat \X Nat : r[1] < r[2]}

(* No sequence of naturals falls for ever.                                 *)
LEMMA LessWF == IsWellFoundedOn(Less, Nat)
  <1>1. Less = OpToRel(<, Nat)
    BY DEF Less, OpToRel
  <1> QED
    BY <1>1, NatLessThanWellFounded

(* A nonempty set of naturals has a least element.                         *)
LEMMA Least ==
   ASSUME NEW S \in SUBSET Nat, S # {}
   PROVE \E n \in S : \A m \in S : n <= m
  <1>1. PICK n \in S : \A m \in S : <<m, n>> \notin Less
    BY LessWF, WFMin
  <1>2. \A m \in S : ~(m < n)
    BY <1>1 DEF Less
  <1> QED BY <1>2

(* Induction over the naturals, on a set in place of a formula.            *)
LEMMA Upto ==
   ASSUME NEW S \in SUBSET Nat, 0 \in S, \A n \in S : n + 1 \in S
   PROVE  S = Nat
  <1>1. SUFFICES ASSUME Nat \ S # {} PROVE FALSE
    OBVIOUS
  <1>2. PICK n \in Nat \ S : \A m \in Nat \ S : n <= m
    BY <1>1, Least
  <1>3. n # 0
    OBVIOUS
  <1>4. n - 1 \in S
    BY <1>2, <1>3
  <1> QED
    BY <1>4

\* f[i] is the sum of the first i numbers of s.
Sums(s, f) ==
    /\ f \in [0 .. Len(s) -> Int] /\ f[0] = 0
    /\ \A i \in 1 .. Len(s) : f[i] = f[i - 1] + s[i]

\* The sums of the first n numbers of s, as far as they go.
LEMMA SumsTo ==
    ASSUME NEW s \in Seq(Int)
    PROVE  \E f \in [0 .. Len(s) -> Int] :
              f[0] = 0 /\ \A i \in 1 .. Len(s) : i <= Len(s) => f[i] = f[i - 1] + s[i]
  <1> DEFINE Goes(n) == \E f \in [0 .. n -> Int] :
                f[0] = 0 /\ \A i \in 1 .. n : i <= Len(s) => f[i] = f[i - 1] + s[i]
             S == {n \in Nat : Goes(n)}
  <1>1. 0 \in S
    <2> DEFINE f == [i \in 0 .. 0 |-> 0]
    <2>1. f \in [0 .. 0 -> Int] /\ f[0] = 0 /\ \A i \in 1 .. 0 : i <= Len(s) => f[i] = f[i - 1] + s[i]
      OBVIOUS
    <2> HIDE DEF f
    <2> QED
      BY <2>1
  <1>2. ASSUME NEW n \in S PROVE n + 1 \in S
    <2>1. PICK f \in [0 .. n -> Int] :
                f[0] = 0 /\ \A i \in 1 .. n : i <= Len(s) => f[i] = f[i - 1] + s[i]
      OBVIOUS
    <2> DEFINE g == [i \in 0 .. n + 1 |-> IF i <= n THEN f[i]
                                          ELSE IF i <= Len(s) THEN f[n] + s[i] ELSE 0]
    <2>2. g \in [0 .. n + 1 -> Int] 
      OBVIOUS
    <2>3. g[0] = 0 /\ \A i \in 1 .. n + 1 : i <= Len(s) => g[i] = g[i - 1] + s[i]
      BY <2>1
    <2> HIDE DEF g
    <2>4. Goes(n + 1)
      BY <2>2, <2>3
    <2> HIDE DEF Goes
    <2> QED
      BY <2>4
  <1> HIDE DEF Goes
  <1>3. S = Nat
    <2>1. S \in SUBSET Nat
      OBVIOUS
    <2> HIDE DEF S
    <2> QED
      BY <1>1, <1>2, <2>1, Upto
  <1>4. Len(s) \in Nat
    OBVIOUS
  <1>5. Goes(Len(s))
    BY <1>3, <1>4
  <1> QED
    BY <1>5 DEF Goes

(* The sums of a sequence are unique,                                      *)
LEMMA SumsSame ==
    ASSUME NEW s \in Seq(Int), NEW f, NEW g, Sums(s, f), Sums(s, g)
    PROVE  f[Len(s)] = g[Len(s)]
  <1> DEFINE S == {n \in Nat : n <= Len(s) => f[n] = g[n]}
  <1>1. 0 \in S
    BY DEF Sums
  <1>2. ASSUME NEW n \in S PROVE n + 1 \in S
    <2>1. SUFFICES ASSUME n + 1 <= Len(s) PROVE f[n + 1] = g[n + 1]
      OBVIOUS
    <2>2. n + 1 \in 1 .. Len(s) /\ (n + 1) - 1 = n /\ f[n] = g[n]
      BY <2>1
    <2> QED
      BY <2>2 DEF Sums
  <1>3. S = Nat
    <2>1. S \in SUBSET Nat
      OBVIOUS
    <2> HIDE DEF S
    <2> QED
      BY <1>1, <1>2, <2>1, Upto
  <1>4. Len(s) \in S
    BY <1>3
  <1> QED
    BY <1>4

(* so they end in its total,                                               *)
LEMMA TotalIs ==
    ASSUME NEW s \in Seq(Int), NEW g, Sums(s, g)
    PROVE  PC!Total(s) = g[Len(s)]
  <1> DEFINE D(h) == [i \in 0 .. Len(s) |-> IF i = 0 THEN 0 ELSE h[i - 1] + s[i]]
             f == CHOOSE h : h = D(h)
  <1>1. PC!Total(s) = f[Len(s)]
    BY DEF PC!Total
  <1>2. \E h : h = D(h)
    <2>1. PICK h \in [0 .. Len(s) -> Int] :
             h[0] = 0 /\ \A i \in 1 .. Len(s) : i <= Len(s) => h[i] = h[i - 1] + s[i]
      BY SumsTo
    <2>2. h = D(h)
      BY <2>1
    <2> QED
      BY <2>2
  <1>3. f = D(f)
    BY <1>2
  <1> HIDE DEF f
  <1>4. f[0] = 0 /\ \A i \in 1 .. Len(s) : f[i] = f[i - 1] + s[i]
    BY <1>3
  <1>5. \A n \in Nat : n <= Len(s) => f[n] \in Int
    <2> DEFINE S == {n \in Nat : n <= Len(s) => f[n] \in Int}
    <2>1. 0 \in S
      BY <1>4
    <2>2. ASSUME NEW n \in S PROVE n + 1 \in S
      <3>1. SUFFICES ASSUME n + 1 <= Len(s) PROVE f[n + 1] \in Int
        OBVIOUS
      <3>2. n + 1 \in 1 .. Len(s) /\ (n + 1) - 1 = n /\ f[n] \in Int /\ s[n + 1] \in Int
        BY <3>1
      <3> QED
        BY <1>4, <3>2
    <2>3. S = Nat
      <3>1. S \in SUBSET Nat
        OBVIOUS
      <3> HIDE DEF S
      <3> QED
        BY <2>1, <2>2, <3>1, Upto
    <2> QED
      BY <2>3
  <1>6. Sums(s, f)
    <2>1. DOMAIN f = 0 .. Len(s) /\ f = [i \in 0 .. Len(s) |-> f[i]]
      BY <1>3
    <2>2. f \in [0 .. Len(s) -> Int]
      BY <1>5, <2>1
    <2> QED
      BY <1>4, <2>2 DEF Sums
  <1> QED
    BY <1>1, <1>6, SumsSame

(* and there always are such sums.                                         *)
LEMMA SumsExist ==
    ASSUME NEW s \in Seq(Int)
    PROVE  \E f : Sums(s, f) /\ PC!Total(s) = f[Len(s)]
  <1>1. PICK f \in [0 .. Len(s) -> Int] :
             f[0] = 0 /\ \A i \in 1 .. Len(s) : i <= Len(s) => f[i] = f[i - 1] + s[i]
    BY SumsTo
  <1>2. Sums(s, f)
    BY <1>1 DEF Sums
  <1> QED
    BY <1>2, TotalIs

-----------------------------------------------------------------------------
(* Creation of payments: fees, net and legs, rounded to a whole unit each. *)

(* One number more adds itself to the total.                               *)
LEMMA TotalAppend ==
    ASSUME NEW s \in Seq(Int), NEW x \in Int
    PROVE  PC!Total(Append(s, x)) = PC!Total(s) + x
  <1>1. PICK f : Sums(s, f) /\ PC!Total(s) = f[Len(s)]
    BY SumsExist
  <1> DEFINE t == Append(s, x)
             g == [i \in 0 .. Len(s) + 1 |-> IF i <= Len(s) THEN f[i] ELSE f[Len(s)] + x]
  <1>2. t \in Seq(Int) /\ Len(t) = Len(s) + 1 /\ Len(s) \in Nat /\ t[Len(s) + 1] = x
         /\ \A i \in 1 .. Len(s) : t[i] = s[i]
    OBVIOUS
  <1>3. f \in [0 .. Len(s) -> Int] /\ f[0] = 0 /\ \A i \in 1 .. Len(s) : f[i] = f[i - 1] + s[i]
    BY <1>1 DEF Sums
  <1> HIDE DEF t
  <1>4. g \in [0 .. Len(t) -> Int] /\ g[0] = 0
    BY <1>2, <1>3
  <1>5. \A i \in 1 .. Len(t) : g[i] = g[i - 1] + t[i]
    BY <1>2, <1>3
  <1>6. g[Len(t)] = f[Len(s)] + x
    BY <1>2
  <1> HIDE DEF g
  <1>7. Sums(t, g)
    BY <1>4, <1>5 DEF Sums
  <1>8. PC!Total(t) = g[Len(t)]
    BY <1>2, <1>7, TotalIs
  <1> QED
    BY <1>1, <1>6, <1>8 DEF t

(* toFixed is off by half a unit at most.                                  *)
LEMMA Rounded ==
    ASSUME NEW x \in Int, NEW y \in PC!ToFixed(x, PC!Whole)
    PROVE  y \in Int /\ x - 50000 <= y * 100000 /\ y * 100000 <= x + 50000
  BY DEF PC!ToFixed, PC!Whole

(* A fee and its net add up to the amount but for that, twice, unless the  *)
(* fee is above the amount (fee-calculator.service.ts).                    *)
LEMMA FeesRound ==
    ASSUME NEW amount \in Int, NEW c, c.flat \in Int, c.percentage \in Int, c.min \in Int,
           NEW charge \in PC!Fees(amount, c)
    PROVE  charge \in PC!Charge /\ PC!FeeAddsUp(amount, charge)
  <1> DEFINE exact == PC!ExactFee(amount, c)
             rest == IF amount * PC!Whole > exact THEN amount * PC!Whole - exact ELSE 0
             fee == charge.fee
             net == charge.net
  <1>1. charge \in [fee : PC!ToFixed(exact, PC!Whole), net : PC!ToFixed(rest, PC!Whole)]
    BY DEF PC!Fees
  <1>2. fee \in PC!ToFixed(exact, PC!Whole) /\ net \in PC!ToFixed(rest, PC!Whole)
    BY <1>1
  <1>3. exact \in Int
    <2> DEFINE a == c.flat
               b == c.percentage
               d == c.min
    <2>1. a \in Int /\ b \in Int /\ d \in Int
      OBVIOUS
    <2>2. exact = LET sum == a * PC!Whole + amount * b IN IF sum > d * PC!Whole THEN sum ELSE d * PC!Whole
      BY DEF PC!ExactFee
    <2> HIDE DEF a, b, d
    <2> QED
      BY <2>1, <2>2 DEF PC!Whole
  <1> HIDE DEF exact
  <1>4. rest \in Int
    BY <1>3 DEF PC!Whole
  <1>5. fee \in Int /\ exact - 50000 <= fee * 100000 /\ fee * 100000 <= exact + 50000
    BY <1>2, <1>3, Rounded
  <1>6. net \in Int /\ rest - 50000 <= net * 100000 /\ net * 100000 <= rest + 50000
    <2> HIDE DEF rest
    <2> QED
      BY <1>2, <1>4, Rounded
  <1>7. fee <= amount => PC!AbsDiff(fee + net, amount) <= 1
    <2> HIDE DEF fee, net
    <2>1. CASE amount * PC!Whole > exact
      <3>1. rest = amount * 100000 - exact
        BY <2>1 DEF PC!Whole
      <3> HIDE DEF rest
      <3> QED
        BY <1>3, <1>5, <1>6, <3>1 DEF PC!AbsDiff
    <2>2. CASE ~(amount * PC!Whole > exact)
      <3>1. rest = 0 /\ amount * 100000 <= exact
        BY <1>3, <2>2 DEF PC!Whole
      <3>2. net = 0
        BY <1>6, <3>1
      <3> QED
        BY <1>3, <1>5, <3>1, <3>2 DEF PC!AbsDiff
    <2> QED
      BY <2>1, <2>2
  <1>8. charge \in PC!Charge
    BY <1>1, <1>5, <1>6 DEF PC!Charge
  <1> QED
    BY <1>7, <1>8 DEF PC!FeeAddsUp

(* Products of unknowns are beyond the solver but for this fact.           *)
LEMMA Distributes == \A a \in Int, b \in Int, c \in Int : a * (b + c) = a * b + a * c
  OBVIOUS

(* Legs of percentages that sum to 100 add up to the amount but for half a *)
(* unit each.                                                              *)
LEMMA LegsSpread ==
    ASSUME NEW amount \in Nat, NEW pcts \in Seq(Nat), NEW legs \in PC!Legs(amount, pcts),
           pcts # <<>> => PC!SumTo100(pcts)
    PROVE  legs \in Seq(Int) /\ PC!LegsAddUp(amount, legs)
  <1> DEFINE n == Len(pcts)
  <1>1. n \in Nat /\ pcts \in Seq(Int) /\ \A i \in 1 .. n : pcts[i] \in Int
    OBVIOUS
  <1>2. legs \in [1 .. n -> 0 .. amount]
         /\ \A i \in 1 .. n : legs[i] \in PC!ToFixed(amount * pcts[i], PC!Whole)
    BY DEF PC!Legs
  <1>3. legs \in Seq(Int) /\ Len(legs) = n /\ \A i \in 1 .. n : legs[i] \in Int
    <2> HIDE DEF n
    <2>1. legs \in [1 .. n -> Int]
      BY <1>2
    <2>2. legs \in Seq(Int)
      BY <1>1, <2>1, SeqDef
    <2>3. DOMAIN legs = 1 .. Len(legs) /\ DOMAIN legs = 1 .. n /\ Len(legs) \in Nat
      BY <2>1, <2>2
    <2> QED
      BY <1>1, <2>1, <2>2, <2>3
  <1>4. PICK f : Sums(pcts, f) /\ PC!Total(pcts) = f[n]
    BY <1>1, SumsExist
  <1>5. PICK g : Sums(legs, g) /\ PC!Total(legs) = g[n]
    BY <1>3, SumsExist
  <1> HIDE DEF n
  <1>6. f \in [0 .. n -> Int] /\ f[0] = 0 /\ \A i \in 1 .. n : f[i] = f[i - 1] + pcts[i]
    BY <1>4 DEF Sums, n
  <1>7. g \in [0 .. n -> Int] /\ g[0] = 0 /\ \A i \in 1 .. n : g[i] = g[i - 1] + legs[i]
    BY <1>3, <1>5 DEF Sums
  <1> DEFINE Near(i) == /\ amount * f[i] - 50000 * i <= 100000 * g[i]
                        /\ 100000 * g[i] <= amount * f[i] + 50000 * i
             S == {i \in Nat : i <= n => Near(i)}
  <1>8. 0 \in S
    BY <1>1, <1>6, <1>7
  <1>9. ASSUME NEW i \in S PROVE i + 1 \in S
    <2>1. SUFFICES ASSUME i + 1 <= n PROVE Near(i + 1)
      OBVIOUS
    <2> DEFINE a == f[i]
               b == g[i]
               p == pcts[i + 1]
               l == legs[i + 1]
               y == amount * p
               x == amount * a
    <2>2. i \in Nat /\ i + 1 \in 1 .. n /\ (i + 1) - 1 = i /\ i \in 0 .. n
      BY <1>1, <2>1
    <2>3. a \in Int /\ b \in Int /\ p \in Int /\ l \in Int
      <3>1. a \in Int /\ b \in Int
        BY <1>6, <1>7, <2>2
      <3>2. p \in Int /\ l \in Int
        BY <1>1, <1>3, <2>2 DEF n
      <3> QED
        BY <3>1, <3>2
    <2>4. f[i + 1] = a + p /\ g[i + 1] = b + l
      BY <1>6, <1>7, <2>2
    <2>5. l \in PC!ToFixed(y, PC!Whole) 
      BY <1>2, <2>2
    <2>6. x - 50000 * i <= 100000 * b /\ 100000 * b <= x + 50000 * i
      BY <1>1, <2>1, <2>2
    <2> HIDE DEF a, b, p, l, Near
    <2>7. x \in Int /\ y \in Int
      BY <2>3
    <2>8. amount * (a + p) = x + y
      BY <2>3, Distributes
    <2> HIDE DEF x, y
    <2>9. y - 50000 <= l * 100000 /\ l * 100000 <= y + 50000
      BY <2>5, <2>7, Rounded
    <2>10. /\ (x + y) - 50000 * (i + 1) <= 100000 * (b + l)
           /\ 100000 * (b + l) <= (x + y) + 50000 * (i + 1)
      BY <2>2, <2>3, <2>6, <2>7, <2>9
    <2> QED
      BY <2>4, <2>8, <2>10 DEF Near
  <1>10. S = Nat
    <2>1. S \in SUBSET Nat
      OBVIOUS
    <2> HIDE DEF S
    <2> QED
      BY <1>8, <1>9, <2>1, Upto
  <1>11. Near(n)
    BY <1>1, <1>10
  <1>12. ASSUME legs # <<>>
         PROVE 2 * PC!AbsDiff(PC!Total(legs), amount) * PC!Whole <= Len(legs) * PC!Whole + 2 * 9 * amount
    <2> DEFINE t == PC!Total(legs)
               u == PC!Total(pcts)
               d == u - 100000
               x == amount * u
               e == amount * d
    <2>1. pcts # <<>>
      BY <1>1, <1>3, <1>12 DEF n
    <2>2. u \in Int /\ t \in Int
      BY <1>1, <1>4, <1>5, <1>6, <1>7
    <2>3. d \in -9 .. 9
      BY <2>1 DEF PC!SumTo100, PC!Whole
    <2>4. x - 50000 * n <= 100000 * t /\ 100000 * t <= x + 50000 * n
      BY <1>4, <1>5, <1>11
    <2> HIDE DEF t
    <2>5. u = 100000 + d
      BY <2>2
    <2>6. x = amount * 100000 + e
      <3> HIDE DEF u, d
      <3> QED
        BY <2>2, <2>3, <2>5, Distributes
    <2>7. e \in Int /\ -9 * amount <= e /\ e <= 9 * amount
      <3> HIDE DEF d
      <3>1. \A a \in Nat, b \in -9 .. 9 : -9 * a <= a * b /\ a * b <= 9 * a
        OBVIOUS
      <3> QED
        BY <2>3, <3>1
    <2> HIDE DEF e, x
    <2>8. 100000 * t <= 100000 * amount + 9 * amount + 50000 * n
           /\ 100000 * amount - 9 * amount - 50000 * n <= 100000 * t
      BY <1>1, <2>2, <2>4, <2>6, <2>7
    <2>9. 2 * PC!AbsDiff(t, amount) * 100000 <= n * 100000 + 2 * 9 * amount
      BY <1>1, <2>2, <2>8 DEF PC!AbsDiff
    <2> QED
      BY <1>3, <2>9 DEF t, PC!Whole
  <1> QED
    BY <1>3, <1>12 DEF PC!LegsAddUp

-----------------------------------------------------------------------------
(* What a creation in progress holds, and how one begins and ends.         *)

(* Where the legs of a split have been checked.                            *)
Past == {"fees", "inserting"}

(* What a call asks for: one payment, or two alike.                        *)
LEMMA CallShape ==
    ASSUME NEW dtos \in PC!Calls
    PROVE  /\ dtos \in Seq(PC!Dto) /\ Len(dtos) \in {1, 2} /\ dtos[1] \in PC!Dto
           /\ \A i \in 1 .. Len(dtos) : dtos[i] = dtos[1]
           /\ dtos[1].amount \in PcAmounts /\ dtos[1].amount \in Nat
           /\ dtos[1].splits \in Seq(Nat)
  <1>1. PICK d \in PC!Dto : dtos = <<d>> \/ dtos = <<d, d>>
    BY DEF PC!Calls
  <1>2. dtos \in Seq(PC!Dto) /\ Len(dtos) \in {1, 2} /\ dtos[1] = d
         /\ \A i \in 1 .. Len(dtos) : dtos[i] = d
    <2> HIDE DEF PC!Dto
    <2>1. CASE dtos = <<d>>
      BY <2>1
    <2>2. CASE dtos = <<d, d>>
      <3>1. \A i \in 1 .. 2 : <<d, d>>[i] = d
        <4>1. <<d, d>>[1] = d /\ <<d, d>>[2] = d
          OBVIOUS
        <4>2. \A i \in 1 .. 2 : i = 1 \/ i = 2
          OBVIOUS
        <4> QED
          BY <4>1, <4>2
      <3>2. <<d, d>> \in Seq(PC!Dto) /\ Len(<<d, d>>) = 2
        OBVIOUS
      <3> QED
        BY <2>2, <3>1, <3>2
    <2> QED
      BY <1>1, <2>1, <2>2
  <1>3. d.amount \in PcAmounts /\ d.splits \in Splits \cup {<<>>}
    BY <1>1 DEF PC!Dto
  <1>4. d.amount \in Nat /\ d.splits \in Seq(Nat)
    <2>1. PcAmounts \subseteq Nat /\ Splits \subseteq Seq(Nat)
      BY CreationAssumption
    <2>2. <<>> \in Seq(Nat)
      OBVIOUS
    <2> QED
      BY <1>3, <2>1, <2>2
  <1>5. 1 \in 1 .. Len(dtos)
    BY <1>2
  <1> QED
    BY <1>2, <1>3, <1>4, <1>5

(* What a creation in progress holds.                                      *)
LEMMA CreationShape ==
    ASSUME PC!CreationInv, NEW w \in Creators, PC!Busy(w)
    PROVE  /\ pcJob[w] \in [pc : {"merchant", "limits", "fees", "inserting"}, dtos : PC!Calls,
                        fees : Seq(PC!Charge)]
           /\ pcJob[w].dtos \in PC!Calls /\ pcJob[w].fees \in Seq(PC!Charge)
           /\ pcJob[w].dtos[1].splits # <<>> => PC!SumTo100(pcJob[w].dtos[1].splits)
  <1>1. PC!JobOK(pcJob[w]) /\ pcJob[w] # PC!Idle
    BY DEF PC!CreationInv, PC!Busy, PC!At, PC!Idle
  <1> QED
    BY <1>1 DEF PC!JobOK

(* A creation that goes on, or ends, before anything is committed. *)
LEMMA CreationGoesOn ==
    ASSUME PC!CreationInv, NEW w \in Creators, NEW new, pcJob' = [pcJob EXCEPT ![w] = new],
           PC!JobOK(pcJob'[w]), UNCHANGED <<config, payments, overlapped>>,
           new.pc \in Past => pcJob[w].pc \in Past /\ new.dtos = pcJob[w].dtos
    PROVE  PC!CreationInv'
  <1>1. pcJob' = [v \in Creators |-> pcJob'[v]] /\ pcJob'[w] = new
         /\ \A v \in Creators : v # w => pcJob'[v] = pcJob[v]
    BY DEF PC!CreationInv
  <1>2. \A v \in Creators : PC!JobOK(pcJob'[v])
    <2>1. SUFFICES ASSUME NEW v \in Creators, v # w PROVE PC!JobOK(pcJob'[v])
      OBVIOUS
    <2>2. PC!JobOK(pcJob[v]) /\ pcJob'[v] = pcJob[v]
      BY <1>1, <2>1 DEF PC!CreationInv
    <2> QED
      BY <2>2
  <1>3. PC!RoomLeft'
    BY <1>1 DEF PC!CreationInv, PC!RoomLeft, Past
  <1>4. PC!DailyLimitKept' /\ PC!AmountsAddUp'
    BY DEF PC!CreationInv, PC!DailyLimitKept, PC!AmountsAddUp
  <1> QED
    BY <1>1, <1>2, <1>3, <1>4 DEF PC!CreationInv

(* A creation that ends gives its connection back.                         *)
LEMMA ReleasedCreation ==
    ASSUME PC!CreationInv, NEW w \in Creators, PC!Release(w), UNCHANGED <<config, payments, overlapped>>
    PROVE  PC!CreationInv'
  <1>1. pcJob' = [pcJob EXCEPT ![w] = PC!Idle] /\ PC!Idle.pc = "idle"
    BY DEF PC!Release, PC!Idle
  <1>2. pcJob'[w] = PC!Idle
    BY <1>1 DEF PC!CreationInv
  <1>3. PC!JobOK(pcJob'[w])
    BY <1>2 DEF PC!JobOK, PC!Idle
  <1>4. PC!Idle.pc \notin Past
    BY <1>1 DEF Past
  <1> QED
    BY <1>1, <1>3, <1>4, CreationGoesOn

(* A creation begins with nothing committed.                               *)
LEMMA StartCreation ==
    ASSUME PC!CreationInv, NEW w \in Creators, NEW dtos \in PC!Calls, PC!StartCreate(w, dtos)
    PROVE  PC!CreationInv'
  <1> DEFINE new == [pc |-> IF dtos[1].merchant THEN "merchant" ELSE "limits",
                     dtos |-> dtos, fees |-> <<>>]
  <1>1. pcJob' = [pcJob EXCEPT ![w] = new]
    BY DEF PC!StartCreate
  <1>2. new \in [pc : {"merchant", "limits"}, dtos : PC!Calls, fees : Seq(PC!Charge)]
    OBVIOUS
  <1>3. new.dtos[1].splits # <<>> => PC!SumTo100(new.dtos[1].splits)
    BY DEF PC!StartCreate
  <1>4. pcJob'[w] = new
    BY <1>1 DEF PC!CreationInv
  <1> HIDE DEF new
  <1>5. PC!JobOK(pcJob'[w])
    <2>1. new.pc \in {"merchant", "limits"} /\ new \in [pc : {"merchant", "limits", "fees", "inserting"}, dtos : PC!Calls,
                          fees : Seq(PC!Charge)]
      BY <1>2
    <2> QED
      BY <1>3, <1>4, <2>1 DEF PC!JobOK
  <1>6. new.pc \notin Past
    BY <1>2 DEF Past
  <1>7. UNCHANGED <<config, payments, overlapped>>
    BY DEF PC!StartCreate
  <1> QED
    BY <1>1, <1>5, <1>6, <1>7, CreationGoesOn

(* It reads the merchant and the fee configuration,                        *)
LEMMA CheckMerchantKept ==
    ASSUME PC!CreationInv, NEW w \in Creators, PC!CheckMerchant(w)
    PROVE  PC!CreationInv'
  <1> DEFINE new == [pcJob[w] EXCEPT !.pc = "limits"]
  <1>1. pcJob' = [pcJob EXCEPT ![w] = new] /\ UNCHANGED <<config, payments, overlapped>>
         /\ pcJob[w].pc = "merchant"
    BY DEF PC!CheckMerchant, PC!Query, PC!At
  <1>2. PC!Busy(w)
    BY <1>1 DEF PC!Busy, PC!At
  <1>3. pcJob'[w] = new
    BY <1>1 DEF PC!CreationInv
  <1>4. new.pc = "limits" /\ new.dtos = pcJob[w].dtos
         /\ new \in [pc : {"merchant", "limits", "fees", "inserting"}, dtos : PC!Calls,
                     fees : Seq(PC!Charge)]
    BY <1>2, CreationShape
  <1> HIDE DEF new
  <1>5. PC!JobOK(pcJob'[w])
    <2>1. new.dtos[1].splits # <<>> => PC!SumTo100(new.dtos[1].splits)
      BY <1>2, <1>4, CreationShape
    <2> QED
      BY <1>3, <1>4, <2>1 DEF PC!JobOK
  <1> QED
    BY <1>1, <1>4, <1>5, CreationGoesOn DEF Past

(* fixes the fees,                                                         *)
LEMMA CalculateFeeKept ==
    ASSUME PC!CreationInv, NEW w \in Creators, PC!CalculateFee(w)
    PROVE  PC!CreationInv'
  <1> DEFINE dtos == pcJob[w].dtos
             c == IF dtos[1].merchant THEN config ELSE PC!NoFee
  <1>1. PICK charge \in PC!Fees(dtos[1].amount, c) :
           pcJob' = [pcJob EXCEPT ![w].pc = "inserting",
                                  ![w].fees = [i \in 1 .. Len(dtos) |-> charge]]
    BY DEF PC!CalculateFee
  <1> DEFINE fees == [i \in 1 .. Len(dtos) |-> charge]
             new == [pcJob[w] EXCEPT !.pc = "inserting", !.fees = fees]
  <1>2. PC!Busy(w) /\ pcJob[w].pc = "fees" /\ UNCHANGED <<config, payments, overlapped>>
    BY DEF PC!CalculateFee, PC!Busy, PC!At
  <1>3. pcJob' = [pcJob EXCEPT ![w] = new] /\ pcJob'[w] = new
    BY <1>1 DEF PC!CreationInv
  <1>4. dtos \in PC!Calls
    BY <1>2, CreationShape
  <1>5. c \in [flat : Nat, percentage : Nat, min : Nat]
    <2>1. FeeConfigs \subseteq [flat : Nat, percentage : Nat, min : Nat]
      BY CreationAssumption
    <2>2. PC!NoFee \in [flat : Nat, percentage : Nat, min : Nat]
      BY DEF PC!NoFee
    <2> QED
      BY <2>1, <2>2 DEF PC!CreationInv
  <1>6. charge \in PC!Charge /\ PC!FeeAddsUp(dtos[1].amount, charge)
    <2> HIDE DEF dtos, c
    <2>1. dtos[1].amount \in Int
      BY <1>4, CallShape
    <2>2. c.flat \in Int /\ c.percentage \in Int /\ c.min \in Int
      BY <1>5
    <2> QED
      BY <2>1, <2>2, FeesRound
  <1>7. Len(dtos) \in Nat /\ fees \in Seq(PC!Charge) /\ Len(fees) = Len(dtos)
         /\ \A i \in 1 .. Len(dtos) : fees[i] = charge
    <2> HIDE DEF dtos
    <2>1. Len(dtos) \in Nat
      BY <1>4, CallShape
    <2> QED
      BY <1>6, <2>1
  <1>8. new.pc = "inserting" /\ new.dtos = dtos /\ new.fees = fees
         /\ new \in [pc : {"merchant", "limits", "fees", "inserting"}, dtos : PC!Calls,
                     fees : Seq(PC!Charge)]
    <2>1. pcJob[w] \in [pc : {"merchant", "limits", "fees", "inserting"}, dtos : PC!Calls,
                     fees : Seq(PC!Charge)]
      BY <1>2, CreationShape
    <2> HIDE DEF fees
    <2> QED
      BY <1>7, <2>1
  <1>9. \A i \in 1 .. Len(dtos) : dtos[i] = dtos[1]
    <2> HIDE DEF dtos
    <2> QED
      BY <1>4, CallShape
  <1>10. dtos[1].splits # <<>> => PC!SumTo100(dtos[1].splits)
    BY <1>2, CreationShape
  <1> HIDE DEF new, dtos, fees
  <1>11. \A i \in 1 .. Len(dtos) : PC!FeeAddsUp(dtos[i].amount, fees[i])
    BY <1>6, <1>7, <1>9
  <1>12. PC!JobOK(pcJob'[w])
    <2>1. pcJob'[w].dtos = dtos /\ pcJob'[w].fees = fees /\ pcJob'[w].pc = "inserting"
      BY <1>3, <1>8
    <2> QED
      BY <1>3, <1>7, <1>8, <1>10, <1>11, <2>1 DEF PC!JobOK
  <1> QED
    BY <1>2, <1>3, <1>8, <1>12, CreationGoesOn DEF Past, dtos

(* and compares the day's total with the limit: none other is past that    *)
(* comparison, so what was compared is still true when it inserts.         *)
LEMMA CheckLimitsKept ==
    ASSUME PC!CreationInv, NEW w \in Creators, PC!CheckLimits(w)
    PROVE  PC!CreationInv'
  <1> DEFINE new == [pcJob[w] EXCEPT !.pc = "fees"]
             dtos == pcJob[w].dtos
  <1>1. pcJob' = [pcJob EXCEPT ![w] = new] /\ UNCHANGED <<config, payments>>
         /\ pcJob[w].pc = "limits" /\ PC!Allowed(w)
         /\ overlapped' = (overlapped \/ Len(dtos) > 1 \/ \E v \in Creators : pcJob[v].pc \in Past)
    BY DEF PC!CheckLimits, PC!At, Past
  <1>2. PC!Busy(w)
    BY <1>1 DEF PC!Busy, PC!At
  <1>3. pcJob' = [v \in Creators |-> pcJob'[v]] /\ pcJob'[w] = new
         /\ \A v \in Creators : v # w => pcJob'[v] = pcJob[v]
    BY <1>1 DEF PC!CreationInv
  <1>4. new.pc = "fees" /\ new.dtos = dtos
         /\ new \in [pc : {"merchant", "limits", "fees", "inserting"}, dtos : PC!Calls,
                     fees : Seq(PC!Charge)]
    BY <1>2, CreationShape
  <1>5. dtos[1].splits # <<>> => PC!SumTo100(dtos[1].splits)
    BY <1>2, CreationShape
  <1>6. dtos \in PC!Calls
    BY <1>2, CreationShape
  <1> HIDE DEF new
  <1>7. \A v \in Creators : PC!JobOK(pcJob'[v])
    <2>1. PC!JobOK(new)
      BY <1>4, <1>5 DEF PC!JobOK
    <2>2. ASSUME NEW v \in Creators, v # w PROVE PC!JobOK(pcJob'[v])
      BY <1>3, <2>2 DEF PC!CreationInv
    <2> QED
      BY <1>3, <2>1, <2>2
  <1>8. PC!RoomLeft'
    <2>1. SUFFICES ASSUME DailyLimit # 0, ~overlapped', NEW u \in Creators, pcJob'[u].pc \in Past
                   PROVE  /\ Len(pcJob'[u].dtos) = 1
                          /\ PC!Spent(payments)' + pcJob'[u].dtos[1].amount <= DailyLimit
                          /\ \A v \in Creators : pcJob'[v].pc \in Past => v = u
      BY DEF PC!RoomLeft, Past
    <2>2. ~(Len(dtos) > 1) /\ \A v \in Creators : pcJob[v].pc \notin Past
      BY <1>1, <2>1
    <2>3. u = w /\ \A v \in Creators : pcJob'[v].pc \in Past => v = u
      BY <1>3, <2>1, <2>2
    <2> HIDE DEF dtos
    <2>4. Len(dtos) = 1
      BY <1>6, <2>2, CallShape
    <2>5. PC!UnderLimit(dtos[1])
      BY <1>1, <2>1, <2>4 DEF PC!Allowed, dtos
    <2>6. PC!Spent(payments)' = PC!Spent(payments)
      BY <1>1 DEF PC!Spent, PC!Total
    <2> QED
      BY <1>3, <1>4, <2>3, <2>4, <2>5, <2>6 DEF PC!UnderLimit
  <1>9. PC!DailyLimitKept' /\ PC!AmountsAddUp'
    BY <1>1 DEF PC!CreationInv, PC!DailyLimitKept, PC!AmountsAddUp
  <1> QED
    BY <1>1, <1>3, <1>7, <1>8, <1>9 DEF PC!CreationInv

(* The payments of a creation add up as they are inserted. *)
LEMMA InsertedRows ==
    ASSUME PC!CreationInv, NEW w \in Creators, PC!Insert(w)
    PROVE  \E rows \in Seq([amount : PcAmounts, fee : Int, net : Int, legs : Seq(Int)]) :
             /\ payments' = payments \o rows /\ Len(rows) = Len(pcJob[w].dtos)
             /\ \A i \in 1 .. Len(rows) :
                  /\ rows[i].amount = pcJob[w].dtos[i].amount
                  /\ PC!FeeAddsUp(rows[i].amount, rows[i])
                  /\ PC!LegsAddUp(rows[i].amount, rows[i].legs)
  <1> DEFINE dtos == pcJob[w].dtos
             fees == pcJob[w].fees
             asked == IF Len(dtos) = 1 THEN dtos[1].splits ELSE <<>>
             row(i, l) == [amount |-> dtos[i].amount, fee |-> fees[i].fee,
                           net |-> fees[i].net, legs |-> l]
  <1>1. PC!Busy(w) /\ pcJob[w].pc = "inserting"
    BY DEF PC!Insert, PC!Busy, PC!At
  <1>2. PICK legs \in PC!Legs(dtos[1].amount, asked) :
           payments' = payments \o [i \in 1 .. Len(dtos) |-> row(i, legs)]
    BY DEF PC!Insert
  <1>3. dtos \in PC!Calls /\ fees \in Seq(PC!Charge)
         /\ (dtos[1].splits # <<>> => PC!SumTo100(dtos[1].splits))
    BY <1>1, CreationShape
  <1>4. Len(fees) = Len(dtos) /\ \A i \in 1 .. Len(dtos) : PC!FeeAddsUp(dtos[i].amount, fees[i])
    <2>1. PC!JobOK(pcJob[w]) /\ pcJob[w] # PC!Idle
      BY <1>1 DEF PC!CreationInv, PC!Idle
    <2> QED
      BY <1>1, <2>1 DEF PC!JobOK
  <1> HIDE DEF dtos, fees
  <1>5. Len(dtos) \in Nat /\ \A i \in 1 .. Len(dtos) : dtos[i] = dtos[1]
    BY <1>3, CallShape
  <1>6. dtos[1].amount \in PcAmounts /\ dtos[1].amount \in Nat
    BY <1>3, CallShape
  <1>7. asked \in Seq(Nat) /\ (asked # <<>> => PC!SumTo100(asked))
    BY <1>3, CallShape
  <1> DEFINE amount == dtos[1].amount
  <1>8. legs \in Seq(Int) /\ PC!LegsAddUp(amount, legs)
    <2> HIDE DEF asked, amount
    <2>1. amount \in Nat /\ legs \in PC!Legs(amount, asked)
      BY <1>2, <1>6 DEF amount
    <2> QED
      BY <1>7, <2>1, LegsSpread
  <1>9. \A i \in 1 .. Len(dtos) :
           /\ row(i, legs) \in [amount : PcAmounts, fee : Int, net : Int, legs : Seq(Int)]
           /\ row(i, legs).amount = dtos[i].amount /\ row(i, legs).legs = legs
           /\ PC!FeeAddsUp(row(i, legs).amount, row(i, legs))
           /\ PC!LegsAddUp(row(i, legs).amount, row(i, legs).legs)
    <2> TAKE i \in 1 .. Len(dtos)
    <2> DEFINE r == row(i, legs)
    <2>1. fees[i] \in PC!Charge /\ dtos[i] = dtos[1]
      BY <1>3, <1>4, <1>5
    <2>2. fees[i].fee \in Int /\ fees[i].net \in Int
      BY <2>1 DEF PC!Charge
    <2>3. r \in [amount : PcAmounts, fee : Int, net : Int, legs : Seq(Int)]
      BY <1>6, <1>8, <2>1, <2>2
    <2>4. r.amount = dtos[i].amount /\ r.amount = amount /\ r.legs = legs
           /\ r.fee = fees[i].fee /\ r.net = fees[i].net
      BY <2>1
    <2> HIDE DEF r, amount
    <2>5. PC!FeeAddsUp(r.amount, r)
      BY <1>4, <2>4 DEF PC!FeeAddsUp
    <2>6. PC!LegsAddUp(r.amount, r.legs)
      BY <1>8, <2>4
    <2>7. r \in [amount : PcAmounts, fee : Int, net : Int, legs : Seq(Int)]
           /\ r.amount = dtos[i].amount /\ r.legs = legs
           /\ PC!FeeAddsUp(r.amount, r) /\ PC!LegsAddUp(r.amount, r.legs)
      BY <2>3, <2>4, <2>5, <2>6
    <2> QED
      BY <2>7 DEF r
  <1> DEFINE rows == [i \in 1 .. Len(dtos) |-> row(i, legs)]
  <1>10. rows \in Seq([amount : PcAmounts, fee : Int, net : Int, legs : Seq(Int)])
          /\ Len(rows) = Len(dtos) /\ \A i \in 1 .. Len(dtos) : rows[i] = row(i, legs)
    <2> HIDE DEF row
    <2> QED
      BY <1>5, <1>9
  <1>11. payments' = payments \o rows
    BY <1>2
  <1> HIDE DEF rows, row
  <1> QED
    BY <1>9, <1>10, <1>11 DEF dtos

(* The day's payments and one more. *)
LEMMA OneMoreSpent ==
    ASSUME NEW R, NEW rows \in Seq(R), NEW r \in R, \A x \in R : x.amount \in Int
    PROVE  PC!Spent(rows \o <<r>>) = PC!Spent(rows) + r.amount
  <1> DEFINE all == rows \o <<r>>
             old == [i \in 1 .. Len(rows) |-> rows[i].amount]
             new == [i \in 1 .. Len(all) |-> all[i].amount]
  <1>1. Len(rows) \in Nat /\ \A i \in 1 .. Len(rows) : rows[i] \in R
    OBVIOUS
  <1>2. Len(all) = Len(rows) + 1 /\ all[Len(rows) + 1] = r /\ \A i \in 1 .. Len(rows) : all[i] = rows[i]
    OBVIOUS
  <1> HIDE DEF all
  <1>3. old \in Seq(Int) /\ Len(old) = Len(rows)
    BY <1>1
  <1>4. new = Append(old, r.amount)
    <2>1. new \in Seq(Int) /\ Len(new) = Len(rows) + 1
      BY <1>1, <1>2
    <2>2. Append(old, r.amount) \in Seq(Int) /\ Len(Append(old, r.amount)) = Len(rows) + 1
      BY <1>1, <1>3
    <2>3. \A i \in 1 .. Len(rows) + 1 : new[i] = Append(old, r.amount)[i]
      BY <1>1, <1>2, <1>3
    <2> HIDE DEF new, old
    <2> QED
      BY <2>1, <2>2, <2>3, SeqEqual
  <1>5. PC!Total(new) = PC!Total(old) + r.amount
    BY <1>3, <1>4, TotalAppend
  <1> QED
    BY <1>5 DEF PC!Spent, all

(* An insert leaves the day within the limit and rows that add up.         *)
LEMMA InsertKept ==
    ASSUME PC!CreationInv, NEW w \in Creators, PC!Insert(w)
    PROVE  PC!CreationInv'
  <1> DEFINE R == [amount : PcAmounts, fee : Int, net : Int, legs : Seq(Int)]
             dtos == pcJob[w].dtos
  <1>1. PICK rows \in Seq(R) :
               /\ payments' = payments \o rows /\ Len(rows) = Len(dtos)
               /\ \A i \in 1 .. Len(rows) :
                    /\ rows[i].amount = dtos[i].amount
                    /\ PC!FeeAddsUp(rows[i].amount, rows[i])
                    /\ PC!LegsAddUp(rows[i].amount, rows[i].legs)
    BY InsertedRows
  <1>2. pcJob' = [pcJob EXCEPT ![w] = PC!Idle] /\ UNCHANGED <<config, overlapped>>
         /\ pcJob[w].pc = "inserting" /\ PC!Idle.pc = "idle"
    BY DEF PC!Insert, PC!Release, PC!Idle, PC!At
  <1>3. pcJob' = [v \in Creators |-> pcJob'[v]] /\ pcJob'[w] = PC!Idle
         /\ \A v \in Creators : v # w => pcJob'[v] = pcJob[v]
    BY <1>2 DEF PC!CreationInv
  <1>4. \A v \in Creators : PC!JobOK(pcJob'[v])
    BY <1>3 DEF PC!CreationInv, PC!JobOK
  <1>5. payments \in Seq(R)
    BY DEF PC!CreationInv
  <1>6. payments' \in Seq(R)
    <2> HIDE DEF R
    <2> QED
      BY <1>1, <1>5
  <1>7. PC!AmountsAddUp'
    <2> DEFINE Adds(r) == PC!FeeAddsUp(r.amount, r) /\ PC!LegsAddUp(r.amount, r.legs)
               all == payments \o rows
    <2>1. \A i \in 1 .. Len(payments) : Adds(payments[i])
      BY DEF PC!CreationInv, PC!AmountsAddUp
    <2>2. \A i \in 1 .. Len(rows) : Adds(rows[i])
      BY <1>1
    <2> HIDE DEF Adds, R
    <2>3. \A i \in 1 .. Len(all) : Adds(all[i])
      <3>1. TAKE i \in 1 .. Len(all)
      <3>2. CASE i <= Len(payments)
        BY <1>5, <2>1, <3>2
      <3>3. CASE i > Len(payments)
        <4>1. all[i] = rows[i - Len(payments)] /\ i - Len(payments) \in 1 .. Len(rows)
          BY <1>1, <1>5, <3>3
        <4> QED
          BY <2>2, <4>1
      <3>4. Len(payments) \in Nat /\ i \in Int
        BY <1>1, <1>5
      <3> QED
        BY <3>2, <3>3, <3>4
    <2>4. payments' = all
      BY <1>1
    <2> HIDE DEF all
    <2> QED
      BY <2>3, <2>4 DEF PC!AmountsAddUp, Adds
  <1>8. ASSUME DailyLimit # 0, ~overlapped PROVE PC!Spent(payments)' <= DailyLimit
    <2>1. Len(dtos) = 1 /\ PC!Spent(payments) + dtos[1].amount <= DailyLimit
      BY <1>2, <1>8 DEF PC!CreationInv, PC!RoomLeft
    <2> HIDE DEF dtos, R
    <2> DEFINE r == rows[1]
    <2>2. rows = <<r>> /\ r \in R
      <3>1. rows \in Seq(R) /\ Len(rows) = 1
        BY <1>1, <2>1
      <3>2. r \in R
        BY <3>1
      <3>3. <<r>> \in Seq(R) /\ Len(<<r>>) = 1 /\ <<r>>[1] = rows[1]
        BY <3>2
      <3>4. \A i \in 1 .. Len(rows) : rows[i] = <<r>>[i]
        BY <3>1, <3>3
      <3> HIDE DEF r
      <3> QED
        BY <3>1, <3>2, <3>3, <3>4, SeqEqual
    <2>3. r.amount = dtos[1].amount
      BY <1>1, <2>1
    <2>4. \A x \in R : x.amount \in Int
      <3>1. \A y \in PcAmounts : y \in Int
        BY CreationAssumption
      <3>2. TAKE x \in R
      <3>3. x.amount \in PcAmounts
        BY <3>2 DEF R
      <3> QED
        BY <3>1, <3>3
    <2>5. payments' = payments \o <<r>>
      BY <1>1, <2>2
    <2> HIDE DEF r
    <2>6. PC!Spent(payments \o <<r>>) = PC!Spent(payments) + r.amount
      BY <1>5, <2>2, <2>4, OneMoreSpent
    <2>7. PC!Spent(payments') = PC!Spent(payments)'
      OBVIOUS
    <2> QED
      BY <2>1, <2>3, <2>5, <2>6, <2>7
  <1>9. PC!RoomLeft'
    <2>1. SUFFICES ASSUME DailyLimit # 0, ~overlapped', NEW u \in Creators, pcJob'[u].pc \in Past
                   PROVE  FALSE
      BY DEF PC!RoomLeft, Past
    <2>2. u # w /\ pcJob[u].pc \in Past
      BY <1>2, <1>3, <2>1 DEF Past
    <2> QED
      BY <1>2, <2>1, <2>2 DEF PC!CreationInv, PC!RoomLeft, Past
  <1>10. PC!DailyLimitKept'
    BY <1>2, <1>8 DEF PC!DailyLimitKept
  <1> QED
    BY <1>2, <1>3, <1>4, <1>6, <1>7, <1>9, <1>10 DEF PC!CreationInv

(* Every step keeps the invariant of creations.                            *)
LEMMA CreationKept ==
    ASSUME PC!CreationInv, [PC!Next]_(PC!vars)
    PROVE  PC!CreationInv'
  <1>1. CASE UNCHANGED PC!vars
    BY <1>1 DEF PC!vars, PC!CreationInv, PC!RoomLeft, PC!DailyLimitKept, PC!AmountsAddUp
  <1>2. CASE PC!SetFees
    BY <1>2 DEF PC!SetFees, PC!CreationInv, PC!RoomLeft, PC!DailyLimitKept, PC!AmountsAddUp
  <1>3. ASSUME NEW w \in Creators, NEW dtos \in PC!Calls, PC!StartCreate(w, dtos)
        PROVE  PC!CreationInv'
    BY <1>3, StartCreation
  <1>4. ASSUME NEW w \in Creators, PC!Step(w) PROVE PC!CreationInv'
    <2>1. CASE PC!CheckMerchant(w)
      BY <2>1, CheckMerchantKept
    <2>2. CASE PC!CheckLimits(w)
      BY <2>2, CheckLimitsKept
    <2>3. CASE PC!Refuse(w)
      BY <2>3, ReleasedCreation DEF PC!Refuse
    <2>4. CASE PC!CalculateFee(w)
      BY <2>4, CalculateFeeKept
    <2>5. CASE PC!Insert(w)
      BY <2>5, InsertKept
    <2> QED
      BY <1>4, <2>1, <2>2, <2>3, <2>4, <2>5 DEF PC!Step
  <1>5. ASSUME NEW w \in Creators, PC!GiveUp(w) \/ PC!Fail(w) PROVE PC!CreationInv'
    BY <1>5, ReleasedCreation DEF PC!GiveUp, PC!Fail
  <1> QED
    BY <1>1, <1>2, <1>3, <1>4, <1>5 DEF PC!Next

(* It holds with no payment and nobody creating.                           *)
LEMMA CreationsBegin == PC!Init => PC!CreationInv
  <1>1. SUFFICES ASSUME PC!Init PROVE PC!CreationInv
    OBVIOUS
  <1>2. config = PC!NoFee /\ payments = <<>> /\ pcJob = [w \in Creators |-> PC!Idle]
    BY <1>1 DEF PC!Init
  <1>3. \A w \in Creators : PC!JobOK(pcJob[w]) /\ pcJob[w].pc = "idle"
    BY <1>2 DEF PC!JobOK, PC!Idle
  <1>4. PC!Spent(payments) = 0
    <2> DEFINE none == [i \in 1 .. Len(payments) |-> payments[i].amount]
               f == [i \in 0 .. 0 |-> 0]
    <2>1. none \in Seq(Int) /\ Len(none) = 0
      BY <1>2
    <2>2. f \in [0 .. 0 -> Int] /\ f[0] = 0
      OBVIOUS
    <2> HIDE DEF none, f
    <2>3. Sums(none, f)
      BY <2>1, <2>2 DEF Sums
    <2>4. PC!Total(none) = 0
      BY <2>1, <2>2, <2>3, TotalIs
    <2> QED
      BY <2>4 DEF PC!Spent, none
  <1>5. DailyLimit \in Nat
    BY CreationAssumption
  <1>6. PC!RoomLeft
    BY <1>3 DEF PC!RoomLeft
  <1>7. PC!DailyLimitKept
    BY <1>4, <1>5 DEF PC!DailyLimitKept
  <1>8. PC!AmountsAddUp
    BY <1>2 DEF PC!AmountsAddUp
  <1> QED
    BY <1>2, <1>3, <1>6, <1>7, <1>8 DEF PC!CreationInv

(* A step of the suite is one of creation, or leaves it alone.             *)
LEMMA CreationsMove == [Next]_vars => [PC!Next]_(PC!vars)
  BY DEF Next, vars, pcVars, PC!vars

(* The payments of a payer stay within the limit of the day, unless a      *)
(* creation was checked while another was on its way or several came in    *)
(* one request; and fee and net, and the legs of a split, add up to the    *)
(* amount but for rounding (payments.service.ts:78-330).                   *)
THEOREM MoneyStaysRight == Spec => []MoneyAddsUp
  <1>1. Init => PC!CreationInv
    BY CreationsBegin DEF Init
  <1>2. PC!CreationInv /\ [Next]_vars => PC!CreationInv'
    BY CreationKept, CreationsMove
  <1>3. PC!CreationInv => MoneyAddsUp
    BY DEF PC!CreationInv, MoneyAddsUp
  <1> QED
    BY <1>1, <1>2, <1>3, PTL DEF Spec

-----------------------------------------------------------------------------
(* Quotients, and midnights, which are the multiples of a day.             *)

(* A quotient is the last multiple that is not above.                      *)
LEMMA DivBounds ==
  ASSUME NEW a \in Int, NEW d \in Nat \ {0}
  PROVE (a \div d) \in Int /\ (a \div d) * d <= a /\ a < (a \div d) * d + d
  <1>1. (a \div d) \in Int
    OBVIOUS
  <1>2. a = d * (a \div d) + (a % d) /\ (a % d) \in 0 .. d - 1
    OBVIOUS
  <1> QED BY <1>1, <1>2

(* Multiples are a divisor apart.                                          *)
LEMMA Multiples ==
  ASSUME NEW k \in Int, NEW m \in Int, NEW d \in Nat \ {0}, k * d < m * d
  PROVE k * d + d <= m * d
  <1>1. k < m
    <2>1. SUFFICES ASSUME k >= m PROVE FALSE
      OBVIOUS
    <2>2. PICK n \in Nat : k = m + n
      <3>1. k - m \in Nat /\ k = m + (k - m)
        BY <2>1
      <3> QED BY <3>1
    <2>3. n * d >= 0
      OBVIOUS
    <2>4. (m + n) * d = m * d + n * d
      OBVIOUS
    <2> QED BY <2>2, <2>3, <2>4
  <1>2. PICK n \in Nat : m = k + 1 + n
      <3>1. m - k - 1 \in Nat /\ m = k + 1 + (m - k - 1)
        BY <1>1
      <3> QED BY <3>1
  <1>3. n * d >= 0
    OBVIOUS
  <1>4. (k + 1 + n) * d = k * d + d + n * d
    OBVIOUS
  <1> QED BY <1>2, <1>3, <1>4

(* Midnights: the multiples of a day. *)
LEMMA MidnightEven ==
    ASSUME NEW k \in Int
    PROVE  (k * Day) \in Int /\ (k * Day) % Day = 0
  <1> DEFINE a == k * Day
             q == a \div Day
             r == a % Day
  <1>1. Day \in Nat \ {0}
    BY ReportsAssumption
  <1>2. a \in Int
    BY <1>1
  <1> HIDE DEF a
  <1>3. q \in Int /\ r \in 0 .. Day - 1 /\ a = Day * q + r
    BY <1>1, <1>2
  <1> HIDE DEF q, r
  <1>4. q * Day = Day * q /\ q * Day \in Int
    BY <1>1, <1>3
  <1>5. CASE q * Day < a
    <2>1. q * Day + Day <= a
      BY <1>1, <1>3, <1>5, Multiples DEF a
    <2> QED
      BY <1>1, <1>2, <1>3, <1>4, <2>1
  <1>6. CASE ~(q * Day < a)
    BY <1>1, <1>2, <1>3, <1>4, <1>6 DEF r, a
  <1> QED
    BY <1>5, <1>6

(* and nothing else is one.                                                *)
LEMMA EvenMidnight ==
    ASSUME NEW u \in Int, u % Day = 0
    PROVE  \E k \in Int : u = k * Day
  <1>1. Day \in Nat \ {0}
    BY ReportsAssumption
  <1>2. (u \div Day) \in Int /\ u = Day * (u \div Day) + (u % Day)
    BY <1>1
  <1> DEFINE k == u \div Day
  <1> HIDE DEF k
  <1>3. k \in Int /\ u = Day * k
    BY <1>1, <1>2 DEF k
  <1> QED
    BY <1>1, <1>3

(* Two midnights are a day apart.                                          *)
LEMMA MidnightsApart ==
    ASSUME NEW u \in Int, NEW s \in Int, u % Day = 0, s % Day = 0, s < u
    PROVE  s + Day <= u
  <1>1. PICK k \in Int : s = k * Day
    BY EvenMidnight
  <1>2. PICK m \in Int : u = m * Day
    BY EvenMidnight
  <1>3. Day \in Nat \ {0}
    BY ReportsAssumption
  <1> QED
    BY <1>1, <1>2, <1>3, Multiples

(* The last midnight somewhere is a midnight, less than a day away from    *)
(* now.                                                                    *)
LEMMA MidnightLocal ==
    ASSUME now \in Nat, Day <= now, NEW zone \in Zones
    PROVE  /\ RE!LocalMidnight(zone) \in Nat /\ RE!LocalMidnight(zone) % Day = 0
           /\ RE!LocalMidnight(zone) < now + Day
  <1> DEFINE a == now + zone
             k == a \div Day
  <1>1. Day \in Nat \ {0} /\ zone \in Int /\ -Day < zone /\ zone < Day
    BY ReportsAssumption
  <1>2. a \in Int /\ 0 < a /\ a < now + Day
    BY <1>1
  <1> HIDE DEF a
  <1>3. k \in Int /\ k * Day <= a /\ a < k * Day + Day
    BY <1>1, <1>2, DivBounds
  <1> HIDE DEF k
  <1>4. k * Day \in Int /\ (k * Day) % Day = 0
    BY <1>3, MidnightEven
  <1>5. 0 <= k * Day
    <2>1. SUFFICES ASSUME k * Day < 0 * Day PROVE FALSE
      BY <1>1, <1>4
    <2>2. k * Day + Day <= 0 * Day
      BY <1>1, <1>3, <2>1, Multiples
    <2> QED
      BY <1>1, <1>2, <1>3, <1>4, <2>2
  <1>6. RE!LocalMidnight(zone) = k * Day
    BY DEF RE!LocalMidnight, k, a
  <1> QED
    BY <1>1, <1>2, <1>3, <1>4, <1>5, <1>6

(* A period begins and ends at a midnight, and ends less than a day from   *)
(* now.                                                                    *)
LEMMA PeriodLocal ==
    ASSUME now \in Nat, Day <= now, NEW sub, sub.zone \in Zones, sub.period \in Periods
    PROVE  /\ RE!PeriodEnd(sub) \in Nat /\ RE!PeriodEnd(sub) % Day = 0
           /\ RE!PeriodEnd(sub) < now + Day
           /\ RE!PeriodStart(sub) \in Int /\ RE!PeriodStart(sub) % Day = 0
           /\ RE!PeriodStart(sub) <= RE!PeriodEnd(sub)
  <1> DEFINE e == RE!PeriodEnd(sub)
             p == sub.period
  <1>1. Day \in Nat \ {0} /\ p \in Nat
    BY ReportsAssumption
  <1>2. e \in Nat /\ e % Day = 0 /\ e < now + Day
    BY MidnightLocal DEF RE!PeriodEnd
  <1>3. RE!PeriodStart(sub) = e - p * Day
    BY DEF RE!PeriodStart
  <1> HIDE DEF e, p
  <1>4. PICK k \in Int : e = k * Day
    BY <1>2, EvenMidnight
  <1>5. p * Day \in Nat
    BY <1>1
  <1>6. e - p * Day = (k - p) * Day
    BY <1>1, <1>4
  <1>7. (k - p) \in Int
    BY <1>1
  <1>8. (e - p * Day) % Day = 0
    BY <1>6, <1>7, MidnightEven
  <1> QED
    BY <1>2, <1>3, <1>5, <1>8 DEF e

(* What is over for a sweep lies before the period that is due. *)
LEMMA OverBefore ==
    ASSUME NEW u \in Int, NEW t \in Int, NEW s \in Int, RE!Over(u, t), s % Day = 0,
           t = RE!Never \/ t < s
    PROVE  u = RE!Never \/ u <= s
  <1>1. SUFFICES ASSUME u # RE!Never, s < u PROVE FALSE
    OBVIOUS
  <1>2. t # RE!Never /\ u % Day = 0 /\ u < t + Day
    BY <1>1 DEF RE!Over
  <1>3. s + Day <= u
    BY <1>1, <1>2, MidnightsApart
  <1> QED
    BY <1>2, <1>3, ReportsAssumption

-----------------------------------------------------------------------------
(* Reports: the work of a sweep and of a call, and what each step makes of *)
(* it.                                                                     *)

(* No subscription is not a subscription.                                  *)
LEMMA ReRowTyped == ~(RE!NoRow \in RE!Row)
  BY DEF RE!NoRow, RE!Row

(* What work in progress holds, by what it does.                           *)
LEMMA WorkFields ==
    ASSUME RE!WorkShape, NEW w \in Senders, reWork[w] # RE!Idle
    PROVE  /\ reWork[w].copy \in RE!Row /\ reWork[w].stale \in BOOLEAN
           /\ reWork[w].pc \in {"mailing", "saving", "removing"}
           /\ reWork[w].op = "sweep" <=> RE!Sweeping(w)
           /\ reWork[w].op = "sweep" => reWork[w] \in RE!SweepWork
           /\ reWork[w].op # "sweep" => reWork[w] \in RE!CallWork
  <1>1. reWork[w] \in RE!SweepWork \cup RE!CallWork
    BY DEF RE!WorkShape
  <1>2. CASE reWork[w] \in RE!SweepWork
    BY <1>2 DEF RE!SweepWork, RE!Sweeping
  <1>3. CASE reWork[w] \in RE!CallWork
    BY <1>3 DEF RE!CallWork, RE!Sweeping
  <1> QED
    BY <1>1, <1>2, <1>3

(* A sweep at work is not idle.                                            *)
LEMMA Sweeps ==
    ASSUME RE!WorkShape, NEW w \in Senders, RE!Sweeping(w)
    PROVE  /\ reWork[w] # RE!Idle /\ reWork[w] \in RE!SweepWork /\ reWork[w].op = "sweep"
  <1>1. reWork[w] # RE!Idle
    BY DEF RE!Sweeping, RE!Idle
  <1> QED
    BY <1>1, WorkFields

(* A slot gets new work, or none. *)
LEMMA WorkGiven ==
    ASSUME RE!WorkShape, NEW w \in Senders,
           NEW new \in {RE!Idle} \cup RE!SweepWork \cup RE!CallWork,
           reWork' = [reWork EXCEPT ![w] = new]
    PROVE  RE!WorkShape' /\ reWork'[w] = new /\ \A v \in Senders : v # w => reWork'[v] = reWork[v]
  BY DEF RE!WorkShape, RE!SweepWork, RE!CallWork, RE!Idle, RE!Row, RE!Never

(* When one has written the row, every copy somebody else still holds is   *)
(* stale.                                                                  *)
LEMMA WorkWritten ==
    ASSUME RE!WorkShape, NEW w \in Senders, RE!Written(w)
    PROVE  /\ RE!WorkShape' /\ reWork'[w] = RE!Idle
           /\ \A v \in Senders : v # w =>
                IF reWork[v] = RE!Idle THEN reWork'[v] = RE!Idle
                ELSE reWork'[v] = [reWork[v] EXCEPT !.stale = TRUE]
  <1>1. reWork' = [v \in Senders |->
                     IF v = w \/ reWork[v] = RE!Idle THEN RE!Idle
                     ELSE [reWork[v] EXCEPT !.stale = TRUE]]
    BY DEF RE!Written
  <1>2. ASSUME NEW v \in Senders, reWork[v] # RE!Idle
        PROVE  [reWork[v] EXCEPT !.stale = TRUE] \in RE!SweepWork \cup RE!CallWork
    <2>1. reWork[v] \in RE!SweepWork \cup RE!CallWork
      BY <1>2 DEF RE!WorkShape
    <2>2. CASE reWork[v] \in RE!SweepWork
      BY <2>2 DEF RE!SweepWork
    <2>3. CASE reWork[v] \in RE!CallWork
      BY <2>3 DEF RE!CallWork
    <2> QED
      BY <2>1, <2>2, <2>3
  <1>3. \A v \in Senders : reWork'[v] \in {RE!Idle} \cup RE!SweepWork \cup RE!CallWork
    BY <1>1, <1>2
  <1>4. reWork' = [v \in Senders |-> reWork'[v]]
    BY <1>1
  <1>5. RE!WorkShape'
    BY <1>3, <1>4 DEF RE!WorkShape, RE!SweepWork, RE!CallWork, RE!Idle, RE!Row, RE!Never
  <1> QED
    BY <1>1, <1>5

(* The type of the work follows from its shape. *)
LEMMA TypesFromShape ==
    ASSUME RE!WorkShape', now' \in Day .. ReMaxTime, reRow' \in RE!Row \cup {RE!NoRow},
           until' \in [Recipients -> RE!Never .. ReMaxTime + Day],
           quit' \subseteq Recipients, reCalls' \in 0 .. ReMaxCalls
    PROVE  RE!TypeOK'
  <1>1. \A w \in Senders : /\ reWork'[w].pc \in {"idle", "mailing", "saving", "removing"}
                           /\ reWork'[w].pc # "idle" => reWork'[w].copy \in RE!Row
    <2>1. TAKE w \in Senders
    <2>2. reWork'[w] \in {RE!Idle} \cup RE!SweepWork \cup RE!CallWork
      BY DEF RE!WorkShape, RE!SweepWork, RE!CallWork, RE!Idle, RE!Row, RE!Never
    <2> QED
      BY <2>2 DEF RE!SweepWork, RE!CallWork, RE!Idle
  <1>2. \A w \in Senders : reWork'[w].copy \in RE!Row <=> (reWork[w].copy \in RE!Row)'
    BY DEF RE!Row, RE!Never
  <1> QED
    BY <1>1, <1>2 DEF RE!TypeOK, RE!Row, RE!NoRow, RE!Never

(* The numbers of the reports, as integers.                                *)
LEMMA Bounds ==
    ASSUME RE!TypeOK
    PROVE  /\ now \in Nat /\ Day <= now /\ now <= ReMaxTime /\ Day \in Nat /\ ReMaxTime \in Nat
           /\ now \in RE!Never .. ReMaxTime /\ reCalls \in Nat
  BY ReportsAssumption DEF RE!TypeOK, RE!Never

(* A subscription with a column changed is a subscription.                 *)
LEMMA CopyTyped ==
    ASSUME NEW sub \in RE!Row
    PROVE  /\ \A t \in RE!Never .. ReMaxTime : [sub EXCEPT !.lastSentAt = t] \in RE!Row
           /\ \A p \in Periods, z \in Zones : [sub EXCEPT !.period = p, !.zone = z] \in RE!Row
           /\ \A a \in BOOLEAN : [sub EXCEPT !.isActive = a] \in RE!Row
           /\ [sub EXCEPT !.recipients = Recipients] \in RE!Row
           /\ \A r : RE!Without(sub, r) \in RE!Row
           /\ sub.recipients \subseteq Recipients /\ sub.period \in Periods /\ sub.zone \in Zones
           /\ sub.lastSentAt \in RE!Never .. ReMaxTime /\ sub.lastSentAt \in Int
  <1>1. \A t \in RE!Never .. ReMaxTime : [sub EXCEPT !.lastSentAt = t] \in RE!Row
    BY DEF RE!Row
  <1>2. \A p \in Periods, z \in Zones : [sub EXCEPT !.period = p, !.zone = z] \in RE!Row
    BY DEF RE!Row
  <1>3. \A a \in BOOLEAN : [sub EXCEPT !.isActive = a] \in RE!Row
    BY DEF RE!Row
  <1>4. [sub EXCEPT !.recipients = Recipients] \in RE!Row
    BY DEF RE!Row
  <1>5. /\ sub.recipients \subseteq Recipients /\ sub.period \in Periods /\ sub.zone \in Zones
        /\ sub.lastSentAt \in RE!Never .. ReMaxTime
    BY DEF RE!Row
  <1>6. \A r : RE!Without(sub, r) \in RE!Row
    <2>1. TAKE r
    <2> DEFINE a == sub.isActive /\ sub.recipients # {r}
               l == sub.recipients \ {r}
    <2>2. a \in BOOLEAN /\ l \in SUBSET Recipients
      BY <1>5
    <2>3. RE!Without(sub, r) = [sub EXCEPT !.recipients = l, !.isActive = a]
      BY DEF RE!Without
    <2> HIDE DEF a, l
    <2> QED
      BY <2>2, <2>3 DEF RE!Row
  <1>7. sub.lastSentAt \in Int
    BY <1>5, ReportsAssumption DEF RE!Never
  <1> QED
    BY <1>1, <1>2, <1>3, <1>4, <1>5, <1>6, <1>7

(* A sweep finds a subscription that is due and copies it,                 *)
LEMMA FindMakes ==
    ASSUME RE!TypeOK, RE!WorkShape, NEW w \in Senders, RE!Find(w)
    PROVE  \E new \in RE!SweepWork :
             /\ reWork' = [reWork EXCEPT ![w] = new]
             /\ new.copy = [reRow EXCEPT !.lastSentAt = now] /\ new.left = reRow.recipients
             /\ new.start = RE!PeriodStart(reRow) /\ new.end = RE!PeriodEnd(reRow)
             /\ new.op = "sweep" /\ new.pc = "mailing" /\ reRow \in RE!Row /\ ~new.stale
  <1> DEFINE new == [pc |-> "mailing", op |-> "sweep", stale |-> FALSE, left |-> reRow.recipients,
                     start |-> RE!PeriodStart(reRow), end |-> RE!PeriodEnd(reRow),
                     copy |-> [reRow EXCEPT !.lastSentAt = now]]
  <1>1. reWork' = [reWork EXCEPT ![w] = new] /\ reRow # RE!NoRow
    BY DEF RE!Find
  <1>2. reRow \in RE!Row
    BY <1>1 DEF RE!TypeOK
  <1>3. RE!PeriodStart(reRow) \in Int /\ RE!PeriodEnd(reRow) \in 0 .. ReMaxTime + Day
    <2>1. reRow.zone \in Zones /\ reRow.period \in Periods
      BY <1>2, CopyTyped
    <2>2. now \in Nat /\ Day <= now
      BY Bounds
    <2>3. RE!PeriodStart(reRow) \in Int /\ RE!PeriodEnd(reRow) \in Nat
           /\ RE!PeriodEnd(reRow) < now + Day
      BY <2>1, <2>2, PeriodLocal
    <2> QED
      BY <2>3, Bounds
  <1>4. [reRow EXCEPT !.lastSentAt = now] \in RE!Row /\ reRow.recipients \in SUBSET Recipients
    BY <1>2, CopyTyped, Bounds
  <1>5. new \in RE!SweepWork
    BY <1>3, <1>4 DEF RE!SweepWork
  <1> QED
    BY <1>1, <1>2, <1>5

(* and a call copies it to change it.                                      *)
LEMMA BeginMakes ==
    ASSUME RE!TypeOK, RE!WorkShape, NEW w \in Senders,
           RE!Update(w) \/ RE!Remove(w) \/ RE!Unsubscribe(w)
    PROVE  \E new \in RE!CallWork :
             /\ reWork' = [reWork EXCEPT ![w] = new] /\ ~new.stale /\ reRow # RE!NoRow
             /\ new.op \in {"update", "remove"} => new.copy.recipients = reRow.recipients
             /\ new.copy.lastSentAt = reRow.lastSentAt
             /\ UNCHANGED <<now, reRow, until, again, quit, spoiled>>
             /\ reCalls < ReMaxCalls /\ reCalls' = reCalls + 1 /\ reWork[w] = RE!Idle
  <1> DEFINE Op == {"update", "replace", "unsubscribe", "remove"}
  <1>0. PICK copy : \E op \in Op :
          /\ RE!Begin(w, op, copy) /\ (reRow # RE!NoRow => copy \in RE!Row)
          /\ (reRow # RE!NoRow => copy.lastSentAt = reRow.lastSentAt)
          /\ (op \in {"update", "remove"} /\ reRow # RE!NoRow => copy.recipients = reRow.recipients)
    <2>1. reRow # RE!NoRow => reRow \in RE!Row
      BY DEF RE!TypeOK
    <2>2. CASE RE!Update(w)
      <3>1. CASE \E period \in Periods, zone \in Zones :
                    RE!Begin(w, "update", [reRow EXCEPT !.period = period, !.zone = zone])
        <4>1. PICK period \in Periods, zone \in Zones :
                    RE!Begin(w, "update", [reRow EXCEPT !.period = period, !.zone = zone])
          BY <3>1
        <4>2. reRow # RE!NoRow => [reRow EXCEPT !.period = period, !.zone = zone] \in RE!Row
          BY <2>1, CopyTyped
        <4>3. reRow # RE!NoRow =>
                /\ [reRow EXCEPT !.period = period, !.zone = zone].lastSentAt = reRow.lastSentAt
                /\ [reRow EXCEPT !.period = period, !.zone = zone].recipients = reRow.recipients
          BY <2>1 DEF RE!Row
        <4> QED
          BY <4>1, <4>2, <4>3
      <3>2. CASE \E active \in BOOLEAN : RE!Begin(w, "update", [reRow EXCEPT !.isActive = active])
        <4>1. PICK active \in BOOLEAN : RE!Begin(w, "update", [reRow EXCEPT !.isActive = active])
          BY <3>2
        <4>2. reRow # RE!NoRow => [reRow EXCEPT !.isActive = active] \in RE!Row
          BY <2>1, CopyTyped
        <4>3. reRow # RE!NoRow =>
                /\ [reRow EXCEPT !.isActive = active].lastSentAt = reRow.lastSentAt
                /\ [reRow EXCEPT !.isActive = active].recipients = reRow.recipients
          BY <2>1 DEF RE!Row
        <4> QED
          BY <4>1, <4>2, <4>3
      <3>3. CASE RE!Begin(w, "replace", [reRow EXCEPT !.recipients = Recipients])
        <4>2. reRow # RE!NoRow => [reRow EXCEPT !.recipients = Recipients] \in RE!Row
          BY <2>1, CopyTyped
        <4>3. reRow # RE!NoRow => [reRow EXCEPT !.recipients = Recipients].lastSentAt = reRow.lastSentAt
          BY <2>1 DEF RE!Row
        <4> QED
          BY <3>3, <4>2, <4>3
      <3> QED
        BY <2>2, <3>1, <3>2, <3>3 DEF RE!Update
    <2>3. CASE RE!Remove(w)
      BY <2>1, <2>3 DEF RE!Remove
    <2>4. CASE RE!Unsubscribe(w)
      <3>1. PICK r \in reRow.recipients : RE!Begin(w, "unsubscribe", RE!Without(reRow, r))
        BY <2>4 DEF RE!Unsubscribe
      <3>2. reRow # RE!NoRow => RE!Without(reRow, r) \in RE!Row
        BY <2>1, CopyTyped
      <3>3. reRow # RE!NoRow => RE!Without(reRow, r).lastSentAt = reRow.lastSentAt
        BY <2>1 DEF RE!Row, RE!Without
      <3> QED
        BY <3>1, <3>2, <3>3
    <2> QED
      BY <2>2, <2>3, <2>4
  <1>1. PICK op \in Op :
          /\ RE!Begin(w, op, copy) /\ (reRow # RE!NoRow => copy \in RE!Row)
          /\ (reRow # RE!NoRow => copy.lastSentAt = reRow.lastSentAt)
          /\ (op \in {"update", "remove"} /\ reRow # RE!NoRow => copy.recipients = reRow.recipients)
    BY <1>0
  <1> DEFINE new == [pc |-> IF op = "remove" THEN "removing" ELSE "saving",
                     op |-> op, stale |-> FALSE, copy |-> copy]
  <1>2. reWork' = [reWork EXCEPT ![w] = new] /\ reRow # RE!NoRow
         /\ UNCHANGED <<now, reRow, until, again, quit, spoiled>>
         /\ reCalls < ReMaxCalls /\ reCalls' = reCalls + 1 /\ reWork[w] = RE!Idle
    BY <1>1 DEF RE!Begin, RE!Call
  <1>3. new \in RE!CallWork
    BY <1>1, <1>2 DEF RE!CallWork
  <1> QED
    BY <1>1, <1>2, <1>3

(* The types of the reports, with the shapes of the work in progress.      *)
ReTyped == RE!TypeOK /\ RE!WorkShape

(* A sweep that goes on stays typed.                                       *)
LEMMA SweepsOn ==
    ASSUME RE!WorkShape, NEW w \in Senders, NEW new \in RE!SweepWork,
           reWork' = [reWork EXCEPT ![w] = new], UNCHANGED <<now, reRow, reCalls>>,
           UNCHANGED quit, RE!TypeOK,
           until' \in [Recipients -> RE!Never .. ReMaxTime + Day]
    PROVE  ReTyped'
  <1>1. RE!WorkShape'
    BY WorkGiven
  <1>2. /\ now' \in Day .. ReMaxTime /\ reRow' \in RE!Row \cup {RE!NoRow}
        /\ quit' \subseteq Recipients /\ reCalls' \in 0 .. ReMaxCalls
    BY DEF RE!TypeOK
  <1>3. RE!TypeOK'
    BY <1>1, <1>2, TypesFromShape
  <1> QED
    BY <1>1, <1>3 DEF ReTyped

(* A sweep mails one of those left,                                        *)
LEMMA MailMakes ==
    ASSUME RE!WorkShape, NEW w \in Senders, RE!Mail(w)
    PROVE  \E r \in reWork[w].left, new \in RE!SweepWork :
             /\ reWork' = [reWork EXCEPT ![w] = new] /\ RE!Sweeping(w)
             /\ new.copy = reWork[w].copy /\ new.left = reWork[w].left \ {r}
             /\ new.start = reWork[w].start /\ new.end = reWork[w].end
             /\ new.stale = reWork[w].stale /\ new.pc = "mailing" /\ new.op = "sweep"
             /\ again' = (again \/ (until[r] /= RE!Never /\ reWork[w].start < until[r]))
             /\ until' = [until EXCEPT ![r] = reWork[w].end]
             /\ UNCHANGED <<now, reRow, quit, spoiled, reCalls>>
  <1>1. PICK r \in reWork[w].left :
            /\ again' = (again \/ (until[r] /= RE!Never /\ reWork[w].start < until[r]))
            /\ until' = [until EXCEPT ![r] = reWork[w].end]
            /\ reWork' = [reWork EXCEPT ![w].left = @ \ {r}]
    BY DEF RE!Mail
  <1>2. reWork[w].pc = "mailing" /\ RE!Sweeping(w) /\ UNCHANGED <<now, reRow, quit, spoiled, reCalls>>
    BY DEF RE!Mail, RE!Sweeping
  <1>3. reWork[w] \in RE!SweepWork
    BY <1>2, Sweeps
  <1> DEFINE new == [reWork[w] EXCEPT !.left = reWork[w].left \ {r}]
  <1>4. new \in RE!SweepWork /\ new.copy = reWork[w].copy /\ new.left = reWork[w].left \ {r}
         /\ new.start = reWork[w].start /\ new.end = reWork[w].end
         /\ new.stale = reWork[w].stale /\ new.pc = "mailing" /\ new.op = "sweep"
    BY <1>2, <1>3 DEF RE!SweepWork
  <1>5. reWork' = [reWork EXCEPT ![w] = new]
    BY <1>1
  <1> HIDE DEF new
  <1> QED
    BY <1>1, <1>2, <1>4, <1>5

(* and is done with them.                                                  *)
LEMMA MailedMakes ==
    ASSUME RE!WorkShape, NEW w \in Senders, RE!Mailed(w)
    PROVE  \E new \in RE!SweepWork :
             /\ reWork' = [reWork EXCEPT ![w] = new] /\ RE!Sweeping(w)
             /\ new.copy = reWork[w].copy /\ new.left = reWork[w].left
             /\ new.start = reWork[w].start /\ new.end = reWork[w].end
             /\ new.stale = reWork[w].stale /\ new.pc = "saving" /\ new.op = "sweep"
             /\ UNCHANGED <<now, reRow, until, again, quit, spoiled, reCalls>>
  <1>1. reWork' = [reWork EXCEPT ![w].pc = "saving"]
         /\ reWork[w].pc = "mailing" /\ RE!Sweeping(w)
         /\ UNCHANGED <<now, reRow, until, again, quit, spoiled, reCalls>>
    BY DEF RE!Mailed, RE!Sweeping
  <1>2. reWork[w] \in RE!SweepWork
    BY <1>1, Sweeps
  <1> DEFINE new == [reWork[w] EXCEPT !.pc = "saving"]
  <1>3. new \in RE!SweepWork /\ new.copy = reWork[w].copy /\ new.left = reWork[w].left
         /\ new.start = reWork[w].start /\ new.end = reWork[w].end
         /\ new.stale = reWork[w].stale /\ new.pc = "saving" /\ new.op = "sweep"
    BY <1>2 DEF RE!SweepWork
  <1>4. reWork' = [reWork EXCEPT ![w] = new]
    BY <1>1
  <1> HIDE DEF new
  <1> QED
    BY <1>1, <1>3, <1>4

(* What is saved is a subscription.                                        *)
LEMMA SaveTyped ==
    ASSUME ReTyped, NEW w \in Senders, RE!Save(w) \/ RE!Removed(w)
    PROVE  ReTyped'
  <1>1. RE!Written(w) /\ UNCHANGED <<now, until, reCalls>>
    BY DEF RE!Save, RE!Removed
  <1>2. RE!WorkShape'
    BY <1>1, WorkWritten DEF ReTyped
  <1>3. now' \in Day .. ReMaxTime /\ until' \in [Recipients -> RE!Never .. ReMaxTime + Day]
         /\ reCalls' \in 0 .. ReMaxCalls
    BY <1>1 DEF ReTyped, RE!TypeOK
  <1>4. reRow' \in RE!Row \cup {RE!NoRow} /\ quit' \subseteq Recipients
    <2>1. CASE RE!Removed(w)
      BY <2>1 DEF RE!Removed, ReTyped, RE!TypeOK
    <2>2. CASE RE!Save(w)
      <3>1. reWork[w] # RE!Idle
        BY <2>2 DEF RE!Save, RE!Idle
      <3>2. reWork[w].copy \in RE!Row
        BY <3>1, WorkFields DEF ReTyped
      <3>3. quit' \in {Recipients \ reWork[w].copy.recipients, {}, quit}
        BY <2>2 DEF RE!Save
      <3> QED
        BY <2>2, <3>2, <3>3 DEF RE!Save, ReTyped, RE!TypeOK
    <2> QED
      BY <2>1, <2>2
  <1> QED
    BY <1>2, <1>3, <1>4, TypesFromShape DEF ReTyped

(* Every step keeps the types.                                             *)
LEMMA ReportsTyped ==
    ASSUME ReTyped, [RE!Next]_(RE!vars)
    PROVE  ReTyped'
  <1>0. /\ now \in Day .. ReMaxTime /\ reRow \in RE!Row \cup {RE!NoRow}
        /\ until \in [Recipients -> RE!Never .. ReMaxTime + Day]
        /\ quit \subseteq Recipients /\ reCalls \in 0 .. ReMaxCalls
    BY DEF ReTyped, RE!TypeOK
  <1>1. ASSUME UNCHANGED reWork PROVE RE!WorkShape'
    BY <1>1 DEF ReTyped, RE!WorkShape, RE!SweepWork, RE!CallWork, RE!Idle, RE!Row, RE!Never
  <1>2. CASE UNCHANGED RE!vars
    <2>1. UNCHANGED <<now, reRow, reWork, until, quit, reCalls>>
      BY <1>2 DEF RE!vars
    <2> QED
      BY <1>0, <1>1, <2>1, TypesFromShape DEF ReTyped
  <1>3. CASE RE!Tick
    <2>1. now < ReMaxTime /\ now' = now + 1 /\ UNCHANGED <<reRow, reWork, until, quit, reCalls>>
      BY <1>3 DEF RE!Tick
    <2>2. now' \in Day .. ReMaxTime
      BY <1>0, <2>1, ReportsAssumption
    <2> QED
      BY <1>0, <1>1, <2>1, <2>2, TypesFromShape DEF ReTyped
  <1>4. CASE RE!Create
    <2>1. PICK period \in Periods, zone \in Zones :
            reRow' = [isActive |-> TRUE, recipients |-> Recipients, period |-> period, zone |-> zone,
                    lastSentAt |-> RE!Never]
      BY <1>4 DEF RE!Create
    <2>2. reCalls < ReMaxCalls /\ reCalls' = reCalls + 1 /\ quit' = {} /\ UNCHANGED <<now, reWork, until>>
      BY <1>4 DEF RE!Create, RE!Call
    <2>3. reRow' \in RE!Row
      BY <2>1, ReportsAssumption DEF RE!Row, RE!Never
    <2>4. reCalls' \in 0 .. ReMaxCalls
      BY <1>0, <2>2, ReportsAssumption
    <2> QED
      BY <1>0, <1>1, <2>2, <2>3, <2>4, TypesFromShape DEF ReTyped
  <1>5. ASSUME NEW w \in Senders,
               RE!Find(w) \/ RE!Mail(w) \/ RE!Mailed(w) \/ RE!CutOff(w) \/ RE!Update(w)
                 \/ RE!Remove(w) \/ RE!Unsubscribe(w) \/ RE!Save(w) \/ RE!Removed(w)
        PROVE  ReTyped'
    <2>1. CASE RE!Find(w)
      <3>1. PICK new \in RE!SweepWork : reWork' = [reWork EXCEPT ![w] = new]
        BY <2>1, FindMakes DEF ReTyped
      <3>2. UNCHANGED <<now, reRow, until, quit, reCalls>>
        BY <2>1 DEF RE!Find
      <3> QED
        BY <1>0, <3>1, <3>2, SweepsOn DEF ReTyped
    <2>2. CASE RE!Mail(w)
      <3>1. PICK r \in reWork[w].left, new \in RE!SweepWork :
               /\ reWork' = [reWork EXCEPT ![w] = new] /\ RE!Sweeping(w)
               /\ until' = [until EXCEPT ![r] = reWork[w].end]
               /\ UNCHANGED <<now, reRow, quit, spoiled, reCalls>>
        BY <2>2, MailMakes DEF ReTyped
      <3>2. reWork[w].end \in RE!Never .. ReMaxTime + Day
        <4>1. reWork[w] \in RE!SweepWork
          BY <3>1, Sweeps DEF ReTyped
        <4>2. reWork[w].end \in 0 .. ReMaxTime + Day
          BY <4>1 DEF RE!SweepWork
        <4> QED
          BY <4>2, ReportsAssumption DEF RE!Never
      <3>3. until' \in [Recipients -> RE!Never .. ReMaxTime + Day]
        BY <1>0, <3>1, <3>2
      <3> QED
        BY <3>1, <3>3, SweepsOn DEF ReTyped
    <2>3. CASE RE!Mailed(w)
      <3>1. PICK new \in RE!SweepWork :
               /\ reWork' = [reWork EXCEPT ![w] = new]
               /\ UNCHANGED <<now, reRow, until, again, quit, spoiled, reCalls>>
        BY <2>3, MailedMakes DEF ReTyped
      <3> QED
        BY <1>0, <3>1, SweepsOn DEF ReTyped
    <2>4. CASE RE!CutOff(w)
      <3>1. reWork' = [reWork EXCEPT ![w] = RE!Idle] /\ UNCHANGED <<now, reRow, until, quit, reCalls>>
        BY <2>4 DEF RE!CutOff, RE!Free
      <3>2. RE!WorkShape'
        BY <3>1, WorkGiven DEF ReTyped
      <3> QED
        BY <1>0, <3>1, <3>2, TypesFromShape DEF ReTyped
    <2>5. CASE RE!Update(w) \/ RE!Remove(w) \/ RE!Unsubscribe(w)
      <3>1. PICK new \in RE!CallWork :
               /\ reWork' = [reWork EXCEPT ![w] = new]
               /\ UNCHANGED <<now, reRow, until, again, quit, spoiled>>
               /\ reCalls < ReMaxCalls /\ reCalls' = reCalls + 1
        BY <2>5, BeginMakes DEF ReTyped
      <3>2. RE!WorkShape'
        BY <3>1, WorkGiven DEF ReTyped
      <3>3. reCalls' \in 0 .. ReMaxCalls
        BY <1>0, <3>1, ReportsAssumption
      <3> QED
        BY <1>0, <3>1, <3>2, <3>3, TypesFromShape DEF ReTyped
    <2>6. CASE RE!Save(w) \/ RE!Removed(w)
      BY <2>6, SaveTyped
    <2> QED
      BY <1>5, <2>1, <2>2, <2>3, <2>4, <2>5, <2>6
  <1> QED
    BY <1>2, <1>3, <1>4, <1>5 DEF RE!Next

-----------------------------------------------------------------------------
(* What keeps two sweeps from the same day, as long as no save overwrote   *)
(* another: the copies in use follow the row, at most one sweep is not     *)
(* stale, and whatever was sent is over by the instant written on the row. *)

(* What holds as long as no save overwrote another (spoiled).              *)
Calm == RE!CopiesFollow /\ RE!SweepsApart /\ RE!PeriodsApart

(* It speaks of these variables only.                                      *)
LEMMA StillCalm ==
    ASSUME ReTyped, Calm, UNCHANGED <<reRow, reWork, until, again, quit, spoiled>>
    PROVE  Calm'
  <1>1. RE!CopiesFollow'
    BY DEF Calm, RE!CopiesFollow
  <1>2. RE!SweepsApart'
    BY DEF Calm, RE!SweepsApart, RE!Sweeping, RE!Over
  <1>3. RE!PeriodsApart'
    BY DEF Calm, RE!PeriodsApart
  <1> QED
    BY <1>1, <1>2, <1>3 DEF Calm

(* A new subscription has been sent nothing,                               *)
LEMMA CreateCalm ==
    ASSUME ReTyped, Calm, RE!Create, ~spoiled'
    PROVE  Calm'
  <1>1. PICK period \in Periods, zone \in Zones :
            reRow' = [isActive |-> TRUE, recipients |-> Recipients, period |-> period, zone |-> zone,
                    lastSentAt |-> RE!Never]
    BY DEF RE!Create
  <1>2. reRow = RE!NoRow /\ quit' = {} /\ UNCHANGED <<reWork, until, again>> /\ ~spoiled
         /\ \A r \in Recipients : until[r] = RE!Never
    BY DEF RE!Create
  <1>3. RE!CopiesFollow'
    BY <1>2 DEF Calm, RE!CopiesFollow
  <1>4. RE!SweepsApart'
    BY <1>1, <1>2 DEF Calm, RE!SweepsApart, RE!Sweeping, RE!Over
  <1>5. RE!PeriodsApart'
    BY <1>2 DEF Calm, RE!PeriodsApart
  <1> QED
    BY <1>3, <1>4, <1>5 DEF Calm

(* a call copies the row as it is,                                         *)
LEMMA BeginCalm ==
    ASSUME ReTyped, Calm, NEW w \in Senders,
           RE!Update(w) \/ RE!Remove(w) \/ RE!Unsubscribe(w), ~spoiled'
    PROVE  Calm'
  <1>1. PICK new \in RE!CallWork :
               /\ reWork' = [reWork EXCEPT ![w] = new] /\ ~new.stale /\ reRow # RE!NoRow
               /\ new.op \in {"update", "remove"} => new.copy.recipients = reRow.recipients
               /\ new.copy.lastSentAt = reRow.lastSentAt
               /\ UNCHANGED <<now, reRow, until, again, quit, spoiled>>
               /\ reCalls < ReMaxCalls /\ reCalls' = reCalls + 1 /\ reWork[w] = RE!Idle
    BY BeginMakes DEF ReTyped
  <1>2. reWork'[w] = new /\ \A v \in Senders : v # w => reWork'[v] = reWork[v]
    BY <1>1, WorkGiven DEF ReTyped
  <1>3. new.op # "sweep" /\ new.pc # "mailing"
    BY DEF RE!CallWork
  <1>4. RE!CopiesFollow'
    BY <1>1, <1>2, <1>3 DEF Calm, RE!CopiesFollow
  <1>5. \A v \in Senders : RE!Sweeping(v)' <=> RE!Sweeping(v)
    BY <1>1, <1>2, <1>3 DEF RE!Sweeping, RE!Idle
  <1>6. \A v \in Senders : RE!Sweeping(v) => v # w
    BY <1>1 DEF RE!Sweeping, RE!Idle
  <1>7. RE!SweepsApart'
    BY <1>1, <1>2, <1>5, <1>6 DEF Calm, RE!SweepsApart, RE!Over
  <1>8. RE!PeriodsApart'
    BY <1>1 DEF Calm, RE!PeriodsApart
  <1> QED
    BY <1>4, <1>7, <1>8 DEF Calm

(* a sweep finds none due while another is at work: what is over lies      *)
(* before the period it reports.                                           *)
LEMMA FindCalm ==
    ASSUME ReTyped, Calm, NEW w \in Senders, RE!Find(w), ~spoiled'
    PROVE  Calm'
  <1>1. PICK new \in RE!SweepWork :
               /\ reWork' = [reWork EXCEPT ![w] = new]
               /\ new.copy = [reRow EXCEPT !.lastSentAt = now] /\ new.left = reRow.recipients
               /\ new.start = RE!PeriodStart(reRow) /\ new.end = RE!PeriodEnd(reRow)
               /\ new.op = "sweep" /\ new.pc = "mailing" /\ reRow \in RE!Row /\ ~new.stale
    BY FindMakes DEF ReTyped
  <1>2. /\ reWork[w] = RE!Idle /\ RE!IsDue(reRow) /\ ~spoiled /\ reRow # RE!NoRow
        /\ \A v \in Senders : ~RE!Sweeping(v)
        /\ UNCHANGED <<reRow, until, again, quit>>
    BY DEF RE!Find
  <1>3. reWork'[w] = new /\ \A v \in Senders : v # w => reWork'[v] = reWork[v]
    BY <1>1, WorkGiven DEF ReTyped
  <1>4. new.copy.lastSentAt = now /\ new.copy.recipients = reRow.recipients
    BY <1>1 DEF RE!Row
  <1>5. RE!CopiesFollow'
    BY <1>1, <1>2, <1>3, <1>4 DEF Calm, RE!CopiesFollow
  <1>6. \A v \in Senders : RE!Sweeping(v)' <=> v = w
    BY <1>1, <1>2, <1>3 DEF RE!Sweeping
  <1> DEFINE s == RE!PeriodStart(reRow)
             e == RE!PeriodEnd(reRow)
             t == reRow.lastSentAt
  <1>7. /\ e \in Nat /\ e % Day = 0 /\ e < now + Day /\ s \in Int /\ s % Day = 0 /\ s <= e
        /\ now \in Nat
    BY <1>1, CopyTyped, Bounds, PeriodLocal DEF ReTyped
  <1>8. t \in Int /\ (t = RE!Never \/ t < s)
    <2>1. t \in Int
      BY <1>1, CopyTyped
    <2> QED
      BY <1>2, <2>1 DEF RE!IsDue
  <1>9. \A r \in Recipients : RE!Over(until[r], t) /\ until[r] \in Int
    <2>1. \A r \in Recipients : until[r] \in Int
      BY Bounds DEF ReTyped, RE!TypeOK, RE!Never
    <2> QED
      BY <1>2, <2>1 DEF Calm, RE!SweepsApart
  <1> HIDE DEF s, e, t
  <1>10. \A r \in Recipients : until[r] = RE!Never \/ until[r] <= s
    BY <1>7, <1>8, <1>9, OverBefore
  <1>11. now # RE!Never /\ RE!Over(e, now)
    BY <1>7 DEF RE!Over, RE!Never
  <1>12. \A r \in Recipients : RE!Over(until[r], now)
    <2>1. TAKE r \in Recipients
    <2>2. CASE until[r] = RE!Never
      BY <2>2 DEF RE!Over
    <2>3. CASE until[r] # RE!Never
      <3>1. until[r] <= s /\ until[r] \in Int /\ until[r] % Day = 0
        BY <1>9, <1>10, <2>3 DEF RE!Over
      <3> QED
        BY <1>7, <1>11, <3>1, Bounds DEF RE!Over, ReTyped
    <2> QED
      BY <2>2, <2>3
  <1>13. new.left \subseteq Recipients
    BY DEF RE!SweepWork
  <1>14. RE!SweepsApart'
    <2>1. \A u, v \in Senders : RE!Sweeping(u)' /\ RE!Sweeping(v)' => u = v
      BY <1>6
    <2>2. \A v \in Senders : RE!Sweeping(v)' =>
           /\ reWork'[v].copy.lastSentAt # RE!Never
           /\ RE!Over(reWork'[v].end, reWork'[v].copy.lastSentAt)
           /\ \A r \in Recipients : RE!Over(until'[r], reWork'[v].copy.lastSentAt)
           /\ \A r \in reWork'[v].left : until'[r] = RE!Never \/ until'[r] <= reWork'[v].start
      <3>1. new.start = s /\ new.end = e /\ until' = until
        BY <1>1, <1>2 DEF s, e
      <3>2. \A r \in new.left : until[r] = RE!Never \/ until[r] <= new.start
        BY <1>10, <1>13, <3>1
      <3>3. new.copy.lastSentAt # RE!Never /\ RE!Over(new.end, new.copy.lastSentAt)
        BY <1>4, <1>11, <3>1
      <3>4. \A r \in Recipients : RE!Over(until[r], new.copy.lastSentAt)
        BY <1>4, <1>12
      <3> QED
        BY <1>3, <1>6, <3>1, <3>2, <3>3, <3>4
    <2>3. ~ \A v \in Senders : ~RE!Sweeping(v)'
      BY <1>6
    <2> QED
      BY <2>1, <2>2, <2>3 DEF RE!SweepsApart, RE!Over, RE!Never
  <1>15. RE!PeriodsApart'
    BY <1>2 DEF Calm, RE!PeriodsApart
  <1> QED
    BY <1>5, <1>14, <1>15 DEF Calm

(* What is mailed was not mailed before,                                   *)
LEMMA MailCalm ==
    ASSUME ReTyped, Calm, NEW w \in Senders, RE!Mail(w), ~spoiled'
    PROVE  Calm'
  <1>1. PICK r \in reWork[w].left, new \in RE!SweepWork :
               /\ reWork' = [reWork EXCEPT ![w] = new] /\ RE!Sweeping(w)
               /\ new.copy = reWork[w].copy /\ new.left = reWork[w].left \ {r}
               /\ new.start = reWork[w].start /\ new.end = reWork[w].end
               /\ new.stale = reWork[w].stale /\ new.pc = "mailing" /\ new.op = "sweep"
               /\ again' = (again \/ (until[r] /= RE!Never /\ reWork[w].start < until[r]))
               /\ until' = [until EXCEPT ![r] = reWork[w].end]
               /\ UNCHANGED <<now, reRow, quit, spoiled, reCalls>>
    BY MailMakes DEF ReTyped
  <1>2. reWork'[w] = new /\ \A v \in Senders : v # w => reWork'[v] = reWork[v]
    BY <1>1, WorkGiven DEF ReTyped
  <1>3. reWork[w] \in RE!SweepWork /\ reWork[w] # RE!Idle /\ reWork[w].op = "sweep"
    BY <1>1, Sweeps DEF ReTyped
  <1>4. RE!CopiesFollow'
    BY <1>1, <1>2, <1>3 DEF Calm, RE!CopiesFollow
  <1>5. \A v \in Senders : RE!Sweeping(v)' <=> v = w
    BY <1>1, <1>2 DEF RE!Sweeping, Calm, RE!SweepsApart
  <1>6. /\ reWork[w].copy.lastSentAt # RE!Never /\ RE!Over(reWork[w].end, reWork[w].copy.lastSentAt)
        /\ \A q \in Recipients : RE!Over(until[q], reWork[w].copy.lastSentAt)
        /\ \A q \in reWork[w].left : until[q] = RE!Never \/ until[q] <= reWork[w].start
    BY <1>1 DEF Calm, RE!SweepsApart
  <1>7. r \in Recipients /\ reWork[w].left \subseteq Recipients /\ reWork[w].start \in Int
    BY <1>3 DEF RE!SweepWork
  <1>8. until[r] \in Int
    BY <1>7, Bounds DEF ReTyped, RE!TypeOK, RE!Never
  <1>9. until' = [q \in Recipients |-> IF q = r THEN reWork[w].end ELSE until[q]]
    BY <1>1 DEF ReTyped, RE!TypeOK
  <1>10. ~(until[r] /= RE!Never /\ reWork[w].start < until[r])
    BY <1>6, <1>7, <1>8
  <1>11. RE!SweepsApart'
    <2>1. \A q \in Recipients : RE!Over(until'[q], new.copy.lastSentAt)
      BY <1>1, <1>6, <1>9
    <2>2. \A q \in new.left : until'[q] = RE!Never \/ until'[q] <= new.start
      BY <1>1, <1>6, <1>7, <1>9
    <2>3. new.copy.lastSentAt # RE!Never /\ RE!Over(new.end, new.copy.lastSentAt)
      BY <1>1, <1>6
    <2>4. \A v \in Senders : RE!Sweeping(v)' =>
           /\ reWork'[v].copy.lastSentAt # RE!Never
           /\ RE!Over(reWork'[v].end, reWork'[v].copy.lastSentAt)
           /\ \A q \in Recipients : RE!Over(until'[q], reWork'[v].copy.lastSentAt)
           /\ \A q \in reWork'[v].left : until'[q] = RE!Never \/ until'[q] <= reWork'[v].start
      BY <1>2, <1>5, <2>1, <2>2, <2>3
    <2>5. \A u, v \in Senders : RE!Sweeping(u)' /\ RE!Sweeping(v)' => u = v
      BY <1>5
    <2>6. ~ \A v \in Senders : ~RE!Sweeping(v)'
      BY <1>5
    <2> QED
      BY <2>4, <2>5, <2>6 DEF RE!SweepsApart, RE!Over, RE!Never
  <1>12. RE!PeriodsApart'
    BY <1>1, <1>10 DEF Calm, RE!PeriodsApart
  <1> QED
    BY <1>4, <1>11, <1>12 DEF Calm

(* and ends the mailing.                                                   *)
LEMMA MailedCalm ==
    ASSUME ReTyped, Calm, NEW w \in Senders, RE!Mailed(w), ~spoiled'
    PROVE  Calm'
  <1>1. PICK new \in RE!SweepWork :
               /\ reWork' = [reWork EXCEPT ![w] = new] /\ RE!Sweeping(w)
               /\ new.copy = reWork[w].copy /\ new.left = reWork[w].left
               /\ new.start = reWork[w].start /\ new.end = reWork[w].end
               /\ new.stale = reWork[w].stale /\ new.pc = "saving" /\ new.op = "sweep"
               /\ UNCHANGED <<now, reRow, until, again, quit, spoiled, reCalls>>
    BY MailedMakes DEF ReTyped
  <1>2. reWork'[w] = new /\ \A v \in Senders : v # w => reWork'[v] = reWork[v]
    BY <1>1, WorkGiven DEF ReTyped
  <1>3. reWork[w] # RE!Idle /\ reWork[w].op = "sweep"
    BY <1>1, Sweeps DEF ReTyped
  <1>4. RE!CopiesFollow'
    BY <1>1, <1>2, <1>3 DEF Calm, RE!CopiesFollow
  <1>5. \A v \in Senders : RE!Sweeping(v)' <=> RE!Sweeping(v)
    BY <1>1, <1>2 DEF RE!Sweeping
  <1>6. RE!SweepsApart'
    <2>1. \A v \in Senders : RE!Sweeping(v)' =>
           /\ reWork'[v].copy.lastSentAt # RE!Never
           /\ RE!Over(reWork'[v].end, reWork'[v].copy.lastSentAt)
           /\ \A q \in Recipients : RE!Over(until'[q], reWork'[v].copy.lastSentAt)
           /\ \A q \in reWork'[v].left : until'[q] = RE!Never \/ until'[q] <= reWork'[v].start
      <3>1. TAKE v \in Senders
      <3>2. HAVE RE!Sweeping(v)'
      <3>3. RE!Sweeping(v) /\ until' = until /\ reWork'[v].copy = reWork[v].copy
             /\ reWork'[v].end = reWork[v].end /\ reWork'[v].start = reWork[v].start
             /\ reWork'[v].left = reWork[v].left
        BY <1>1, <1>2, <1>5, <3>2
      <3> QED
        BY <3>3 DEF Calm, RE!SweepsApart
    <2>2. \A u, v \in Senders : RE!Sweeping(u)' /\ RE!Sweeping(v)' => u = v
      BY <1>5 DEF Calm, RE!SweepsApart
    <2>3. ~ \A v \in Senders : ~RE!Sweeping(v)'
      BY <1>1, <1>5
    <2> QED
      BY <2>1, <2>2, <2>3 DEF RE!SweepsApart, RE!Over, RE!Never
  <1>7. RE!PeriodsApart'
    BY <1>1 DEF Calm, RE!PeriodsApart
  <1> QED
    BY <1>4, <1>6, <1>7 DEF Calm

(* The others' copies are stale once one has written the row. *)
LEMMA OthersStale ==
    ASSUME ReTyped, Calm, NEW w \in Senders, RE!Written(w), UNCHANGED until
    PROVE  /\ RE!CopiesFollow'
           /\ \A v \in Senders : RE!Sweeping(v)' <=> v # w /\ RE!Sweeping(v)
           /\ \A v \in Senders : RE!Sweeping(v)' =>
                /\ reWork'[v].copy.lastSentAt # RE!Never
                /\ RE!Over(reWork'[v].end, reWork'[v].copy.lastSentAt)
                /\ \A q \in Recipients : RE!Over(until'[q], reWork'[v].copy.lastSentAt)
                /\ \A q \in reWork'[v].left : until'[q] = RE!Never \/ until'[q] <= reWork'[v].start
           /\ \A u, v \in Senders : RE!Sweeping(u)' /\ RE!Sweeping(v)' => u = v
  <1>1. /\ reWork'[w] = RE!Idle
        /\ \A v \in Senders : v # w =>
             IF reWork[v] = RE!Idle THEN reWork'[v] = RE!Idle
             ELSE reWork'[v] = [reWork[v] EXCEPT !.stale = TRUE]
    BY WorkWritten DEF ReTyped
  <1>2. ASSUME NEW v \in Senders, v # w, reWork[v] # RE!Idle
        PROVE  /\ reWork'[v].stale /\ reWork'[v].copy = reWork[v].copy
               /\ reWork'[v].pc = reWork[v].pc /\ reWork'[v].op = reWork[v].op
               /\ RE!Sweeping(v) => /\ reWork'[v].start = reWork[v].start
                                    /\ reWork'[v].end = reWork[v].end
                                    /\ reWork'[v].left = reWork[v].left
    <2>1. reWork'[v] = [reWork[v] EXCEPT !.stale = TRUE]
      BY <1>1, <1>2
    <2>2. reWork[v] \in RE!SweepWork \cup RE!CallWork
      BY <1>2, WorkFields DEF ReTyped
    <2>3. CASE reWork[v] \in RE!SweepWork
      BY <2>1, <2>3 DEF RE!SweepWork
    <2>4. CASE reWork[v] \in RE!CallWork
      <3>1. ~RE!Sweeping(v)
        BY <2>4 DEF RE!CallWork, RE!Sweeping
      <3> QED
        BY <2>1, <2>4, <3>1 DEF RE!CallWork
    <2> QED
      BY <2>2, <2>3, <2>4
  <1>3. RE!CopiesFollow'
    BY <1>1, <1>2 DEF RE!CopiesFollow
  <1>4. \A v \in Senders : RE!Sweeping(v)' <=> v # w /\ RE!Sweeping(v)
    BY <1>1, <1>2 DEF RE!Sweeping, RE!Idle
  <1>5. \A u, v \in Senders : RE!Sweeping(u)' /\ RE!Sweeping(v)' => u = v
    BY <1>4 DEF Calm, RE!SweepsApart
  <1>6. ASSUME NEW v \in Senders, RE!Sweeping(v)'
        PROVE  /\ reWork'[v].copy.lastSentAt # RE!Never
               /\ RE!Over(reWork'[v].end, reWork'[v].copy.lastSentAt)
               /\ \A q \in Recipients : RE!Over(until'[q], reWork'[v].copy.lastSentAt)
               /\ \A q \in reWork'[v].left : until'[q] = RE!Never \/ until'[q] <= reWork'[v].start
    <2>1. v # w /\ RE!Sweeping(v) /\ reWork[v] # RE!Idle
      BY <1>4, <1>6 DEF RE!Sweeping, RE!Idle
    <2>2. reWork'[v].copy = reWork[v].copy /\ reWork'[v].start = reWork[v].start
           /\ reWork'[v].end = reWork[v].end /\ reWork'[v].left = reWork[v].left
      BY <1>2, <2>1
    <2> QED
      BY <2>1, <2>2 DEF Calm, RE!SweepsApart
  <1> QED
    BY <1>3, <1>4, <1>5, <1>6

(* A subscription that is gone leaves only stale copies,                   *)
LEMMA RemovedCalm ==
    ASSUME ReTyped, Calm, NEW w \in Senders, RE!Removed(w), ~spoiled'
    PROVE  Calm'
  <1>1. RE!Written(w) /\ reRow' = RE!NoRow /\ UNCHANGED <<until, again, quit, spoiled>>
    BY DEF RE!Removed
  <1>2. RE!CopiesFollow'
    BY <1>1, OthersStale
  <1>3. RE!SweepsApart'
    BY <1>1, OthersStale DEF RE!SweepsApart, RE!Over, RE!Never, RE!NoRow
  <1>4. RE!PeriodsApart'
    BY <1>1 DEF Calm, RE!PeriodsApart, RE!NoRow, RE!Never
  <1> QED
    BY <1>2, <1>3, <1>4 DEF Calm

(* and one that is saved is the copy everyone who reads next will have.    *)
LEMMA SaveCalm ==
    ASSUME ReTyped, Calm, NEW w \in Senders, RE!Save(w), ~spoiled'
    PROVE  Calm'
  <1>1. RE!Written(w) /\ reRow' = reWork[w].copy /\ UNCHANGED <<until, again>>
         /\ ~reWork[w].stale /\ ~spoiled /\ reWork[w] # RE!Idle
    <2>1. RE!Written(w) /\ reRow' = reWork[w].copy /\ UNCHANGED <<until, again>>
           /\ reWork[w] # RE!Idle /\ spoiled' = (spoiled \/ reWork[w].stale)
      BY DEF RE!Save, RE!Idle
    <2>2. ~reWork[w].stale /\ ~spoiled
      BY <2>1
    <2> QED
      BY <2>1, <2>2
  <1>2. quit' = CASE reWork[w].op = "unsubscribe" -> Recipients \ reWork[w].copy.recipients
                   [] reWork[w].op = "replace" -> {}
                   [] OTHER -> quit
    BY DEF RE!Save
  <1>3. /\ reRow # RE!NoRow
        /\ reWork[w].op \in {"sweep", "update", "remove"} => reWork[w].copy.recipients = reRow.recipients
        /\ reWork[w].op # "sweep" => reWork[w].copy.lastSentAt = reRow.lastSentAt
    BY <1>1 DEF Calm, RE!CopiesFollow
  <1>4. reWork[w].op = "sweep" <=> RE!Sweeping(w)
    BY <1>1, WorkFields DEF ReTyped
  <1>5. reWork[w].op \in {"sweep", "update", "replace", "unsubscribe", "remove"}
    <2>1. reWork[w].op = "sweep" \/ reWork[w] \in RE!CallWork
      BY <1>1, WorkFields DEF ReTyped
    <2> QED
      BY <2>1 DEF RE!CallWork
  <1>6. RE!CopiesFollow'
    BY <1>1, OthersStale
  <1>7. ASSUME \A v \in Senders : ~RE!Sweeping(v)'
        PROVE  \A r \in Recipients : RE!Over(until'[r], reRow'.lastSentAt)
    <2>1. \A v \in Senders : v # w => ~RE!Sweeping(v)
      BY <1>1, <1>7, OthersStale
    <2>2. CASE RE!Sweeping(w)
      BY <1>1, <2>2 DEF Calm, RE!SweepsApart
    <2>3. CASE ~RE!Sweeping(w)
      <3>1. \A v \in Senders : ~RE!Sweeping(v)
        BY <2>1, <2>3
      <3>2. \A r \in Recipients : RE!Over(until[r], reRow.lastSentAt)
        BY <1>3, <3>1 DEF Calm, RE!SweepsApart
      <3> QED
        BY <1>1, <1>3, <1>4, <2>3, <3>2
    <2> QED
      BY <2>2, <2>3
  <1>8. RE!SweepsApart'
    BY <1>1, <1>7, OthersStale DEF RE!SweepsApart, RE!Over, RE!Never
  <1>9. RE!PeriodsApart'
    <2>1. ~again' /\ reRow.recipients \cap quit = {}
      BY <1>1, <1>3 DEF Calm, RE!PeriodsApart
    <2>2. reRow'.recipients \cap quit' = {}
      BY <1>1, <1>2, <1>3, <1>5, <2>1
    <2> QED
      BY <2>1, <2>2 DEF RE!PeriodsApart
  <1> QED
    BY <1>6, <1>8, <1>9 DEF Calm

-----------------------------------------------------------------------------
(* Pages: a finite set by a strict order.                                  *)

(* A finite set has an element before all others by a strict order. *)
Orders(R, S) ==
    /\ \A x \in S : <<x, x>> \notin R
    /\ \A x, y, z \in S : <<x, y>> \in R /\ <<y, z>> \in R => <<x, z>> \in R

LEMMA Foremost ==
    ASSUME NEW S, IsFiniteSet(S), S # {}, NEW R, Orders(R, S)
    PROVE  \E x \in S : \A y \in S : <<y, x>> \notin R
  <1> DEFINE Preds(x) == {y \in S : <<y, x>> \in R}
             Counts == {Cardinality(Preds(x)) : x \in S}
  <1>1. \A x \in S : IsFiniteSet(Preds(x)) /\ Cardinality(Preds(x)) \in Nat
    <2>1. TAKE x \in S
    <2>2. Preds(x) \in SUBSET S
      OBVIOUS
    <2> HIDE DEF Preds
    <2>3. IsFiniteSet(Preds(x))
      BY <2>2, FS_Subset
    <2> QED
      BY <2>3, FS_CardinalityType
  <1>2. Counts \in SUBSET Nat /\ Counts # {}
    <2> HIDE DEF Preds
    <2> QED
      BY <1>1
  <1>3. PICK n \in Counts : \A m \in Counts : n <= m
    <2> HIDE DEF Counts
    <2> QED
      BY <1>2, Least
  <1>4. PICK x \in S : n = Cardinality(Preds(x))
    BY <1>3
  <1>5. SUFFICES ASSUME NEW y \in S, <<y, x>> \in R PROVE FALSE
    BY <1>4
  <1>6. Preds(y) \in SUBSET Preds(x) /\ y \in Preds(x) /\ y \notin Preds(y)
    BY <1>4, <1>5 DEF Orders
  <1>7. Cardinality(Preds(y)) < Cardinality(Preds(x))
    <2> HIDE DEF Preds
    <2>1. Cardinality(Preds(y)) <= Cardinality(Preds(x)) /\ Cardinality(Preds(y)) # Cardinality(Preds(x))
      BY <1>1, <1>4, <1>6, FS_Subset
    <2> QED
      BY <1>1, <1>4, <1>5, <2>1
  <1>8. n <= Cardinality(Preds(y))
    BY <1>3
  <1> HIDE DEF Preds, Counts
  <1> QED
    BY <1>1, <1>4, <1>5, <1>7, <1>8

(* And one after all others. *)
LEMMA Rearmost ==
    ASSUME NEW S, IsFiniteSet(S), S # {}, NEW R, Orders(R, S)
    PROVE  \E x \in S : \A y \in S : <<x, y>> \notin R
  <1> DEFINE Q == {e \in S \X S : <<e[2], e[1]>> \in R}
  <1>1. \A x, y \in S : <<x, y>> \in Q <=> <<y, x>> \in R
    OBVIOUS
  <1> HIDE DEF Q
  <1>2. Orders(Q, S)
    BY <1>1 DEF Orders
  <1>3. PICK x \in S : \A y \in S : <<y, x>> \notin Q
    BY <1>2, Foremost
  <1> QED
    BY <1>1, <1>3

(* Those before p, the first n, and an order that ranks all of S.          *)
Ahead(R, S, p) == {q \in S : <<q, p>> \in R}

FirstOf(R, S, n) == {p \in S : Cardinality(Ahead(R, S, p)) < n}

Ranks(R, S) == Orders(R, S) /\ \A x, y \in S : x = y \/ <<x, y>> \in R \/ <<y, x>> \in R

(* As many are before one as can be counted.                               *)
LEMMA AheadFinite ==
    ASSUME NEW S, IsFiniteSet(S), NEW R, NEW p
    PROVE  IsFiniteSet(Ahead(R, S, p)) /\ Cardinality(Ahead(R, S, p)) \in Nat
  <1>1. Ahead(R, S, p) \in SUBSET S
    BY DEF Ahead
  <1>2. IsFiniteSet(Ahead(R, S, p))
    BY <1>1, FS_Subset
  <1> QED
    BY <1>2, FS_CardinalityType

(* A page of something is not empty.                                       *)
LEMMA SomeTaken ==
    ASSUME NEW S, IsFiniteSet(S), S # {}, NEW R, Orders(R, S), NEW n \in Nat \ {0}
    PROVE  FirstOf(R, S, n) # {}
  <1>1. PICK x \in S : \A y \in S : <<y, x>> \notin R
    BY Foremost
  <1>2. Ahead(R, S, x) = {}
    BY <1>1 DEF Ahead
  <1>3. Cardinality(Ahead(R, S, x)) = 0
    BY <1>2, FS_EmptySet
  <1>4. x \in FirstOf(R, S, n)
    BY <1>3 DEF FirstOf
  <1> QED
    BY <1>4

(* What is taken comes before what is left. *)
LEMMA TakenBefore ==
    ASSUME NEW S, IsFiniteSet(S), NEW R, Ranks(R, S), NEW n \in Nat,
           NEW p \in FirstOf(R, S, n), NEW q \in S \ FirstOf(R, S, n)
    PROVE  <<p, q>> \in R
  <1>1. SUFFICES ASSUME <<q, p>> \in R PROVE FALSE
    BY DEF Ranks, FirstOf
  <1>2. p \in S /\ q \in S
    BY DEF FirstOf
  <1>3. Ahead(R, S, q) \in SUBSET Ahead(R, S, p)
    BY <1>1, <1>2 DEF Ahead, Ranks, Orders
  <1>4. Cardinality(Ahead(R, S, q)) <= Cardinality(Ahead(R, S, p))
    BY <1>3, AheadFinite, FS_Subset
  <1>5. Cardinality(Ahead(R, S, p)) < n /\ ~(Cardinality(Ahead(R, S, q)) < n)
    BY <1>2 DEF FirstOf
  <1>6. Cardinality(Ahead(R, S, p)) \in Nat /\ Cardinality(Ahead(R, S, q)) \in Nat
    BY AheadFinite
  <1> QED
    BY <1>4, <1>5, <1>6

(* One element more than a page tells whether there is more. *)
LEMMA OneMoreTells ==
    ASSUME NEW S, IsFiniteSet(S), NEW R, Ranks(R, S), NEW n \in Nat,
           FirstOf(R, FirstOf(R, S, n + 1), n) = FirstOf(R, S, n + 1)
    PROVE  FirstOf(R, S, n + 1) = S
  <1> DEFINE found == FirstOf(R, S, n + 1)
  <1>1. found \subseteq S
    BY DEF FirstOf
  <1>2. SUFFICES ASSUME S \ found # {} PROVE FALSE
    BY <1>1
  <1>3. IsFiniteSet(S \ found) /\ Orders(R, S \ found) /\ IsFiniteSet(found)
    <2>1. S \ found \in SUBSET S /\ found \in SUBSET S
      BY <1>1
    <2> HIDE DEF found
    <2>2. IsFiniteSet(S \ found) /\ IsFiniteSet(found)
      BY <2>1, FS_Subset
    <2>3. Orders(R, S \ found)
      BY DEF Orders, Ranks
    <2> QED
      BY <2>2, <2>3
  <1>4. PICK x \in S \ found : \A y \in S \ found : <<y, x>> \notin R
    <2> HIDE DEF found
    <2> QED
      BY <1>2, <1>3, Foremost
  <1> DEFINE P == Ahead(R, S, x)
  <1>5. IsFiniteSet(P) /\ Cardinality(P) \in Nat /\ Cardinality(P) >= n + 1
    <2>1. IsFiniteSet(P) /\ Cardinality(P) \in Nat
      BY AheadFinite
    <2>2. ~(Cardinality(P) < n + 1)
      BY <1>4 DEF FirstOf
    <2> HIDE DEF P
    <2> QED
      BY <2>1, <2>2
  <1>6. P \subseteq found
    BY <1>4 DEF Ahead
  <1> HIDE DEF found
  <1>7. P # {}
    <2> HIDE DEF P
    <2> QED
      BY <1>5, FS_EmptySet
  <1>8. Orders(R, P)
    BY <1>1, <1>6 DEF Orders, Ranks
  <1>9. PICK y \in P : \A z \in P : <<y, z>> \notin R
    <2> HIDE DEF P
    <2> QED
      BY <1>5, <1>7, <1>8, Rearmost
  <1>10. P \ {y} \in SUBSET Ahead(R, found, y)
    <2>1. SUFFICES ASSUME NEW z \in P, z # y PROVE z \in Ahead(R, found, y)
      OBVIOUS
    <2>2. z \in S /\ y \in S /\ <<y, z>> \notin R /\ z \in found
      BY <1>1, <1>6, <1>9
    <2> QED
      BY <2>1, <2>2 DEF Ranks, Ahead
  <1> HIDE DEF P
  <1>11. Cardinality(P \ {y}) = Cardinality(P) - 1
    BY <1>5, <1>9, FS_RemoveElement
  <1>12. IsFiniteSet(Ahead(R, found, y)) /\ Cardinality(Ahead(R, found, y)) \in Nat
    BY <1>3, AheadFinite
  <1>13. Cardinality(P \ {y}) <= Cardinality(Ahead(R, found, y))
    BY <1>10, <1>12, FS_Subset
  <1>14. y \in FirstOf(R, found, n)
    BY <1>6, <1>9 DEF found
  <1>15. Cardinality(Ahead(R, found, y)) < n
    BY <1>14 DEF FirstOf
  <1> QED
    BY <1>5, <1>11, <1>12, <1>13, <1>15

(* The order a listing asks for.                                           *)
ByOrder(dto) == {e \in Ids \X Ids : LI!Before(dto, e[1], e[2])}

(* No payment is not a payment.                                            *)
LEMMA NoPaymentUntyped == ~(LI!NoRow \in LI!Row)
  BY DEF LI!NoRow, LI!Row

(* The columns a listing sorts by are numbers.                             *)
LEMMA ColumnsAre ==
    ASSUME liRow \in [Ids -> LI!Row \cup {LI!NoRow}], NEW p \in LI!Rows
    PROVE  /\ p \in Ids /\ p \in Int /\ liRow[p] \in LI!Row
           /\ liRow[p].amount \in LiAmounts /\ liRow[p].amount \in Int
           /\ liRow[p].created \in 0 .. LiMaxTime /\ liRow[p].created \in Int
           /\ \A sortBy \in LI!PaymentSortBy : LI!SortColumn(sortBy, liRow[p]) \in Int
  <1>1. p \in Ids /\ liRow[p] \in LI!Row
    BY DEF LI!Rows
  <1>2. Ids \subseteq Int /\ LiAmounts \subseteq Int /\ LiMaxTime \in Nat
    BY ListingAssumption
  <1>3. liRow[p].amount \in LiAmounts /\ liRow[p].created \in 0 .. LiMaxTime
         /\ liRow[p].status \in {1, 2}
    BY <1>1 DEF LI!Row, LI!Pending, LI!Completed
  <1>4. p \in Int /\ liRow[p].amount \in Int /\ liRow[p].created \in Int /\ liRow[p].status \in Int
    <2>1. \A a \in LiAmounts : a \in Int
      BY <1>2
    <2>2. \A i \in Ids : i \in Int
      BY <1>2
    <2>3. \A t \in 0 .. LiMaxTime : t \in Int
      OBVIOUS
    <2> QED
      BY <1>1, <1>3, <2>1, <2>2, <2>3
  <1>5. \A sortBy \in LI!PaymentSortBy : LI!SortColumn(sortBy, liRow[p]) \in Int
    BY <1>4 DEF LI!SortColumn, LI!PaymentSortBy
  <1> QED
    BY <1>1, <1>3, <1>4, <1>5

(* There are finitely many payments.                                       *)
LEMMA RowsFinite ==
    ASSUME NEW S \in SUBSET LI!Rows
    PROVE  IsFiniteSet(S) /\ S \subseteq Ids
  <1>1. S \in SUBSET Ids
    BY DEF LI!Rows
  <1> QED
    BY <1>1, ListingAssumption, FS_Subset

(* Any order a listing may ask for ranks the payments: what the column     *)
(* leaves even, the id decides.                                            *)
LEMMA PaymentsRank ==
    ASSUME liRow \in [Ids -> LI!Row \cup {LI!NoRow}], NEW dto \in LI!ListPaymentsDto,
           NEW S \in SUBSET LI!Rows
    PROVE  Ranks(ByOrder(dto), S)
  <1> DEFINE k(p) == LI!SortColumn(dto.sortBy, liRow[p])
  <1>1. dto.sortBy \in LI!PaymentSortBy /\ dto.order \in {"ASC", "DESC"}
    BY DEF LI!ListPaymentsDto, LI!SortOrder
  <1>2. \A p \in S : p \in Ids /\ p \in Int /\ k(p) \in Int
    BY <1>1, ColumnsAre
  <1>3. \A p, q \in S : <<p, q>> \in ByOrder(dto)
                         <=> LI!Less(dto.order, k(p), k(q)) \/ (k(p) = k(q) /\ LI!Less(dto.order, p, q))
    BY <1>2 DEF ByOrder, LI!Before
  <1> HIDE DEF k
  <1>4. CASE dto.order = "ASC"
    <2>1. \A p, q \in S : <<p, q>> \in ByOrder(dto) <=> k(p) < k(q) \/ (k(p) = k(q) /\ p < q)
      BY <1>3, <1>4 DEF LI!Less
    <2> QED
      BY <1>2, <2>1 DEF Ranks, Orders
  <1>5. CASE dto.order = "DESC"
    <2>1. \A p, q \in S : <<p, q>> \in ByOrder(dto) <=> k(p) > k(q) \/ (k(p) = k(q) /\ p > q)
      BY <1>3, <1>5 DEF LI!Less
    <2> QED
      BY <1>2, <2>1 DEF Ranks, Orders
  <1> QED
    BY <1>1, <1>4, <1>5

(* Cardinality, through INSTANCE and not, is one.                          *)
LEMMA SameCount == \A S : LI!Cardinality(S) = Cardinality(S)
  BY DEF LI!Cardinality, Cardinality, LI!IsFiniteSet, IsFiniteSet

(* A page is the first of what was found.                                  *)
LEMMA TakeIs ==
    ASSUME NEW dto, NEW S \in SUBSET Ids, NEW n
    PROVE  LI!Take(dto, S, n) = FirstOf(ByOrder(dto), S, n)
  <1>1. \A p \in S : {q \in S : LI!Before(dto, q, p)} = Ahead(ByOrder(dto), S, p)
    BY DEF Ahead, ByOrder
  <1>2. \A p \in S : LI!Cardinality({q \in S : LI!Before(dto, q, p)})
                       = Cardinality(Ahead(ByOrder(dto), S, p))
    BY <1>1, SameCount
  <1> QED
    BY <1>2 DEF LI!Take, FirstOf

(* The last row of a page. *)
LEMMA LastIs ==
    ASSUME liRow \in [Ids -> LI!Row \cup {LI!NoRow}], NEW dto \in LI!ListPaymentsDto,
           NEW page \in SUBSET LI!Rows, page # {}
    PROVE  /\ LI!LastOf(dto, page) \in page
           /\ \A q \in page : q = LI!LastOf(dto, page) \/ LI!Before(dto, q, LI!LastOf(dto, page))
  <1> DEFINE R == ByOrder(dto)
             l == LI!LastOf(dto, page)
  <1>1. IsFiniteSet(page) /\ page \subseteq Ids
    BY RowsFinite
  <1>2. Ranks(R, page)
    BY PaymentsRank
  <1>3. \A p, q \in page : <<p, q>> \in R <=> LI!Before(dto, p, q)
    BY <1>1 DEF ByOrder
  <1> HIDE DEF R
  <1>4. \E p \in page : \A q \in page : <<p, q>> \notin R
    BY <1>1, <1>2, Rearmost DEF Ranks
  <1>5. \E p \in page : \A q \in page : ~LI!Before(dto, p, q)
    BY <1>3, <1>4
  <1>6. l \in page /\ \A q \in page : ~LI!Before(dto, l, q)
    BY <1>5 DEF LI!LastOf
  <1> QED
    BY <1>2, <1>3, <1>6 DEF Ranks

-----------------------------------------------------------------------------
(* The listing of payments: pages, cursors and what is left behind them.   *)

(* The type of the payments listed.                                        *)
LiTyped == liRow \in [Ids -> LI!Row \cup {LI!NoRow}]

(* A page of what was found, and what is left. *)
LEMMA PageSplits ==
    ASSUME LiTyped, NEW dto \in LI!ListPaymentsDto, NEW found \in SUBSET LI!Rows,
           NEW n \in Nat \ {0}, NEW page, page = LI!Take(dto, found, n)
    PROVE  /\ page \in SUBSET found
           /\ found # {} => page # {}
           /\ page # {} =>
                /\ LI!LastOf(dto, page) \in page
                /\ \A q \in page : q = LI!LastOf(dto, page) \/ LI!Before(dto, q, LI!LastOf(dto, page))
                /\ \A q \in found \ page : LI!Before(dto, LI!LastOf(dto, page), q)
  <1> DEFINE R == ByOrder(dto)
             l == LI!LastOf(dto, page)
  <1>1. IsFiniteSet(found) /\ found \subseteq Ids
    BY RowsFinite
  <1>2. page = FirstOf(R, found, n)
    BY <1>1, TakeIs
  <1>3. Ranks(R, found)
    BY PaymentsRank DEF LiTyped
  <1>4. page \in SUBSET found
    BY <1>2 DEF FirstOf
  <1>5. \A q \in Ids : <<l, q>> \in R => LI!Before(dto, l, q)
    BY DEF ByOrder
  <1> HIDE DEF R
  <1>6. found # {} => page # {}
    BY <1>1, <1>2, <1>3, SomeTaken DEF Ranks
  <1>7. ASSUME page # {}
        PROVE  /\ l \in page
               /\ \A q \in page : q = l \/ LI!Before(dto, q, l)
               /\ \A q \in found \ page : LI!Before(dto, l, q)
    <2>1. l \in page /\ \A q \in page : q = l \/ LI!Before(dto, q, l)
      BY <1>4, <1>7, LastIs DEF LiTyped
    <2> HIDE DEF l
    <2>2. \A q \in found \ page : <<l, q>> \in R
      BY <1>1, <1>2, <1>3, <2>1, TakenBefore
    <2> QED
      BY <1>1, <1>5, <2>1, <2>2 DEF l
  <1> QED
    BY <1>4, <1>6, <1>7

(* The cursor of a listing by age, newest first, is not after the page it  *)
(* ends.                                                                   *)
LEMMA NewestFirst ==
    ASSUME LiTyped, NEW dto \in LI!ListPaymentsDto, dto.sortBy = "created_at", dto.order = "DESC",
           NEW page \in SUBSET LI!Rows, page # {}, NEW l, l = LI!LastOf(dto, page)
    PROVE  /\ l \in page /\ LI!SortValue(dto.sortBy, liRow[l]) \in Int
           /\ LI!SortValue(dto.sortBy, liRow[l]) <= liRow[l].created
           /\ \A p \in page :
                \/ LI!SortValue(dto.sortBy, liRow[l]) < liRow[p].created
                \/ LI!SortValue(dto.sortBy, liRow[l]) = liRow[p].created /\ l <= p
  <1> DEFINE c == liRow[l].created
             k == c \div Milli
             v == k * Milli
  <1>1. l \in page /\ \A q \in page : q = l \/ LI!Before(dto, q, l)
    BY LastIs DEF LiTyped
  <1>2. \A p \in page : p \in Int /\ liRow[p].created \in Int
    BY ColumnsAre DEF LiTyped
  <1>3. Milli \in Nat \ {0} /\ c \in Int
    BY <1>1, <1>2, ListingAssumption
  <1>4. \A p \in page : p = l \/ liRow[p].created > c \/ (liRow[p].created = c /\ p > l)
    BY <1>1 DEF LI!Before, LI!Less, LI!SortColumn
  <1>5. LI!SortValue(dto.sortBy, liRow[l]) = v
    <2>1. c - 0 = c
      BY <1>3
    <2> QED
      BY <2>1 DEF LI!SortValue
  <1> HIDE DEF c
  <1>6. k \in Int /\ v <= c
    BY <1>3, DivBounds
  <1>7. v \in Int
    BY <1>3, <1>6
  <1> HIDE DEF v
  <1>8. \A p \in page : v < liRow[p].created \/ (v = liRow[p].created /\ l <= p)
    BY <1>1, <1>2, <1>3, <1>4, <1>6, <1>7 DEF c
  <1> QED
    BY <1>1, <1>5, <1>6, <1>7, <1>8 DEF c

(* An answer is a listing in progress.                                     *)
LEMMA AnswerTyped ==
    ASSUME LiTyped, NEW dto \in LI!ListPaymentsDto, NEW page \in SUBSET LI!Rows, NEW more \in BOOLEAN
    PROVE  LI!Answer(dto, page, more) \in LI!Listing
  <1> DEFINE cursor == IF page = {} THEN [value |-> 0, id |-> 0] ELSE LI!Cursor(dto, LI!LastOf(dto, page))
  <1>1. cursor \in [value : Int, id : Ids \cup {0}]
    <2>1. CASE page = {}
      BY <2>1
    <2>2. CASE page # {}
      <3> DEFINE l == LI!LastOf(dto, page)
      <3>1. l \in LI!Rows
        BY <2>2, LastIs DEF LiTyped
      <3> HIDE DEF l
      <3>2. l \in Ids /\ liRow[l].created \in Int
             /\ \A sortBy \in LI!PaymentSortBy : LI!SortColumn(sortBy, liRow[l]) \in Int
        BY <3>1, ColumnsAre DEF LiTyped
      <3>3. dto.sortBy \in LI!PaymentSortBy
        BY DEF LI!ListPaymentsDto
      <3>4. LI!SortValue(dto.sortBy, liRow[l]) \in Int
        BY <3>2, <3>3, ListingAssumption DEF LI!SortValue
      <3> QED
        BY <2>2, <3>2, <3>4 DEF LI!Cursor, l
    <2> QED
      BY <2>1, <2>2
  <1> HIDE DEF cursor
  <1>2. LI!Answer(dto, page, more) =
          [pc |-> IF more THEN "paging" ELSE "done", dto |-> dto, cursor |-> cursor,
           listed |-> page, repeated |-> FALSE, start |-> LI!Rows]
    BY DEF LI!Answer, cursor
  <1> QED
    BY <1>1, <1>2 DEF LI!Listing

(* What a listing in progress holds.                                       *)
LEMMA ListingFields ==
    ASSUME LI!ListingInv, reader # LI!NoReader
    PROVE  /\ reader \in LI!Listing /\ reader.dto \in LI!ListPaymentsDto
           /\ reader.pc \in {"paging", "done"} /\ reader.repeated \in BOOLEAN
           /\ reader.listed \subseteq LI!Rows /\ reader.start \subseteq LI!Rows
           /\ reader.cursor.value \in Int /\ reader.cursor.id \in Ids \cup {0}
  <1>1. reader \in LI!Listing
    BY DEF LI!ListingInv
  <1> QED
    BY <1>1 DEF LI!Listing

(* Payments come, and change their status, under a listing. *)
LEMMA RowsGrow ==
    ASSUME LI!ListingInv, liRow' \in [Ids -> LI!Row \cup {LI!NoRow}], clock' \in 0 .. LiMaxTime,
           LI!Rows \subseteq LI!Rows', reader' = reader,
           \A p \in LI!Rows : /\ liRow'[p].amount = liRow[p].amount
                              /\ liRow'[p].created = liRow[p].created
    PROVE  LI!ListingInv'
  <1>1. reader' \in (LI!Listing \cup {LI!NoReader})'
    <2>1. CASE reader = LI!NoReader
      BY <2>1 DEF LI!NoReader
    <2>2. CASE reader # LI!NoReader
      <3>1. reader \in LI!Listing /\ reader.listed \subseteq LI!Rows /\ reader.start \subseteq LI!Rows
        BY <2>2, ListingFields
      <3>2. reader' \in LI!Listing'
        BY <3>1 DEF LI!Listing, LI!ListPaymentsDto
      <3> QED
        BY <3>2
    <2> QED
      BY <2>1, <2>2
  <1>2. LI!CursorSplits'
    <2>1. SUFFICES ASSUME reader.pc = "paging", reader.dto.sortBy = "amount", ~reader.dto.scoped
                   PROVE  LI!CursorSplits'
      BY DEF LI!CursorSplits
    <2>2. reader # LI!NoReader
      BY <2>1 DEF LI!NoReader
    <2>3. reader.listed \subseteq LI!Rows /\ reader.start \subseteq LI!Rows
      BY <2>2, ListingFields
    <2> DEFINE mark == reader.cursor.id
    <2>4. /\ mark \in LI!Rows /\ reader.cursor.value = liRow[mark].amount
          /\ \A p \in reader.listed : p = mark \/ LI!Before(reader.dto, p, mark)
          /\ \A p \in reader.start \ reader.listed : LI!Before(reader.dto, mark, p)
      BY <2>1 DEF LI!ListingInv, LI!CursorSplits
    <2>5. /\ \A p \in reader.listed : p = mark
               \/ LI!Less(reader.dto.order, liRow[p].amount, liRow[mark].amount)
               \/ (liRow[p].amount = liRow[mark].amount /\ LI!Less(reader.dto.order, p, mark))
          /\ \A p \in reader.start \ reader.listed :
               \/ LI!Less(reader.dto.order, liRow[mark].amount, liRow[p].amount)
               \/ (liRow[mark].amount = liRow[p].amount /\ LI!Less(reader.dto.order, mark, p))
      BY <2>1, <2>4 DEF LI!Before, LI!SortColumn
    <2> HIDE DEF mark
    <2>6. /\ \A p \in reader.listed : p = mark
               \/ LI!Less(reader.dto.order, liRow'[p].amount, liRow'[mark].amount)
               \/ (liRow'[p].amount = liRow'[mark].amount /\ LI!Less(reader.dto.order, p, mark))
          /\ \A p \in reader.start \ reader.listed :
               \/ LI!Less(reader.dto.order, liRow'[mark].amount, liRow'[p].amount)
               \/ (liRow'[mark].amount = liRow'[p].amount /\ LI!Less(reader.dto.order, mark, p))
      BY <2>3, <2>4, <2>5
    <2>7. mark \in LI!Rows' /\ reader.cursor.value = liRow'[mark].amount
      BY <2>4
    <2> QED
      BY <2>1, <2>6, <2>7 DEF LI!CursorSplits, LI!Before, LI!SortColumn, mark
  <1>3. LI!CursorBelow'
    <2>1. SUFFICES ASSUME reader.pc = "paging", reader.dto.sortBy = "created_at"
                   PROVE  LI!CursorBelow'
      BY DEF LI!CursorBelow
    <2>2. reader.listed \subseteq LI!Rows
      BY <2>1, ListingFields DEF LI!NoReader
    <2> QED
      BY <2>1, <2>2 DEF LI!ListingInv, LI!CursorBelow
  <1>4. LI!ListingExact'
    BY DEF LI!ListingInv, LI!ListingExact, LI!NoReader
  <1> QED
    BY <1>1, <1>2, <1>3, <1>4 DEF LI!ListingInv, LI!Row, LI!NoRow, LI!Pending, LI!Completed

(* The first page splits what there is.                                    *)
LEMMA FirstPageKept ==
    ASSUME LI!ListingInv, LI!FirstPage
    PROVE  LI!ListingInv'
  <1>1. PICK dto \in LI!ListPaymentsDto :
           LET found == {p \in LI!Rows : LI!Matches(dto, p)}
               page  == LI!Take(dto, found, PageSize)
           IN  reader' = LI!Answer(dto, page, found # page)
    BY DEF LI!FirstPage
  <1> DEFINE found == {p \in LI!Rows : LI!Matches(dto, p)}
             page  == LI!Take(dto, found, PageSize)
             mark  == LI!LastOf(dto, page)
             more  == found # page
  <1>2. reader' = LI!Answer(dto, page, more) /\ UNCHANGED <<liRow, clock>> /\ LiTyped
         /\ clock \in 0 .. LiMaxTime
    BY <1>1 DEF LI!FirstPage, LiTyped, LI!ListingInv
  <1>3. found \in SUBSET LI!Rows /\ (~dto.scoped => found = LI!Rows)
    BY DEF LI!Matches
  <1> HIDE DEF found
  <1>4. /\ page \in SUBSET found
        /\ found # {} => page # {}
        /\ page # {} =>
             /\ mark \in page
             /\ \A q \in page : q = mark \/ LI!Before(dto, q, mark)
             /\ \A q \in found \ page : LI!Before(dto, mark, q)
    BY <1>2, <1>3, PageSplits, ListingAssumption
  <1> HIDE DEF page
  <1>5. page \in SUBSET LI!Rows /\ more \in BOOLEAN /\ (more => page # {})
    BY <1>3, <1>4
  <1> HIDE DEF more
  <1>6. LI!Answer(dto, page, more) \in LI!Listing
    BY <1>2, <1>5, AnswerTyped
  <1>7. /\ reader'.pc = (IF more THEN "paging" ELSE "done") /\ reader'.dto = dto
        /\ page # {} => reader'.cursor.value = LI!SortValue(dto.sortBy, liRow[mark])
                        /\ reader'.cursor.id = mark
        /\ reader'.listed = page /\ reader'.repeated = FALSE /\ reader'.start = LI!Rows
    BY <1>2 DEF LI!Answer, LI!Cursor, mark
  <1> HIDE DEF mark
  <1>8. reader' \in (LI!Listing \cup {LI!NoReader})'
    BY <1>2, <1>6 DEF LI!Listing, LI!Rows, LI!NoRow, LI!NoReader, LI!ListPaymentsDto
  <1>9. LI!CursorSplits'
    <2>1. SUFFICES ASSUME more, dto.sortBy = "amount", ~dto.scoped PROVE LI!CursorSplits'
      BY <1>7 DEF LI!CursorSplits
    <2>2. page # {}
      BY <1>5, <2>1
    <2>3. mark \in LI!Rows /\ reader'.cursor.value = liRow[mark].amount /\ reader'.cursor.id = mark
      BY <1>4, <1>5, <1>7, <2>1, <2>2 DEF LI!SortValue, LI!SortColumn
    <2>4. \A p \in page : p = mark \/ LI!Before(dto, p, mark)
      BY <1>4, <2>2
    <2>5. \A p \in LI!Rows \ page : LI!Before(dto, mark, p)
      BY <1>3, <1>4, <2>1, <2>2
    <2>6. \A p, q : LI!Before(dto, p, q)' <=> LI!Before(dto, p, q)
      BY <1>2 DEF LI!Before
    <2>7. LI!Rows' = LI!Rows /\ liRow' = liRow
      BY <1>2 DEF LI!Rows, LI!NoRow
    <2> QED
      BY <1>7, <2>3, <2>4, <2>5, <2>6, <2>7 DEF LI!CursorSplits, LI!Before
  <1>10. LI!CursorBelow'
    <2>1. SUFFICES ASSUME more, dto.sortBy = "created_at", dto.order = "DESC" PROVE LI!CursorBelow'
      BY <1>7 DEF LI!CursorBelow
    <2>2. page # {}
      BY <1>5, <2>1
    <2> DEFINE v == LI!SortValue(dto.sortBy, liRow[mark])
    <2>3. \A p \in page : v < liRow[p].created \/ (v = liRow[p].created /\ mark <= p)
      BY <1>2, <1>5, <2>1, <2>2, NewestFirst DEF mark
    <2>4. reader'.cursor.value = v /\ reader'.cursor.id = mark /\ reader'.listed = page /\ liRow' = liRow
      BY <1>2, <1>7, <2>2
    <2> HIDE DEF v
    <2> QED
      BY <2>3, <2>4 DEF LI!CursorBelow
  <1>11. LI!ListingExact'
    <2>1. ~more => page = found
      BY DEF more
    <2> QED
      BY <1>3, <1>7, <2>1 DEF LI!ListingExact
  <1> QED
    BY <1>2, <1>8, <1>9, <1>10, <1>11 DEF LI!ListingInv, LiTyped, LI!Row, LI!NoRow, LI!Pending, LI!Completed

(* The order is strict.                                                    *)
LEMMA BeforeRanks ==
    ASSUME LiTyped, NEW dto \in LI!ListPaymentsDto
    PROVE  /\ \A p \in LI!Rows : ~LI!Before(dto, p, p)
           /\ \A p, q \in LI!Rows : ~(LI!Before(dto, p, q) /\ LI!Before(dto, q, p))
           /\ \A p, q, r \in LI!Rows : LI!Before(dto, p, q) /\ LI!Before(dto, q, r) => LI!Before(dto, p, r)
  <1> DEFINE R == ByOrder(dto)
             S == LI!Rows
  <1>1. Ranks(R, S)
    BY PaymentsRank DEF LiTyped
  <1>2. \A p, q \in S : <<p, q>> \in R <=> LI!Before(dto, p, q)
    BY DEF ByOrder, LI!Rows
  <1> HIDE DEF R, S
  <1>3. \A p, q, r \in S : LI!Before(dto, p, q) /\ LI!Before(dto, q, r) => LI!Before(dto, p, r)
    BY <1>1, <1>2 DEF Ranks, Orders
  <1>4. \A p \in S : ~LI!Before(dto, p, p)
    BY <1>1, <1>2 DEF Ranks, Orders
  <1>5. \A p, q \in S : ~(LI!Before(dto, p, q) /\ LI!Before(dto, q, p))
    BY <1>3, <1>4
  <1> QED
    BY <1>3, <1>4, <1>5 DEF S

(* The next page takes those after the cursor, none of which was listed,   *)
(* and leaves none before its own.                                         *)
LEMMA NextPageKept ==
    ASSUME LI!ListingInv, LI!NextPage
    PROVE  LI!ListingInv'
  <1> DEFINE dto == reader.dto
             beyond == {p \in LI!Rows : LI!After(dto, reader.cursor, p)}
             found == LI!Take(dto, beyond, PageSize + 1)
             page  == LI!Take(dto, found, PageSize)
             mark  == LI!LastOf(dto, page)
             more  == found # page
             listed == reader.listed \cup page
             repeated == reader.repeated \/ page \cap reader.listed # {}
  <1>1. /\ reader.pc = "paging" /\ UNCHANGED <<liRow, clock>>
        /\ reader' = [LI!Answer(dto, page, more) EXCEPT
                        !.listed = listed, !.repeated = repeated, !.start = reader.start]
    BY DEF LI!NextPage
  <1>2. LiTyped /\ clock \in 0 .. LiMaxTime /\ reader # LI!NoReader
    BY <1>1 DEF LiTyped, LI!ListingInv, LI!NoReader
  <1>3. /\ dto \in LI!ListPaymentsDto /\ reader.repeated \in BOOLEAN
        /\ reader.listed \subseteq LI!Rows /\ reader.start \subseteq LI!Rows
        /\ reader.cursor.value \in Int /\ reader.cursor.id \in Ids \cup {0}
    BY <1>2, ListingFields
  <1>4. PageSize \in Nat \ {0} /\ PageSize + 1 \in Nat \ {0}
    BY ListingAssumption
  <1> HIDE DEF dto
  <1>5. beyond \in SUBSET LI!Rows
    OBVIOUS
  <1>6. /\ found \in SUBSET beyond
        /\ found # {} =>
             \A q \in beyond \ found : LI!Before(dto, LI!LastOf(dto, found), q)
    <2> HIDE DEF beyond
    <2> QED
      BY <1>2, <1>3, <1>4, <1>5, PageSplits
  <1>7. found \in SUBSET LI!Rows
    BY <1>5, <1>6
  <1> HIDE DEF found
  <1>8. /\ page \in SUBSET found
        /\ found # {} => page # {}
        /\ page # {} =>
             /\ mark \in page
             /\ \A q \in page : q = mark \/ LI!Before(dto, q, mark)
             /\ \A q \in found \ page : LI!Before(dto, mark, q)
    BY <1>2, <1>3, <1>4, <1>7, PageSplits
  <1> HIDE DEF page
  <1>9. page \in SUBSET LI!Rows /\ more \in BOOLEAN /\ (more => page # {})
    BY <1>7, <1>8
  <1>10. ~more => page = found
    OBVIOUS
  <1> HIDE DEF more
  <1> DEFINE answer == LI!Answer(dto, page, more)
  <1>11. answer \in LI!Listing
    BY <1>2, <1>3, <1>9, AnswerTyped
  <1>12. /\ answer.pc = (IF more THEN "paging" ELSE "done") /\ answer.dto = dto
         /\ page # {} => answer.cursor.value = LI!SortValue(dto.sortBy, liRow[mark])
                         /\ answer.cursor.id = mark
    BY DEF LI!Answer, LI!Cursor, mark
  <1>13. listed \in SUBSET LI!Rows /\ repeated \in BOOLEAN
    BY <1>3, <1>9
  <1> HIDE DEF answer, listed, repeated, mark
  <1>14. /\ reader' \in LI!Listing /\ reader'.pc = answer.pc /\ reader'.dto = dto
         /\ reader'.cursor = answer.cursor
         /\ reader'.listed = listed /\ reader'.repeated = repeated /\ reader'.start = reader.start
    <2>1. reader' = [answer EXCEPT !.listed = listed, !.repeated = repeated, !.start = reader.start]
      BY <1>1 DEF answer
    <2> QED
      BY <1>3, <1>11, <1>12, <1>13, <2>1 DEF LI!Listing
  <1>15. reader' \in (LI!Listing \cup {LI!NoReader})'
    BY <1>1, <1>14 DEF LI!Listing, LI!Rows, LI!NoRow, LI!NoReader, LI!ListPaymentsDto
  <1>16. LI!Rows' = LI!Rows /\ liRow' = liRow
    BY <1>1 DEF LI!Rows, LI!NoRow
  <1>18. ASSUME dto.sortBy = "amount", ~dto.scoped
         PROVE  LI!CursorSplits' /\ LI!ListingExact'
    <2> DEFINE past == reader.cursor.id
    <2>1. /\ past \in LI!Rows /\ reader.cursor.value = liRow[past].amount
          /\ \A p \in reader.listed : p = past \/ LI!Before(dto, p, past)
          /\ \A p \in reader.start \ reader.listed : LI!Before(dto, past, p)
      BY <1>1, <1>18 DEF LI!ListingInv, LI!CursorSplits, dto
    <2>2. \A p \in LI!Rows : p \in beyond <=> LI!Before(dto, past, p)
      BY <1>18, <2>1 DEF LI!After, LI!Before, LI!Matches, LI!SortColumn
    <2> HIDE DEF past, beyond
    <2>3. page \cap reader.listed = {}
      <3>1. SUFFICES ASSUME NEW p \in page, p \in reader.listed PROVE FALSE
        OBVIOUS
      <3>2. LI!Before(dto, past, p) /\ p \in LI!Rows
        BY <1>5, <1>6, <1>8, <2>2
      <3> QED
        BY <1>2, <1>3, <2>1, <3>1, <3>2, BeforeRanks
    <2>4. ~repeated
      BY <1>1, <1>18, <1>2, <2>3 DEF repeated, LI!ListingInv, LI!ListingExact, dto
    <2>5. ASSUME more
          PROVE  /\ mark \in LI!Rows
                 /\ \A p \in listed : p = mark \/ LI!Before(dto, p, mark)
                 /\ \A p \in reader.start \ listed : LI!Before(dto, mark, p)
      <3>1. page # {} /\ mark \in page /\ mark \in LI!Rows /\ mark \in found /\ found # {}
        BY <1>7, <1>8, <1>9, <2>5
      <3>2. LI!Before(dto, past, mark)
        BY <1>6, <2>2, <3>1
      <3>3. ASSUME NEW p \in listed PROVE p = mark \/ LI!Before(dto, p, mark)
        <4>1. CASE p \in page
          BY <1>8, <3>1, <4>1
        <4>2. CASE p \in reader.listed
          <5>1. p = past \/ LI!Before(dto, p, past)
            BY <2>1, <4>2
          <5>2. p \in LI!Rows
            BY <1>3, <4>2
          <5> QED
            BY <1>2, <1>3, <2>1, <3>1, <3>2, <5>1, <5>2, BeforeRanks
        <4> QED
          BY <3>3, <4>1, <4>2 DEF listed
      <3>4. ASSUME NEW p \in reader.start \ listed PROVE LI!Before(dto, mark, p)
        <4>1. p \in LI!Rows /\ p \notin reader.listed /\ p \notin page
          BY <1>3, <3>4 DEF listed
        <4>2. LI!Before(dto, past, p)
          BY <2>1, <3>4, <4>1
        <4>3. p \in beyond
          BY <2>2, <4>1, <4>2
        <4>4. CASE p \in found
          BY <1>8, <3>1, <4>1, <4>4
        <4>5. CASE p \notin found
          <5> DEFINE end == LI!LastOf(dto, found)
          <5>1. LI!Before(dto, end, p)
            BY <1>6, <3>1, <4>3, <4>5
          <5>2. end \in found /\ \A q \in found : q = end \/ LI!Before(dto, q, end)
            BY <1>2, <1>3, <1>7, <3>1, LastIs DEF LiTyped
          <5> HIDE DEF end
          <5>3. mark = end \/ LI!Before(dto, mark, end)
            BY <3>1, <5>2
          <5>4. end \in LI!Rows
            BY <1>7, <5>2
          <5> QED
            BY <1>2, <1>3, <3>1, <4>1, <5>1, <5>3, <5>4, BeforeRanks
        <4> QED
          BY <4>4, <4>5
      <3> QED
        BY <3>1, <3>3, <3>4
    <2>6. LI!CursorSplits'
      <3>1. SUFFICES ASSUME more PROVE LI!CursorSplits'
        BY <1>12, <1>14 DEF LI!CursorSplits
      <3>2. reader'.cursor.value = liRow[mark].amount /\ reader'.cursor.id = mark
        BY <1>9, <1>12, <1>14, <1>18, <3>1 DEF LI!SortValue, LI!SortColumn
      <3>3. /\ mark \in LI!Rows
            /\ \A p \in listed : p = mark \/ LI!Before(dto, p, mark)
            /\ \A p \in reader.start \ listed : LI!Before(dto, mark, p)
        BY <2>5, <3>1
      <3> QED
        BY <1>14, <1>16, <3>2, <3>3 DEF LI!CursorSplits, LI!Before
    <2>7. ASSUME ~more PROVE reader.start \subseteq listed
      <3>1. page = found
        BY <1>10, <2>7
      <3>2. found = beyond
        <4> DEFINE R == ByOrder(dto)
        <4>1. IsFiniteSet(beyond) /\ beyond \subseteq Ids /\ found \subseteq Ids
          BY <1>5, <1>7, RowsFinite
        <4>2. Ranks(R, beyond)
          BY <1>2, <1>3, <1>5, PaymentsRank DEF LiTyped
        <4>3. found = FirstOf(R, beyond, PageSize + 1)
          BY <4>1, TakeIs DEF found
        <4>4. page = FirstOf(R, found, PageSize)
          BY <4>1, TakeIs DEF page
        <4> HIDE DEF R
        <4> QED
          BY <1>4, <3>1, <4>1, <4>2, <4>3, <4>4, OneMoreTells
      <3>3. ASSUME NEW p \in reader.start, p \notin reader.listed PROVE p \in page
        <4>1. p \in LI!Rows /\ LI!Before(dto, past, p)
          BY <1>3, <2>1, <3>3
        <4> QED
          BY <2>2, <3>1, <3>2, <4>1
      <3> QED
        BY <3>3 DEF listed
    <2>8. LI!ListingExact'
      BY <1>12, <1>14, <1>18, <2>4, <2>7 DEF LI!ListingExact
    <2> QED
      BY <2>6, <2>8
  <1>19. ASSUME dto.sortBy = "created_at", dto.order = "DESC"
         PROVE  LI!CursorBelow' /\ LI!ListingExact'
    <2> DEFINE c == reader.cursor.value
               id == reader.cursor.id
    <2>1. \A p \in reader.listed : c < liRow[p].created \/ (c = liRow[p].created /\ id <= p)
      BY <1>1, <1>19 DEF LI!ListingInv, LI!CursorBelow, dto
    <2>2. \A p \in beyond : liRow[p].created < c \/ (liRow[p].created = c /\ p < id)
      BY <1>19 DEF LI!After, LI!SortColumn, LI!Less
    <2>3. c \in Int /\ id \in Int
      <3>1. \A i \in Ids : i \in Int
        BY ListingAssumption
      <3> QED
        BY <1>3, <3>1
    <2>4. \A p \in LI!Rows : p \in Int /\ liRow[p].created \in Int
      BY <1>2, ColumnsAre DEF LiTyped
    <2> HIDE DEF c, id, beyond
    <2>5. page \cap reader.listed = {}
      <3>1. SUFFICES ASSUME NEW p \in page, p \in reader.listed PROVE FALSE
        OBVIOUS
      <3>2. p \in beyond /\ p \in LI!Rows
        BY <1>5, <1>6, <1>8
      <3> QED
        BY <2>1, <2>2, <2>3, <2>4, <3>1, <3>2
    <2>6. ~repeated
      BY <1>1, <1>19, <1>2, <2>5 DEF repeated, LI!ListingInv, LI!ListingExact, dto
    <2>7. LI!ListingExact'
      BY <1>14, <1>19, <2>6 DEF LI!ListingExact
    <2>8. LI!CursorBelow'
      <3>1. SUFFICES ASSUME more PROVE LI!CursorBelow'
        BY <1>12, <1>14 DEF LI!CursorBelow
      <3>2. page # {}
        BY <1>9, <3>1
      <3> DEFINE v == LI!SortValue(dto.sortBy, liRow[mark])
      <3>3. /\ mark \in page /\ v \in Int /\ v <= liRow[mark].created
            /\ \A p \in page : v < liRow[p].created \/ (v = liRow[p].created /\ mark <= p)
        BY <1>2, <1>3, <1>9, <1>19, <3>2, NewestFirst DEF mark
      <3>4. reader'.cursor.value = v /\ reader'.cursor.id = mark
        BY <1>12, <1>14, <3>2
      <3> HIDE DEF v
      <3>5. mark \in LI!Rows /\ mark \in beyond
        BY <1>6, <1>8, <1>9, <3>3
      <3>6. \A p \in reader.listed : v < liRow[p].created \/ (v = liRow[p].created /\ mark <= p)
        BY <1>3, <2>1, <2>2, <2>3, <2>4, <3>3, <3>5
      <3> QED
        BY <1>14, <1>16, <3>3, <3>4, <3>6 DEF LI!CursorBelow, listed
    <2> QED
      BY <2>7, <2>8
  <1>20. LI!CursorSplits' /\ LI!CursorBelow' /\ LI!ListingExact'
    <2>1. LI!CursorSplits'
      BY <1>14, <1>18 DEF LI!CursorSplits
    <2>2. LI!CursorBelow'
      BY <1>14, <1>19 DEF LI!CursorBelow
    <2>3. LI!ListingExact'
      BY <1>14, <1>18, <1>19 DEF LI!ListingExact
    <2> QED
      BY <2>1, <2>2, <2>3
  <1> QED
    BY <1>1, <1>2, <1>15, <1>20 DEF LI!ListingInv, LiTyped, LI!Row, LI!NoRow, LI!Pending, LI!Completed

-----------------------------------------------------------------------------
(* The listings and the reports, as a whole.                               *)

(* Every step keeps the invariant of the listing.                          *)
LEMMA ListingKept ==
    ASSUME LI!ListingInv, [LI!Next]_(LI!vars)
    PROVE  LI!ListingInv'
  <1>1. liRow \in [Ids -> LI!Row \cup {LI!NoRow}] /\ clock \in 0 .. LiMaxTime /\ LiMaxTime \in Nat
    BY ListingAssumption DEF LI!ListingInv
  <1>2. CASE UNCHANGED <<liRow, clock, reader>>
    <2>1. LI!Rows' = LI!Rows
      BY <1>2 DEF LI!Rows, LI!NoRow
    <2> QED
      BY <1>1, <1>2, <2>1, RowsGrow
  <1>3. CASE LI!Tick
    <2>1. clock' \in 0 .. LiMaxTime /\ UNCHANGED <<liRow, reader>>
      BY <1>1, <1>3 DEF LI!Tick
    <2>2. LI!Rows' = LI!Rows
      BY <2>1 DEF LI!Rows, LI!NoRow
    <2> QED
      BY <1>1, <2>1, <2>2, RowsGrow
  <1>4. ASSUME NEW p \in Ids, LI!Create(p) PROVE LI!ListingInv'
    <2>1. PICK amount \in LiAmounts, mine \in BOOLEAN :
           liRow' = [liRow EXCEPT ![p] = [amount |-> amount, created |-> clock,
                                          status |-> LI!Pending, mine |-> mine]]
      BY <1>4 DEF LI!Create
    <2>2. liRow[p] = LI!NoRow /\ UNCHANGED <<clock, reader>>
      BY <1>4 DEF LI!Create
    <2> DEFINE new == [amount |-> amount, created |-> clock, status |-> LI!Pending, mine |-> mine]
    <2>3. new \in LI!Row
      BY <1>1 DEF LI!Row, LI!Pending, LI!Completed
    <2>4. liRow' = [liRow EXCEPT ![p] = new]
      BY <2>1
    <2> HIDE DEF new
    <2>5. liRow' \in [Ids -> LI!Row \cup {LI!NoRow}]
      BY <1>1, <2>3, <2>4
    <2>6. \A q \in LI!Rows : q # p /\ liRow'[q] = liRow[q]
      BY <1>1, <2>2, <2>4 DEF LI!Rows
    <2>7. LI!Rows \subseteq LI!Rows'
      BY <2>6 DEF LI!Rows, LI!NoRow
    <2> QED
      BY <1>1, <2>2, <2>5, <2>6, <2>7, RowsGrow
  <1>5. ASSUME NEW p \in Ids, LI!Complete(p) PROVE LI!ListingInv'
    <2>1. liRow[p].status = LI!Pending /\ UNCHANGED <<clock, reader>>
           /\ liRow' = [liRow EXCEPT ![p].status = LI!Completed]
      BY <1>5 DEF LI!Complete
    <2>2. liRow[p] \in LI!Row
      BY <1>1, <2>1 DEF LI!NoRow, LI!Pending
    <2> DEFINE new == [liRow[p] EXCEPT !.status = LI!Completed]
    <2>3. new \in LI!Row /\ new.amount = liRow[p].amount /\ new.created = liRow[p].created
      BY <2>2 DEF LI!Row, LI!Completed
    <2>4. liRow' = [liRow EXCEPT ![p] = new]
      BY <2>1
    <2> HIDE DEF new
    <2>5. liRow' \in [Ids -> LI!Row \cup {LI!NoRow}]
      BY <1>1, <2>3, <2>4
    <2>6. \A q \in LI!Rows : /\ liRow'[q].amount = liRow[q].amount
                             /\ liRow'[q].created = liRow[q].created
                             /\ liRow'[q] # LI!NoRow
      <3>1. TAKE q \in LI!Rows
      <3>2. CASE q = p
        <4>1. liRow'[q] = new
          BY <1>1, <2>4, <3>2
        <4> QED
          BY <2>3, <3>2, <4>1, NoPaymentUntyped
      <3>3. CASE q # p
        <4>1. liRow'[q] = liRow[q] /\ liRow[q] # LI!NoRow
          BY <1>1, <2>4, <3>3 DEF LI!Rows
        <4> QED
          BY <4>1
      <3> QED
        BY <3>2, <3>3
    <2>7. LI!Rows \subseteq LI!Rows'
      BY <2>6 DEF LI!Rows, LI!NoRow
    <2> QED
      BY <1>1, <2>1, <2>5, <2>6, <2>7, RowsGrow
  <1>6. CASE LI!FirstPage
    BY <1>6, FirstPageKept
  <1>7. CASE LI!NextPage
    BY <1>7, NextPageKept
  <1> QED
    BY <1>2, <1>3, <1>4, <1>5, <1>6, <1>7 DEF LI!Next, LI!vars

(* It holds with no payment and no reader.                                 *)
LEMMA ListingBegins == LI!Init => LI!ListingInv
  <1>1. SUFFICES ASSUME LI!Init PROVE LI!ListingInv
    OBVIOUS
  <1>2. liRow = [p \in Ids |-> LI!NoRow] /\ clock = 0 /\ reader = LI!NoReader
    BY <1>1 DEF LI!Init
  <1>3. clock \in 0 .. LiMaxTime
    BY <1>2, ListingAssumption
  <1> QED
    BY <1>2, <1>3 DEF LI!ListingInv, LI!CursorSplits, LI!CursorBelow, LI!ListingExact, LI!NoReader

(* Every step keeps the invariant of the reports,                          *)
LEMMA ReportsKept ==
    ASSUME RE!ReportsInv, [RE!Next]_(RE!vars)
    PROVE  RE!ReportsInv'
  <1>1. ReTyped /\ (~spoiled => Calm)
    BY DEF RE!ReportsInv, ReTyped, Calm
  <1>2. ReTyped'
    BY <1>1, ReportsTyped
  <1>3. ASSUME ~spoiled' PROVE Calm'
    <2>1. CASE UNCHANGED RE!vars
      BY <1>1, <1>3, <2>1, StillCalm DEF RE!vars
    <2>2. CASE RE!Tick
      BY <1>1, <1>3, <2>2, StillCalm DEF RE!Tick
    <2>3. CASE RE!Create
      <3>1. ~spoiled
        BY <1>3, <2>3 DEF RE!Create
      <3> QED
        BY <1>1, <1>3, <2>3, <3>1, CreateCalm
    <2>4. ASSUME NEW w \in Senders,
                 RE!Find(w) \/ RE!Mail(w) \/ RE!Mailed(w) \/ RE!CutOff(w) \/ RE!Update(w)
                   \/ RE!Remove(w) \/ RE!Unsubscribe(w) \/ RE!Save(w) \/ RE!Removed(w)
          PROVE  Calm'
      <3>1. CASE RE!Find(w)
        <4>1. ~spoiled
          BY <1>3, <3>1 DEF RE!Find
        <4> QED
          BY <1>1, <1>3, <3>1, <4>1, FindCalm
      <3>2. CASE RE!Mail(w)
        <4>1. ~spoiled
          BY <1>3, <3>2 DEF RE!Mail
        <4> QED
          BY <1>1, <1>3, <3>2, <4>1, MailCalm
      <3>3. CASE RE!Mailed(w)
        <4>1. ~spoiled
          BY <1>3, <3>3 DEF RE!Mailed
        <4> QED
          BY <1>1, <1>3, <3>3, <4>1, MailedCalm
      <3>4. CASE RE!CutOff(w)
        BY <1>3, <3>4 DEF RE!CutOff
      <3>5. CASE RE!Update(w) \/ RE!Remove(w) \/ RE!Unsubscribe(w)
        <4>1. ~spoiled
          BY <1>1, <1>3, <3>5, BeginMakes DEF ReTyped
        <4> QED
          BY <1>1, <1>3, <3>5, <4>1, BeginCalm
      <3>6. CASE RE!Save(w)
        <4>1. spoiled' = (spoiled \/ reWork[w].stale)
          BY <3>6 DEF RE!Save
        <4>2. ~spoiled
          BY <1>3, <4>1
        <4> QED
          BY <1>1, <1>3, <3>6, <4>2, SaveCalm
      <3>7. CASE RE!Removed(w)
        <4>1. ~spoiled
          BY <1>3, <3>7 DEF RE!Removed
        <4> QED
          BY <1>1, <1>3, <3>7, <4>1, RemovedCalm
      <3> QED
        BY <2>4, <3>1, <3>2, <3>3, <3>4, <3>5, <3>6, <3>7
    <2> QED
      BY <2>1, <2>2, <2>3, <2>4 DEF RE!Next
  <1> QED
    BY <1>2, <1>3 DEF RE!ReportsInv, ReTyped, Calm

(* which holds with no subscription.                                       *)
LEMMA ReportsBegin == RE!Init => RE!ReportsInv
  <1>1. SUFFICES ASSUME RE!Init PROVE RE!ReportsInv
    OBVIOUS
  <1>2. /\ now = Day /\ reRow = RE!NoRow /\ reWork = [w \in Senders |-> RE!Idle]
        /\ until = [r \in Recipients |-> RE!Never]
        /\ again = FALSE /\ quit = {} /\ spoiled = FALSE /\ reCalls = 0
    BY <1>1 DEF RE!Init
  <1>3. Day \in Nat /\ Day <= ReMaxTime /\ ReMaxTime \in Nat /\ ReMaxCalls \in Nat
    BY ReportsAssumption
  <1>4. now \in Day .. ReMaxTime /\ reCalls \in 0 .. ReMaxCalls
         /\ RE!Never \in RE!Never .. ReMaxTime + Day
    BY <1>2, <1>3 DEF RE!Never
  <1>5. \A w \in Senders : reWork[w] = RE!Idle /\ reWork[w].pc = "idle"
    BY <1>2 DEF RE!Idle
  <1>6. until \in [Recipients -> RE!Never .. ReMaxTime + Day]
    BY <1>2, <1>4
  <1>7. RE!TypeOK
    BY <1>2, <1>4, <1>5, <1>6 DEF RE!TypeOK
  <1>8. RE!WorkShape
    BY <1>2, <1>5 DEF RE!WorkShape
  <1>9. RE!CopiesFollow /\ RE!SweepsApart /\ RE!PeriodsApart
    BY <1>2, <1>5 DEF RE!CopiesFollow, RE!SweepsApart, RE!PeriodsApart, RE!Sweeping
  <1> QED
    BY <1>7, <1>8, <1>9 DEF RE!ReportsInv

(* A step of the suite is one of the listing, or leaves it alone,          *)
LEMMA ListingsMove == [Next]_vars => [LI!Next]_(LI!vars)
  BY DEF Next, vars, liVars, LI!vars

(* and so for the reports.                                                 *)
LEMMA ReportsMove == [Next]_vars => [RE!Next]_(RE!vars)
  BY DEF Next, vars, reVars, RE!vars

(* A listing by amount without filters has every payment that was there at *)
(* its beginning, once, though payments are created and change status      *)
(* between its pages, and by creation time no payment comes twice; the     *)
(* reports a recipient gets overlap in no day, whatever the merchant       *)
(* changes, unless a sweep was cut off, overlapped another or a save       *)
(* overwrote another (payments.service.ts:417-560,                         *)
(* reports.service.ts:85-310).                                             *)
THEOREM ListingsExact == Spec => []PaymentsListedOnce
  <1> DEFINE Inv == LI!ListingInv /\ RE!ReportsInv
  <1>1. Init => Inv
    BY ListingBegins, ReportsBegin DEF Init
  <1>2. Inv /\ [Next]_vars => Inv'
    BY ListingKept, ReportsKept, ListingsMove, ReportsMove
  <1>3. Inv => PaymentsListedOnce
    BY DEF LI!ListingInv, RE!ReportsInv, PaymentsListedOnce, RE!PeriodsApart
  <1> QED
    BY <1>1, <1>2, <1>3, PTL DEF Spec

-----------------------------------------------------------------------------


LEMMA PowersOfTwo ==
    ASSUME NEW n \in 0 .. MaxErrors
    PROVE  HS!PowerOfTwo[n] \in Nat /\ HS!PowerOfTwo[n] >= 1
  <1> DEFINE D(k, h) == [i \in 0 .. k |-> IF i = 0 THEN 1 ELSE 2 * h[i - 1]]
             f == CHOOSE h : h = D(MaxErrors, h)
             S == {k \in Nat : \E h : h = D(k, h)}
  <1>1. HS!PowerOfTwo = f
    BY DEF HS!PowerOfTwo
  <1>2. 0 \in S
    <2>1. [i \in 0 .. 0 |-> 1] = D(0, [i \in 0 .. 0 |-> 1])
      OBVIOUS
    <2> QED
      BY <2>1
  <1>3. ASSUME NEW k \in S PROVE k + 1 \in S
    <2>1. PICK h : h = D(k, h)
      OBVIOUS
    <2> DEFINE g == [i \in 0 .. k + 1 |-> IF i <= k THEN h[i] ELSE 2 * h[k]]
    <2>2. \A i \in 0 .. k + 1 : g[i] = IF i = 0 THEN 1 ELSE 2 * g[i - 1]
      BY <2>1
    <2>3. g = D(k + 1, g)
      BY <2>2
    <2> HIDE DEF g
    <2> QED
      BY <2>3
  <1>4. S = Nat
    <2>1. S \in SUBSET Nat
      OBVIOUS
    <2> HIDE DEF S
    <2> QED
      BY <1>2, <1>3, <2>1, Upto
  <1>5. f = D(MaxErrors, f)
    <2>1. \E h : h = D(MaxErrors, h)
      BY <1>4, StreamAssumption
    <2> QED
      BY <2>1
  <1> HIDE DEF f
  <1>6. f[0] = 1 /\ \A i \in 1 .. MaxErrors : f[i] = 2 * f[i - 1]
    BY <1>5, StreamAssumption
  <1> DEFINE Q == {k \in Nat : k <= MaxErrors => f[k] \in Nat /\ f[k] >= 1}
  <1>7. 0 \in Q
    BY <1>6
  <1>8. ASSUME NEW k \in Q PROVE k + 1 \in Q
    <2>1. SUFFICES ASSUME k + 1 <= MaxErrors PROVE f[k + 1] \in Nat /\ f[k + 1] >= 1
      OBVIOUS
    <2>2. k + 1 \in 1 .. MaxErrors /\ (k + 1) - 1 = k /\ f[k] \in Nat /\ f[k] >= 1
      BY <2>1, StreamAssumption
    <2> QED
      BY <1>6, <2>2
  <1>9. Q = Nat
    <2>1. Q \in SUBSET Nat
      OBVIOUS
    <2> HIDE DEF Q
    <2> QED
      BY <1>7, <1>8, <2>1, Upto
  <1> QED
    BY <1>1, <1>9, StreamAssumption

(* Each failure is counted once, and a delay is between the first and the  *)
(* last.                                                                   *)
Delays ==
    /\ currentDelay \in BaseDelay .. MaxDelay /\ failureCount \in Nat
    /\ errors \in 0 .. MaxErrors /\ failureCount <= errors

LEMMA DelayedOnce ==
    ASSUME Delays, errors < MaxErrors, errors' = errors + 1, HS!Delayed
    PROVE  Delays'
  <1>1. failureCount + 1 \in 0 .. MaxErrors
    BY StreamAssumption DEF Delays
  <1> DEFINE p == HS!PowerOfTwo[failureCount + 1]
  <1>2. p \in Nat /\ p >= 1
    BY <1>1, PowersOfTwo
  <1>3. currentDelay' = HS!Least(BaseDelay * p, MaxDelay)
    BY DEF HS!Delayed
  <1> HIDE DEF p
  <1>4. BaseDelay * p \in Nat /\ BaseDelay <= BaseDelay * p
    BY <1>2, StreamAssumption
  <1>5. currentDelay' \in BaseDelay .. MaxDelay
    BY <1>3, <1>4, StreamAssumption DEF HS!Least
  <1>6. failureCount' = failureCount + 1
    BY DEF HS!Delayed
  <1> QED
    BY <1>1, <1>5, <1>6, StreamAssumption DEF Delays

LEMMA DelaysKept == ASSUME Delays, [HS!Next]_(HS!vars) PROVE Delays'
  <1>1. BaseDelay \in BaseDelay .. MaxDelay
    BY StreamAssumption
  <1>2. ASSUME NEW armed, HS!Start(armed) PROVE Delays'
    BY <1>1, <1>2, DelayedOnce DEF HS!Start, Delays
  <1>3. ASSUME HS!OnError PROVE Delays'
    <2>1. CASE isDestroyed
      BY <1>3, <2>1, StreamAssumption DEF HS!OnError, Delays
    <2>2. CASE ~isDestroyed
      BY <1>3, <2>2, DelayedOnce DEF HS!OnError
    <2> QED
      BY <2>1, <2>2
  <1>4. ASSUME HS!Reconnect PROVE Delays'
    BY <1>2, <1>4 DEF HS!Reconnect, Delays
  <1>5. ASSUME HS!OnModuleDestroy PROVE Delays'
    BY <1>5 DEF HS!OnModuleDestroy, Delays
  <1>6. ASSUME UNCHANGED HS!vars PROVE Delays'
    BY <1>6 DEF HS!vars, Delays
  <1> QED
    BY <1>2, <1>3, <1>4, <1>5, <1>6 DEF HS!Next, HS!OnModuleInit

LEMMA DelaysBegin == HS!Init => Delays
  BY StreamAssumption DEF HS!Init, Delays

-----------------------------------------------------------------------------


(* Every call is being served, has saved its copy once, or has not come.   *)
InReview == {w \in Reviewers : onWork[w] # ON!Idle}
ReviewTypes ==
    /\ IsFiniteSet(InReview) /\ version + Cardinality(InReview) <= onCalls
    /\ onCalls \in 0 .. OnMaxCalls /\ lost <= version * OnMaxCalls
    /\ approved \subseteq Names \cup {ON!Unnamed} /\ named \in Names \cup {ON!Unnamed}

LEMMA BegunCounted ==
    ASSUME OnMaxCalls \in Nat, ON!StandsInv, ReviewTypes, NEW w \in Reviewers, NEW op, NEW copy,
           ON!Begin(w, op, copy)
    PROVE  ReviewTypes'
  <1> DEFINE new == [pc |-> "saving", op |-> op, copy |-> copy,
                     new |-> onRow = ON!NoRow, version |-> version]
  <1>1. /\ onWork[w] = ON!Idle /\ onCalls < OnMaxCalls /\ onCalls' = onCalls + 1
        /\ onWork' = [onWork EXCEPT ![w] = new]
        /\ UNCHANGED <<version, lost, approved, named>>
    BY DEF ON!Begin
  <1>2. new # ON!Idle
    <2>1. new.pc = "saving" /\ ON!Idle.pc = "idle"
      BY DEF ON!Idle
    <2> HIDE DEF new
    <2> QED
      BY <2>1
  <1> HIDE DEF new
  <1>3. InReview' = InReview \cup {w} /\ w \notin InReview
    BY <1>1, <1>2 DEF InReview, ON!StandsInv
  <1>4. IsFiniteSet(InReview') /\ Cardinality(InReview') = Cardinality(InReview) + 1
         /\ Cardinality(InReview) \in Nat
    BY <1>3, FS_AddElement, FS_CardinalityType DEF ReviewTypes
  <1>5. version + Cardinality(InReview') <= onCalls' /\ onCalls' \in 0 .. OnMaxCalls
    BY <1>1, <1>4 DEF ReviewTypes, ON!StandsInv
  <1> QED
    BY <1>1, <1>4, <1>5 DEF ReviewTypes

(* A call that is over, having saved or not.                               *)
LEMMA EndedCounted ==
    ASSUME OnMaxCalls \in Nat, ON!StandsInv, ReviewTypes, NEW w \in Reviewers,
           onWork[w] # ON!Idle, onWork' = [onWork EXCEPT ![w] = ON!Idle], onCalls' = onCalls,
           ON!Noted(onWork[w]) \/ UNCHANGED <<version, lost, approved, named>>
    PROVE  ReviewTypes'
  <1> DEFINE r == onWork[w]
  <1>1. InReview' = InReview \ {w} /\ w \in InReview
    BY DEF InReview, ON!StandsInv
  <1>2. /\ IsFiniteSet(InReview') /\ Cardinality(InReview') = Cardinality(InReview) - 1
        /\ Cardinality(InReview) \in Nat /\ Cardinality(InReview') \in Nat
    BY <1>1, FS_RemoveElement, FS_CardinalityType DEF ReviewTypes
  <1>3. CASE UNCHANGED <<version, lost, approved, named>>
    BY <1>2, <1>3 DEF ReviewTypes, ON!StandsInv
  <1>4. CASE ON!Noted(r)
    <2>1. r.version \in Nat /\ r.version <= version /\ r.copy \in ON!Row
      BY DEF ON!StandsInv, ON!Pending
    <2>2. version' = version + 1 /\ lost' = lost + (version - r.version)
      BY <1>4 DEF ON!Noted
    <2>3. version \in Nat /\ lost \in Nat /\ version + Cardinality(InReview) <= onCalls
          /\ onCalls \in 0 .. OnMaxCalls /\ lost <= version * OnMaxCalls
      BY DEF ReviewTypes, ON!StandsInv
    <2> HIDE DEF r
    <2>4. version' + Cardinality(InReview') <= onCalls
      BY <1>2, <2>2, <2>3
    <2>5. (version + 1) * OnMaxCalls = version * OnMaxCalls + OnMaxCalls
          /\ version * OnMaxCalls \in Nat
      BY <2>3
    <2>6. lost' <= version' * OnMaxCalls
      BY <1>2, <2>1, <2>2, <2>3, <2>5
    <2>7. r.copy.legalName \in Names \cup {ON!Unnamed}
      BY <2>1 DEF ON!Row
    <2>8. approved' \subseteq Names \cup {ON!Unnamed} /\ named' \in Names \cup {ON!Unnamed}
      BY <1>4, <2>7 DEF ON!Noted, ReviewTypes
    <2> QED
      BY <1>2, <2>3, <2>4, <2>6, <2>8 DEF ReviewTypes
  <1> QED
    BY <1>3, <1>4

LEMMA ReviewTypesKept ==
    ASSUME OnMaxCalls \in Nat, ON!StandsInv, ReviewTypes, [ON!Next]_(ON!vars)
    PROVE  ReviewTypes'
  <1>1. ASSUME NEW w \in Reviewers,
               ON!Submit(w) \/ ON!Review(w) \/ ON!UpdateProfile(w) \/ ON!Read(w)
        PROVE  ReviewTypes'
    BY <1>1, BegunCounted DEF ON!Submit, ON!Review, ON!UpdateProfile, ON!Read
  <1>2. ASSUME NEW w \in Reviewers, ON!Insert(w) PROVE ReviewTypes'
    <2>1. onWork[w] # ON!Idle /\ onWork' = [onWork EXCEPT ![w] = ON!Idle] /\ onCalls' = onCalls
      BY <1>2 DEF ON!Insert, ON!Idle
    <2>2. ON!Noted(onWork[w]) \/ UNCHANGED <<version, lost, approved, named>>
      BY <1>2 DEF ON!Insert
    <2> QED
      BY <2>1, <2>2, EndedCounted
  <1>3. ASSUME NEW w \in Reviewers, ON!Update(w) PROVE ReviewTypes'
    <2>1. onWork[w] # ON!Idle /\ onWork' = [onWork EXCEPT ![w] = ON!Idle] /\ onCalls' = onCalls
      BY <1>3 DEF ON!Update, ON!Idle
    <2>2. ON!Noted(onWork[w])
      BY <1>3 DEF ON!Update
    <2> QED
      BY <2>1, <2>2, EndedCounted
  <1>4. ASSUME NEW w \in Reviewers, ON!Compare(w) PROVE ReviewTypes'
    <2>1. onWork[w].pc = "saving" /\ UNCHANGED <<version, lost, approved, named, onCalls>>
      BY <1>4 DEF ON!Compare
    <2>2. PICK new : new.pc = "updating" /\ onWork' = [onWork EXCEPT ![w] = new]
      BY <1>4 DEF ON!Compare
    <2>3. InReview' = InReview
      BY <2>1, <2>2 DEF InReview, ON!Idle, ON!StandsInv
    <2> QED
      BY <2>1, <2>3 DEF ReviewTypes
  <1>5. CASE UNCHANGED ON!vars
    BY <1>5 DEF ON!vars, ReviewTypes, InReview
  <1> QED
    BY <1>1, <1>2, <1>3, <1>4, <1>5 DEF ON!Next

LEMMA ReviewTypesBegin == ASSUME OnMaxCalls \in Nat, ON!Init PROVE ReviewTypes
  <1>1. InReview = {}
    BY DEF ON!Init, InReview
  <1> QED
    BY <1>1, FS_EmptySet DEF ON!Init, ReviewTypes

LEMMA ReviewsTyped ==
    ASSUME OnMaxCalls \in Nat, ON!StandsInv, ReviewTypes PROVE ON!TypeOK
  <1>1. \A w \in Reviewers : onWork[w].pc \in {"idle", "saving", "updating"}
                             /\ (onWork[w].pc # "idle" => onWork[w].copy \in ON!Row)
    <2> SUFFICES ASSUME NEW w \in Reviewers
                 PROVE  /\ onWork[w].pc \in {"idle", "saving", "updating"}
                        /\ onWork[w].pc # "idle" => onWork[w].copy \in ON!Row
      OBVIOUS
    <2>1. Stands(w)
      BY DEF ON!StandsInv, Stands
    <2>2. ON!Pending(w) => onWork[w].copy \in ON!Row
      BY DEF ON!Pending
    <2> QED
      BY <2>1, <2>2 DEF Stands, ON!Idle
  <1>2. lost \in 0 .. OnMaxCalls * OnMaxCalls
    <2>1. Cardinality(InReview) \in Nat /\ version \in Nat /\ lost \in Nat
      BY FS_CardinalityType DEF ReviewTypes, ON!StandsInv
    <2>2. version <= OnMaxCalls
      BY <2>1 DEF ReviewTypes
    <2>3. version * OnMaxCalls <= OnMaxCalls * OnMaxCalls
      BY <2>1, <2>2
    <2> QED
      BY <2>1, <2>3 DEF ReviewTypes
  <1> QED
    BY <1>1, <1>2 DEF ON!TypeOK, ON!StandsInv, ReviewTypes

-----------------------------------------------------------------------------


LEMMA SameSize == \A S : PC!Cardinality(S) = Cardinality(S)
  BY DEF PC!Cardinality, Cardinality, PC!IsFiniteSet, IsFiniteSet

(* A connection is with the pool or with a creation.                       *)
PoolShared == free = PoolSize - Cardinality(PC!Holding)

LEMMA HoldingCounted ==
    /\ IsFiniteSet(PC!Holding) /\ Cardinality(PC!Holding) \in Nat
    /\ IsFiniteSet(PC!Holding') /\ Cardinality(PC!Holding') \in Nat
  <1>1. PC!Holding \subseteq Creators /\ PC!Holding' \subseteq Creators
    BY DEF PC!Holding
  <1> QED
    BY <1>1, CreationAssumption, FS_Subset, FS_CardinalityType

LEMMA ReleasedPool ==
    ASSUME PC!CreationInv, PoolShared, NEW w \in Creators, PC!Busy(w), PC!Release(w)
    PROVE  PoolShared'
  <1>1. /\ free' = free + 1 /\ pcJob' = [pcJob EXCEPT ![w] = PC!Idle]
        /\ pcJob = [v \in Creators |-> pcJob[v]]
    BY DEF PC!Release, PC!CreationInv
  <1>2. PC!Holding' = PC!Holding \ {w} /\ w \in PC!Holding
    BY <1>1 DEF PC!Holding, PC!Busy, PC!At, PC!Idle
  <1>3. Cardinality(PC!Holding') = Cardinality(PC!Holding) - 1
    BY <1>2, HoldingCounted, FS_RemoveElement
  <1> QED
    BY <1>1, <1>3, HoldingCounted, CreationAssumption DEF PoolShared

LEMMA HeldPool ==
    ASSUME PoolShared, NEW w \in Creators, PC!Busy(w), PC!Busy(w)', free' = free,
           \A v \in Creators : v # w => pcJob'[v] = pcJob[v]
    PROVE  PoolShared'
  <1>1. PC!Holding' = PC!Holding
    BY DEF PC!Holding, PC!Busy, PC!At
  <1> QED
    BY <1>1 DEF PoolShared

LEMMA PoolKept ==
    ASSUME PC!CreationInv, PoolShared, [PC!Next]_(PC!vars)
    PROVE  PoolShared'
  <1>1. pcJob = [v \in Creators |-> pcJob[v]]
    BY DEF PC!CreationInv
  <1>2. ASSUME NEW w \in Creators, NEW dtos \in PC!Calls, PC!StartCreate(w, dtos) PROVE PoolShared'
    <2> DEFINE new == [pc |-> IF dtos[1].merchant THEN "merchant" ELSE "limits",
                       dtos |-> dtos, fees |-> <<>>]
    <2>1. free' = free - 1 /\ pcJob' = [pcJob EXCEPT ![w] = new] /\ ~PC!Busy(w)
      BY <1>2 DEF PC!StartCreate
    <2>2. new.pc \in {"merchant", "limits"}
      OBVIOUS
    <2> HIDE DEF new
    <2>3. PC!Holding' = PC!Holding \cup {w} /\ w \notin PC!Holding
      BY <1>1, <2>1, <2>2 DEF PC!Holding, PC!Busy, PC!At
    <2>4. Cardinality(PC!Holding') = Cardinality(PC!Holding) + 1
      BY <2>3, HoldingCounted, FS_AddElement
    <2> QED
      BY <2>1, <2>4, HoldingCounted, CreationAssumption DEF PoolShared
  <1>3. ASSUME NEW w \in Creators, PC!CheckMerchant(w) \/ PC!CheckLimits(w) \/ PC!CalculateFee(w)
        PROVE  PoolShared'
    <2>1. PC!Busy(w) /\ free' = free
      BY <1>3 DEF PC!CheckMerchant, PC!CheckLimits, PC!CalculateFee, PC!Query, PC!At, PC!Busy
    <2>2. pcJob[w] \in [pc : {"merchant", "limits", "fees", "inserting"}, dtos : PC!Calls,
                        fees : Seq(PC!Charge)]
      BY <2>1, CreationShape
    <2>3. pcJob'[w].pc \in {"limits", "fees", "inserting"}
          /\ \A v \in Creators : v # w => pcJob'[v] = pcJob[v]
      BY <1>1, <1>3, <2>2 DEF PC!CheckMerchant, PC!CheckLimits, PC!CalculateFee
    <2> QED
      BY <2>1, <2>3, HeldPool DEF PC!Busy, PC!At
  <1>4. ASSUME NEW w \in Creators, PC!Refuse(w) \/ PC!Insert(w) \/ PC!GiveUp(w) \/ PC!Fail(w)
        PROVE  PoolShared'
    <2>1. PC!Release(w)
      BY <1>4 DEF PC!Refuse, PC!Insert, PC!GiveUp, PC!Fail
    <2>2. PC!Busy(w)
      BY <1>4 DEF PC!Refuse, PC!Insert, PC!GiveUp, PC!Fail, PC!TimesOut, PC!Waits, PC!At, PC!Busy
    <2> QED
      BY <2>1, <2>2, ReleasedPool
  <1>5. ASSUME UNCHANGED <<free, pcJob>> PROVE PoolShared'
    BY <1>5 DEF PoolShared, PC!Holding, PC!Busy, PC!At
  <1>6. CASE PC!SetFees \/ UNCHANGED PC!vars
    BY <1>5, <1>6 DEF PC!SetFees, PC!vars
  <1> QED
    BY <1>2, <1>3, <1>4, <1>6 DEF PC!Next, PC!Step

LEMMA OverlapTyped == ASSUME overlapped \in BOOLEAN, [PC!Next]_(PC!vars) PROVE overlapped' \in BOOLEAN
  BY DEF PC!Next, PC!Step, PC!SetFees, PC!StartCreate, PC!CheckMerchant, PC!CheckLimits, PC!Refuse,
    PC!CalculateFee, PC!Insert, PC!GiveUp, PC!Fail, PC!vars

LEMMA PoolBegins == PC!Init => PoolShared
  <1> SUFFICES ASSUME PC!Init PROVE PoolShared
    OBVIOUS
  <1>1. PC!Holding = {} /\ free = PoolSize
    BY DEF PC!Init, PC!Holding, PC!Busy, PC!At, PC!Idle
  <1> QED
    BY <1>1, FS_EmptySet, CreationAssumption DEF PoolShared

LEMMA CreationsTyped == 
    ASSUME PC!CreationInv, PoolShared, overlapped \in BOOLEAN PROVE PC!TypeOK
  <1>1. ASSUME NEW w \in Creators, PC!Busy(w)
        PROVE  /\ pcJob[w].pc \in {"merchant", "limits", "fees", "inserting"}
               /\ \A i \in 1 .. Len(pcJob[w].dtos) : pcJob[w].dtos[i] \in PC!Dto
    BY <1>1, CreationShape, CallShape
  <1>2. \A w \in Creators : ~PC!Busy(w) => pcJob[w] = PC!Idle
    BY DEF PC!CreationInv, PC!JobOK, PC!Busy, PC!At
  <1>3. free = PoolSize - PC!Cardinality(PC!Holding)
    BY SameSize DEF PoolShared
  <1>4. \A i \in 1 .. Len(payments) : payments[i].amount \in PcAmounts
    <2> DEFINE R == [amount : PcAmounts, fee : Int, net : Int, legs : Seq(Int)]
    <2>1. payments \in Seq(R) /\ \A r \in R : r.amount \in PcAmounts
      BY DEF PC!CreationInv
    <2> HIDE DEF R
    <2> QED
      BY <2>1
  <1> QED
    BY <1>1, <1>2, <1>3, <1>4 DEF PC!TypeOK, PC!CreationInv

-----------------------------------------------------------------------------


(* The greatest of some of the first k numbers.                            *)
LEMMA Greatest ==
    ASSUME NEW k \in Nat, NEW s \in SUBSET (1 .. k), s # {}
    PROVE  MI!Max(s) \in s /\ MI!Max(s) \in 1 .. k /\ \A y \in s : y <= MI!Max(s)
  <1> DEFINE S == {d \in Nat : k - d \in s}
  <1>1. ASSUME NEW y \in s PROVE k - y \in S /\ y \in 1 .. k
    <2>1. y \in 1 .. k /\ k - (k - y) = y /\ k - y \in Nat
      OBVIOUS
    <2> QED
      BY <2>1
  <1>2. PICK m \in S : \A j \in S : m <= j
    <2>1. S \in SUBSET Nat /\ S # {}
      BY <1>1
    <2> HIDE DEF S
    <2> QED
      BY <2>1, Least
  <1>3. k - m \in s /\ m \in Nat
    BY <1>2
  <1>4. \A y \in s : k - m >= y
    BY <1>1, <1>2, <1>3
  <1>5. \E z \in s : \A y \in s : z >= y
    BY <1>3, <1>4
  <1>6. MI!Max(s) \in s /\ \A y \in s : MI!Max(s) >= y
    BY <1>5 DEF MI!Max
  <1> QED
    BY <1>1, <1>6

(* A fold of a step F, from left to right, exists ...                      *)
FoldOf(h, n, V, base, F) ==
    /\ h \in [SUBSET (1 .. n) -> V] /\ h[{}] = base
    /\ \A s \in SUBSET (1 .. n) : s # {} => h[s] = F[MI!Max(s)][h[s \ {MI!Max(s)}]]

LEMMA FoldExists ==
    ASSUME NEW n \in Nat, NEW V, NEW base \in V, NEW F \in [1 .. n -> [V -> V]]
    PROVE  \E h : FoldOf(h, n, V, base, F)
  <1> DEFINE S == {k \in Nat : k <= n => \E h : FoldOf(h, k, V, base, F)}
  <1>1. 0 \in S
    <2> DEFINE h == [s \in SUBSET (1 .. 0) |-> base]
    <2>1. \A s \in SUBSET (1 .. 0) : s = {}
      OBVIOUS
    <2>2. FoldOf(h, 0, V, base, F)
      BY <2>1 DEF FoldOf
    <2> QED
      BY <2>2
  <1>2. ASSUME NEW k \in S PROVE k + 1 \in S
    <2>1. SUFFICES ASSUME k + 1 <= n PROVE \E h : FoldOf(h, k + 1, V, base, F)
      OBVIOUS
    <2>2. PICK h : FoldOf(h, k, V, base, F)
      BY <2>1
    <2> DEFINE N == k + 1
               g == [s \in SUBSET (1 .. N) |-> IF N \in s THEN F[N][h[s \ {N}]] ELSE h[s]]
    <2>3. h \in [SUBSET (1 .. k) -> V] /\ h[{}] = base
      BY <2>2 DEF FoldOf
    <2>4. ASSUME NEW s \in SUBSET (1 .. N)
          PROVE  /\ N \in s => s \ {N} \in SUBSET (1 .. k) /\ MI!Max(s) = N
                 /\ N \notin s => s \in SUBSET (1 .. k)
      <3>1. \A x \in 1 .. N : x # N => x \in 1 .. k
        OBVIOUS
      <3>2. N \in s => MI!Max(s) \in 1 .. N /\ N <= MI!Max(s)
        BY Greatest
      <3>3. N \in s => MI!Max(s) = N
        BY <3>2
      <3> QED
        BY <3>1, <3>3
    <2>5. N \in 1 .. n
      BY <2>1
    <2> HIDE DEF N
    <2>6. g \in [SUBSET (1 .. N) -> V]
      <3>1. ASSUME NEW s \in SUBSET (1 .. N) PROVE (IF N \in s THEN F[N][h[s \ {N}]] ELSE h[s]) \in V
        BY <2>3, <2>4, <2>5
      <3> QED
        BY <3>1
    <2>7. g[{}] = base
      BY <2>3
    <2>8. ASSUME NEW s \in SUBSET (1 .. N), s # {} PROVE g[s] = F[MI!Max(s)][g[s \ {MI!Max(s)}]]
      <3>1. CASE N \in s
        BY <2>4, <3>1
      <3>2. CASE N \notin s
        <4>1. s \in SUBSET (1 .. k)
          BY <2>4, <3>2
        <4>2. s \ {MI!Max(s)} \in SUBSET (1 .. N) /\ N \notin s \ {MI!Max(s)}
          BY <3>2
        <4> QED
          BY <2>2, <2>8, <3>2, <4>1, <4>2 DEF FoldOf
      <3> QED
        BY <3>1, <3>2
    <2> HIDE DEF g
    <2> QED
      BY <2>6, <2>7, <2>8 DEF N, FoldOf
  <1>3. S = Nat
    <2>1. S \in SUBSET Nat
      OBVIOUS
    <2> HIDE DEF S
    <2> QED
      BY <1>1, <1>2, <2>1, Upto
  <1> QED
    BY <1>3

(* ... and stays where the steps stay.                                     *)
LEMMA FoldStays ==
    ASSUME NEW n \in Nat, NEW V, NEW f, f[{}] \in V,
           \A s \in SUBSET (1 .. n) : s # {} /\ f[s \ {MI!Max(s)}] \in V => f[s] \in V
    PROVE  f[1 .. n] \in V
  <1> DEFINE S == {k \in Nat : k <= n => f[1 .. k] \in V}
  <1>1. 0 \in S
    <2>1. 1 .. 0 = {}
      OBVIOUS
    <2> QED
      BY <2>1
  <1>2. ASSUME NEW k \in S PROVE k + 1 \in S
    <2>1. SUFFICES ASSUME k + 1 <= n PROVE f[1 .. (k + 1)] \in V
      OBVIOUS
    <2> DEFINE s == 1 .. (k + 1)
    <2>2. MI!Max(s) \in s /\ k + 1 <= MI!Max(s) /\ s \in SUBSET (1 .. n) /\ s # {}
      <3>1. s \in SUBSET (1 .. (k + 1)) /\ k + 1 \in s /\ k + 1 \in Nat
        OBVIOUS
      <3> HIDE DEF s
      <3>2. MI!Max(s) \in s /\ k + 1 <= MI!Max(s)
        BY <3>1, Greatest
      <3> QED
        BY <2>1, <3>1, <3>2 DEF s
    <2>3. MI!Max(s) = k + 1
      BY <2>2
    <2>4. s \ {k + 1} = 1 .. k
      OBVIOUS
    <2>5. f[1 .. k] \in V
      BY <2>1
    <2> QED
      BY <2>2, <2>3, <2>4, <2>5
  <1>3. S = Nat
    <2>1. S \in SUBSET Nat
      OBVIOUS
    <2> HIDE DEF S
    <2> QED
      BY <1>1, <1>2, <2>1, Upto
  <1>4. n \in S
    BY <1>3
  <1> QED
    BY <1>4

-----------------------------------------------------------------------------


(* The objects of a schema, and those a statement adds, are of the kinds   *)
(* there are.                                                              *)
Sorted(s) == \A o \in s : o.kind \in MI!Kinds
Fit(st) == Sorted(st.adds)

(* The statements of an up or a down.                                      *)
Entries(sts) == {sts[i] : i \in DOMAIN sts}
Script(sts) == sts \in Seq(Entries(sts)) /\ \A st \in Entries(sts) : Fit(st)

(* What statements can leave of a schema, and add to it.                   *)
Reach(s, sts) == SUBSET (s \cup UNION {st.adds : st \in Entries(sts)})

LEMMA Reached ==
    ASSUME NEW s, Sorted(s), NEW sts, Script(sts)
    PROVE  /\ \A t \in Reach(s, sts) : Sorted(t)
           /\ s \in Reach(s, sts) /\ {} \in Reach(s, sts)
           /\ \A t \in Reach(s, sts), st \in Entries(sts) : MI!Effect(t, st) \in Reach(s, sts)
  <1>1. ASSUME NEW t \in Reach(s, sts), NEW st \in Entries(sts) PROVE MI!Effect(t, st) \in Reach(s, sts)
    BY DEF Reach, MI!Effect
  <1>2. ASSUME NEW t \in Reach(s, sts), NEW o \in t PROVE o.kind \in MI!Kinds
    <2>1. o \in s \/ \E st \in Entries(sts) : o \in st.adds
      BY DEF Reach
    <2> QED
      BY <2>1 DEF Sorted, Script, Fit
  <1> QED
    BY <1>1, <1>2 DEF Sorted, Reach

LEMMA Entered ==
    ASSUME NEW sts, Script(sts)
    PROVE  /\ DOMAIN sts = 1 .. Len(sts) /\ Len(sts) \in Nat
           /\ \A i \in 1 .. Len(sts) : sts[i] \in Entries(sts)
  <1> DEFINE R == Entries(sts)
  <1>1. sts \in Seq(R)
    BY DEF Script
  <1> HIDE DEF R
  <1>2. DOMAIN sts = 1 .. Len(sts) /\ Len(sts) \in Nat
    BY <1>1
  <1> QED
    BY <1>2 DEF Entries

LEMMA LenientlyTyped ==
    ASSUME NEW s, Sorted(s), NEW sts, Script(sts)
    PROVE  Sorted(MI!ExecuteLeniently(s, sts))
  <1> DEFINE V == Reach(s, sts)
             Op(acc, st) == IF MI!Fails(acc, st) THEN acc ELSE MI!Effect(acc, st)
             F == [i \in 1 .. Len(sts) |-> [acc \in V |-> Op(acc, sts[i])]]
             D(h) == [x \in SUBSET DOMAIN sts |->
                        IF x = {} THEN s ELSE Op(h[x \ {MI!Max(x)}], sts[MI!Max(x)])]
             f == CHOOSE h : h = D(h)
  <1>1. MI!ExecuteLeniently(s, sts) = f[DOMAIN sts]
    BY DEF MI!ExecuteLeniently, MI!FoldLeft, MI!MapThenFoldSet
  <1>2. /\ DOMAIN sts = 1 .. Len(sts) /\ Len(sts) \in Nat
        /\ \A i \in 1 .. Len(sts) : sts[i] \in Entries(sts)
    BY Entered
  <1>3. ASSUME NEW acc \in V, NEW st \in Entries(sts) PROVE Op(acc, st) \in V
    BY <1>3, Reached
  <1>0. s \in V
    BY Reached
  <1> HIDE DEF Op, V
  <1>4. F \in [1 .. Len(sts) -> [V -> V]]
    BY <1>2, <1>3
  <1>5. \A i \in 1 .. Len(sts), acc \in V : F[i][acc] = Op(acc, sts[i])
    OBVIOUS
  <1> HIDE DEF F
  <1>6. ASSUME NEW x \in SUBSET (1 .. Len(sts)), x # {} PROVE MI!Max(x) \in 1 .. Len(sts)
    BY <1>2, <1>6, Greatest
  <1>7. \E h : h = D(h)
    <2>1. PICK h : FoldOf(h, Len(sts), V, s, F)
      BY <1>0, <1>2, <1>4, FoldExists
    <2>2. h \in [SUBSET (1 .. Len(sts)) -> V] /\ h[{}] = s
      BY <2>1 DEF FoldOf
    <2>3. ASSUME NEW x \in SUBSET (1 .. Len(sts)), x # {}
          PROVE  h[x] = Op(h[x \ {MI!Max(x)}], sts[MI!Max(x)])
      <3>1. x \ {MI!Max(x)} \in SUBSET (1 .. Len(sts))
        OBVIOUS
      <3>2. h[x \ {MI!Max(x)}] \in V
        BY <2>2, <3>1
      <3>3. h[x] = F[MI!Max(x)][h[x \ {MI!Max(x)}]]
        BY <2>1, <2>3 DEF FoldOf
      <3> QED
        BY <1>5, <1>6, <2>3, <3>2, <3>3
    <2>4. h = D(h)
      BY <1>2, <2>2, <2>3
    <2> QED
      BY <2>4
  <1>8. f = D(f)
    BY <1>7
  <1> HIDE DEF f
  <1>9. f[{}] \in V
    BY <1>0, <1>2, <1>8
  <1>10. ASSUME NEW x \in SUBSET (1 .. Len(sts)), x # {}, f[x \ {MI!Max(x)}] \in V
         PROVE  f[x] \in V
    <2>1. f[x] = Op(f[x \ {MI!Max(x)}], sts[MI!Max(x)])
      BY <1>2, <1>8, <1>10
    <2> QED
      BY <1>2, <1>3, <1>6, <1>10, <2>1
  <1>11. f[1 .. Len(sts)] \in V
    BY <1>2, <1>9, <1>10, FoldStays
  <1>12. \A t \in V : Sorted(t)
    BY Reached DEF V
  <1> QED
    BY <1>1, <1>2, <1>11, <1>12

LEMMA ExecuteTyped ==
    ASSUME NEW s, Sorted(s), NEW sts, Script(sts)
    PROVE  Sorted(MI!Execute(s, sts).schema)
  <1> DEFINE V == [failed : BOOLEAN, schema : Reach(s, sts)]
             Op(acc, st) == IF acc.failed \/ MI!Fails(acc.schema, st) THEN MI!Nothing
                            ELSE [failed |-> FALSE, schema |-> MI!Effect(acc.schema, st)]
             base == [failed |-> FALSE, schema |-> s]
             F == [i \in 1 .. Len(sts) |-> [acc \in V |-> Op(acc, sts[i])]]
             D(h) == [x \in SUBSET DOMAIN sts |->
                        IF x = {} THEN base ELSE Op(h[x \ {MI!Max(x)}], sts[MI!Max(x)])]
             f == CHOOSE h : h = D(h)
  <1>1. MI!Execute(s, sts) = f[DOMAIN sts]
    BY DEF MI!Execute, MI!FoldLeft, MI!MapThenFoldSet
  <1>2. /\ DOMAIN sts = 1 .. Len(sts) /\ Len(sts) \in Nat
        /\ \A i \in 1 .. Len(sts) : sts[i] \in Entries(sts)
    BY Entered
  <1>3. ASSUME NEW acc \in V, NEW st \in Entries(sts) PROVE Op(acc, st) \in V
    <2>1. acc.schema \in Reach(s, sts) /\ MI!Nothing \in V
      BY Reached DEF MI!Nothing
    <2>2. MI!Effect(acc.schema, st) \in Reach(s, sts)
      BY <2>1, Reached
    <2> QED
      BY <2>1, <2>2
  <1>0. base \in V
    BY Reached
  <1> HIDE DEF Op, V
  <1>4. F \in [1 .. Len(sts) -> [V -> V]]
    BY <1>2, <1>3
  <1>5. \A i \in 1 .. Len(sts), acc \in V : F[i][acc] = Op(acc, sts[i])
    OBVIOUS
  <1> HIDE DEF F
  <1>6. ASSUME NEW x \in SUBSET (1 .. Len(sts)), x # {} PROVE MI!Max(x) \in 1 .. Len(sts)
    BY <1>2, <1>6, Greatest
  <1> HIDE DEF base
  <1>7. \E h : h = D(h)
    <2>1. PICK h : FoldOf(h, Len(sts), V, base, F)
      BY <1>0, <1>2, <1>4, FoldExists
    <2>2. h \in [SUBSET (1 .. Len(sts)) -> V] /\ h[{}] = base
      BY <2>1 DEF FoldOf
    <2>3. ASSUME NEW x \in SUBSET (1 .. Len(sts)), x # {}
          PROVE  h[x] = Op(h[x \ {MI!Max(x)}], sts[MI!Max(x)])
      <3>1. x \ {MI!Max(x)} \in SUBSET (1 .. Len(sts))
        OBVIOUS
      <3>2. h[x \ {MI!Max(x)}] \in V
        BY <2>2, <3>1
      <3>3. h[x] = F[MI!Max(x)][h[x \ {MI!Max(x)}]]
        BY <2>1, <2>3 DEF FoldOf
      <3> QED
        BY <1>5, <1>6, <2>3, <3>2, <3>3
    <2>4. h = D(h)
      BY <1>2, <2>2, <2>3
    <2> QED
      BY <2>4
  <1>8. f = D(f)
    BY <1>7
  <1> HIDE DEF f
  <1>9. f[{}] \in V
    BY <1>0, <1>2, <1>8
  <1>10. ASSUME NEW x \in SUBSET (1 .. Len(sts)), x # {}, f[x \ {MI!Max(x)}] \in V
         PROVE  f[x] \in V
    <2>1. f[x] = Op(f[x \ {MI!Max(x)}], sts[MI!Max(x)])
      BY <1>2, <1>8, <1>10
    <2> QED
      BY <1>2, <1>3, <1>6, <1>10, <2>1
  <1>11. f[1 .. Len(sts)] \in V
    BY <1>2, <1>9, <1>10, FoldStays
  <1>12. \A t \in V : Sorted(t.schema)
    BY Reached DEF V
  <1> QED
    BY <1>1, <1>2, <1>11, <1>12

(* What is made of fitting statements is a script.                         *)
LEMMA Rescript ==
    ASSUME NEW R, \A st \in R : Fit(st), NEW sts \in Seq(R)
    PROVE  Script(sts)
  <1>1. Entries(sts) \subseteq R
    BY DEF Entries
  <1>2. sts \in Seq(Entries(sts))
    <2>1. Len(sts) \in Nat /\ DOMAIN sts = 1 .. Len(sts)
      OBVIOUS
    <2>2. \A i \in 1 .. Len(sts) : sts[i] \in Entries(sts)
      BY <2>1 DEF Entries
    <2>3. sts = [i \in 1 .. Len(sts) |-> sts[i]]
      BY <2>1
    <2> QED
      BY <2>1, <2>2, <2>3
  <1> QED
    BY <1>1, <1>2 DEF Script

(* Sequences, one after the other.                                         *)
LEMMA FlattenTyped ==
    ASSUME NEW R, NEW ss \in Seq(Seq(R))
    PROVE  MI!FlattenSeq(ss) \in Seq(R)
  <1> DEFINE D(k, h) == [i \in 1 .. k |-> IF i = 1 THEN ss[i] ELSE h[i - 1] \o ss[i]]
             f == CHOOSE h : h = D(Len(ss), h)
             P(k) == \E h : h = D(k, h) /\ \A i \in 1 .. k : h[i] \in Seq(R)
             S == {k \in Nat : k <= Len(ss) => P(k)}
  <1>1. Len(ss) \in Nat /\ \A i \in 1 .. Len(ss) : ss[i] \in Seq(R)
    OBVIOUS
  <1>2. CASE Len(ss) = 0
    <2>1. MI!FlattenSeq(ss) = ss /\ ss = <<>>
      BY <1>2 DEF MI!FlattenSeq
    <2> QED
      BY <2>1
  <1>3. CASE Len(ss) # 0
    <2>1. MI!FlattenSeq(ss) = f[Len(ss)]
      BY <1>3 DEF MI!FlattenSeq
    <2>2. 0 \in S
      <3> DEFINE h == [i \in 1 .. 0 |-> <<>>]
      <3>1. h = D(0, h) /\ \A i \in 1 .. 0 : h[i] \in Seq(R)
        OBVIOUS
      <3>2. P(0)
        <4> HIDE DEF h, D
        <4> QED
          BY <3>1
      <3> HIDE DEF P
      <3> QED
        BY <3>2
    <2>3. ASSUME NEW k \in S PROVE k + 1 \in S
      <3>0. /\ k \in Nat /\ k + 1 \in Nat
            /\ k + 1 <= Len(ss) => P(k)
            /\ (k + 1 <= Len(ss) => P(k + 1)) => k + 1 \in S
        <4> HIDE DEF P
        <4> QED
          BY <1>1
      <3>1. SUFFICES ASSUME k + 1 <= Len(ss) PROVE P(k + 1)
        <4> HIDE DEF P, S
        <4> QED
          BY <3>0
      <3>2. PICK h : h = D(k, h) /\ \A i \in 1 .. k : h[i] \in Seq(R)
        <4>1. P(k)
          BY <3>0, <3>1
        <4> HIDE DEF D
        <4> QED
          BY <4>1
      <3> DEFINE g == [i \in 1 .. (k + 1) |->
                         IF i <= k THEN h[i] ELSE IF i = 1 THEN ss[i] ELSE h[k] \o ss[i]]
      <3>3. \A i \in 1 .. k : h[i] = IF i = 1 THEN ss[i] ELSE h[i - 1] \o ss[i]
        BY <3>2
      <3>4. \A i \in 1 .. (k + 1) : g[i] = IF i = 1 THEN ss[i] ELSE g[i - 1] \o ss[i]
        BY <3>3
      <3>5. g = D(k + 1, g)
        BY <3>4
      <3>6. ASSUME NEW i \in 1 .. (k + 1) PROVE g[i] \in Seq(R)
        <4>1. CASE i <= k
          BY <3>2, <4>1
        <4>2. CASE i = k + 1
          <5>1. ss[i] \in Seq(R)
            BY <1>1, <3>1, <4>2
          <5>2. k # 0 => h[k] \in Seq(R) /\ h[k] \o ss[i] \in Seq(R)
            BY <3>2, <5>1
          <5>3. g[i] = IF i = 1 THEN ss[i] ELSE h[k] \o ss[i]
            BY <4>2
          <5> HIDE DEF g
          <5> QED
            BY <4>2, <5>1, <5>2, <5>3
        <4> QED
          BY <4>1, <4>2
      <3> HIDE DEF g, D
      <3> QED
        BY <3>5, <3>6
    <2>4. S = Nat
      <3>1. S \in SUBSET Nat
        OBVIOUS
      <3> HIDE DEF S
      <3> QED
        BY <2>2, <2>3, <3>1, Upto
    <2>5. f = D(Len(ss), f)
      <3>1. \E h : h = D(Len(ss), h)
        <4>1. P(Len(ss))
          <5> HIDE DEF P
          <5> QED
            BY <1>1, <2>4
        <4> HIDE DEF D
        <4> QED
          BY <4>1
      <3> QED
        BY <3>1
    <2> HIDE DEF f
    <2>6. \A i \in 1 .. Len(ss) : f[i] = IF i = 1 THEN ss[i] ELSE f[i - 1] \o ss[i]
      BY <2>5
    <2> DEFINE Q == {k \in Nat : k + 1 <= Len(ss) => f[k + 1] \in Seq(R)}
    <2>7. 0 \in Q
      BY <1>1, <1>3, <2>6
    <2>8. ASSUME NEW k \in Q PROVE k + 1 \in Q
      <3>1. SUFFICES ASSUME (k + 1) + 1 <= Len(ss) PROVE f[(k + 1) + 1] \in Seq(R)
        OBVIOUS
      <3>2. f[k + 1] \in Seq(R)
        BY <1>1, <3>1
      <3>3. (k + 1) + 1 \in 1 .. Len(ss) /\ (k + 1) + 1 # 1 /\ ((k + 1) + 1) - 1 = k + 1
        BY <1>1, <3>1
      <3>4. f[(k + 1) + 1] = f[k + 1] \o ss[(k + 1) + 1]
        BY <2>6, <3>3
      <3> QED
        BY <1>1, <3>2, <3>3, <3>4
    <2>9. Q = Nat
      <3>1. Q \in SUBSET Nat
        OBVIOUS
      <3> HIDE DEF Q
      <3> QED
        BY <2>7, <2>8, <3>1, Upto
    <2>10. Len(ss) - 1 \in Nat /\ (Len(ss) - 1) + 1 = Len(ss)
      BY <1>1, <1>3
    <2>11. Len(ss) - 1 \in Q
      BY <2>9, <2>10
    <2>12. f[(Len(ss) - 1) + 1] \in Seq(R)
      BY <2>10, <2>11
    <2> HIDE DEF Q
    <2> QED
      BY <2>1, <2>10, <2>12
  <1> QED
    BY <1>2, <1>3

(* The statements the migrations are written with: what they add is of the *)
(* kinds there are, and a lenient one adds what the strict one adds.       *)
LEMMA StatementFits ==
    ASSUME NEW t, NEW name, NEW other, NEW names
    PROVE  /\ Fit(MI!CreateTable(t, names)) /\ Fit(MI!Lenient(MI!CreateTable(t, names)))
           /\ Fit(MI!AddColumns(t, names)) /\ Fit(MI!Lenient(MI!AddColumns(t, names)))
           /\ Fit(MI!AddIndex(t, name, names)) /\ Fit(MI!Lenient(MI!AddIndex(t, name, names)))
           /\ Fit(MI!AddUnique(t, name)) /\ Fit(MI!AddConstraint(t, name, other))
           /\ Fit(MI!AddType(name)) /\ Fit(MI!AddEnum(name))
           /\ Fit(MI!AddLabel(t, name)) /\ Fit(MI!Lenient(MI!AddLabel(t, name)))
           /\ Fit(MI!AddEnumLabel(t, name)) /\ Fit(MI!Lenient(MI!AddEnumLabel(t, name)))
           /\ Fit(MI!DropTable(t)) /\ Fit(MI!DropType(name)) /\ Fit(MI!Lenient(MI!DropType(name)))
           /\ Fit(MI!DropColumns(t, names)) /\ Fit(MI!Lenient(MI!DropColumns(t, names)))
           /\ Fit(MI!DropIndex(t, name)) /\ Fit(MI!Lenient(MI!DropIndex(t, name)))
           /\ Fit(MI!DropConstraint(t, name)) /\ Fit(MI!Lenient(MI!DropConstraint(t, name)))
           /\ Fit(MI!Require(t, name)) /\ Fit(MI!Allow(t, name))
           /\ Fit(MI!IndexByDecorator(t))
  <1>1. /\ Sorted({}) /\ Sorted({MI!Table(t)}) /\ Sorted(MI!Columns(t, names))
        /\ Sorted({MI!Table(t)} \cup MI!Columns(t, names))
        /\ Sorted({MI!Index(t, name)}) /\ Sorted({MI!Type(name)})
        /\ Sorted({MI!Object("constraint", t, name)}) /\ Sorted({MI!Object("label", t, name)})
        /\ Sorted({MI!Enum(name)}) /\ Sorted({MI!Object("required", t, name)})
    <2>1. ASSUME NEW kind \in MI!Kinds, NEW of, NEW n PROVE MI!Object(kind, of, n).kind \in MI!Kinds
      BY DEF MI!Object
    <2>2. \A o \in MI!Columns(t, names) : o.kind \in MI!Kinds
      BY <2>1 DEF MI!Columns, MI!Kinds
    <2>3. /\ MI!Table(t).kind \in MI!Kinds /\ MI!Index(t, name).kind \in MI!Kinds
          /\ MI!Type(name).kind \in MI!Kinds
      BY <2>1 DEF MI!Table, MI!Index, MI!Type, MI!Kinds
    <2>5. MI!Enum(name).kind \in MI!Kinds
      BY <2>1 DEF MI!Enum, MI!Kinds
    <2>4. {"constraint", "label", "enum", "required"} \subseteq MI!Kinds
      BY DEF MI!Kinds
    <2> QED
      BY <2>1, <2>2, <2>3, <2>4, <2>5 DEF Sorted
  <1>2. ASSUME NEW needs, NEW adds, NEW drops, Sorted(adds)
        PROVE  Fit(MI!Statement(needs, adds, drops)) /\ Fit(MI!Lenient(MI!Statement(needs, adds, drops)))
    BY <1>2 DEF Fit, MI!Statement, MI!Lenient
  <1>3. ASSUME NEW st, Fit(st), NEW x PROVE Fit([st EXCEPT !.refuses = x])
    BY <1>3 DEF Fit
  <1> QED
    BY <1>1, <1>2, <1>3
    DEF MI!CreateTable, MI!AddColumns, MI!AddIndex, MI!AddUnique, MI!AddConstraint, MI!AddType,
        MI!AddLabel, MI!AddEnum, MI!AddEnumLabel, MI!DropTable, MI!DropColumns, MI!DropIndex,
        MI!DropConstraint, MI!DropType, MI!Require, MI!Allow, MI!IndexByDecorator

LEMMA UniqueFits ==
    ASSUME NEW t, NEW name, NEW names
    PROVE  /\ Fit(MI!AddUniqueIndex(t, name, names))
           /\ Fit(MI!Lenient(MI!AddUniqueIndex(t, name, names)))
           /\ Fit(MI!Fill(t, name))
  <1>1. ASSUME NEW st, Fit(st), NEW x
        PROVE  Fit([st EXCEPT !.refuses = x]) /\ Fit(MI!Lenient([st EXCEPT !.refuses = x]))
    BY <1>1 DEF Fit, MI!Lenient
  <1>2. Fit(MI!Fill(t, name))
    BY DEF Fit, Sorted, MI!Fill, MI!Lenient, MI!Statement
  <1> QED
    BY <1>1, <1>2, StatementFits DEF MI!AddUniqueIndex

LEMMA ReplaceFits ==
    ASSUME NEW t, NEW c, NEW old, NEW new
    PROVE  Fit(MI!ReplaceType(t, c, old, new))
  <1>1. MI!Enum(new).kind = "enum"
    BY DEF MI!Enum, MI!Object
  <1>2. Sorted({MI!Enum(new)})
    BY <1>1 DEF Sorted, MI!Kinds
  <1> QED
    BY <1>2 DEF Fit, MI!ReplaceType, MI!Statement

(* What up and down are made of.                                           *)
Written(m) == Script(m.up) /\ Script(m.down)

LEMMA AllWritten == \A i \in 1 .. Len(MI!All) : Written(MI!All[i])
  <1>1. Written(MI!CreateIdempotencyKeysTable)
    BY StatementFits DEF Written, Script, Entries, MI!CreateIdempotencyKeysTable
  <1>2. Written(MI!CreateRefundsTable)
    BY StatementFits DEF Written, Script, Entries, MI!CreateRefundsTable
  <1>3. Written(MI!CreatePasswordResetTokensTable)
    BY StatementFits DEF Written, Script, Entries, MI!CreatePasswordResetTokensTable
  <1>4. Written(MI!AddTwoFactorColumnsToUsers)
    BY StatementFits DEF Written, Script, Entries, MI!AddTwoFactorColumnsToUsers
  <1>5. Written(MI!AddAccountLockoutToUsers)
    BY StatementFits DEF Written, Script, Entries, MI!AddAccountLockoutToUsers
  <1>6. Written(MI!AddPaymentCancellation)
    BY StatementFits DEF Written, Script, Entries, MI!AddPaymentCancellation
  <1>7. Written(MI!AddIndexToRefreshTokens)
    BY StatementFits DEF Written, Script, Entries, MI!AddIndexToRefreshTokens
  <1>8. Written(MI!CreateWebhookDeliveriesTable)
    BY StatementFits DEF Written, Script, Entries, MI!CreateWebhookDeliveriesTable
  <1>9. Written(MI!AddNameToUsers)
    BY StatementFits DEF Written, Script, Entries, MI!AddNameToUsers
  <1>10. Written(MI!AddPaymentAndUserIndexes)
    BY StatementFits DEF Written, Script, Entries, MI!AddPaymentAndUserIndexes
  <1>11. Written(MI!AddMetadataToPayments)
    BY StatementFits DEF Written, Script, Entries, MI!AddMetadataToPayments
  <1>12. Written(MI!CreatePaymentLinksTable)
    BY StatementFits, UniqueFits DEF Written, Script, Entries, MI!CreatePaymentLinksTable
  <1>13. Written(MI!CreateSettlementsTable)
    BY StatementFits, UniqueFits DEF Written, Script, Entries, MI!CreateSettlementsTable
  <1>14. Written(MI!CreateWebhookEndpointsTable)
    BY StatementFits DEF Written, Script, Entries, MI!CreateWebhookEndpointsTable
  <1>15. Written(MI!CreateApiKeysTable)
    BY StatementFits DEF Written, Script, Entries, MI!CreateApiKeysTable
  <1>16. Written(MI!AddPaymentEmailFieldsAndEmailLog)
    BY StatementFits DEF Written, Script, Entries, MI!AddPaymentEmailFieldsAndEmailLog
  <1>17. Written(MI!CreateMerchantBrandingTable)
    BY StatementFits DEF Written, Script, Entries, MI!CreateMerchantBrandingTable
  <1>18. Written(MI!CreateMerchantSettingsTable)
    BY StatementFits DEF Written, Script, Entries, MI!CreateMerchantSettingsTable
  <1>19. Written(MI!AddDueDateAndRemindersToPayments)
    BY StatementFits DEF Written, Script, Entries, MI!AddDueDateAndRemindersToPayments
  <1>20. Written(MI!CreateInvoiceRemindersTable)
    BY StatementFits, UniqueFits DEF Written, Script, Entries, MI!CreateInvoiceRemindersTable
  <1>21. Written(MI!CreateCheckoutSessionsTable)
    BY StatementFits DEF Written, Script, Entries, MI!CreateCheckoutSessionsTable
  <1>22. Written(MI!CreatePaymentLinkEventsTable)
    BY StatementFits DEF Written, Script, Entries, MI!CreatePaymentLinkEventsTable
  <1>23. Written(MI!AddPaymentExpiry)
    BY StatementFits DEF Written, Script, Entries, MI!AddPaymentExpiry
  <1>24. Written(MI!CreateDisputesTable)
    BY StatementFits DEF Written, Script, Entries, MI!CreateDisputesTable
  <1>25. Written(MI!AddRateLimitColumnsToUsers)
    BY StatementFits DEF Written, Script, Entries, MI!AddRateLimitColumnsToUsers
  <1>26. Written(MI!CreatePaymentSplitsTable)
    BY StatementFits DEF Written, Script, Entries, MI!CreatePaymentSplitsTable
  <1>27. Written(MI!CreateMerchantGeoRestrictionsTable)
    BY StatementFits DEF Written, Script, Entries, MI!CreateMerchantGeoRestrictionsTable
  <1>28. Written(MI!AddInitiatedByToRefunds)
    BY StatementFits DEF Written, Script, Entries, MI!AddInitiatedByToRefunds
  <1>29. Written(MI!CreateStellarAssetsTable)
    BY StatementFits DEF Written, Script, Entries, MI!CreateStellarAssetsTable
  <1>30. Written(MI!AddReasonCodeToRefunds)
    BY StatementFits DEF Written, Script, Entries, MI!AddReasonCodeToRefunds
  <1>31. Written(MI!CreateRolesTable)
    BY StatementFits DEF Written, Script, Entries, MI!CreateRolesTable
  <1>32. Written(MI!AddRoleIdToUsers)
    BY StatementFits DEF Written, Script, Entries, MI!AddRoleIdToUsers
  <1>33. Written(MI!CreateReportSubscriptionsTable)
    BY StatementFits DEF Written, Script, Entries, MI!CreateReportSubscriptionsTable
  <1>34. Written(MI!CreateRecurringPaymentsTable)
    BY StatementFits DEF Written, Script, Entries, MI!CreateRecurringPaymentsTable
  <1>35. Written(MI!CreateApiKeyUsageTable)
    BY StatementFits DEF Written, Script, Entries, MI!CreateApiKeyUsageTable
  <1>36. Written(MI!CreateMerchantIpAllowlistsTable)
    BY StatementFits DEF Written, Script, Entries, MI!CreateMerchantIpAllowlistsTable
  <1>37. Written(MI!AddPaymentLinkIdToPayments)
    BY StatementFits DEF Written, Script, Entries, MI!AddPaymentLinkIdToPayments
  <1>38. Written(MI!CreateAuditLogsTable)
    BY StatementFits DEF Written, Script, Entries, MI!CreateAuditLogsTable
  <1>39. Written(MI!AddAllowedIpsToApiKeys)
    BY StatementFits DEF Written, Script, Entries, MI!AddAllowedIpsToApiKeys
  <1>40. Written(MI!AddCompositeUniqueIndexToMerchantSettlementConfigs)
    BY StatementFits, UniqueFits DEF Written, Script, Entries, MI!AddCompositeUniqueIndexToMerchantSettlementConfigs
  <1>41. Written(MI!AddInvoiceTokenToPayments)
    BY StatementFits, UniqueFits DEF Written, Script, Entries, MI!AddInvoiceTokenToPayments
  <1>42. Written(MI!NormalizeUserEmails)
    BY StatementFits DEF Written, Script, Entries, MI!NormalizeUserEmails
  <1>43. Written(MI!AddFlexibleAmountToPaymentLinks)
    BY StatementFits, UniqueFits DEF Written, Script, Entries, MI!AddFlexibleAmountToPaymentLinks
  <1>44. Written(MI!CreatePasswordHistoryTable)
    BY StatementFits DEF Written, Script, Entries, MI!CreatePasswordHistoryTable
  <1>45. Written(MI!AddGranularScopesToApiKeys)
    BY StatementFits, ReplaceFits DEF Written, Script, Entries, MI!AddGranularScopesToApiKeys
  <1>46. Written(MI!AddMaxCompletionsToPaymentLinks)
    BY StatementFits DEF Written, Script, Entries, MI!AddMaxCompletionsToPaymentLinks
  <1>47. Written(MI!AddRecurringPaymentNotificationFields)
    BY StatementFits DEF Written, Script, Entries, MI!AddRecurringPaymentNotificationFields
  <1>48. Written(MI!CreatePayoutDestinations)
    BY StatementFits, UniqueFits DEF Written, Script, Entries, MI!CreatePayoutDestinations
  <1>49. Written(MI!CreateEventsTable)
    BY StatementFits DEF Written, Script, Entries, MI!CreateEventsTable
  <1>50. Written(MI!AddWebhookEndpointFailureTracking)
    BY StatementFits DEF Written, Script, Entries, MI!AddWebhookEndpointFailureTracking
  <1>51. Written(MI!AddTransactionHashToSettlements)
    BY StatementFits DEF Written, Script, Entries, MI!AddTransactionHashToSettlements
  <1>52. Written(MI!AddCustomerIdToPayments)
    BY StatementFits DEF Written, Script, Entries, MI!AddCustomerIdToPayments
  <1>53. Written(MI!AddRecurringPaymentTrials)
    BY StatementFits DEF Written, Script, Entries, MI!AddRecurringPaymentTrials
  <1>54. Written(MI!AddRecurringPaymentCharges)
    BY StatementFits DEF Written, Script, Entries, MI!AddRecurringPaymentCharges
  <1>55. Written(MI!AddWebhookEventReplays)
    BY StatementFits DEF Written, Script, Entries, MI!AddWebhookEventReplays
  <1> QED
    BY <1>1, <1>2, <1>3, <1>4, <1>5, <1>6, <1>7, <1>8, <1>9, <1>10, <1>11, <1>12, <1>13,
       <1>14, <1>15, <1>16, <1>17, <1>18, <1>19, <1>20, <1>21, <1>22, <1>23, <1>24, <1>25,
       <1>26, <1>27, <1>28, <1>29, <1>30, <1>31, <1>32, <1>33, <1>34, <1>35, <1>36, <1>37,
       <1>38, <1>39, <1>40, <1>41, <1>42, <1>43, <1>44, <1>45, <1>46, <1>47, <1>48, <1>49,
       <1>50, <1>51, <1>52, <1>53, <1>54, <1>55 DEF MI!All

(* The migrations, executed and undone.                                    *)
LEMMA MigrationsKept ==
    ASSUME MI!TypeOK, [MI!Next]_(MI!vars)
    PROVE  MI!TypeOK'
  <1> DEFINE Commands == {"none", "migrated", "not migrated", "by hand", "reverted", "not reverted"}
  <1>1. /\ done \in 0 .. Len(MI!All) /\ Sorted(schema) /\ last \in Commands
        /\ Len(MI!All) \in Nat
    BY DEF MI!TypeOK, Sorted, MI!All
  <1>2. ASSUME done' \in 0 .. Len(MI!All), Sorted(schema'), last' \in Commands PROVE MI!TypeOK'
    BY <1>2 DEF MI!TypeOK, Sorted
  <1> HIDE DEF Commands
  <1>3. ASSUME NEW n \in 1 .. 2, MI!Migrate(n) PROVE MI!TypeOK'
    <2> DEFINE ups == [i \in 1 .. n |-> MI!All[done + i].up]
               R == UNION {Entries(MI!All[i].up) : i \in 1 .. Len(MI!All)}
               result == MI!Execute(schema, MI!FlattenSeq(ups))
    <2>1. done + n <= Len(MI!All)
      BY <1>3 DEF MI!Migrate
    <2>2. ASSUME NEW i \in 1 .. n PROVE MI!All[done + i].up \in Seq(R)
      <3>1. done + i \in 1 .. Len(MI!All)
        BY <1>1, <2>1
      <3>2. Script(MI!All[done + i].up)
        BY <3>1, AllWritten DEF Written
      <3>3. Entries(MI!All[done + i].up) \subseteq R
        BY <3>1
      <3> HIDE DEF R
      <3> QED
        BY <3>2, <3>3 DEF Script
    <2>3. \A st \in R : Fit(st)
      BY AllWritten DEF Written, Script
    <2> HIDE DEF R
    <2>4. ups \in Seq(Seq(R))
      BY <2>2
    <2> HIDE DEF ups
    <2>5. MI!FlattenSeq(ups) \in Seq(R)
      BY <2>4, FlattenTyped
    <2>6. Script(MI!FlattenSeq(ups))
      BY <2>3, <2>5, Rescript
    <2>7. Sorted(result.schema)
      BY <1>1, <2>6, ExecuteTyped
    <2>8. IF result.failed
          THEN schema' = schema /\ done' = done /\ last' = "not migrated"
          ELSE schema' = result.schema /\ done' = done + n /\ last' = "migrated"
      BY <1>3 DEF MI!Migrate, ups
    <2> HIDE DEF result
    <2>9. done + n \in 0 .. Len(MI!All)
      BY <1>1, <2>1
    <2> QED
      BY <1>1, <1>2, <2>7, <2>8, <2>9 DEF Commands
  <1>4. ASSUME MI!MigrateByHand PROVE MI!TypeOK'
    <2>1. /\ done < Len(MI!All) /\ done' = done + 1 /\ last' = "by hand"
          /\ schema' = MI!ExecuteLeniently(schema, MI!All[done + 1].up)
      BY <1>4 DEF MI!MigrateByHand
    <2>2. done + 1 \in 1 .. Len(MI!All)
      <3>1. done < Len(MI!All)
        BY <2>1
      <3> QED
        BY <1>1, <3>1
    <2>3. Script(MI!All[done + 1].up)
      BY <2>2, AllWritten DEF Written
    <2>4. Sorted(schema')
      BY <1>1, <2>1, <2>3, LenientlyTyped
    <2>5. done' = done + 1 /\ done + 1 \in 0 .. Len(MI!All)
      <3>1. done' = done + 1
        BY <2>1
      <3>2. done + 1 \in 0 .. Len(MI!All)
        BY <1>1, <2>2
      <3> QED
        BY <3>1, <3>2
    <2>6. last' \in Commands
      BY <2>1 DEF Commands
    <2> QED
      BY <1>2, <2>4, <2>5, <2>6
  <1>5. ASSUME MI!Revert PROVE MI!TypeOK'
    <2> DEFINE result == MI!Execute(schema, MI!All[done].down)
    <2>1. /\ done > 0
          /\ IF result.failed
             THEN schema' = schema /\ done' = done /\ last' = "not reverted"
             ELSE schema' = result.schema /\ done' = done - 1 /\ last' = "reverted"
      BY <1>5 DEF MI!Revert
    <2>2. done \in 1 .. Len(MI!All) /\ done - 1 \in 0 .. Len(MI!All)
      <3>1. done > 0
        BY <2>1
      <3> HIDE DEF result
      <3> QED
        BY <1>1, <3>1
    <2>3. Script(MI!All[done].down)
      BY <2>2, AllWritten DEF Written
    <2>4. Sorted(result.schema)
      BY <1>1, <2>3, ExecuteTyped
    <2> HIDE DEF result
    <2> QED
      BY <1>1, <1>2, <2>1, <2>2, <2>4 DEF Commands
  <1>6. ASSUME NEW kind \in MI!Kinds, NEW t, NEW name, MI!Insert(MI!Object(kind, t, name))
        PROVE  MI!TypeOK'
    <2>1. Sorted({MI!Object(kind, t, name)})
      BY DEF Sorted, MI!Object
    <2>2. schema' = schema \cup {MI!Object(kind, t, name)} /\ UNCHANGED <<done, last>>
      BY <1>6 DEF MI!Insert
    <2>3. Sorted(schema')
      BY <1>1, <2>1, <2>2 DEF Sorted
    <2> QED
      BY <1>1, <1>2, <2>2, <2>3
  <1>7. ASSUME MI!SecondCurrency \/ MI!FlexibleLink \/ MI!ScopelessKey PROVE MI!TypeOK'
    <2>1. "alike" \in MI!Kinds /\ "null" \in MI!Kinds
      BY DEF MI!Kinds
    <2> QED
      BY <1>6, <1>7, <2>1
      DEF MI!SecondCurrency, MI!FlexibleLink, MI!ScopelessKey, MI!Alike, MI!Null
  <1>8. CASE UNCHANGED MI!vars
    BY <1>1, <1>2, <1>8 DEF MI!vars
  <1> QED
    BY <1>3, <1>4, <1>5, <1>7, <1>8 DEF MI!Next

(* They begin with what no migration creates.                              *)
LEMMA MigrationsBegin == MI!Init => MI!TypeOK
  <1> SUFFICES ASSUME MI!Init PROVE MI!TypeOK
    OBVIOUS
  <1>1. ASSUME NEW t, NEW names PROVE \A o \in MI!Columns(t, names) : o.kind = "column"
    BY DEF MI!Columns, MI!Object
  <1>2. ASSUME NEW t PROVE MI!Table(t).kind = "table" /\ MI!Type(t).kind = "type"
    BY DEF MI!Table, MI!Type, MI!Object
  <1>3. \A o \in MI!Base : o.kind \in {"column", "table", "type"}
    BY <1>1, <1>2 DEF MI!Base
  <1>4. Len(MI!All) \in Nat
    BY DEF MI!All
  <1> QED
    BY <1>3, <1>4 DEF MI!Init, MI!TypeOK, MI!Kinds

-----------------------------------------------------------------------------
(* The types of the suite.                                                 *)

(* A step of the suite is one of the migrations, or leaves them alone.     *)
LEMMA MigrationsMove == [Next]_vars => [MI!Next]_(MI!vars)
  BY DEF Next, vars, coVars, pcVars, hsVars, liVars, reVars, onVars, miVars, MI!vars

(* Rows, jobs, copies and counters stay what they are declared to be: the  *)
(* pool has its connections back once nobody holds one, delays stay        *)
(* between the first and the last however many errors came, no statement   *)
(* of any migration makes an object of an unknown kind.                    *)
THEOREM TypesHold ==
    ASSUME MaxCuts \in Nat, OnMaxCalls \in Nat
    PROVE  Spec => []TypeOK
  <1> DEFINE Inv == /\ CO!TypeOK
                    /\ PC!CreationInv /\ PoolShared /\ overlapped \in BOOLEAN
                    /\ StreamInv /\ Delays
                    /\ LI!ListingInv /\ RE!ReportsInv
                    /\ ON!StandsInv /\ ReviewTypes
                    /\ MI!TypeOK
  <1>1. Init => Inv
    <2>1. SUFFICES ASSUME Init PROVE Inv
      OBVIOUS
    <2>2. overlapped \in BOOLEAN
      BY <2>1 DEF Init, PC!Init
    <2> QED
      BY <2>1, <2>2, InitTypes, CreationsBegin, PoolBegins, StreamBegins, DelaysBegin, ListingBegins,
         ReportsBegin, ReviewsBegin, ReviewTypesBegin, MigrationsBegin DEF Init
  <1>2. Inv /\ [Next]_vars => Inv'
    <2> SUFFICES ASSUME Inv, [Next]_vars PROVE Inv'
      OBVIOUS
    <2>1. CO!TypeOK'
      BY NextTypes, SessionsMove
    <2>2. PC!CreationInv' /\ PoolShared' /\ overlapped' \in BOOLEAN
      BY CreationKept, PoolKept, OverlapTyped, CreationsMove
    <2>3. StreamInv' /\ Delays'
      BY StreamKept, DelaysKept, StreamMoves
    <2>4. LI!ListingInv' /\ RE!ReportsInv'
      BY ListingKept, ReportsKept, ListingsMove, ReportsMove
    <2>5. ON!StandsInv' /\ ReviewTypes'
      BY StandsKept, ReviewTypesKept, ReviewsMove
    <2>6. MI!TypeOK'
      BY MigrationsKept, MigrationsMove
    <2> QED
      BY <2>1, <2>2, <2>3, <2>4, <2>5, <2>6
  <1>3. Inv => TypeOK
    <2> SUFFICES ASSUME Inv PROVE TypeOK
      OBVIOUS
    <2>1. PC!TypeOK
      BY CreationsTyped
    <2>2. HS!TypeOK
      BY DEF HS!TypeOK, StreamInv, Delays
    <2>3. LI!TypeOK
      <3>1. LI!Rows \subseteq Ids
        BY DEF LI!Rows
      <3> QED
        BY <3>1, ListingFields DEF LI!TypeOK, LI!ListingInv
    <2>4. RE!TypeOK
      BY DEF RE!ReportsInv
    <2>5. ON!TypeOK
      BY ReviewsTyped
    <2> QED
      BY <2>1, <2>2, <2>3, <2>4, <2>5 DEF TypeOK
  <1> QED
    BY <1>1, <1>2, <1>3, PTL DEF Spec
===========================================================================
