--------------------------- MODULE Disputes_proofs ---------------------------
(***************************************************************************)
(* What Disputes promises, for any number of disputes and handlers.        *)
(***************************************************************************)
EXTENDS Disputes, FiniteSetTheorems, TLAPS

Savings == [pc : {"saving"}, d : Disputes, notes : BOOLEAN, copy : DisputeStatus]
Announcings == [pc : {"announcing"}, d : Disputes, events : (SUBSET Events) \ {{}}]

(* What a job is, by its pc. *)
LEMMA JobShape ==
    ASSUME TypeOK, NEW w \in Workers
    PROVE  /\ At(w, "saving") => job[w] \in Savings /\ Exists(job[w].d)
           /\ At(w, "announcing") => job[w] \in Announcings /\ Exists(job[w].d)
  <1>1. job[w] \in Jobs
    BY DEF TypeOK
  <1>2. At(w, "saving") \/ At(w, "announcing") => Exists(job[w].d)
    BY DEF TypeOK
  <1> QED
    BY <1>1, <1>2 DEF Jobs, Idle, At, Savings, Announcings

(* A slot gets a new job, or none. *)
LEMMA JobsKept ==
    ASSUME TypeOK, NEW w \in Workers, NEW new \in Jobs, job' = [job EXCEPT ![w] = new]
    PROVE  /\ job' \in [Workers -> Jobs]
           /\ job'[w] = new
           /\ \A v \in Workers : v # w => job'[v] = job[v]
  BY DEF TypeOK

LEMMA TransitionsTyped ==
    \A s \in DisputeStatus : Transitions[s] \subseteq DisputeStatus
  BY DEF Transitions, DisputeStatus

LEMMA InitTypes == ASSUME MaxUpdates \in Nat, Init PROVE TypeOK
  <1>1. job \in [Workers -> Jobs]
    BY DEF Init, Jobs
  <1>2. \A w \in Workers : ~At(w, "saving") /\ ~At(w, "announcing")
    BY DEF Init, At, Idle
  <1>3. told \in [Disputes -> [Endings -> Nat]]
    BY DEF Init
  <1>4. status \in [Disputes -> DisputeStatus \cup {"none"}]
    BY DEF Init
  <1>5. updates \in 0..MaxUpdates
    BY DEF Init
  <1> QED
    BY <1>1, <1>2, <1>3, <1>4, <1>5, Zenon DEF Init, TypeOK, PaymentStatus

LEMMA OpenTypes ==
    ASSUME TypeOK, NEW w \in Workers, StartOpen(w) \/ Open(w)
    PROVE  TypeOK'
  <1>1. CASE StartOpen(w)
    <2> DEFINE new == [pc |-> "inserting"]
    <2>1. new \in Jobs
      BY DEF Jobs
    <2>2. job' = [job EXCEPT ![w] = new]
      BY <1>1 DEF StartOpen
    <2>3. /\ job' \in [Workers -> Jobs] /\ job'[w] = new
          /\ \A v \in Workers : v # w => job'[v] = job[v]
      BY <2>1, <2>2, JobsKept
    <2>4. \A v \in Workers : At(v, "saving")' \/ At(v, "announcing")' => Exists(job[v].d)'
      BY <1>1, <2>3 DEF StartOpen, TypeOK, At, Exists
    <2>5. overlap' \in BOOLEAN
      BY <1>1, Zenon DEF StartOpen, TypeOK
    <2> QED
      BY <1>1, <2>3, <2>4, <2>5 DEF StartOpen, TypeOK
  <1>2. CASE Open(w)
    <2> DEFINE d == NewDispute
               new == [pc |-> "announcing", d |-> d, events |-> {"dispute.opened"}]
    <2>1. d \in Disputes /\ ~Exists(d)
      <3>1. \E x \in Disputes : ~Exists(x)
        BY <1>2 DEF Open, Existing
      <3> QED
        BY <3>1 DEF NewDispute
    <2>2. job' = [job EXCEPT ![w] = new] /\ status' = [status EXCEPT ![d] = "open"]
      BY <1>2 DEF Open
    <2> HIDE DEF d
    <2>3. new \in Jobs
      BY <2>1 DEF Jobs, Events
    <2>4. /\ job' \in [Workers -> Jobs] /\ job'[w] = new
          /\ \A v \in Workers : v # w => job'[v] = job[v]
      BY <2>2, <2>3, JobsKept
    <2>5. status' \in [Disputes -> DisputeStatus \cup {"none"}]
      BY <2>2 DEF TypeOK, DisputeStatus
    <2>6. \A x \in Disputes : Exists(x) \/ x = d => status'[x] # "none"
      BY <2>1, <2>2 DEF TypeOK, Exists
    <2>7. \A v \in Workers : job'[v].pc \in {"saving", "announcing"} => status'[job'[v].d] # "none"
      <3> SUFFICES ASSUME NEW v \in Workers, job'[v].pc \in {"saving", "announcing"}
                   PROVE  status'[job'[v].d] # "none"
        OBVIOUS
      <3>1. CASE v = w
        BY <2>1, <2>4, <2>6, <3>1
      <3>2. CASE v # w
        BY <2>4, <2>6, <3>2, JobShape DEF At, Savings, Announcings
      <3> QED
        BY <3>1, <3>2
    <2>8. \A v \in Workers : At(v, "saving")' \/ At(v, "announcing")' => Exists(job[v].d)'
      BY <2>7 DEF At, Exists
    <2> QED
      BY <1>2, <2>4, <2>5, <2>8 DEF Open, TypeOK
  <1> QED
    BY <1>1, <1>2

LEMMA UpdateTypes ==
    ASSUME MaxUpdates \in Nat, TypeOK, NEW w \in Workers, NEW d \in Disputes, StartUpdate(w, d)
    PROVE  TypeOK'
  <1>1. status[d] \in DisputeStatus
    BY DEF StartUpdate, Exists, TypeOK
  <1>2. PICK x \in Transitions[status[d]] \cup {"same"} :
          job' = [job EXCEPT ![w] = [pc |-> "saving", d |-> d, notes |-> x = "same",
                                     copy |-> IF x = "same" THEN status[d] ELSE x]]
    BY DEF StartUpdate
  <1> DEFINE new == [pc |-> "saving", d |-> d, notes |-> x = "same",
                     copy |-> IF x = "same" THEN status[d] ELSE x]
  <1>3. (IF x = "same" THEN status[d] ELSE x) \in DisputeStatus
    BY <1>1, <1>2, TransitionsTyped
  <1>4. new \in Savings
    BY <1>3, Zenon DEF Savings
  <1>5. new \in Jobs
    BY <1>4, Zenon DEF Jobs, Savings
  <1>6. new.d = d
    OBVIOUS
  <1> HIDE DEF new
  <1>7. /\ job' \in [Workers -> Jobs] /\ job'[w] = new
        /\ \A v \in Workers : v # w => job'[v] = job[v]
    BY <1>2, <1>5, JobsKept DEF new
  <1>8. \A v \in Workers : At(v, "saving")' \/ At(v, "announcing")' => Exists(job[v].d)'
    BY <1>6, <1>7 DEF StartUpdate, TypeOK, At, Exists
  <1>9. updates' \in 0..MaxUpdates
    BY DEF StartUpdate, TypeOK
  <1> QED
    BY <1>7, <1>8, <1>9 DEF StartUpdate, TypeOK

LEMMA SaveTypes ==
    ASSUME TypeOK, NEW w \in Workers, SaveUpdate(w)
    PROVE  TypeOK'
  <1> DEFINE d == job[w].d
             told1 == [pc |-> "announcing", d |-> d, events |-> Announced(job[w].copy)]
             new == IF job[w].notes THEN Idle ELSE told1
  <1>1. job[w] \in Savings
    BY JobShape DEF SaveUpdate
  <1>2. d \in Disputes /\ job[w].copy \in DisputeStatus
    BY <1>1 DEF Savings
  <1>3. Announced(job[w].copy) \in (SUBSET Events) \ {{}}
    BY <1>2, Zenon DEF Announced, Events, DisputeStatus
  <1>4. told1 \in Jobs /\ Idle \in Jobs
    BY <1>2, <1>3 DEF Jobs
  <1>5. new \in Jobs
    BY <1>4
  <1>6. job' = [job EXCEPT ![w] = new] /\ status' = [status EXCEPT ![d] = job[w].copy]
    BY DEF SaveUpdate
  <1>7. new.pc = "announcing" => new.d = d
    BY DEF Idle
  <1>8. new.pc # "saving"
    BY DEF Idle
  <1> HIDE DEF new
  <1>9. /\ job' \in [Workers -> Jobs] /\ job'[w] = new
        /\ \A v \in Workers : v # w => job'[v] = job[v]
    BY <1>5, <1>6, JobsKept
  <1>10. /\ status' \in [Disputes -> DisputeStatus \cup {"none"}]
         /\ \A x \in Disputes : Exists(x) \/ x = d => status'[x] # "none"
    BY <1>2, <1>6 DEF TypeOK, Exists, DisputeStatus
  <1>11. \A v \in Workers : job'[v].pc \in {"saving", "announcing"} => status'[job'[v].d] # "none"
    <2> SUFFICES ASSUME NEW v \in Workers, job'[v].pc \in {"saving", "announcing"}
                 PROVE  status'[job'[v].d] # "none"
      OBVIOUS
    <2>1. CASE v = w
      BY <1>2, <1>7, <1>8, <1>9, <1>10, <2>1
    <2>2. CASE v # w
      BY <1>9, <1>10, <2>2, JobShape DEF At, Savings, Announcings
    <2> QED
      BY <2>1, <2>2
  <1>12. \A v \in Workers : At(v, "saving")' \/ At(v, "announcing")' => Exists(job[v].d)'
    BY <1>11 DEF At, Exists
  <1> QED
    BY <1>9, <1>10, <1>12 DEF SaveUpdate, TypeOK

(* What a step of Announce does, event by event. *)
LEMMA AnnounceStep ==
    ASSUME TypeOK, NEW w \in Workers, Announce(w)
    PROVE  \E d \in Disputes, e \in job[w].events :
             LET rest == job[w].events \ {e}
             IN  /\ d = job[w].d
                 /\ \/ e \in Endings /\ told' = [told EXCEPT ![d][e] = told[d][e] + 1]
                    \/ told' = told
                 /\ job' = [job EXCEPT ![w] = IF rest = {} THEN Idle
                                              ELSE [job[w] EXCEPT !.events = rest]]
  <1> DEFINE d == job[w].d
             e == IF "dispute.updated" \in job[w].events THEN "dispute.updated"
                  ELSE CHOOSE x \in job[w].events : TRUE
             rest == job[w].events \ {e}
  <1>1. job[w] \in Announcings
    BY JobShape DEF Announce
  <1>2. d \in Disputes /\ job[w].events # {}
    BY <1>1 DEF Announcings
  <1>3. e \in job[w].events
    BY <1>2
  <1>4. /\ \/ e \in Endings /\ told' = [told EXCEPT ![d][e] = told[d][e] + 1]
           \/ told' = told
        /\ job' = [job EXCEPT ![w] = IF rest = {} THEN Idle
                                     ELSE [job[w] EXCEPT !.events = rest]]
    BY DEF Announce
  <1> HIDE DEF e
  <1> QED
    BY <1>2, <1>3, <1>4

LEMMA AnnounceTypes ==
    ASSUME TypeOK, NEW w \in Workers, Announce(w)
    PROVE  TypeOK'
  <1>1. job[w] \in Announcings /\ Exists(job[w].d)
    BY JobShape DEF Announce
  <1>2. PICK d \in Disputes, e \in job[w].events :
             LET rest == job[w].events \ {e}
             IN  /\ d = job[w].d
                 /\ \/ e \in Endings /\ told' = [told EXCEPT ![d][e] = told[d][e] + 1]
                    \/ told' = told
                 /\ job' = [job EXCEPT ![w] = IF rest = {} THEN Idle
                                              ELSE [job[w] EXCEPT !.events = rest]]
    BY AnnounceStep
  <1> DEFINE rest == job[w].events \ {e}
             more == [job[w] EXCEPT !.events = rest]
             new == IF rest = {} THEN Idle ELSE more
  <1>3. rest # {} => more \in Announcings /\ more.d = d
    BY <1>1, <1>2 DEF Announcings
  <1>4. Idle \in Jobs /\ Announcings \subseteq Jobs
    BY DEF Jobs, Announcings
  <1>5. new \in Jobs
    BY <1>3, <1>4
  <1>6. new.pc \in {"saving", "announcing"} => new.d = d
    BY <1>3 DEF Idle
  <1>7. job' = [job EXCEPT ![w] = new]
    BY <1>2
  <1> HIDE DEF new
  <1>8. /\ job' \in [Workers -> Jobs] /\ job'[w] = new
        /\ \A v \in Workers : v # w => job'[v] = job[v]
    BY <1>5, <1>7, JobsKept
  <1>9. status' = status
    BY DEF Announce
  <1>10. \A v \in Workers : At(v, "saving")' \/ At(v, "announcing")' => Exists(job[v].d)'
    BY <1>1, <1>2, <1>6, <1>8, <1>9 DEF TypeOK, At, Exists
  <1>11. told' \in [Disputes -> [Endings -> Nat]]
    <2>1. CASE told' = told
      BY <2>1 DEF TypeOK
    <2>2. CASE e \in Endings /\ told' = [told EXCEPT ![d][e] = told[d][e] + 1]
      BY <2>2 DEF TypeOK
    <2> QED
      BY <1>2, <2>1, <2>2
  <1> QED
    BY <1>8, <1>9, <1>10, <1>11 DEF Announce, TypeOK

LEMMA NextTypes ==
    ASSUME MaxUpdates \in Nat, TypeOK, [Next]_vars
    PROVE  TypeOK'
  <1>1. CASE PaymentMoves
    <2>1. payment' \in PaymentStatus
      BY <1>1, Zenon DEF PaymentMoves, TypeOK, PaymentStatus
    <2> QED
      BY <1>1, <2>1 DEF PaymentMoves, TypeOK, At, Exists
  <1>2. ASSUME NEW w \in Workers, Cut(w) PROVE TypeOK'
    <2>1. Idle \in Jobs
      BY DEF Jobs
    <2>2. /\ job' \in [Workers -> Jobs] /\ job'[w] = Idle
          /\ \A v \in Workers : v # w => job'[v] = job[v]
      BY <1>2, <2>1, JobsKept DEF Cut, Finish
    <2>3. \A v \in Workers : At(v, "saving")' \/ At(v, "announcing")' => Exists(job[v].d)'
      BY <1>2, <2>2 DEF Cut, TypeOK, At, Exists, Idle
    <2> QED
      BY <1>2, <2>2, <2>3 DEF Cut, TypeOK
  <1>3. CASE UNCHANGED vars
    BY <1>3 DEF vars, TypeOK, At, Exists
  <1> QED
    BY <1>1, <1>2, <1>3, OpenTypes, UpdateTypes, SaveTypes, AnnounceTypes DEF Next

(* Every reachable state is well typed, and whoever saves or announces a   *)
(* dispute has one that is there (disputes.service.ts:30-150).             *)
THEOREM TypeCorrect == ASSUME MaxUpdates \in Nat PROVE Spec => []TypeOK
  <1>1. Init => TypeOK
    BY InitTypes
  <1>2. TypeOK /\ [Next]_vars => TypeOK'
    BY NextTypes
  <1> QED
    BY <1>1, <1>2, PTL DEF Spec

-----------------------------------------------------------------------------
(* One dispute and the endings the merchant hears of.                      *)

(* A slot does something that is not about the dispute's row, nor tells    *)
(* more of it than before. *)
LEMMA Untouched ==
    ASSUME TypeOK, NEW w \in Workers, NEW d \in Disputes, Orderly(d),
           \A v \in Workers : v # w => job'[v] = job[v],
           status'[d] = status[d], told'[d] = told[d],
           ~Updating(w, d)',
           \A e \in Endings : Telling(w, d, e)' => Telling(w, d, e)
    PROVE  Orderly(d)'
  <1>1. \A v \in Workers : Updating(v, d)' => v # w /\ Updating(v, d)
    BY DEF Updating, At
  <1>2. \A v \in Workers, e \in Endings : Telling(v, d, e)' => Telling(v, d, e)
    BY DEF Telling, At
  <1>3. UpdatesApart(d)'
    BY <1>1 DEF Orderly, UpdatesApart
  <1>4. ASSUME NEW e \in Endings PROVE ToldOnce(d, e)'
    <2>1. ToldOnce(d, e)
      BY DEF Orderly
    <2> QED
      BY <1>2, <2>1 DEF ToldOnce
  <1> QED
    BY <1>3, <1>4 DEF Orderly

(* Neither does a step that leaves the slots alone. *)
LEMMA Unmoved ==
    ASSUME NEW d \in Disputes, Orderly(d), UNCHANGED <<job, status, told>>
    PROVE  Orderly(d)'
  <1>1. \A v \in Workers : Updating(v, d)' <=> Updating(v, d)
    BY DEF Updating, At
  <1>2. \A v \in Workers, e \in Endings : Telling(v, d, e)' <=> Telling(v, d, e)
    BY DEF Telling, At
  <1>3. UpdatesApart(d)'
    BY <1>1 DEF Orderly, UpdatesApart
  <1>4. ASSUME NEW e \in Endings PROVE ToldOnce(d, e)'
    BY <1>2 DEF Orderly, ToldOnce
  <1> QED
    BY <1>3, <1>4 DEF Orderly

LEMMA OpenOrderly ==
    ASSUME TypeOK, NEW w \in Workers, StartOpen(w) \/ Open(w), NEW d \in Disputes, Orderly(d)
    PROVE  Orderly(d)'
  <1>1. CASE StartOpen(w)
    <2>1. /\ job'[w] = [pc |-> "inserting"]
          /\ \A v \in Workers : v # w => job'[v] = job[v]
      BY <1>1 DEF StartOpen, TypeOK
    <2>2. ~Updating(w, d)' /\ \A e \in Endings : ~Telling(w, d, e)'
      BY <2>1 DEF Updating, Telling, At
    <2>3. status'[d] = status[d] /\ told'[d] = told[d]
      BY <1>1 DEF StartOpen
    <2> QED
      BY <2>1, <2>2, <2>3, Untouched
  <1>2. CASE Open(w)
    <2> DEFINE n == NewDispute
    <2>1. n \in Disputes /\ ~Exists(n)
      <3>1. \E x \in Disputes : ~Exists(x)
        BY <1>2 DEF Open, Existing
      <3> QED
        BY <3>1 DEF NewDispute
    <2>2. /\ job' = [job EXCEPT ![w] = [pc |-> "announcing", d |-> n, events |-> {"dispute.opened"}]]
          /\ status' = [status EXCEPT ![n] = "open"] /\ told' = told
      BY <1>2 DEF Open
    <2> HIDE DEF n
    <2>3. /\ job'[w] = [pc |-> "announcing", d |-> n, events |-> {"dispute.opened"}]
          /\ \A v \in Workers : v # w => job'[v] = job[v]
      BY <2>2 DEF TypeOK
    <2>4. ~Updating(w, d)' /\ \A e \in Endings : ~Telling(w, d, e)'
      BY <2>3 DEF Updating, Telling, At, Endings
    <2>5. CASE d # n
      <3>1. status'[d] = status[d] /\ told'[d] = told[d]
        BY <2>2, <2>5 DEF TypeOK
      <3> QED
        BY <2>3, <2>4, <3>1, Untouched
    <2>6. CASE d = n
      <3>1. \A v \in Workers : ~Updating(v, d) /\ \A e \in Endings : ~Telling(v, d, e)
        BY <2>1, <2>6, JobShape DEF Updating, Telling
      <3>2. \A v \in Workers : ~Updating(v, d)' /\ \A e \in Endings : ~Telling(v, d, e)'
        BY <2>3, <2>4, <3>1 DEF Updating, Telling, At
      <3>3. UpdatesApart(d)'
        BY <3>2 DEF UpdatesApart
      <3>4. ASSUME NEW e \in Endings PROVE ToldOnce(d, e)'
        <4>1. ToldOnce(d, e)
          BY DEF Orderly
        <4>2. ~Ended(status[d], e)
          BY <2>1, <2>6 DEF Ended, Exists, Terminal
        <4>3. told'[d][e] = 0
          BY <2>2, <4>1, <4>2 DEF ToldOnce
        <4> QED
          BY <3>2, <4>3 DEF ToldOnce
      <3> QED
        BY <3>3, <3>4 DEF Orderly
    <2> QED
      BY <2>5, <2>6
  <1> QED
    BY <1>1, <1>2

LEMMA UpdateOrderly ==
    ASSUME TypeOK, NEW w \in Workers, NEW n \in Disputes, StartUpdate(w, n),
           NEW d \in Disputes \ shared', Orderly(d)
    PROVE  Orderly(d)'
  <1>1. PICK x \in Transitions[status[n]] \cup {"same"} :
          job' = [job EXCEPT ![w] = [pc |-> "saving", d |-> n, notes |-> x = "same",
                                     copy |-> IF x = "same" THEN status[n] ELSE x]]
    BY DEF StartUpdate
  <1> DEFINE new == [pc |-> "saving", d |-> n, notes |-> x = "same",
                     copy |-> IF x = "same" THEN status[n] ELSE x]
  <1>2. job'[w] = new /\ \A v \in Workers : v # w => job'[v] = job[v]
    BY <1>1 DEF TypeOK
  <1>3. /\ new.pc = "saving" /\ new.d = n
        /\ new.copy = IF x = "same" THEN status[n] ELSE x
    OBVIOUS
  <1>4. new.notes <=> x = "same"
    BY Zenon
  <1>5. \/ new.notes /\ new.copy = status[n]
        \/ ~new.notes /\ new.copy \in Transitions[status[n]]
    BY <1>1, <1>3, <1>4
  <1> HIDE DEF new
  <1>6. UNCHANGED <<status, told>>
    BY DEF StartUpdate
  <1>7. \A e \in Endings : ~Telling(w, d, e)'
    BY <1>2, <1>3 DEF Telling, At
  <1>8. CASE d # n
    <2>1. ~Updating(w, d)'
      BY <1>2, <1>3, <1>8 DEF Updating
    <2>2. status'[d] = status[d] /\ told'[d] = told[d]
      BY <1>6
    <2> QED
      BY <1>2, <1>7, <2>1, <2>2, Untouched
  <1>9. CASE d = n
    <2>1. \A v \in Workers : ~Updating(v, d)
      BY <1>9 DEF StartUpdate, Updating
    <2>2. \A v \in Workers : Updating(v, d)' => v = w
      BY <1>2, <2>1 DEF Updating, At
    <2>3. UpdatesApart(d)'
      BY <1>2, <1>5, <1>6, <1>9, <2>2 DEF UpdatesApart
    <2>4. \A v \in Workers, e \in Endings : Telling(v, d, e)' => Telling(v, d, e)
      BY <1>2, <1>7 DEF Telling, At
    <2>5. ASSUME NEW e \in Endings PROVE ToldOnce(d, e)'
      <3>1. ToldOnce(d, e)
        BY DEF Orderly
      <3> QED
        BY <1>6, <2>4, <3>1 DEF ToldOnce
    <2> QED
      BY <2>3, <2>5 DEF Orderly
  <1> QED
    BY <1>8, <1>9

(* A transition undoes no ending, and announces one that is new. *)
LEMMA TransitionEnds ==
    ASSUME NEW s \in DisputeStatus, NEW c \in Transitions[s], NEW e \in Endings
    PROVE  /\ Ended(s, e) => Ended(c, e)
           /\ e \in Announced(c) => ~Ended(s, e) /\ Ended(c, e)
  <1>1. CASE s = "open"
    BY <1>1 DEF Transitions, DisputeStatus, Ended, Announced, Terminal, Endings
  <1>2. CASE s = "under_review"
    BY <1>2 DEF Transitions, DisputeStatus, Ended, Announced, Terminal, Endings
  <1>3. CASE s = "resolved"
    BY <1>3 DEF Transitions, DisputeStatus, Ended, Announced, Terminal, Endings
  <1>4. CASE s = "closed"
    BY <1>4 DEF Transitions, DisputeStatus
  <1> QED
    BY <1>1, <1>2, <1>3, <1>4 DEF DisputeStatus

LEMMA SaveOrderly ==
    ASSUME TypeOK, NEW w \in Workers, SaveUpdate(w), NEW d \in Disputes, Orderly(d)
    PROVE  Orderly(d)'
  <1> DEFINE n == job[w].d
             c == job[w].copy
  <1>1. job[w] \in Savings /\ Exists(n) /\ At(w, "saving")
    BY JobShape DEF SaveUpdate
  <1>2. n \in Disputes /\ job[w].notes \in BOOLEAN
    BY <1>1 DEF Savings
  <1>3. /\ status' = [status EXCEPT ![n] = c] /\ told' = told
        /\ \A v \in Workers : v # w => job'[v] = job[v]
        /\ job'[w] = IF job[w].notes THEN Idle
                     ELSE [pc |-> "announcing", d |-> n, events |-> Announced(c)]
    BY DEF SaveUpdate, TypeOK
  <1>4. ~Updating(w, d)'
    BY <1>3 DEF Updating, At, Idle
  <1>5. \A e \in Endings : Telling(w, d, e)' => ~job[w].notes /\ d = n /\ e \in Announced(c)
    BY <1>3 DEF Telling, At, Idle
  <1>6. CASE d # n
    <2>1. status'[d] = status[d] /\ told'[d] = told[d]
      BY <1>3, <1>6 DEF TypeOK
    <2>2. \A e \in Endings : Telling(w, d, e)' => Telling(w, d, e)
      BY <1>5, <1>6
    <2> QED
      BY <1>3, <1>4, <2>1, <2>2, Untouched
  <1>7. CASE d = n
    <2>1. Updating(w, d)
      BY <1>1, <1>7 DEF Updating
    <2>2. UpdatesApart(d)
      BY DEF Orderly
    <2>3. CASE job[w].notes
      <3>1. status'[d] = status[d] /\ told'[d] = told[d]
        BY <1>2, <1>3, <1>7, <2>1, <2>2, <2>3 DEF UpdatesApart, TypeOK
      <3>2. \A e \in Endings : Telling(w, d, e)' => Telling(w, d, e)
        BY <1>5, <2>3
      <3> QED
        BY <1>3, <1>4, <3>1, <3>2, Untouched
    <2>4. CASE ~job[w].notes
      <3>1. c \in Transitions[status[d]]
        BY <2>1, <2>2, <2>4 DEF UpdatesApart
      <3>2. status[d] \in DisputeStatus
        BY <1>1, <1>7 DEF Exists, TypeOK
      <3>3. status'[d] = c
        BY <1>2, <1>3, <1>7 DEF TypeOK
      <3>4. \A v \in Workers : ~Updating(v, d)'
        <4>1. \A v \in Workers : v # w => ~Updating(v, d)
          BY <2>1, <2>2 DEF UpdatesApart
        <4> QED
          BY <1>3, <1>4, <4>1 DEF Updating, At
      <3>5. UpdatesApart(d)'
        BY <3>4 DEF UpdatesApart
      <3>6. ASSUME NEW e \in Endings PROVE ToldOnce(d, e)'
        <4>1. ToldOnce(d, e)
          BY DEF Orderly
        <4>2. /\ Ended(status[d], e) => Ended(c, e)
              /\ e \in Announced(c) => ~Ended(status[d], e) /\ Ended(c, e)
          BY <3>1, <3>2, TransitionEnds
        <4>3. \A v \in Workers : v # w => (Telling(v, d, e)' <=> Telling(v, d, e))
          BY <1>3 DEF Telling, At
        <4>4. Telling(w, d, e)' => e \in Announced(c)
          BY <1>5
        <4>5. CASE e \in Announced(c)
          <5>1. told[d][e] = 0 /\ \A v \in Workers : ~Telling(v, d, e)
            BY <4>1, <4>2, <4>5 DEF ToldOnce
          <5> QED
            BY <1>3, <3>3, <4>2, <4>3, <4>5, <5>1 DEF ToldOnce
        <4>6. CASE e \notin Announced(c)
          <5>1. \A v \in Workers : Telling(v, d, e)' => Telling(v, d, e)
            BY <4>3, <4>4, <4>6
          <5> QED
            BY <1>3, <3>3, <4>1, <4>2, <5>1 DEF ToldOnce
        <4> QED
          BY <4>5, <4>6
      <3> QED
        BY <3>5, <3>6 DEF Orderly
    <2> QED
      BY <2>3, <2>4
  <1> QED
    BY <1>6, <1>7

LEMMA AnnounceOrderly ==
    ASSUME TypeOK, NEW w \in Workers, Announce(w), NEW d \in Disputes, Orderly(d)
    PROVE  Orderly(d)'
  <1>1. job[w] \in Announcings /\ At(w, "announcing")
    BY JobShape DEF Announce
  <1>2. PICK n \in Disputes, x \in job[w].events :
             LET rest == job[w].events \ {x}
             IN  /\ n = job[w].d
                 /\ \/ x \in Endings /\ told' = [told EXCEPT ![n][x] = told[n][x] + 1]
                    \/ told' = told
                 /\ job' = [job EXCEPT ![w] = IF rest = {} THEN Idle
                                              ELSE [job[w] EXCEPT !.events = rest]]
    BY AnnounceStep
  <1> DEFINE rest == job[w].events \ {x}
             more == [job[w] EXCEPT !.events = rest]
  <1>3. more.pc = "announcing" /\ more.d = n /\ more.events = rest
    BY <1>1, <1>2 DEF Announcings
  <1>4. /\ job'[w] = IF rest = {} THEN Idle ELSE more
        /\ \A v \in Workers : v # w => job'[v] = job[v]
    BY <1>2 DEF TypeOK
  <1> HIDE DEF more
  <1>5. ~Updating(w, d)'
    BY <1>3, <1>4 DEF Updating, At, Idle
  <1>6. \A e \in Endings : Telling(w, d, e)' => d = n /\ e # x /\ e \in job[w].events
    BY <1>3, <1>4 DEF Telling, At, Idle
  <1>7. \A e \in Endings : Telling(w, d, e)' => Telling(w, d, e)
    BY <1>1, <1>2, <1>6 DEF Telling
  <1>8. status' = status
    BY DEF Announce
  <1>9. CASE told'[d] = told[d]
    BY <1>4, <1>5, <1>7, <1>8, <1>9, Untouched
  <1>10. CASE told'[d] # told[d]
    <2>1. x \in Endings /\ told' = [told EXCEPT ![n][x] = told[n][x] + 1]
      BY <1>2, <1>10
    <2>2. d = n
      BY <1>10, <2>1 DEF TypeOK
    <2>3. Telling(w, d, x)
      BY <1>1, <1>2, <2>2 DEF Telling
    <2>4. \A v \in Workers : Updating(v, d)' => v # w /\ Updating(v, d) /\ job'[v] = job[v]
      BY <1>4, <1>5 DEF Updating, At
    <2>5. UpdatesApart(d)'
      BY <1>8, <2>4 DEF Orderly, UpdatesApart
    <2>6. ASSUME NEW e \in Endings PROVE ToldOnce(d, e)'
      <3>1. ToldOnce(d, e)
        BY DEF Orderly
      <3>2. \A v \in Workers : v # w => (Telling(v, d, e)' <=> Telling(v, d, e))
        BY <1>4 DEF Telling, At
      <3>3. CASE e = x
        <4>1. told[d][e] = 0 /\ Ended(status[d], e)
          BY <2>3, <3>1, <3>3 DEF ToldOnce
        <4>2. told'[d][e] = 1
          BY <2>1, <2>2, <3>3, <4>1 DEF TypeOK
        <4>3. \A v \in Workers : ~Telling(v, d, e)'
          BY <1>6, <2>3, <3>1, <3>2, <3>3 DEF ToldOnce
        <4> QED
          BY <1>8, <4>1, <4>2, <4>3 DEF ToldOnce
      <3>4. CASE e # x
        <4>1. told'[d][e] = told[d][e]
          BY <2>1, <2>2, <3>4 DEF TypeOK
        <4>2. \A v \in Workers : Telling(v, d, e)' => Telling(v, d, e)
          BY <1>7, <3>2
        <4> QED
          BY <1>8, <3>1, <4>1, <4>2 DEF ToldOnce
      <3> QED
        BY <3>3, <3>4
    <2> QED
      BY <2>5, <2>6 DEF Orderly
  <1> QED
    BY <1>9, <1>10

LEMMA DisputeInvKept ==
    ASSUME TypeOK, DisputeInv, [Next]_vars
    PROVE  DisputeInv'
  <1> SUFFICES ASSUME NEW d \in Disputes \ shared' PROVE Orderly(d)'
    BY DEF DisputeInv
  <1>1. d \notin shared
    BY DEF Next, vars, PaymentMoves, StartUpdate, StartOpen, Open, SaveUpdate, Announce, Cut
  <1>2. Orderly(d)
    BY <1>1 DEF DisputeInv
  <1>3. CASE PaymentMoves \/ UNCHANGED vars
    <2>1. UNCHANGED <<job, status, told>>
      BY <1>3 DEF PaymentMoves, vars
    <2> QED
      BY <1>2, <2>1, Unmoved
  <1>4. ASSUME NEW w \in Workers, Cut(w) PROVE Orderly(d)'
    <2>1. job'[w] = Idle /\ \A v \in Workers : v # w => job'[v] = job[v]
      BY <1>4 DEF Cut, Finish, TypeOK
    <2>2. ~Updating(w, d)' /\ \A e \in Endings : ~Telling(w, d, e)'
      BY <2>1 DEF Updating, Telling, At, Idle
    <2>3. status'[d] = status[d] /\ told'[d] = told[d]
      BY <1>4 DEF Cut
    <2> QED
      BY <1>2, <2>1, <2>2, <2>3, Untouched
  <1> QED
    BY <1>2, <1>3, <1>4, UpdateOrderly, OpenOrderly, SaveOrderly, AnnounceOrderly DEF Next

-----------------------------------------------------------------------------
(* The first dispute of the payment.                                       *)

(* A dispute that ended stays ended, as no two updates held it. *)
LEMMA EndedStays ==
    ASSUME TypeOK, DisputeInv, shared = {}, [Next]_vars,
           NEW d \in Existing, status[d] \in Terminal
    PROVE  d \in Existing' /\ status'[d] \in Terminal
  <1>1. d \in Disputes /\ status[d] # "none"
    BY DEF Existing, Exists
  <1>2. UpdatesApart(d)
    BY <1>1 DEF DisputeInv, Orderly
  <1>3. ASSUME NEW w \in Workers, Open(w) PROVE status'[d] = status[d]
    <2>1. \E x \in Disputes : ~Exists(x)
      BY <1>3 DEF Open, Existing
    <2>2. NewDispute # d
      BY <1>1, <2>1 DEF NewDispute, Exists
    <2> QED
      BY <1>3, <2>2 DEF Open, TypeOK
  <1>4. ASSUME NEW w \in Workers, SaveUpdate(w) PROVE status'[d] \in Terminal
    <2>1. CASE job[w].d # d
      BY <1>4, <2>1 DEF SaveUpdate, TypeOK
    <2>2. CASE job[w].d = d
      <3>1. Updating(w, d)
        BY <1>4, <2>2 DEF SaveUpdate, Updating
      <3>2. job[w].copy = status[d] \/ job[w].copy \in Transitions[status[d]]
        BY <1>2, <3>1 DEF UpdatesApart
      <3>3. job[w].copy \in Terminal
        BY <3>2 DEF Terminal, Transitions, DisputeStatus
      <3> QED
        BY <1>1, <1>4, <2>2, <3>3 DEF SaveUpdate, TypeOK
    <2> QED
      BY <2>1, <2>2
  <1>5. status'[d] \in Terminal
    BY <1>3, <1>4 DEF Next, vars, PaymentMoves, StartUpdate, StartOpen, Announce, Cut
  <1> QED
    BY <1>1, <1>5 DEF Existing, Exists, Terminal

(* No dispute comes, and no slot sets out to open one. *)
LEMMA NoneOpened ==
    ASSUME OpenedAlone, Existing' = Existing,
           \A w \in Workers : At(w, "inserting")' => At(w, "inserting")
    PROVE  OpenedAlone'
  BY DEF OpenedAlone

LEMMA AloneKept ==
    ASSUME TypeOK, TypeOK', DisputeInv, AloneInv, [Next]_vars
    PROVE  AloneInv'
  <1> SUFFICES ASSUME ~overlap', shared' = {} PROVE AloneInv'
    BY DEF AloneInv
  <1>0. overlap => overlap'
    BY Zenon DEF Next, vars, PaymentMoves, StartUpdate, StartOpen, Open, SaveUpdate, Announce, Cut
  <1>1. ~overlap /\ shared = {}
    <2>1. shared \subseteq shared'
      BY DEF Next, vars, PaymentMoves, StartUpdate, StartOpen, Open, SaveUpdate, Announce, Cut
    <2> QED
      BY <1>0, <2>1, Zenon
  <1>2. CASE \E d \in Existing : status[d] \in Terminal
    BY <1>1, <1>2, EndedStays DEF AloneInv
  <1>3. CASE (~\E d \in Existing : status[d] \in Terminal) /\ OpenedAlone
    <2>1. ASSUME NEW w \in Workers, StartOpen(w) PROVE OpenedAlone'
      <3>1. Existing = {} /\ ~Others(w, "inserting")
        BY <1>3, <2>1 DEF StartOpen, NoneFoundActive, ActiveStatus
      <3>2. Existing' = {}
        BY <2>1, <3>1 DEF StartOpen, Existing, Exists
      <3>3. \A v \in Workers : At(v, "inserting")' => v = w
        BY <2>1, <3>1 DEF StartOpen, Others, At, TypeOK
      <3> QED
        BY <3>2, <3>3 DEF OpenedAlone
    <2>2. ASSUME NEW w \in Workers, Open(w) PROVE OpenedAlone'
      <3>1. Existing = {} /\ \A v \in Workers : v # w => ~At(v, "inserting")
        BY <1>3, <2>2 DEF Open, OpenedAlone
      <3>2. \A x \in Existing' : x = NewDispute
        BY <2>2, <3>1 DEF Open, Existing, Exists, TypeOK
      <3>3. \A v \in Workers : ~At(v, "inserting")'
        BY <2>2, <3>1 DEF Open, At, TypeOK
      <3> QED
        BY <3>2, <3>3 DEF OpenedAlone
    <2>3. ASSUME NEW w \in Workers, SaveUpdate(w) PROVE OpenedAlone'
      <3>1. job[w] \in Savings /\ Exists(job[w].d)
        BY <2>3, JobShape DEF SaveUpdate
      <3>2. job[w].copy # "none"
        BY <3>1 DEF Savings, DisputeStatus
      <3>3. Existing' = Existing
        BY <2>3, <3>1, <3>2 DEF SaveUpdate, Existing, Exists, TypeOK
      <3>4. \A v \in Workers : At(v, "inserting")' => At(v, "inserting")
        BY <2>3 DEF SaveUpdate, At, Idle, TypeOK
      <3> QED
        BY <1>3, <3>3, <3>4, NoneOpened
    <2>4. ASSUME NEW w \in Workers, Announce(w) PROVE OpenedAlone'
      <3>1. Existing' = Existing
        BY <2>4 DEF Announce, Existing, Exists
      <3>2. \A v \in Workers : At(v, "inserting")' => At(v, "inserting")
        <4>1. job[w] \in Announcings
          BY <2>4, JobShape DEF Announce
        <4>2. \A r : [job[w] EXCEPT !.events = r].pc = "announcing"
          BY <4>1 DEF Announcings
        <4>3. job'[w].pc # "inserting" /\ \A v \in Workers : v # w => job'[v] = job[v]
          BY <2>4, <4>2 DEF Announce, Idle, TypeOK
        <4> QED
          BY <4>3 DEF At
      <3> QED
        BY <1>3, <3>1, <3>2, NoneOpened
    <2>5. ASSUME NEW w \in Workers, Cut(w) \/ \E d \in Disputes : StartUpdate(w, d)
          PROVE  OpenedAlone'
      <3>1. Existing' = Existing
        BY <2>5 DEF Cut, StartUpdate, Existing, Exists
      <3>2. \A v \in Workers : At(v, "inserting")' => At(v, "inserting")
        BY <2>5 DEF Cut, Finish, StartUpdate, At, Idle, TypeOK
      <3> QED
        BY <1>3, <3>1, <3>2, NoneOpened
    <2>6. ASSUME PaymentMoves \/ UNCHANGED vars PROVE OpenedAlone'
      <3>1. UNCHANGED <<status, job>>
        BY <2>6 DEF PaymentMoves, vars
      <3>2. Existing' = Existing /\ \A v \in Workers : At(v, "inserting")' => At(v, "inserting")
        BY <3>1 DEF Existing, Exists, At
      <3> QED
        BY <1>3, <3>2, NoneOpened
    <2> QED
      BY <2>1, <2>2, <2>3, <2>4, <2>5, <2>6 DEF Next, AloneInv
  <1> QED
    BY <1>1, <1>2, <1>3 DEF AloneInv

-----------------------------------------------------------------------------
LEMMA InitDisputes == ASSUME Init PROVE DisputeInv /\ AloneInv
  <1>1. \A w \in Workers : ~At(w, "saving") /\ ~At(w, "announcing") /\ ~At(w, "inserting")
    BY DEF Init, At, Idle
  <1>2. DisputeInv
    BY <1>1 DEF Init, DisputeInv, Orderly, UpdatesApart, ToldOnce, Updating, Telling
  <1>3. Existing = {}
    BY DEF Init, Existing, Exists
  <1> QED
    BY <1>1, <1>2, <1>3 DEF AloneInv, OpenedAlone

LEMMA ToldAtMostOnce == ASSUME TypeOK, DisputeInv PROVE EndsOnce
  <1> SUFFICES ASSUME NEW d \in Disputes \ shared
               PROVE  /\ told[d]["dispute.closed"] <= 1 /\ told[d]["dispute.resolved"] <= 1
                      /\ told[d]["dispute.closed"] = 1 => status[d] = "closed"
                      /\ told[d]["dispute.resolved"] = 1 => status[d] \in Terminal
    BY DEF EndsOnce
  <1>1. \A e \in Endings : told[d][e] \in {0, 1} /\ (told[d][e] = 1 => Ended(status[d], e))
    BY DEF DisputeInv, Orderly, ToldOnce
  <1>2. told[d]["dispute.closed"] \in {0, 1} /\ told[d]["dispute.resolved"] \in {0, 1}
    BY <1>1 DEF Endings
  <1>3. /\ told[d]["dispute.closed"] = 1 => Ended(status[d], "dispute.closed")
        /\ told[d]["dispute.resolved"] = 1 => Ended(status[d], "dispute.resolved")
    BY <1>1 DEF Endings
  <1> QED
    BY <1>2, <1>3 DEF Ended

LEMMA FirstIsAlone == ASSUME AloneInv PROVE FirstDisputeAlone
  <1>1. CASE OpenedAlone
    <2>1. Existing = {} \/ \E d \in Existing : Existing = {d}
      BY <1>1 DEF OpenedAlone
    <2>2. CASE Existing = {}
      <3>1. Cardinality(Existing) = 0
        BY <2>2, FS_EmptySet
      <3> QED
        BY <3>1 DEF FirstDisputeAlone
    <2>3. CASE \E d \in Existing : Existing = {d}
      <3>1. PICK d \in Existing : Existing = {d}
        BY <2>3
      <3>2. Cardinality({d}) = 1
        BY FS_Singleton
      <3>3. Cardinality(Existing) = 1
        BY <3>1, <3>2
      <3> QED
        BY <3>3 DEF FirstDisputeAlone
    <2> QED
      BY <2>1, <2>2, <2>3
  <1> QED
    BY <1>1 DEF AloneInv, FirstDisputeAlone

(* The merchant hears once of each ending of a dispute, and the first      *)
(* dispute of a payment is its only one until it ends, unless two updates  *)
(* held a dispute or two were opened at once, for any number of disputes,  *)
(* updates and handlers (disputes.service.ts:30-150).                      *)
THEOREM EndingsToldOnce == ASSUME MaxUpdates \in Nat PROVE Spec => []DisputesEndOnce
  <1>1. Init => TypeOK /\ DisputeInv /\ AloneInv
    BY InitTypes, InitDisputes
  <1>2. TypeOK /\ DisputeInv /\ AloneInv /\ [Next]_vars => TypeOK' /\ DisputeInv' /\ AloneInv'
    BY NextTypes, DisputeInvKept, AloneKept
  <1>3. TypeOK /\ DisputeInv /\ AloneInv => DisputesEndOnce
    BY ToldAtMostOnce, FirstIsAlone DEF DisputesEndOnce
  <1> QED
    BY <1>1, <1>2, <1>3, PTL DEF Spec
=============================================================================
