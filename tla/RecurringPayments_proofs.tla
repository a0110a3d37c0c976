---------------------- MODULE RecurringPayments_proofs ----------------------
(***************************************************************************)
(* Proofs about RecurringPayments, for any number of plans and of slots,   *)
(* every schedule and every bound.  A job's record changes in one slot per *)
(* step: the first part says how, once per action, and the invariants are  *)
(* proved from that.                                                       *)
(***************************************************************************)
EXTENDS RecurringPayments, FiniteSetTheorems, TLAPS

----------------------------------------------------------------------------
(* What the actions do to the record of the job that takes the step.       *)

Others(w) == DOMAIN job' = Workers /\ \A v \in Workers \ {w} : job'[v] = job[v]

Turns(w, pc, p, copy, existing, charge, cols) ==
    job'[w] = [pc |-> pc, kind |-> job[w].kind, copy |-> copy, plan |-> p,
               existing |-> existing, charge |-> charge, cols |-> cols]

Ended(w) == job'[w] = Idle

\* The record of a job that is under way.
WellTyped(k) ==
    /\ k \in Job(DOMAIN k.copy)
    /\ DOMAIN k.copy \subseteq Plans
    /\ k.pc # "next" => k.plan \in DOMAIN k.copy

LEMMA JobTyped ==
    ASSUME TypeOK, NEW w \in Workers, Active(w)
    PROVE  DOMAIN job = Workers /\ WellTyped(job[w])
  BY DEF TypeOK, WellTyped

LEMMA BeginTurns ==
    ASSUME TypeOK, NEW w \in Workers, NEW p, Begin(w, p)
    PROVE  /\ Others(w) /\ Active(w)
           /\ Turns(w, "opened", p, [job[w].copy EXCEPT ![p].status = "active"],
                    job[w].existing, "pending", job[w].cols)
           /\ job'[w].pc = "opened"
<1>1. Active(w)
  BY DEF Begin, Active, At
<1>2. DOMAIN job = Workers /\ WellTyped(job[w])
  BY <1>1, JobTyped
<1> QED
  BY <1>1, <1>2 DEF Begin, Others, Turns, WellTyped, Job

LEMMA CheckTurns ==
    ASSUME TypeOK, NEW w \in Workers, CheckKey(w)
    PROVE  /\ Others(w) /\ Active(w)
           /\ Turns(w, IF Run(w) \in keyed[job[w].plan] THEN "paid" ELSE "unpaid",
                    job[w].plan, job[w].copy, Run(w) \in keyed[job[w].plan],
                    job[w].charge, job[w].cols)
<1>1. Active(w)
  BY DEF CheckKey, Active, At
<1>2. DOMAIN job = Workers /\ WellTyped(job[w])
  BY <1>1, JobTyped
<1> QED
  BY <1>1, <1>2 DEF CheckKey, Others, Turns, WellTyped, Job

LEMMA GotoTurns ==
    ASSUME TypeOK, NEW w \in Workers, Active(w), NEW pc, Goto(w, pc)
    PROVE  /\ Others(w)
           /\ Turns(w, pc, job[w].plan, job[w].copy, job[w].existing, job[w].charge,
                    job[w].cols)
           /\ job'[w].pc = pc
<1>2. DOMAIN job = Workers /\ WellTyped(job[w])
  BY JobTyped
<1> QED
  BY <1>2 DEF Goto, Others, Turns, WellTyped, Job

LEMMA SaveChargeTurns ==
    ASSUME TypeOK, NEW w \in Workers, SaveCharge(w)
    PROVE  /\ Others(w) /\ Active(w)
           /\ Turns(w, IF job[w].existing THEN "settling" ELSE "keying", job[w].plan,
                    job[w].copy, job[w].existing, "succeeded", job[w].cols)
<1>1. Active(w)
  BY DEF SaveCharge, Active, At
<1>2. DOMAIN job = Workers /\ WellTyped(job[w])
  BY <1>1, JobTyped
<1> QED
  BY <1>1, <1>2 DEF SaveCharge, Others, Turns, WellTyped, Job

LEMMA StartSaveTurns ==
    ASSUME TypeOK, NEW w \in Workers, Active(w), NEW c, StartSave(w, c)
    PROVE  /\ Others(w)
           /\ Turns(w, "dirty", job[w].plan, [job[w].copy EXCEPT ![job[w].plan] = c],
                    job[w].existing, job[w].charge, Diff(c, plan[job[w].plan]))
           /\ job'[w].pc = "dirty"
<1>2. DOMAIN job = Workers /\ WellTyped(job[w])
  BY JobTyped
<1> QED
  BY <1>2 DEF StartSave, Others, Turns, WellTyped, Job

LEMMA CaughtTurns ==
    ASSUME TypeOK, NEW w \in Workers, Active(w), NEW p, NEW charge, Caught(w, p, charge)
    PROVE  /\ Others(w)
           /\ Turns(w, "caught", p, [job[w].copy EXCEPT ![p].consecutiveFailures = @ + 1],
                    job[w].existing, charge, job[w].cols)
           /\ job'[w].pc = "caught"
<1>2. DOMAIN job = Workers /\ WellTyped(job[w])
  BY JobTyped
<1> QED
  BY <1>2 DEF Caught, Others, Turns, WellTyped, Job

LEMMA BeginFailsTurns ==
    ASSUME TypeOK, NEW w \in Workers, NEW p, BeginFails(w, p)
    PROVE  /\ Others(w) /\ Active(w)
           /\ Turns(w, "caught", p, [job[w].copy EXCEPT ![p].status = "active",
                                                        ![p].consecutiveFailures = @ + 1],
                    job[w].existing, job[w].charge, job[w].cols)
           /\ job'[w].pc = "caught"
<1>1. Active(w)
  BY DEF BeginFails, Active, At
<1>2. DOMAIN job = Workers /\ WellTyped(job[w])
  BY <1>1, JobTyped
<1> QED
  BY <1>1, <1>2 DEF BeginFails, Others, Turns, WellTyped, Job

LEMMA SaveFailureTurns ==
    ASSUME TypeOK, NEW w \in Workers, SaveFailure(w)
    PROVE  /\ Others(w) /\ Active(w)
           /\ Turns(w, "redirty", job[w].plan, job[w].copy, job[w].existing,
                    job[w].charge, Diff(Copy(w), plan[job[w].plan]))
           /\ job'[w].pc = "redirty"
<1>1. Active(w)
  BY DEF SaveFailure, Active, At
<1>2. DOMAIN job = Workers /\ WellTyped(job[w])
  BY <1>1, JobTyped
<1> QED
  BY <1>1, <1>2 DEF SaveFailure, Others, Turns, WellTyped, Job

LEMMA FinishTurns ==
    ASSUME TypeOK, NEW w \in Workers, Finish(w)
    PROVE  Others(w) /\ Ended(w)
  BY DEF TypeOK, Finish, Others, Ended

LEMMA RecordIs ==
    ASSUME NEW k, k = [x \in DOMAIN k |-> k[x]],
           DOMAIN k = {"pc", "kind", "copy", "plan", "existing", "charge", "cols"}
    PROVE  k = [pc |-> k.pc, kind |-> k.kind, copy |-> k.copy, plan |-> k.plan,
                existing |-> k.existing, charge |-> k.charge, cols |-> k.cols]
  BY SMT

LEMMA NextRecord ==
    ASSUME NEW P, NEW k \in Job(P), NEW c
    PROVE  [k EXCEPT !.pc = "next", !.copy = c, !.charge = NoCharge, !.cols = {},
                     !.existing = FALSE]
             = [pc |-> "next", kind |-> k.kind, copy |-> c, plan |-> k.plan,
                existing |-> FALSE, charge |-> NoCharge, cols |-> {}]
<1> DEFINE m == [k EXCEPT !.pc = "next", !.copy = c, !.charge = NoCharge, !.cols = {},
                          !.existing = FALSE]
<1>1. DOMAIN m = {"pc", "kind", "copy", "plan", "existing", "charge", "cols"}
  BY DEF Job
<1>2. m = [x \in DOMAIN m |-> m[x]]
  BY DEF Job
<1>3. /\ m.pc = "next" /\ m.kind = k.kind /\ m.copy = c /\ m.plan = k.plan
      /\ m.charge = NoCharge /\ m.cols = {}
  BY DEF Job
<1>4. m.existing = FALSE
  BY Zenon DEF Job
<1> HIDE DEF m
<1>5. m = [pc |-> m.pc, kind |-> m.kind, copy |-> m.copy, plan |-> m.plan,
           existing |-> m.existing, charge |-> m.charge, cols |-> m.cols]
  BY <1>1, <1>2, RecordIs
<1>6. m = [pc |-> "next", kind |-> k.kind, copy |-> c, plan |-> k.plan,
           existing |-> FALSE, charge |-> NoCharge, cols |-> {}]
  BY <1>3, <1>4, <1>5, Zenon
<1> QED
  BY <1>6 DEF m

\* The sweep's next plan: the copy of plan p is dropped.
LEMMA ProceedTurns ==
    ASSUME TypeOK, NEW w \in Workers, Active(w), Proceed(w)
    PROVE  /\ Others(w)
           /\ \/ Ended(w)
              \/ Turns(w, "next", job[w].plan,
                       [p \in DOMAIN job[w].copy \ {job[w].plan} |-> job[w].copy[p]],
                       FALSE, NoCharge, {})
           /\ job'[w].pc \in {"idle", "next"}
<1>2. DOMAIN job = Workers /\ WellTyped(job[w])
  BY JobTyped
<1> DEFINE left == DOMAIN job[w].copy \ {job[w].plan}
<1>3. CASE left = {}
  BY <1>2, <1>3 DEF Proceed, Others, Ended, Idle
<1>4. CASE left # {}
  <2> DEFINE k == [job[w] EXCEPT !.pc = "next", !.copy = Restrict(job[w].copy, left),
                                 !.charge = NoCharge, !.cols = {}, !.existing = FALSE]
  <2>1. job' = [job EXCEPT ![w] = k]
    BY <1>4, Zenon DEF Proceed
  <2>2. k = [pc |-> "next", kind |-> job[w].kind, copy |-> Restrict(job[w].copy, left),
             plan |-> job[w].plan, existing |-> FALSE, charge |-> NoCharge, cols |-> {}]
    BY <1>2, NextRecord, Zenon DEF WellTyped
  <2> HIDE DEF k
  <2>3. Others(w) /\ job'[w] = k
    BY <1>2, <2>1 DEF Others
  <2> QED
    <3>1. job'[w].pc = "next"
      BY <2>2, <2>3
    <3>2. Turns(w, "next", job[w].plan,
                [p \in DOMAIN job[w].copy \ {job[w].plan} |-> job[w].copy[p]],
                FALSE, NoCharge, {})
      BY <2>2, <2>3, Zenon DEF Turns, Restrict
    <3> QED
      BY <2>3, <3>1, <3>2
<1> QED
  BY <1>3, <1>4

LEMMA SkipTurns ==
    ASSUME TypeOK, NEW w \in Workers, NEW q, SkipNotice(w, q)
    PROVE  /\ Others(w) /\ Active(w)
           /\ \/ Ended(w)
              \/ Turns(w, "next", job[w].plan,
                       [p \in DOMAIN job[w].copy \ {q} |-> job[w].copy[p]],
                       job[w].existing, job[w].charge, job[w].cols)
           /\ job'[w].pc \in {"idle", "next"}
<1>1. Active(w)
  BY DEF SkipNotice, Active, At
<1>2. DOMAIN job = Workers /\ WellTyped(job[w])
  BY <1>1, JobTyped
<1> DEFINE left == DOMAIN job[w].copy \ {q}
<1>3. CASE left = {}
  BY <1>1, <1>2, <1>3 DEF SkipNotice, Others, Ended, Idle
<1>4. CASE left # {}
  <2> DEFINE k == [job[w] EXCEPT !.copy = Restrict(job[w].copy, left)]
  <2>1. job' = [job EXCEPT ![w] = k]
    BY <1>4, Zenon DEF SkipNotice
  <2>2. k = [pc |-> job[w].pc, kind |-> job[w].kind,
             copy |-> [p \in left |-> job[w].copy[p]], plan |-> job[w].plan,
             existing |-> job[w].existing, charge |-> job[w].charge, cols |-> job[w].cols]
    BY <1>2 DEF WellTyped, Job, Restrict
  <2>3. job[w].pc = "next"
    BY DEF SkipNotice, At
  <2> HIDE DEF k
  <2> QED
    BY <1>1, <1>2, <2>1, <2>2, <2>3 DEF Others, Turns
<1> QED
  BY <1>3, <1>4

LEMMA SendTurns ==
    ASSUME TypeOK, NEW w \in Workers, NEW p, SendNotice(w, p)
    PROVE  /\ Others(w) /\ Active(w)
           /\ Turns(w, "sent", p, job[w].copy, job[w].existing, job[w].charge, job[w].cols)
           /\ job'[w].pc = "sent"
<1>1. Active(w)
  BY DEF SendNotice, Active, At
<1>2. DOMAIN job = Workers /\ WellTyped(job[w])
  BY <1>1, JobTyped
<1> QED
  BY <1>1, <1>2 DEF SendNotice, Others, Turns, WellTyped, Job

LEMMA StartTurns ==
    ASSUME TypeOK, NEW w \in Workers, NEW kind, NEW P, Start(w, kind, P)
    PROVE  /\ Others(w)
           /\ job'[w] = [pc |-> "next", kind |-> kind, copy |-> [p \in P |-> plan[p]],
                         plan |-> CHOOSE p \in P : TRUE, existing |-> FALSE,
                         charge |-> NoCharge, cols |-> {}]
           /\ job'[w].pc = "next"
  BY DEF TypeOK, Start, Others

----------------------------------------------------------------------------
(* Types, the shapes of the records, and the charges that are PENDING.     *)

DataOK ==
    /\ now \in 0 .. MaxNow
    /\ threshold \in Thresholds
    /\ plan \in [Plans -> Row]
    /\ charges \in [Plans -> [ChargeStatus -> Nat]]
    /\ paid \in [Plans -> [Runs -> Nat]]
    /\ keyed \in [Plans -> SUBSET Runs]
    /\ notices \in [Plans -> [Runs -> Nat]]
    /\ calls \in 0 .. MaxCalls /\ failures \in 0 .. MaxTrouble /\ cuts \in 0 .. MaxTrouble
    /\ overlapped \in SUBSET Plans
    /\ unkeyed \in [Plans -> [Runs -> Nat]]
    /\ raced \in [Plans -> SUBSET Runs]
    /\ moved \in [Plans -> SUBSET Runs]

\* What JobsInv says of one record, when the clock shows t.
Sound(k, t) ==
    k.pc # "idle" =>
       /\ WellTyped(k)
       /\ JobShape(k)
       /\ k.kind = "execute" =>
             \A p \in DOMAIN k.copy :
                p # k.plan \/ k.pc \in Executing \cup {"next"} => k.copy[p].nextRunAt <= t

LEMMA JobsParts ==
    ASSUME JobsInv
    PROVE  TypeOK /\ DataOK /\ \A w \in Workers : Sound(job[w], now)
  BY DEF JobsInv, TypeOK, DataOK, Sound, WellTyped, CopiesDue, Active

LEMMA JobsJoin ==
    ASSUME JobsInv, DataOK', NEW w \in Workers, Others(w), now <= now',
           Sound(job'[w], now'),
           \A p \in Plans : Cardinality(Charging(p)') <= charges'[p]["pending"]
    PROVE  JobsInv'
<1>1. ASSUME NEW v \in Workers
      PROVE  Sound(job'[v], now')
  <2>1. CASE v = w
    BY <2>1
  <2>2. CASE v # w
    <3>1. job'[v] = job[v] /\ Sound(job[v], now)
      BY <2>2, JobsParts DEF Others
    <3>2. SUFFICES ASSUME job[v].pc # "idle", job[v].kind = "execute",
                          NEW p \in DOMAIN job[v].copy,
                          p # job[v].plan \/ job[v].pc \in Executing \cup {"next"}
                   PROVE  job[v].copy[p].nextRunAt <= now'
      BY <3>1 DEF Sound
    <3>3. job[v].copy[p].nextRunAt <= now
      BY <3>1, <3>2 DEF Sound
    <3>4. job[v].copy[p].nextRunAt \in Int /\ now \in Int /\ now' \in Int
      BY <3>1, <3>2, JobsParts, SMTT(30) DEF Sound, WellTyped, Job, Row, Runs, DataOK
    <3> QED
      BY <3>3, <3>4, SMT
  <2> QED
    BY <2>1, <2>2
<1>2. DOMAIN job' = Workers
  BY DEF Others
<1>3. TypeOK'
  BY <1>1, <1>2 DEF TypeOK, DataOK, Sound, WellTyped, Active
<1> QED
  BY <1>1, <1>3 DEF JobsInv, Sound, CopiesDue, Active

LEMMA ChargingFinite ==
    ASSUME NEW p
    PROVE  IsFiniteSet(Charging(p)) /\ Cardinality(Charging(p)) \in Nat
<1>1. Charging(p) \subseteq Workers
  BY DEF Charging
<1> QED
  BY <1>1, RecurringAssumption, FS_Subset, FS_CardinalityType DEF RecurringAssumption

LEMMA ChargingFew ==
    ASSUME JobsInv, NEW p \in Plans, Charging(p)' \subseteq Charging(p)
    PROVE  Cardinality(Charging(p)') <= charges[p]["pending"]
<1>1. /\ IsFiniteSet(Charging(p)')
      /\ Cardinality(Charging(p)') <= Cardinality(Charging(p))
  BY ChargingFinite, FS_Subset
<1>2. Cardinality(Charging(p)') \in Nat /\ Cardinality(Charging(p)) \in Nat
  BY <1>1, ChargingFinite, FS_CardinalityType
<1>3. charges[p]["pending"] \in Nat
  BY DEF JobsInv, TypeOK, ChargeStatus
<1> QED
  BY <1>1, <1>2, <1>3, SMT DEF JobsInv

LEMMA ChargingSame ==
    ASSUME JobsInv, NEW w \in Workers, Others(w), charges' = charges,
           \A p \in Plans : w \in Charging(p)' => w \in Charging(p)
    PROVE  \A p \in Plans : Cardinality(Charging(p)') <= charges'[p]["pending"]
<1> SUFFICES ASSUME NEW p \in Plans
             PROVE  Charging(p)' \subseteq Charging(p)
  BY ChargingFew
<1> QED
  BY DEF Charging, Others

\* The INSERT of a charge.
LEMMA ChargingMore ==
    ASSUME JobsInv, NEW p \in Plans, NEW w, Charging(p)' \subseteq Charging(p) \cup {w}
    PROVE  Cardinality(Charging(p)') <= charges[p]["pending"] + 1
<1> DEFINE more == Charging(p) \cup {w}
<1>1. /\ IsFiniteSet(more)
      /\ Cardinality(more) =
           IF w \in Charging(p) THEN Cardinality(Charging(p)) ELSE Cardinality(Charging(p)) + 1
  BY ChargingFinite, FS_AddElement
<1>2. IsFiniteSet(Charging(p)') /\ Cardinality(Charging(p)') <= Cardinality(more)
  BY <1>1, FS_Subset
<1>3. /\ Cardinality(Charging(p)') \in Nat /\ Cardinality(Charging(p)) \in Nat
      /\ Cardinality(more) \in Nat
  BY <1>1, <1>2, ChargingFinite, FS_CardinalityType
<1>4. charges[p]["pending"] \in Nat
  BY DEF JobsInv, TypeOK, ChargeStatus
<1> HIDE DEF more
<1> QED
  BY <1>1, <1>2, <1>3, <1>4, SMT DEF JobsInv

\* A charge that stops being PENDING: it was counted.
LEMMA ChargingLess ==
    ASSUME JobsInv, NEW p \in Plans, NEW w, w \in Charging(p),
           Charging(p)' \subseteq Charging(p) \ {w}
    PROVE  /\ charges[p]["pending"] - 1 \in Nat
           /\ Cardinality(Charging(p)') <= charges[p]["pending"] - 1
<1> DEFINE less == Charging(p) \ {w}
<1>1. IsFiniteSet(less) /\ Cardinality(less) = Cardinality(Charging(p)) - 1
  BY ChargingFinite, FS_RemoveElement
<1>2. IsFiniteSet(Charging(p)') /\ Cardinality(Charging(p)') <= Cardinality(less)
  BY <1>1, FS_Subset
<1>3. /\ Cardinality(Charging(p)') \in Nat /\ Cardinality(Charging(p)) \in Nat
      /\ Cardinality(less) \in Nat
  BY <1>1, <1>2, ChargingFinite, FS_CardinalityType
<1>4. charges[p]["pending"] \in Nat
  BY DEF JobsInv, TypeOK, ChargeStatus
<1> HIDE DEF less
<1> QED
  BY <1>1, <1>2, <1>3, <1>4, SMT DEF JobsInv

----------------------------------------------------------------------------
(* JobsInv is kept, action by action.                                      *)

\* The run that follows a due one is within the horizon.
LEMMA NextRun ==
    ASSUME NEW t \in Runs, NEW i \in Intervals, NEW n \in 0 .. MaxNow, t <= n
    PROVE  t + i \in Runs /\ t + i > t
<1>1. i \in Nat \ {0} /\ MaxNow \in Nat /\ Horizon \in Nat /\ MaxNow + i <= Horizon
  BY RecurringAssumption DEF RecurringAssumption
<1> QED
  BY <1>1 DEF Runs

LEMMA RowWith ==
    ASSUME NEW c \in Row, NEW n \in Runs, NEW s \in PlanStatus, NEW m \in Nat
    PROVE  /\ [c EXCEPT !.nextRunAt = n, !.occurrences = m] \in Row
           /\ [c EXCEPT !.status = s, !.nextRunAt = n] \in Row
           /\ [c EXCEPT !.status = s, !.consecutiveFailures = m] \in Row
<1> DEFINE d == [c EXCEPT !.nextRunAt = n]
           e == [c EXCEPT !.status = s]
<1>1. d \in Row /\ e \in Row
  BY SMT DEF Row
<1>2. /\ [d EXCEPT !.occurrences = m] \in Row
      /\ [e EXCEPT !.nextRunAt = n] \in Row
      /\ [e EXCEPT !.consecutiveFailures = m] \in Row
  <2> HIDE DEF d, e
  <2> QED
    BY <1>1, SMT DEF Row
<1> QED
  BY <1>2

LEMMA AdvancedFields ==
    ASSUME NEW p, NEW c \in Row, NEW n \in 0 .. MaxNow, c.nextRunAt <= n
    PROVE  /\ Advanced(p, c) \in Row
           /\ Advanced(p, c).nextRunAt > c.nextRunAt
           /\ Advanced(p, c).occurrences = c.occurrences + 1
           /\ Advanced(p, c).trialEndingNotified = c.trialEndingNotified
           /\ Advanced(p, c).lastNotifiedCycle = c.lastNotifiedCycle
<1> DEFINE next == c.nextRunAt + c.interval
           later == [c EXCEPT !.nextRunAt = next, !.occurrences = @ + 1]
<1>1. next \in Runs /\ next > c.nextRunAt
  BY NextRun DEF Row
<1>2. /\ later \in Row /\ later.nextRunAt = next /\ later.occurrences = c.occurrences + 1
      /\ later.trialEndingNotified = c.trialEndingNotified
      /\ later.lastNotifiedCycle = c.lastNotifiedCycle
  <2>1. next \in Runs /\ c.occurrences + 1 \in Nat
    BY <1>1 DEF Row
  <2> HIDE DEF next
  <2>2. later.nextRunAt = next /\ later.occurrences = c.occurrences + 1
    BY <2>1, SMT DEF Row
  <2>3. /\ later.trialEndingNotified = c.trialEndingNotified
        /\ later.lastNotifiedCycle = c.lastNotifiedCycle
    BY Zenon DEF Row
  <2>4. later \in Row
    BY <2>1, RowWith DEF PlanStatus
  <2> QED
    BY <2>2, <2>3, <2>4
<1>3. Advanced(p, c) = [later EXCEPT !.status = "cancelled"]
        \/ Advanced(p, c) = [later EXCEPT !.consecutiveFailures = 0]
  BY Zenon DEF Advanced
<1> HIDE DEF later
<1> QED
  BY <1>1, <1>2, <1>3 DEF Row, PlanStatus

LEMMA ChangedFields ==
    ASSUME NEW kind \in HttpKinds, NEW c \in Row, NEW i \in Intervals, now \in 0 .. MaxNow
    PROVE  /\ Changed(kind, c, i) \in Row
           /\ Changed(kind, c, i).nextRunAt >= c.nextRunAt
           /\ kind # "resume" => Changed(kind, c, i).nextRunAt = c.nextRunAt
           /\ Changed(kind, c, i).occurrences = c.occurrences
           /\ Changed(kind, c, i).trialEndingNotified = c.trialEndingNotified
           /\ Changed(kind, c, i).lastNotifiedCycle = c.lastNotifiedCycle
<1>1. now \in Runs
  <2>1. MaxNow \in Nat /\ Horizon \in Nat /\ MaxNow + i <= Horizon /\ i \in Nat
    BY RecurringAssumption DEF RecurringAssumption
  <2> QED
    BY <2>1 DEF Runs
<1>2. CASE kind = "pause"
  BY <1>2 DEF Changed, Row, PlanStatus, Runs
<1>3. CASE kind = "resume"
  <2> DEFINE n == IF c.nextRunAt < now THEN now ELSE c.nextRunAt
  <2>1. n \in Runs /\ n >= c.nextRunAt
    BY <1>1 DEF Row, Runs
  <2>2. Changed(kind, c, i) = [c EXCEPT !.status = "active", !.nextRunAt = n]
    BY <1>3 DEF Changed
  <2> HIDE DEF n
  <2>3. Changed(kind, c, i) \in Row
    BY <2>1, <2>2, RowWith, ZenonT(30) DEF PlanStatus
  <2>4. Changed(kind, c, i).nextRunAt = n
    BY <2>2, SMT DEF Row
  <2>5. /\ Changed(kind, c, i).trialEndingNotified = c.trialEndingNotified
        /\ Changed(kind, c, i).lastNotifiedCycle = c.lastNotifiedCycle
        /\ Changed(kind, c, i).occurrences = c.occurrences
    BY <2>2, Zenon DEF Row
  <2> QED
    BY <1>3, <2>1, <2>3, <2>4, <2>5
<1>4. CASE kind = "cancel"
  BY <1>4 DEF Changed, Row, PlanStatus, Runs
<1>5. CASE kind = "update"
  BY <1>5 DEF Changed, Row, PlanStatus, Runs
<1> QED
  BY <1>2, <1>3, <1>4, <1>5 DEF HttpKinds

LEMMA PatchType ==
    ASSUME NEW r \in Row, NEW c \in Row, NEW d \in SUBSET Columns
    PROVE  Patch(r, c, d) \in Row
  BY DEF Patch, Row, Columns

LEMMA PatchDiff ==
    ASSUME NEW r \in Row, NEW c \in Row
    PROVE  Patch(r, c, Diff(c, r)) = c
  BY DEF Patch, Diff, Row, Columns

LEMMA BeginJobs ==
    ASSUME JobsInv, NEW w \in Workers, NEW p, Begin(w, p)
    PROVE  JobsInv'
<1>1. /\ Others(w) /\ Active(w) /\ Sound(job[w], now) /\ DataOK /\ now' = now
      /\ Turns(w, "opened", p, [job[w].copy EXCEPT ![p].status = "active"],
               job[w].existing, "pending", job[w].cols)
  BY BeginTurns, JobsParts DEF Begin
<1>2. p \in Plans /\ p \in DOMAIN job[w].copy /\ job[w].kind = "execute" /\ job[w].pc = "next"
  BY <1>1 DEF Begin, Sound, WellTyped, Active, At
<1>3. DataOK'
  BY <1>1, <1>2 DEF Begin, DataOK, ChargeStatus, bounds, history
<1>4. Sound(job'[w], now')
  BY <1>1, <1>2, SMTT(30) DEF Sound, WellTyped, Job, JobPoints, JobShape, Active, Turns, Row, PlanStatus,
     HttpKinds, Executing, Catching
<1>5. ASSUME NEW q \in Plans
      PROVE  Cardinality(Charging(q)') <= charges'[q]["pending"]
  <2>1. CASE q = p
    <3>1. Charging(q)' \subseteq Charging(q) \cup {w}
      BY <1>1 DEF Charging, Others
    <3>2. charges'[q]["pending"] = charges[q]["pending"] + 1
      BY <1>1, <1>2, <2>1 DEF Begin, DataOK, ChargeStatus
    <3> QED
      BY <3>1, <3>2, ChargingMore
  <2>2. CASE q # p
    <3>1. Charging(q)' \subseteq Charging(q)
      BY <1>1, <2>2 DEF Charging, Others, Turns
    <3>2. charges'[q]["pending"] = charges[q]["pending"]
      BY <1>1, <1>2, <2>2 DEF Begin, DataOK
    <3> QED
      BY <3>1, <3>2, ChargingFew
  <2> QED
    BY <2>1, <2>2
<1>6. now <= now'
  BY <1>1 DEF DataOK
<1> QED
  BY <1>1, <1>3, <1>4, <1>5, <1>6, JobsJoin

LEMMA CheckJobs ==
    ASSUME JobsInv, NEW w \in Workers, CheckKey(w)
    PROVE  JobsInv'
<1>1. /\ Others(w) /\ Active(w) /\ Sound(job[w], now) /\ DataOK /\ now' = now
      /\ Turns(w, IF Run(w) \in keyed[job[w].plan] THEN "paid" ELSE "unpaid",
               job[w].plan, job[w].copy, Run(w) \in keyed[job[w].plan],
               job[w].charge, job[w].cols)
  BY CheckTurns, JobsParts DEF CheckKey, store
<1>2. /\ job[w].plan \in Plans /\ job[w].plan \in DOMAIN job[w].copy
      /\ job[w].kind = "execute" /\ job[w].pc = "opened" /\ Run(w) \in Runs
  BY <1>1 DEF CheckKey, Sound, WellTyped, JobShape, Active, At, Executing, Run, Copy, Job, Row
<1>3. DataOK'
  <2>1. raced' = raced \/ raced' = [raced EXCEPT ![job[w].plan] = @ \cup {Run(w)}]
    BY Zenon DEF CheckKey
  <2>2. raced' \in [Plans -> SUBSET Runs]
    <3>1. raced \in [Plans -> SUBSET Runs]
      BY <1>1 DEF DataOK
    <3>2. CASE raced' = raced
      BY <3>1, <3>2
    <3>3. CASE raced' = [raced EXCEPT ![job[w].plan] = @ \cup {Run(w)}]
      BY <1>2, <3>1, <3>3
    <3> QED
      BY <2>1, <3>2, <3>3
  <2> QED
    BY <1>1, <2>2 DEF CheckKey, DataOK, store, bounds
<1>4. Sound(job'[w], now')
  <2>1. CASE Run(w) \in keyed[job[w].plan]
    BY <1>1, <1>2, <2>1 DEF Sound, WellTyped, Job, JobPoints, JobShape, Active, Turns,
       HttpKinds, Executing, Catching
  <2>2. CASE Run(w) \notin keyed[job[w].plan]
    <3> DEFINE e == Run(w) \in keyed[job[w].plan]
    <3>1. e = FALSE
      BY <2>2
    <3>2. Turns(w, IF e THEN "paid" ELSE "unpaid", job[w].plan, job[w].copy, e,
                job[w].charge, job[w].cols)
      BY <1>1
    <3> HIDE DEF e
    <3>3. Turns(w, "unpaid", job[w].plan, job[w].copy, FALSE, job[w].charge, job[w].cols)
      BY <3>1, <3>2 DEF Turns
    <3> QED
      BY <1>1, <1>2, <3>3 DEF Sound, WellTyped, Job, JobPoints, JobShape, Active, Turns,
         HttpKinds, Executing, Catching
  <2> QED
    BY <2>1, <2>2
<1>5. \A p \in Plans : w \in Charging(p)' => w \in Charging(p)
  BY <1>1, <1>2 DEF Charging, Turns
<1>6. now <= now' /\ charges' = charges
  BY <1>1 DEF DataOK, CheckKey, store
<1> QED
  BY <1>1, <1>3, <1>4, <1>5, <1>6, JobsJoin, ChargingSame

LEMMA Working ==
    ASSUME JobsInv, NEW w \in Workers, Active(w), job[w].pc # "next"
    PROVE  /\ Sound(job[w], now) /\ TypeOK /\ DataOK
           /\ job[w].plan \in Plans /\ job[w].plan \in DOMAIN job[w].copy
           /\ Copy(w) \in Row /\ Run(w) \in Runs /\ plan[job[w].plan] \in Row
<1>1. Sound(job[w], now) /\ TypeOK /\ DataOK
  BY JobsParts
<1>2. job[w].plan \in Plans /\ job[w].plan \in DOMAIN job[w].copy
  BY <1>1 DEF Sound, WellTyped, Active
<1>3. Copy(w) \in Row
  BY <1>1, <1>2 DEF Copy, Sound, WellTyped, Active, Job
<1> QED
  BY <1>1, <1>2, <1>3 DEF Run, Row, DataOK

LEMMA CreateJobs ==
    ASSUME JobsInv, NEW w \in Workers, CreatePayment(w)
    PROVE  JobsInv'
<1>1. Active(w) /\ job[w].pc = "unpaid"
  BY DEF CreatePayment, Active, At
<1>2. Others(w) /\ Turns(w, "paid", job[w].plan, job[w].copy, job[w].existing,
                         job[w].charge, job[w].cols)
  BY <1>1, GotoTurns, JobsParts DEF CreatePayment
<1>3. /\ Sound(job[w], now) /\ DataOK /\ job[w].plan \in Plans
      /\ job[w].plan \in DOMAIN job[w].copy /\ Run(w) \in Runs
  BY <1>1, Working
<1>4. DataOK'
  BY <1>3 DEF CreatePayment, DataOK, bounds, history
<1>5. Sound(job'[w], now')
  BY <1>1, <1>2, <1>3 DEF Sound, WellTyped, Job, JobPoints, JobShape, Active, Turns,
     HttpKinds, Executing, Catching, CreatePayment
<1>6. \A p \in Plans : w \in Charging(p)' => w \in Charging(p)
  BY <1>1, <1>2 DEF Charging, Turns
<1>7. now <= now' /\ charges' = charges
  BY <1>3 DEF DataOK, CreatePayment
<1> QED
  BY <1>2, <1>4, <1>5, <1>6, <1>7, JobsJoin, ChargingSame

\* A charge leaves PENDING.
LEMMA ChargeMoves ==
    ASSUME NEW t \in [Plans -> [ChargeStatus -> Nat]], NEW q \in Plans,
           NEW s \in {"succeeded", "failed"}, t[q]["pending"] - 1 \in Nat
    PROVE  LET u == [t EXCEPT ![q]["pending"] = @ - 1, ![q][s] = @ + 1]
           IN  /\ u \in [Plans -> [ChargeStatus -> Nat]]
               /\ \A p \in Plans : u[p]["pending"] =
                     IF p = q THEN t[p]["pending"] - 1 ELSE t[p]["pending"]
<1> DEFINE d == [t EXCEPT ![q]["pending"] = @ - 1]
           u == [d EXCEPT ![q][s] = @ + 1]
<1>1. /\ d \in [Plans -> [ChargeStatus -> Nat]]
      /\ \A p \in Plans : d[p]["pending"] =
            IF p = q THEN t[p]["pending"] - 1 ELSE t[p]["pending"]
  BY DEF ChargeStatus
<1>2. /\ u \in [Plans -> [ChargeStatus -> Nat]]
      /\ \A p \in Plans : u[p]["pending"] = d[p]["pending"]
  <2> HIDE DEF d
  <2> QED
    BY <1>1 DEF ChargeStatus
<1>3. u = [t EXCEPT ![q]["pending"] = @ - 1, ![q][s] = @ + 1]
  BY DEF ChargeStatus
<1> HIDE DEF d, u
<1> QED
  BY <1>1, <1>2, <1>3

LEMMA SaveChargeJobs ==
    ASSUME JobsInv, NEW w \in Workers, SaveCharge(w)
    PROVE  JobsInv'
<1>1. Active(w) /\ job[w].pc = "paid"
  BY DEF SaveCharge, Active, At
<1>0. now' = now
  BY DEF SaveCharge
<1>2. Others(w) /\ Turns(w, IF job[w].existing THEN "settling" ELSE "keying", job[w].plan,
                         job[w].copy, job[w].existing, "succeeded", job[w].cols)
  BY SaveChargeTurns, JobsParts
<1>3. /\ Sound(job[w], now) /\ DataOK /\ job[w].plan \in Plans
      /\ job[w].plan \in DOMAIN job[w].copy
  BY <1>1, Working
<1> DEFINE q == job[w].plan
<1>4. \A p \in Plans : p = q => w \in Charging(p)
  BY <1>1, <1>3 DEF Charging, Sound, JobShape
<1>5. \A p \in Plans : Charging(p)' \subseteq Charging(p) \ {w}
  BY <1>2 DEF Charging, Others, Turns
<1>6. \A p \in Plans : p = q =>
         /\ charges[p]["pending"] - 1 \in Nat
         /\ Cardinality(Charging(p)') <= charges[p]["pending"] - 1
  BY <1>4, <1>5, ChargingLess
<1>7. charges' = [charges EXCEPT ![q]["pending"] = @ - 1, ![q]["succeeded"] = @ + 1]
  BY DEF SaveCharge
<1>8. /\ charges' \in [Plans -> [ChargeStatus -> Nat]]
      /\ \A p \in Plans : charges'[p]["pending"] =
             IF p = q THEN charges[p]["pending"] - 1 ELSE charges[p]["pending"]
  <2>1. charges \in [Plans -> [ChargeStatus -> Nat]] /\ q \in Plans
        /\ charges[q]["pending"] - 1 \in Nat
    BY <1>3, <1>6 DEF DataOK
  <2> HIDE DEF q
  <2> QED
    BY <1>7, <2>1, ChargeMoves
<1>9. DataOK'
  BY <1>3, <1>8 DEF SaveCharge, DataOK, bounds, history
<1>10. Sound(job'[w], now')
  <2>1. CASE job[w].existing
    <3>1. Turns(w, "settling", q, job[w].copy, job[w].existing, "succeeded", job[w].cols)
      BY <1>2, <2>1 DEF Turns
    <3> QED
      BY <1>1, <1>3, <1>0, <2>1, <3>1 DEF Sound, WellTyped, Job, JobPoints, JobShape, Active,
         Turns, HttpKinds, Executing, Catching
  <2>2. CASE ~job[w].existing
    <3>1. Turns(w, "keying", q, job[w].copy, job[w].existing, "succeeded", job[w].cols)
      BY <1>2, <2>2 DEF Turns
    <3> QED
      BY <1>1, <1>3, <1>0, <2>2, <3>1 DEF Sound, WellTyped, Job, JobPoints, JobShape, Active,
         Turns, HttpKinds, Executing, Catching
  <2> QED
    BY <2>1, <2>2
<1>11. ASSUME NEW p \in Plans
       PROVE  Cardinality(Charging(p)') <= charges'[p]["pending"]
  <2>1. CASE p = q
    BY <2>1, <1>6, <1>8
  <2>2. CASE p # q
    BY <2>2, <1>5, <1>8, ChargingFew
  <2> QED
    BY <2>1, <2>2
<1>12. now <= now'
  BY <1>3 DEF DataOK, SaveCharge
<1> QED
  BY <1>2, <1>9, <1>10, <1>11, <1>12, JobsJoin

LEMMA StoreKeyJobs ==
    ASSUME JobsInv, NEW w \in Workers, StoreKey(w)
    PROVE  JobsInv'
<1>1. Active(w) /\ job[w].pc = "keying"
  BY DEF StoreKey, Active, At
<1>2. Others(w) /\ Turns(w, "settling", job[w].plan, job[w].copy, job[w].existing,
                         job[w].charge, job[w].cols)
  BY <1>1, GotoTurns, JobsParts DEF StoreKey
<1>3. /\ Sound(job[w], now) /\ DataOK /\ job[w].plan \in Plans
      /\ job[w].plan \in DOMAIN job[w].copy /\ Run(w) \in Runs
  BY <1>1, Working
<1>4. DataOK'
  BY <1>3 DEF StoreKey, DataOK, bounds, history
<1>5. Sound(job'[w], now')
  BY <1>1, <1>2, <1>3 DEF Sound, WellTyped, Job, JobPoints, JobShape, Active, Turns,
     HttpKinds, Executing, Catching, StoreKey
<1>6. \A p \in Plans : w \in Charging(p)' => w \in Charging(p)
  BY <1>1, <1>2 DEF Charging, Turns
<1>7. now <= now' /\ charges' = charges
  BY <1>3 DEF DataOK, StoreKey
<1> QED
  BY <1>2, <1>4, <1>5, <1>6, <1>7, JobsJoin, ChargingSame

\* What the three saves that start at "next" or after an execution have in common.
LEMMA SaveJobs ==
    ASSUME JobsInv, NEW w \in Workers, Active(w), job[w].plan \in DOMAIN job[w].copy,
           NEW c \in Row, StartSave(w, c), UNCHANGED <<store, bounds, history>>,
           job[w].kind = "execute" => job[w].charge = "succeeded"
    PROVE  JobsInv'
<1>1. Others(w) /\ Turns(w, "dirty", job[w].plan,
                         [job[w].copy EXCEPT ![job[w].plan] = c], job[w].existing,
                         job[w].charge, Diff(c, plan[job[w].plan]))
  BY StartSaveTurns, JobsParts
<1>2. Sound(job[w], now) /\ DataOK
  BY JobsParts
<1>3. DataOK'
  BY <1>2 DEF DataOK, store, bounds, history
<1>4. Diff(c, plan[job[w].plan]) \subseteq Columns /\ now' = now
  BY DEF Diff, store
<1>5. Sound(job'[w], now')
  BY <1>1, <1>2, <1>4 DEF Sound, WellTyped, Job, JobPoints, JobShape, Active, Turns,
     HttpKinds, Executing, Catching
<1>6. \A p \in Plans : w \in Charging(p)' => w \in Charging(p)
  BY <1>1 DEF Charging, Turns
<1>7. now <= now' /\ charges' = charges
  BY <1>2 DEF DataOK, store
<1> QED
  BY <1>1, <1>3, <1>5, <1>6, <1>7, JobsJoin, ChargingSame

LEMMA AdvanceJobs ==
    ASSUME JobsInv, NEW w \in Workers, Advance(w)
    PROVE  JobsInv'
<1>1. Active(w) /\ job[w].pc = "settling"
  BY DEF Advance, Active, At
<1>2. /\ Sound(job[w], now) /\ DataOK /\ job[w].plan \in DOMAIN job[w].copy
      /\ Copy(w) \in Row
  BY <1>1, Working
<1>3. Copy(w).nextRunAt <= now
  BY <1>1, <1>2 DEF Sound, JobShape, Executing, Copy
<1>4. Advanced(job[w].plan, Copy(w)) \in Row
  BY <1>2, <1>3, AdvancedFields DEF DataOK
<1>5. job[w].charge = "succeeded"
  BY <1>1, <1>2 DEF Sound, JobShape, Executing
<1> QED
  BY <1>1, <1>2, <1>4, <1>5, SaveJobs DEF Advance

LEMMA ApplyJobs ==
    ASSUME JobsInv, NEW w \in Workers, NEW i \in Intervals, Apply(w, i)
    PROVE  JobsInv'
<1>1. /\ Active(w) /\ job[w].pc = "next" /\ job[w].kind \in HttpKinds
      /\ StartSave(w, Changed(job[w].kind, Copy(w), i))
      /\ UNCHANGED <<store, bounds, history>>
  BY DEF Apply, Active, At
<1>2. Sound(job[w], now) /\ DataOK
  BY JobsParts
<1>3. job[w].plan \in DOMAIN job[w].copy /\ Copy(w) \in Row
  BY <1>1, <1>2 DEF Sound, WellTyped, JobShape, Job, Copy
<1>4. Changed(job[w].kind, Copy(w), i) \in Row
  BY <1>1, <1>2, <1>3, ChangedFields DEF DataOK
<1> QED
  BY <1>1, <1>3, <1>4, SaveJobs DEF HttpKinds

LEMMA MarkJobs ==
    ASSUME JobsInv, NEW w \in Workers, MarkNotice(w)
    PROVE  JobsInv'
<1>1. Active(w) /\ job[w].pc = "sent" /\ UNCHANGED <<store, bounds, history>>
  BY DEF MarkNotice, Active, At
<1>2. /\ Sound(job[w], now) /\ job[w].plan \in DOMAIN job[w].copy /\ Copy(w) \in Row
  BY <1>1, Working
<1>3. Notice(w, job[w].plan) \in Nat
  BY <1>2 DEF Notice, Copy, Row, TrialEnding
<1>4. PICK c : /\ StartSave(w, c)
               /\ \/ c = [Copy(w) EXCEPT !.trialEndingNotified = TRUE]
                  \/ c = [Copy(w) EXCEPT !.lastNotifiedCycle = Notice(w, job[w].plan)]
  BY Zenon DEF MarkNotice
<1>5. c \in Row
  BY <1>2, <1>3, <1>4 DEF Row
<1>6. job[w].kind # "execute"
  BY <1>1, <1>2 DEF Sound, JobShape
<1> QED
  BY <1>1, <1>2, <1>4, <1>5, <1>6, SaveJobs

\* Into the catch block: only the copy of the plan in hand changes.
LEMMA CaughtSound ==
    ASSUME JobsInv, NEW w \in Workers, Active(w), NEW p \in DOMAIN job[w].copy,
           job[w].kind = "execute", NEW f \in [DOMAIN job[w].copy -> Row],
           NEW charge \in {"pending", "succeeded", NoCharge},
           \A q \in DOMAIN job[w].copy \ {p} : f[q] = job[w].copy[q],
           job[w].pc = "next" \/ p = job[w].plan,
           Turns(w, "caught", p, f, job[w].existing, charge, job[w].cols), now' = now
    PROVE  Sound(job'[w], now')
<1>1. Sound(job[w], now)
  BY JobsParts
<1>2. ASSUME NEW q \in DOMAIN job[w].copy, q # p
      PROVE  f[q].nextRunAt <= now
  BY <1>1, <1>2 DEF Sound, Active
<1> QED
  BY <1>1, <1>2 DEF Sound, WellTyped, Job, JobPoints, JobShape, Active, Turns,
     HttpKinds, Executing, Catching

LEMMA FailedCopy ==
    ASSUME NEW P, NEW g \in [P -> Row], NEW p \in P
    PROVE  /\ [g EXCEPT ![p].consecutiveFailures = @ + 1] \in [P -> Row]
           /\ \A q \in P \ {p} : [g EXCEPT ![p].consecutiveFailures = @ + 1][q] = g[q]
           /\ [g EXCEPT ![p].consecutiveFailures = @ + 1][p]
                = [g[p] EXCEPT !.consecutiveFailures = @ + 1]
  BY DEF Row

LEMMA TriedCopy ==
    ASSUME NEW P, NEW g \in [P -> Row], NEW p \in P
    PROVE  /\ [g EXCEPT ![p].status = "active"] \in [P -> Row]
           /\ \A q \in P \ {p} : [g EXCEPT ![p].status = "active"][q] = g[q]
           /\ [g EXCEPT ![p].status = "active"][p] = [g[p] EXCEPT !.status = "active"]
  BY DEF Row, PlanStatus

LEMMA BeginFailsJobs ==
    ASSUME JobsInv, NEW w \in Workers, NEW p, BeginFails(w, p)
    PROVE  JobsInv'
<1> DEFINE g == [job[w].copy EXCEPT ![p].status = "active"]
           f == [g EXCEPT ![p].consecutiveFailures = @ + 1]
<1>1. /\ Others(w) /\ Active(w) /\ Sound(job[w], now) /\ DataOK
      /\ Turns(w, "caught", p, f, job[w].existing, job[w].charge, job[w].cols)
  BY BeginFailsTurns, JobsParts
<1>2. p \in DOMAIN job[w].copy /\ job[w].kind = "execute" /\ job[w].pc = "next" /\ now' = now
  BY DEF BeginFails, At, store
<1>3. job[w].copy \in [DOMAIN job[w].copy -> Row] /\ job[w].charge = NoCharge
  BY <1>1, <1>2 DEF Sound, WellTyped, Job, Active, JobShape
<1>4. /\ f \in [DOMAIN job[w].copy -> Row]
      /\ \A q \in DOMAIN job[w].copy \ {p} : f[q] = job[w].copy[q]
  <2>1. /\ g \in [DOMAIN job[w].copy -> Row]
        /\ \A q \in DOMAIN job[w].copy \ {p} : g[q] = job[w].copy[q]
    BY <1>2, <1>3, TriedCopy
  <2> HIDE DEF g
  <2> QED
    BY <1>2, <2>1, FailedCopy
<1> HIDE DEF f
<1>5. Sound(job'[w], now')
  BY <1>1, <1>2, <1>3, <1>4, CaughtSound
<1>6. DataOK'
  <2>1. MaxTrouble \in Nat
    BY RecurringAssumption DEF RecurringAssumption
  <2> QED
    BY <1>1, <2>1 DEF BeginFails, Trouble, DataOK, store, history
<1>7. \A q \in Plans : w \in Charging(q)' => w \in Charging(q)
  BY <1>1, <1>3 DEF Charging, Turns, NoCharge
<1>8. now <= now' /\ charges' = charges
  BY <1>1 DEF DataOK, BeginFails, store
<1> QED
  BY <1>1, <1>5, <1>6, <1>7, <1>8, JobsJoin, ChargingSame

\* Catching an error at the plan in hand, whatever else the action does.
LEMMA CaughtJobs ==
    ASSUME JobsInv, NEW w \in Workers, Active(w), job[w].pc # "next",
           job[w].kind = "execute", NEW charge, Caught(w, job[w].plan, charge),
           charge = job[w].charge \/ charge = "succeeded",
           DataOK', now' = now, charges' = charges,
           charge = "pending" => job[w].pc \in {"opened", "unpaid", "paid"}
    PROVE  JobsInv'
<1> DEFINE f == [job[w].copy EXCEPT ![job[w].plan].consecutiveFailures = @ + 1]
<1>1. /\ Others(w)
      /\ Turns(w, "caught", job[w].plan, f, job[w].existing, charge, job[w].cols)
  BY CaughtTurns, JobsParts
<1>2. Sound(job[w], now) /\ DataOK /\ job[w].plan \in DOMAIN job[w].copy
  BY Working
<1>3. /\ job[w].copy \in [DOMAIN job[w].copy -> Row]
      /\ charge \in {"pending", "succeeded", NoCharge}
  BY <1>2 DEF Sound, WellTyped, Job, Active
<1>4. /\ f \in [DOMAIN job[w].copy -> Row]
      /\ \A q \in DOMAIN job[w].copy \ {job[w].plan} : f[q] = job[w].copy[q]
  BY <1>2, <1>3, FailedCopy
<1> HIDE DEF f
<1>5. Sound(job'[w], now')
  BY <1>1, <1>2, <1>3, <1>4, CaughtSound
<1>6. \A q \in Plans : w \in Charging(q)' => w \in Charging(q)
  BY <1>1, <1>2 DEF Charging, Turns, Sound, JobShape, Active
<1>7. now <= now'
  BY <1>2 DEF DataOK
<1> QED
  BY <1>1, <1>5, <1>6, <1>7, JobsJoin, ChargingSame

LEMMA ForgetType ==
    ASSUME JobsInv, NEW w \in Workers, Active(w), Forget(w)
    PROVE  unkeyed' \in [Plans -> [Runs -> Nat]]
<1>1. DataOK
  BY JobsParts
<1>2. CASE unkeyed' = unkeyed
  BY <1>1, <1>2 DEF DataOK
<1>3. CASE unkeyed' # unkeyed
  <2>1. /\ unkeyed' = [unkeyed EXCEPT ![job[w].plan][Run(w)] = @ + 1]
        /\ job[w].pc # "next"
    BY <1>3 DEF Forget
  <2>2. job[w].plan \in Plans /\ Run(w) \in Runs
    BY <2>1, Working
  <2> QED
    BY <1>1, <2>1, <2>2 DEF DataOK
<1> QED
  BY <1>2, <1>3

LEMMA FailsJobs ==
    ASSUME JobsInv, NEW w \in Workers, Fails(w)
    PROVE  JobsInv'
<1> DEFINE charge == IF At(w, "paid") THEN "succeeded" ELSE job[w].charge
<1>1. /\ Active(w) /\ job[w].pc \in {"opened", "paid", "keying", "settling", "dirty"}
      /\ job[w].kind = "execute" /\ Caught(w, job[w].plan, charge)
      /\ now' = now /\ charges' = charges
  BY DEF Fails, Active, store
<1>2. Sound(job[w], now) /\ DataOK
  BY JobsParts
<1>3. charge = "pending" => job[w].pc = "opened"
  BY <1>1, <1>2 DEF Sound, JobShape, Active, At
<1>4. DataOK'
  <2>1. MaxTrouble \in Nat
    BY RecurringAssumption DEF RecurringAssumption
  <2>2. unkeyed' \in [Plans -> [Runs -> Nat]]
    BY <1>1, ForgetType DEF Fails
  <2>3. failures' \in 0 .. MaxTrouble
    BY <1>1, <1>2, <2>1 DEF Caught, Trouble, DataOK
  <2> QED
    BY <1>2, <2>2, <2>3 DEF Fails, DataOK, store
<1>5. charge = job[w].charge \/ charge = "succeeded"
  OBVIOUS
<1> HIDE DEF charge
<1> QED
  BY <1>1, <1>3, <1>4, <1>5, CaughtJobs

LEMMA CreateFailsJobs ==
    ASSUME JobsInv, NEW w \in Workers, NEW committed \in BOOLEAN, CreateFails(w, committed)
    PROVE  JobsInv'
<1>1. /\ Active(w) /\ job[w].pc = "unpaid" /\ Caught(w, job[w].plan, job[w].charge)
      /\ now' = now /\ charges' = charges
  BY DEF CreateFails, Active, At
<1>2. /\ Sound(job[w], now) /\ DataOK /\ job[w].plan \in Plans /\ Run(w) \in Runs
  BY <1>1, Working
<1>3. job[w].kind = "execute"
  BY <1>1, <1>2 DEF Sound, JobShape, Executing
<1>4. DataOK'
  <2>1. MaxTrouble \in Nat
    BY RecurringAssumption DEF RecurringAssumption
  <2>2. /\ unkeyed' \in [Plans -> [Runs -> Nat]]
        /\ paid' \in [Plans -> [Runs -> Nat]]
    <3>1. CASE committed
      <4>1. /\ paid' = [paid EXCEPT ![job[w].plan][Run(w)] = @ + 1]
            /\ unkeyed' = [unkeyed EXCEPT ![job[w].plan][Run(w)] = @ + 1]
        BY <3>1 DEF CreateFails
      <4> QED
        BY <1>2, <4>1 DEF DataOK
    <3>2. CASE ~committed
      BY <1>2, <3>2 DEF CreateFails, DataOK
    <3> QED
      BY <3>1, <3>2
  <2>3. failures' \in 0 .. MaxTrouble
    BY <1>1, <1>2, <2>1 DEF Caught, Trouble, DataOK
  <2> QED
    BY <1>2, <2>2, <2>3 DEF CreateFails, DataOK
<1> QED
  BY <1>1, <1>3, <1>4, CaughtJobs

LEMMA RecordFailureJobs ==
    ASSUME JobsInv, NEW w \in Workers, RecordFailure(w)
    PROVE  JobsInv'
<1>1. Active(w) /\ job[w].pc = "caught" /\ now' = now
  BY DEF RecordFailure, Active, At
<1>2. Others(w) /\ Turns(w, "counted", job[w].plan, job[w].copy, job[w].existing,
                         job[w].charge, job[w].cols)
  BY <1>1, GotoTurns, JobsParts DEF RecordFailure
<1>3. /\ Sound(job[w], now) /\ DataOK /\ job[w].plan \in Plans
      /\ job[w].plan \in DOMAIN job[w].copy
  BY <1>1, Working
<1>4. Sound(job'[w], now')
  BY <1>1, <1>2, <1>3 DEF Sound, WellTyped, Job, JobPoints, JobShape, Active, Turns,
     HttpKinds, Executing, Catching
<1>5. now <= now'
  BY <1>1, <1>3 DEF DataOK
<1>6. \A p \in Plans : Charging(p)' \subseteq Charging(p) \ {w}
  BY <1>2 DEF Charging, Others, Turns
<1>7. CASE job[w].charge # "pending"
  <2>1. charges' = charges
    BY <1>7 DEF RecordFailure
  <2>2. DataOK'
    BY <1>3, <2>1 DEF RecordFailure, DataOK, bounds, history
  <2> QED
    BY <1>2, <1>4, <1>5, <1>6, <2>1, <2>2, JobsJoin, ChargingSame
<1>8. CASE job[w].charge = "pending"
  <2> DEFINE q == job[w].plan
  <2>1. \A p \in Plans : p = q => w \in Charging(p)
    BY <1>1, <1>3, <1>8 DEF Charging
  <2>2. \A p \in Plans : p = q =>
           /\ charges[p]["pending"] - 1 \in Nat
           /\ Cardinality(Charging(p)') <= charges[p]["pending"] - 1
    BY <1>6, <2>1, ChargingLess
  <2>3. charges' = [charges EXCEPT ![q]["pending"] = @ - 1, ![q]["failed"] = @ + 1]
    BY <1>8 DEF RecordFailure
  <2>4. /\ charges' \in [Plans -> [ChargeStatus -> Nat]]
        /\ \A p \in Plans : charges'[p]["pending"] =
               IF p = q THEN charges[p]["pending"] - 1 ELSE charges[p]["pending"]
    <3>1. charges \in [Plans -> [ChargeStatus -> Nat]] /\ q \in Plans
          /\ charges[q]["pending"] - 1 \in Nat
      BY <1>3, <2>2 DEF DataOK
    <3> HIDE DEF q
    <3> QED
      BY <2>3, <3>1, ChargeMoves
  <2>5. DataOK'
    BY <1>3, <2>4 DEF RecordFailure, DataOK, bounds, history
  <2>6. ASSUME NEW p \in Plans
        PROVE  Cardinality(Charging(p)') <= charges'[p]["pending"]
    <3>1. CASE p = q
      BY <3>1, <2>2, <2>4
    <3>2. CASE p # q
      BY <3>2, <1>6, <2>4, ChargingFew
    <3> QED
      BY <3>1, <3>2
  <2> QED
    BY <1>2, <1>4, <1>5, <2>5, <2>6, JobsJoin
<1> QED
  BY <1>7, <1>8

LEMMA SaveFailureJobs ==
    ASSUME JobsInv, NEW w \in Workers, SaveFailure(w)
    PROVE  JobsInv'
<1>1. Active(w) /\ job[w].pc = "counted" /\ now' = now /\ charges' = charges
  BY DEF SaveFailure, Active, At, store
<1>2. Others(w) /\ Turns(w, "redirty", job[w].plan, job[w].copy, job[w].existing,
                         job[w].charge, Diff(Copy(w), plan[job[w].plan]))
  BY SaveFailureTurns, JobsParts
<1>3. Sound(job[w], now) /\ DataOK
  BY JobsParts
<1>4. Diff(Copy(w), plan[job[w].plan]) \subseteq Columns
  BY DEF Diff
<1>5. Sound(job'[w], now')
  BY <1>1, <1>2, <1>3, <1>4 DEF Sound, WellTyped, Job, JobPoints, JobShape, Active, Turns,
     HttpKinds, Executing, Catching
<1>6. \A p \in Plans : w \in Charging(p)' => w \in Charging(p)
  BY <1>1, <1>2 DEF Charging, Turns
<1>7. DataOK' /\ now <= now'
  BY <1>3 DEF SaveFailure, DataOK, store, bounds, history
<1> QED
  BY <1>1, <1>2, <1>5, <1>6, <1>7, JobsJoin, ChargingSame

\* A job that ends takes part in nothing.
LEMMA EndedJobs ==
    ASSUME JobsInv, NEW w \in Workers, Others(w), Ended(w), DataOK', now' = now,
           charges' = charges
    PROVE  JobsInv'
<1>1. Sound(job'[w], now')
  BY DEF Ended, Idle, Sound
<1>2. \A p \in Plans : w \in Charging(p)' => w \in Charging(p)
  BY DEF Charging, Ended, Idle
<1>3. now <= now'
  BY JobsParts DEF DataOK
<1> QED
  BY <1>1, <1>2, <1>3, JobsJoin, ChargingSame

LEMMA FinishJobs ==
    ASSUME JobsInv, NEW w \in Workers, AutoPause(w) \/ Reject(w) \/ Cut(w)
    PROVE  JobsInv'
<1>1. Finish(w) /\ now' = now /\ charges' = charges
  BY DEF AutoPause, Reject, Cut, store
<1>2. Others(w) /\ Ended(w) /\ DataOK
  BY <1>1, FinishTurns, JobsParts
<1>3. DataOK'
  <2>1. CASE AutoPause(w) \/ Reject(w)
    BY <1>2, <2>1 DEF AutoPause, Reject, DataOK, store, bounds, history
  <2>2. CASE Cut(w)
    <3>1. unkeyed' \in [Plans -> [Runs -> Nat]]
      BY <2>2, ForgetType DEF Cut
    <3>2. MaxTrouble \in Nat
      BY RecurringAssumption DEF RecurringAssumption
    <3>3. cuts' \in 0 .. MaxTrouble
      BY <1>2, <2>2, <3>2 DEF Cut, Trouble, DataOK
    <3> QED
      BY <1>2, <2>2, <3>1, <3>3 DEF Cut, DataOK, store
  <2> QED
    BY <2>1, <2>2
<1> QED
  BY <1>1, <1>2, <1>3, EndedJobs

\* A sweep drops a copy and goes on with the others.
LEMMA RestSound ==
    ASSUME JobsInv, NEW w \in Workers, Active(w), NEW q, job[w].kind \in SweepKinds,
           job[w].pc = "next" \/ q = job[w].plan,
           NEW existing \in BOOLEAN, NEW charge \in {NoCharge}, NEW cols \in SUBSET Columns,
           Turns(w, "next", job[w].plan, [p \in DOMAIN job[w].copy \ {q} |-> job[w].copy[p]],
                 existing, charge, cols),
           now' = now
    PROVE  Sound(job'[w], now')
<1>1. Sound(job[w], now)
  BY JobsParts
<1> DEFINE left == DOMAIN job[w].copy \ {q}
           f == [p \in left |-> job[w].copy[p]]
<1>2. /\ DOMAIN f = left /\ f \in [left -> Row] /\ left \subseteq Plans
      /\ \A p \in left : f[p] = job[w].copy[p]
  BY <1>1 DEF Sound, WellTyped, Job, Active
<1>3. ASSUME job[w].kind = "execute", NEW p \in left
      PROVE  f[p].nextRunAt <= now
  BY <1>1, <1>2, <1>3 DEF Sound, Active
<1>4. Turns(w, "next", job[w].plan, f, existing, charge, cols)
  OBVIOUS
<1> HIDE DEF f, left
<1> QED
  BY <1>1, <1>2, <1>3, <1>4 DEF Sound, WellTyped, Job, JobPoints, JobShape, Active, Turns,
     HttpKinds, SweepKinds, Executing, Catching

LEMMA SkipJobs ==
    ASSUME JobsInv, NEW w \in Workers, NEW q, SkipNotice(w, q)
    PROVE  JobsInv'
<1>1. /\ Active(w) /\ job[w].pc = "next" /\ job[w].kind \in {"trialNotice", "reminder"}
      /\ now' = now /\ charges' = charges
  BY DEF SkipNotice, Active, At, store
<1>2. Sound(job[w], now) /\ DataOK /\ Others(w)
  BY JobsParts, SkipTurns
<1>3. DataOK'
  BY <1>2 DEF SkipNotice, DataOK, store, bounds, history
<1>4. CASE Ended(w)
  BY <1>1, <1>2, <1>3, <1>4, EndedJobs
<1>5. CASE Turns(w, "next", job[w].plan,
                 [p \in DOMAIN job[w].copy \ {q} |-> job[w].copy[p]],
                 job[w].existing, job[w].charge, job[w].cols)
  <2>1. /\ job[w].existing \in BOOLEAN /\ job[w].charge \in {NoCharge}
        /\ job[w].cols \in SUBSET Columns /\ job[w].kind \in SweepKinds
    BY <1>1, <1>2 DEF Sound, WellTyped, Job, JobShape, Active, SweepKinds
  <2>2. Sound(job'[w], now')
    BY <1>1, <1>5, <2>1, RestSound
  <2>3. \A p \in Plans : w \in Charging(p)' => w \in Charging(p)
    BY <1>5 DEF Charging, Turns
  <2>4. now <= now'
    BY <1>1, <1>2 DEF DataOK
  <2> QED
    BY <1>1, <1>2, <1>3, <2>2, <2>3, <2>4, JobsJoin, ChargingSame
<1> QED
  BY <1>4, <1>5, SkipTurns, JobsParts

LEMMA SendJobs ==
    ASSUME JobsInv, NEW w \in Workers, NEW p, SendNotice(w, p)
    PROVE  JobsInv'
<1>1. /\ Active(w) /\ job[w].pc = "next" /\ job[w].kind \in {"trialNotice", "reminder"}
      /\ p \in DOMAIN job[w].copy /\ now' = now /\ charges' = charges
  BY DEF SendNotice, Active, At
<1>2. /\ Sound(job[w], now) /\ DataOK /\ Others(w)
      /\ Turns(w, "sent", p, job[w].copy, job[w].existing, job[w].charge, job[w].cols)
  BY JobsParts, SendTurns
<1>3. p \in Plans
  BY <1>1, <1>2 DEF Sound, WellTyped, Active
<1>4. notices' \in [Plans -> [Runs -> Nat]]
  <2> DEFINE n == Notice(w, p)
  <2>1. notices' = [notices EXCEPT ![p][n] = @ + 1] /\ notices \in [Plans -> [Runs -> Nat]]
    BY <1>2 DEF SendNotice, DataOK
  <2> HIDE DEF n
  <2>2. CASE n \in Runs
    BY <1>3, <2>1, <2>2
  <2>3. CASE n \notin Runs
    <3>1. [notices[p] EXCEPT ![n] = @ + 1] = notices[p]
      BY <1>3, <2>1, <2>3
    <3>2. notices' = [notices EXCEPT ![p] = [notices[p] EXCEPT ![n] = @ + 1]]
      BY <2>1
    <3> QED
      BY <1>3, <2>1, <3>1, <3>2
  <2> QED
    BY <2>2, <2>3
<1>5. DataOK'
  BY <1>2, <1>4 DEF SendNotice, DataOK, bounds, history
<1>6. Sound(job'[w], now')
  BY <1>1, <1>2, <1>3 DEF Sound, WellTyped, Job, JobPoints, JobShape, Active, Turns,
     HttpKinds, Executing, Catching
<1>7. \A q \in Plans : w \in Charging(q)' => w \in Charging(q)
  BY <1>2 DEF Charging, Turns
<1>8. now <= now'
  BY <1>1, <1>2 DEF DataOK
<1> QED
  BY <1>1, <1>2, <1>5, <1>6, <1>7, <1>8, JobsJoin, ChargingSame

\* An HTTP handler has no other plan to go on with.
LEMMA HandlerEnds ==
    ASSUME JobsInv, NEW w \in Workers, Active(w), job[w].kind \in HttpKinds, Proceed(w)
    PROVE  Ended(w)
<1>1. DOMAIN job = Workers /\ Sound(job[w], now)
  BY JobsParts DEF TypeOK
<1>2. DOMAIN job[w].copy \ {job[w].plan} = {}
  BY <1>1 DEF Sound, JobShape, Active
<1> QED
  BY <1>1, <1>2 DEF Proceed, Ended

LEMMA UpdateJobs ==
    ASSUME JobsInv, NEW w \in Workers, Update(w)
    PROVE  JobsInv'
<1>1. /\ Active(w) /\ job[w].pc \in {"dirty", "redirty"} /\ Proceed(w)
      /\ now' = now /\ charges' = charges
  BY DEF Update, Active
<1>2. /\ Sound(job[w], now) /\ DataOK /\ job[w].plan \in Plans
      /\ Copy(w) \in Row /\ plan[job[w].plan] \in Row
  BY <1>1, Working
<1>3. Others(w)
  BY <1>1, ProceedTurns, JobsParts
<1>4. plan' \in [Plans -> Row]
  <2>1. Patch(plan[job[w].plan], Copy(w), job[w].cols) \in Row
    BY <1>1, <1>2, PatchType DEF Sound, WellTyped, Job, Active
  <2> QED
    BY <1>2, <2>1 DEF Update, DataOK
<1>5. moved' \in [Plans -> SUBSET Runs]
  <2>1. plan[job[w].plan].nextRunAt \in Runs /\ moved \in [Plans -> SUBSET Runs]
    BY <1>2 DEF Row, DataOK
  <2>2. \/ moved' = moved
        \/ moved' = [moved EXCEPT ![job[w].plan] = @ \cup {plan[job[w].plan].nextRunAt}]
    BY Zenon DEF Update
  <2>3. CASE moved' = moved
    BY <2>1, <2>3
  <2>4. CASE moved' = [moved EXCEPT ![job[w].plan] = @ \cup {plan[job[w].plan].nextRunAt}]
    BY <1>2, <2>1, <2>4
  <2> QED
    BY <2>2, <2>3, <2>4
<1>6. DataOK'
  BY <1>2, <1>4, <1>5 DEF Update, DataOK, bounds
<1>7. CASE Ended(w)
  BY <1>1, <1>3, <1>6, <1>7, EndedJobs
<1>8. CASE ~Ended(w)
  <2>1. job[w].kind \in SweepKinds
    BY <1>1, <1>2, <1>8, HandlerEnds DEF Sound, WellTyped, Job, Active
  <2>2. Turns(w, "next", job[w].plan,
              [p \in DOMAIN job[w].copy \ {job[w].plan} |-> job[w].copy[p]],
              FALSE, NoCharge, {})
    BY <1>1, <1>8, ProceedTurns, JobsParts
  <2>3. Sound(job'[w], now')
    <3>1. /\ FALSE \in BOOLEAN /\ NoCharge \in {NoCharge} /\ {} \in SUBSET Columns
          /\ job[w].pc = "next" \/ job[w].plan = job[w].plan
      OBVIOUS
    <3> QED
      BY <1>1, <2>1, <2>2, <3>1, RestSound, Zenon
  <2>4. \A p \in Plans : w \in Charging(p)' => w \in Charging(p)
    BY <2>2 DEF Charging, Turns
  <2>5. now <= now'
    BY <1>1, <1>2 DEF DataOK
  <2> QED
    BY <1>1, <1>3, <1>6, <2>3, <2>4, <2>5, JobsJoin, ChargingSame
<1> QED
  BY <1>7, <1>8

LEMMA StartJobs ==
    ASSUME JobsInv, NEW w \in Workers, NEW kind \in HttpKinds \cup SweepKinds,
           NEW P \in SUBSET Plans, Start(w, kind, P), DataOK',
           kind = "execute" => \A p \in P : plan[p].nextRunAt <= now,
           kind \in HttpKinds => \E p \in Plans : P = {p}
    PROVE  JobsInv'
<1>1. /\ Others(w) /\ DataOK /\ now' = now /\ charges' = charges /\ P # {}
      /\ job'[w] = [pc |-> "next", kind |-> kind, copy |-> [p \in P |-> plan[p]],
                    plan |-> CHOOSE p \in P : TRUE, existing |-> FALSE,
                    charge |-> NoCharge, cols |-> {}]
  BY StartTurns, JobsParts DEF Start, store
<1> DEFINE first == CHOOSE p \in P : TRUE
           f == [p \in P |-> plan[p]]
<1>2. first \in P
  BY <1>1
<1>3. kind \in HttpKinds => P = {first}
  BY <1>2
<1>4. /\ DOMAIN f = P /\ f \in [P -> Row] /\ \A p \in P : f[p] = plan[p]
  BY <1>1 DEF DataOK
<1>5. job'[w] = [pc |-> "next", kind |-> kind, copy |-> f, plan |-> first,
                 existing |-> FALSE, charge |-> NoCharge, cols |-> {}]
  BY <1>1
<1> HIDE DEF first, f
<1>6. Sound(job'[w], now')
  BY <1>1, <1>2, <1>3, <1>4, <1>5 DEF Sound, WellTyped, Job, JobPoints, JobShape,
     Executing, Catching
<1>7. \A p \in Plans : w \in Charging(p)' => w \in Charging(p)
  BY <1>5 DEF Charging
<1>8. now <= now'
  BY <1>1 DEF DataOK
<1> QED
  BY <1>1, <1>6, <1>7, <1>8, JobsJoin, ChargingSame

LEMMA FindJobs ==
    ASSUME JobsInv, NEW w \in Workers, NEW kind \in SweepKinds, Find(w, kind)
    PROVE  JobsInv'
<1>1. Start(w, kind, Selected(kind)) /\ Selected(kind) \in SUBSET Plans /\ DataOK
  BY JobsParts DEF Find, Selected
<1>2. DataOK'
  <2>1. calls' \in 0 .. MaxCalls
    <3>1. MaxCalls \in Nat
      BY RecurringAssumption DEF RecurringAssumption
    <3> QED
      BY <1>1, <3>1 DEF Find, DataOK
  <2>2. overlapped' \in SUBSET Plans
    BY <1>1 DEF Start, DataOK
  <2> QED
    BY <1>1, <2>1, <2>2 DEF Start, DataOK, store
<1>3. kind = "execute" => \A p \in Selected(kind) : plan[p].nextRunAt <= now
  BY DEF Selected, Due
<1> QED
  BY <1>1, <1>2, <1>3, StartJobs DEF HttpKinds, SweepKinds

LEMMA LoadJobs ==
    ASSUME JobsInv, NEW w \in Workers, NEW kind \in HttpKinds, NEW p \in Plans,
           Load(w, kind, p)
    PROVE  JobsInv'
<1>1. Start(w, kind, {p}) /\ DataOK
  BY JobsParts DEF Load
<1>2. DataOK'
  <2>1. calls' \in 0 .. MaxCalls
    <3>1. MaxCalls \in Nat
      BY RecurringAssumption DEF RecurringAssumption
    <3> QED
      BY <1>1, <3>1 DEF Load, DataOK
  <2>2. overlapped' \in SUBSET Plans
    BY <1>1 DEF Start, DataOK
  <2> QED
    BY <1>1, <2>1, <2>2 DEF Start, DataOK, store
<1> QED
  BY <1>1, <1>2, StartJobs DEF HttpKinds

\* The steps that no job takes.
LEMMA IdleJobs ==
    ASSUME JobsInv, job' = job, charges' = charges, DataOK', now <= now'
    PROVE  JobsInv'
<1>1. CASE Workers = {}
  BY <1>1, JobsParts DEF JobsInv, TypeOK, DataOK, Charging
<1>2. CASE Workers # {}
  <2>1. PICK w \in Workers : TRUE
    BY <1>2
  <2>2. Others(w)
    BY JobsParts DEF Others, TypeOK
  <2>3. \A p \in Plans : w \in Charging(p)' => w \in Charging(p)
    BY DEF Charging
  <2>4. Sound(job'[w], now')
    <3>1. Sound(job[w], now) /\ now \in Int /\ now' \in Int
      BY JobsParts DEF DataOK
    <3>2. SUFFICES ASSUME job[w].pc # "idle", job[w].kind = "execute",
                          NEW p \in DOMAIN job[w].copy,
                          p # job[w].plan \/ job[w].pc \in Executing \cup {"next"}
                   PROVE  job[w].copy[p].nextRunAt <= now'
      BY <3>1 DEF Sound
    <3>3. job[w].copy[p].nextRunAt <= now /\ job[w].copy[p].nextRunAt \in Int
      BY <3>1, <3>2 DEF Sound, WellTyped, Job, Row, Runs
    <3> QED
      BY <3>1, <3>3, SMT
  <2> QED
    BY <2>2, <2>3, <2>4, JobsJoin, ChargingSame
<1> QED
  BY <1>1, <1>2

LEMMA JobsInit == Init => JobsInv
<1> SUFFICES ASSUME Init PROVE JobsInv
  OBVIOUS
<1>1. \A w \in Workers : job[w].pc = "idle"
  BY DEF Init, Idle
<1>2. PICK f \in [Plans -> Intervals] : plan = [p \in Plans |-> Created(p, f[p])]
  BY DEF Init
<1>3. ASSUME NEW p \in Plans
      PROVE  Created(p, f[p]) \in Row
  <2>1. Trial[p] \in Runs /\ f[p] \in Intervals
    BY <1>2, RecurringAssumption DEF RecurringAssumption, Runs
  <2> QED
    BY <2>1 DEF Created, Row, PlanStatus
<1>4. plan \in [Plans -> Row]
  BY <1>2, <1>3
<1>5. /\ {MaxNow, MaxCalls, MaxTrouble} \subseteq Nat
  BY RecurringAssumption DEF RecurringAssumption
<1>6. TypeOK
  BY <1>1, <1>4, <1>5 DEF Init, TypeOK, Active, ChargeStatus
<1>7. ASSUME NEW p \in Plans
      PROVE  Cardinality(Charging(p)) <= charges[p]["pending"]
  <2>1. Charging(p) = {}
    BY <1>1 DEF Charging
  <2>2. charges[p]["pending"] = 0
    BY DEF Init, ChargeStatus
  <2> QED
    BY <2>1, <2>2, FS_EmptySet
<1> QED
  BY <1>1, <1>6, <1>7 DEF JobsInv, Active

LEMMA TickJobs ==
    ASSUME JobsInv, Tick
    PROVE  JobsInv'
<1>1. DataOK
  BY JobsParts
<1>2. now' \in 0 .. MaxNow /\ now <= now' /\ job' = job /\ charges' = charges
  BY <1>1, RecurringAssumption DEF Tick, DataOK, RecurringAssumption
<1>3. DataOK'
  BY <1>1, <1>2 DEF Tick, DataOK, bounds, history
<1> QED
  BY <1>2, <1>3, IdleJobs

LEMMA LapseJobs ==
    ASSUME JobsInv, NEW p \in Plans, NEW t \in Runs, Lapse(p, t)
    PROVE  JobsInv'
<1>1. DataOK /\ MaxTrouble \in Nat
  BY JobsParts, RecurringAssumption DEF RecurringAssumption
<1>2. cuts' \in 0 .. MaxTrouble
  BY <1>1 DEF Lapse, Trouble, DataOK
<1>3. DataOK'
  BY <1>1, <1>2 DEF Lapse, DataOK
<1> QED
  BY <1>1, <1>3, IdleJobs DEF Lapse, DataOK

LEMMA JobsKept ==
    ASSUME JobsInv, [Next]_vars
    PROVE  JobsInv'
<1>1. CASE UNCHANGED vars
  BY <1>1 DEF vars, store, bounds, history, JobsInv, TypeOK, Active, CopiesDue, Charging
<1>2. CASE Tick
  BY <1>2, TickJobs
<1>3. ASSUME NEW p \in Plans, NEW t \in Runs, Lapse(p, t)
      PROVE  JobsInv'
  BY <1>3, LapseJobs
<1>4. ASSUME NEW w \in Workers,
             \/ \E kind \in SweepKinds : Find(w, kind)
             \/ \E kind \in HttpKinds, p \in Plans : Load(w, kind, p)
      PROVE  JobsInv'
  BY <1>4, FindJobs, LoadJobs
<1>5. ASSUME NEW w \in Workers, Misfortune(w)
      PROVE  JobsInv'
  BY <1>5, BeginFailsJobs, FailsJobs, FinishJobs, CreateFailsJobs DEF Misfortune
<1>6. ASSUME NEW w \in Workers, Step(w)
      PROVE  JobsInv'
  BY <1>6, BeginJobs, SendJobs, SkipJobs, CheckJobs, CreateJobs, SaveChargeJobs,
     StoreKeyJobs, AdvanceJobs, RecordFailureJobs, SaveFailureJobs, FinishJobs, MarkJobs,
     ApplyJobs, UpdateJobs DEF Step
<1> QED
  BY <1>1, <1>2, <1>3, <1>4, <1>5, <1>6 DEF Next

LEMMA JobsAlways == Spec => []JobsInv
<1>1. JobsInv /\ [Next]_vars => JobsInv'
  BY JobsKept
<1> QED
  BY <1>1, JobsInit, PTL DEF Spec

\* Whatever the plans, the slots, the schedules and the bounds are: every reachable
\* state is well typed, so a run never leaves the horizon and no charge is taken out
\* of PENDING that was not there.
THEOREM TypeCorrect == Spec => []TypeOK
<1>1. JobsInv => TypeOK
  BY DEF JobsInv
<1> QED
  BY <1>1, JobsAlways, PTL

----------------------------------------------------------------------------
(* Payments per run.                                                       *)

\* RunsGuarded, of one run of one plan.
Guarded(p, t) ==
    /\ \A w \in Workers : Guards(job[w], p, t) =>
          t \notin keyed[p] /\ \A v \in Workers : Guards(job[v], p, t) => v = w
    /\ paid[p][t] <= 1 + unkeyed[p][t]
    /\ t \notin keyed[p] /\ (\A w \in Workers : ~Owes(job[w], p, t)) =>
          paid[p][t] <= unkeyed[p][t]

LEMMA GuardedEach ==
    RunsGuarded <=> \A p \in Plans : \A t \in Runs \ raced[p] : Guarded(p, t)
  BY DEF RunsGuarded, Guarded

LEMMA Counts ==
    ASSUME DataOK, NEW p \in Plans, NEW t \in Runs
    PROVE  /\ paid[p][t] \in Nat /\ unkeyed[p][t] \in Nat
           /\ keyed[p] \subseteq Runs /\ raced[p] \subseteq Runs
  BY DEF DataOK

\* Most steps: nobody starts to guard a run or stops owing its key.
LEMMA GuardedSame ==
    ASSUME RunsGuarded, NEW w \in Workers, Others(w),
           UNCHANGED <<paid, keyed, unkeyed, raced>>,
           \A p \in Plans, t \in Runs : Guards(job'[w], p, t) => Guards(job[w], p, t),
           \A p \in Plans, t \in Runs : Owes(job[w], p, t) => Owes(job'[w], p, t)
    PROVE  RunsGuarded'
<1> SUFFICES ASSUME NEW p \in Plans, NEW t \in Runs \ raced[p]
             PROVE  Guarded(p, t)'
  BY DEF RunsGuarded, Guarded
<1>1. Guarded(p, t)
  BY GuardedEach
<1>2. \A v \in Workers : /\ Guards(job'[v], p, t) => Guards(job[v], p, t)
                         /\ Owes(job[v], p, t) => Owes(job'[v], p, t)
  BY DEF Others
<1> QED
  BY <1>1, <1>2 DEF Guarded

\* A sweep lets go of a run: what it paid without a key is written down.
LEMMA GuardedForgotten ==
    ASSUME JobsInv, RunsGuarded, NEW w \in Workers, Others(w), Active(w), Forget(w),
           UNCHANGED <<paid, keyed, raced>>, job'[w].pc \in {"idle", "caught"}
    PROVE  RunsGuarded'
<1> SUFFICES ASSUME NEW p \in Plans, NEW t \in Runs \ raced[p]
             PROVE  Guarded(p, t)'
  BY DEF RunsGuarded, Guarded
<1>1. Guarded(p, t) /\ DataOK /\ paid[p][t] \in Nat /\ unkeyed[p][t] \in Nat
  BY GuardedEach, JobsParts, Counts
<1>2. unkeyed'[p][t] =
        IF Owes(job[w], p, t) THEN unkeyed[p][t] + 1 ELSE unkeyed[p][t]
  BY <1>1 DEF Forget, Owes, Guards, Run, Copy, DataOK
<1>3. ~Guards(job'[w], p, t)
  BY DEF Guards
<1>4. \A v \in Workers : Guards(job'[v], p, t) => v # w /\ Guards(job[v], p, t)
  BY <1>3 DEF Others
<1>5. \A v \in Workers \ {w} : Owes(job[v], p, t) => Owes(job'[v], p, t)
  BY DEF Others
<1>6. unkeyed'[p][t] >= unkeyed[p][t] /\ unkeyed'[p][t] \in Nat
  BY <1>1, <1>2
<1>7. ASSUME t \notin keyed[p], \A v \in Workers : ~Owes(job'[v], p, t)
      PROVE  paid[p][t] <= unkeyed'[p][t]
  <2>1. CASE Owes(job[w], p, t)
    BY <1>1, <1>2, <2>1 DEF Guarded
  <2>2. CASE ~Owes(job[w], p, t)
    <3>1. \A v \in Workers : ~Owes(job[v], p, t)
      BY <1>5, <1>7, <2>2
    <3>2. paid[p][t] <= unkeyed[p][t]
      BY <1>1, <1>7, <3>1 DEF Guarded
    <3> QED
      BY <1>1, <1>6, <3>2
  <2> QED
    BY <2>1, <2>2
<1>8. paid[p][t] <= 1 + unkeyed'[p][t]
  BY <1>1, <1>6 DEF Guarded
<1> QED
  BY <1>1, <1>4, <1>7, <1>8 DEF Guarded

LEMMA CheckGuarded ==
    ASSUME JobsInv, RunsGuarded, NEW w \in Workers, CheckKey(w)
    PROVE  RunsGuarded'
<1> DEFINE existing == Run(w) \in keyed[job[w].plan]
<1>1. /\ Others(w) /\ Active(w) /\ DataOK /\ UNCHANGED <<paid, keyed, unkeyed>>
      /\ Turns(w, IF existing THEN "paid" ELSE "unpaid", job[w].plan, job[w].copy,
               existing, job[w].charge, job[w].cols)
      /\ job[w].pc = "opened"
  BY CheckTurns, JobsParts DEF CheckKey, store, At
<1>2. job[w].plan \in Plans /\ Run(w) \in Runs
  BY <1>1, Working
<1>3. \A p \in Plans : raced[p] \subseteq raced'[p]
  <2>1. \/ raced' = raced
        \/ raced' = [raced EXCEPT ![job[w].plan] = @ \cup {Run(w)}]
    BY Zenon DEF CheckKey
  <2>2. raced \in [Plans -> SUBSET Runs]
    BY <1>1 DEF DataOK
  <2>3. CASE raced' = raced
    BY <2>3
  <2>4. CASE raced' = [raced EXCEPT ![job[w].plan] = @ \cup {Run(w)}]
    BY <1>2, <2>2, <2>4
  <2> QED
    BY <2>1, <2>3, <2>4
<1> SUFFICES ASSUME NEW p \in Plans, NEW t \in Runs \ raced'[p]
             PROVE  Guarded(p, t)'
  BY DEF RunsGuarded, Guarded
<1>4. Guarded(p, t)
  BY <1>3, GuardedEach
<1>5. \A v \in Workers \ {w} : job'[v] = job[v]
  BY <1>1 DEF Others
<1>6. ~Guards(job[w], p, t) /\ ~Owes(job[w], p, t) /\ ~Owes(job'[w], p, t)
  <2>1. CASE existing
    <3>1. Turns(w, "paid", job[w].plan, job[w].copy, TRUE, job[w].charge, job[w].cols)
      <4>1. existing = TRUE
        BY <2>1
      <4> HIDE DEF existing
      <4> QED
        BY <1>1, <4>1
    <3> QED
      BY <1>1, <3>1 DEF Guards, Owes, Turns
  <2>2. CASE ~existing
    BY <1>1, <2>2 DEF Guards, Owes, Turns
  <2> QED
    BY <2>1, <2>2
<1>7. ASSUME Guards(job'[w], p, t)
      PROVE  t \notin keyed[p] /\ \A v \in Workers \ {w} : ~Guards(job[v], p, t)
  <2>1. job'[w].plan = job[w].plan /\ job'[w].copy = job[w].copy
    BY <1>1 DEF Turns
  <2>2. p = job[w].plan /\ t = Run(w)
    BY <1>7, <2>1 DEF Guards, Run, Copy
  <2>3. ~existing
    <3>1. ASSUME existing PROVE FALSE
      <4>1. existing = TRUE
        BY <3>1
      <4>2. job'[w].existing = TRUE
        <5> HIDE DEF existing
        <5> QED
          BY <1>1, <4>1 DEF Turns
      <4> QED
        BY <1>7, <4>2 DEF Guards
    <3> QED
      BY <3>1
  <2>4. ASSUME NEW v \in Workers \ {w}, Guards(job[v], p, t)
        PROVE  FALSE
    <3>1. Active(v) /\ Unguarded(v) /\ job[v].plan = job[w].plan /\ Run(v) = Run(w)
      BY <2>2, <2>4 DEF Guards, Active, Unguarded, Run, Copy
    <3>2. raced' = [raced EXCEPT ![job[w].plan] = @ \cup {Run(w)}]
      BY <2>3, <3>1 DEF CheckKey
    <3> QED
      BY <1>1, <1>2, <2>2, <3>2 DEF DataOK
  <2> QED
    BY <2>2, <2>3, <2>4
<1>8. ASSUME NEW x \in Workers, Guards(job'[x], p, t)
      PROVE  t \notin keyed[p] /\ \A v \in Workers : Guards(job'[v], p, t) => v = x
  <2>1. CASE x = w
    BY <1>5, <1>7, <1>8, <2>1
  <2>2. CASE x # w
    BY <1>4, <1>5, <1>7, <1>8, <2>2 DEF Guarded
  <2> QED
    BY <2>1, <2>2
<1>9. \A v \in Workers : Owes(job[v], p, t) => Owes(job'[v], p, t)
  BY <1>5, <1>6
<1> QED
  BY <1>1, <1>4, <1>8, <1>9 DEF Guarded

LEMMA CreateGuarded ==
    ASSUME JobsInv, RunsGuarded, NEW w \in Workers, CreatePayment(w)
    PROVE  RunsGuarded'
<1>1. Active(w) /\ job[w].pc = "unpaid" /\ UNCHANGED <<keyed, unkeyed, raced>>
  BY DEF CreatePayment, Active, At, history
<1>2. /\ Others(w)
      /\ Turns(w, "paid", job[w].plan, job[w].copy, job[w].existing, job[w].charge,
               job[w].cols)
  BY <1>1, GotoTurns, JobsParts DEF CreatePayment
<1>3. /\ DataOK /\ Sound(job[w], now) /\ job[w].plan \in Plans /\ Run(w) \in Runs
  BY <1>1, Working
<1>4. ~job[w].existing
  BY <1>1, <1>3 DEF Sound, JobShape
<1> SUFFICES ASSUME NEW p \in Plans, NEW t \in Runs \ raced[p]
             PROVE  Guarded(p, t)'
  BY <1>1 DEF RunsGuarded, Guarded
<1>5. Guarded(p, t) /\ paid[p][t] \in Nat /\ unkeyed[p][t] \in Nat
  BY <1>3, GuardedEach, Counts
<1>6. /\ Guards(job'[w], p, t) <=> Guards(job[w], p, t)
      /\ Guards(job[w], p, t) <=> p = job[w].plan /\ t = Run(w)
      /\ ~Owes(job[w], p, t)
  BY <1>1, <1>2, <1>4 DEF Guards, Owes, Turns, Run, Copy
<1>7. Guards(job'[w], p, t) <=> Owes(job'[w], p, t)
  BY <1>2 DEF Owes, Turns
<1>8. \A v \in Workers \ {w} : job'[v] = job[v]
  BY <1>2 DEF Others
<1>9. \A v \in Workers : Guards(job'[v], p, t) <=> Guards(job[v], p, t)
  BY <1>6, <1>8
<1>10. paid'[p][t] = IF p = job[w].plan /\ t = Run(w) THEN paid[p][t] + 1 ELSE paid[p][t]
  BY <1>3 DEF CreatePayment, DataOK
<1>11. CASE Guards(job[w], p, t)
  <2>1. \A v \in Workers : ~Owes(job[v], p, t)
    BY <1>5, <1>6, <1>11 DEF Guarded, Owes
  <2>2. t \notin keyed[p] /\ paid[p][t] <= unkeyed[p][t]
    BY <1>5, <1>11, <2>1 DEF Guarded
  <2>3. paid'[p][t] <= 1 + unkeyed[p][t]
    BY <1>5, <1>6, <1>10, <1>11, <2>2
  <2>4. Owes(job'[w], p, t)
    BY <1>6, <1>7, <1>11
  <2> QED
    BY <1>1, <1>5, <1>9, <2>2, <2>3, <2>4 DEF Guarded
<1>12. CASE ~Guards(job[w], p, t)
  <2>1. paid'[p][t] = paid[p][t]
    BY <1>6, <1>10, <1>12
  <2>2. \A v \in Workers : Owes(job[v], p, t) => Owes(job'[v], p, t)
    BY <1>6, <1>8
  <2> QED
    BY <1>1, <1>5, <1>9, <2>1, <2>2 DEF Guarded
<1> QED
  BY <1>11, <1>12

LEMMA StoreGuarded ==
    ASSUME JobsInv, RunsGuarded, NEW w \in Workers, StoreKey(w)
    PROVE  RunsGuarded'
<1>1. /\ Active(w) /\ job[w].pc = "keying" /\ UNCHANGED <<paid, unkeyed, raced>>
      /\ keyed' = [keyed EXCEPT ![job[w].plan] = @ \cup {Run(w)}]
  BY DEF StoreKey, Active, At, history
<1>2. /\ Others(w)
      /\ Turns(w, "settling", job[w].plan, job[w].copy, job[w].existing, job[w].charge,
               job[w].cols)
  BY <1>1, GotoTurns, JobsParts DEF StoreKey
<1>3. /\ DataOK /\ Sound(job[w], now) /\ job[w].plan \in Plans /\ Run(w) \in Runs
  BY <1>1, Working
<1>4. ~job[w].existing
  BY <1>1, <1>3 DEF Sound, JobShape
<1> SUFFICES ASSUME NEW p \in Plans, NEW t \in Runs \ raced[p]
             PROVE  Guarded(p, t)'
  BY <1>1 DEF RunsGuarded, Guarded
<1>5. Guarded(p, t)
  BY GuardedEach
<1>6. /\ Guards(job[w], p, t) <=> p = job[w].plan /\ t = Run(w)
      /\ ~Guards(job'[w], p, t)
  BY <1>1, <1>2, <1>4 DEF Guards, Turns, Run, Copy
<1>7. \A v \in Workers \ {w} : job'[v] = job[v]
  BY <1>2 DEF Others
<1>8. CASE p = job[w].plan /\ t = Run(w)
  <2>1. t \in keyed'[p]
    BY <1>1, <1>3, <1>8 DEF DataOK
  <2>2. \A v \in Workers : ~Guards(job'[v], p, t)
    BY <1>5, <1>6, <1>7, <1>8 DEF Guarded
  <2> QED
    BY <1>1, <1>5, <2>1, <2>2 DEF Guarded
<1>9. CASE ~(p = job[w].plan /\ t = Run(w))
  <2>1. t \in keyed'[p] <=> t \in keyed[p]
    BY <1>1, <1>3, <1>9 DEF DataOK
  <2>2. \A v \in Workers : /\ Guards(job'[v], p, t) => Guards(job[v], p, t)
                           /\ Owes(job[v], p, t) => Owes(job'[v], p, t)
    BY <1>6, <1>7, <1>9 DEF Owes
  <2> QED
    BY <1>1, <1>5, <2>1, <2>2 DEF Guarded
<1> QED
  BY <1>8, <1>9

\* A payment that create() committed unheard is written down at once.
LEMMA CreateFailsGuarded ==
    ASSUME JobsInv, RunsGuarded, NEW w \in Workers, NEW committed \in BOOLEAN,
           CreateFails(w, committed)
    PROVE  RunsGuarded'
<1>1. /\ Active(w) /\ job[w].pc = "unpaid" /\ UNCHANGED <<keyed, raced>>
      /\ Caught(w, job[w].plan, job[w].charge)
  BY DEF CreateFails, Active, At
<1>2. DataOK /\ job[w].plan \in Plans /\ Run(w) \in Runs /\ Others(w)
  BY <1>1, Working, CaughtTurns
<1>3. job'[w].pc = "caught"
  BY <1>1, CaughtTurns, JobsParts
<1> SUFFICES ASSUME NEW p \in Plans, NEW t \in Runs \ raced[p]
             PROVE  Guarded(p, t)'
  BY <1>1 DEF RunsGuarded, Guarded
<1>4. Guarded(p, t) /\ paid[p][t] \in Nat /\ unkeyed[p][t] \in Nat
  BY <1>2, GuardedEach, Counts
<1>5. \A v \in Workers : /\ Guards(job'[v], p, t) => Guards(job[v], p, t)
                         /\ Owes(job[v], p, t) => Owes(job'[v], p, t)
  BY <1>1, <1>2, <1>3 DEF Others, Guards, Owes
<1>6. \/ paid'[p][t] = paid[p][t] /\ unkeyed'[p][t] = unkeyed[p][t]
      \/ paid'[p][t] = paid[p][t] + 1 /\ unkeyed'[p][t] = unkeyed[p][t] + 1
  <2>1. CASE committed
    <3>1. /\ paid' = [paid EXCEPT ![job[w].plan][Run(w)] = @ + 1]
          /\ unkeyed' = [unkeyed EXCEPT ![job[w].plan][Run(w)] = @ + 1]
      BY <2>1 DEF CreateFails
    <3> QED
      BY <1>2, <3>1 DEF DataOK
  <2>2. CASE ~committed
    BY <2>2 DEF CreateFails
  <2> QED
    BY <2>1, <2>2
<1>7. /\ paid'[p][t] - unkeyed'[p][t] = paid[p][t] - unkeyed[p][t]
      /\ paid'[p][t] \in Nat /\ unkeyed'[p][t] \in Nat
  BY <1>4, <1>6
<1>8. paid'[p][t] <= 1 + unkeyed'[p][t]
  BY <1>4, <1>7 DEF Guarded
<1>9. ASSUME t \notin keyed[p], \A v \in Workers : ~Owes(job'[v], p, t)
      PROVE  paid'[p][t] <= unkeyed'[p][t]
  <2>1. paid[p][t] <= unkeyed[p][t]
    BY <1>4, <1>5, <1>9 DEF Guarded
  <2> QED
    BY <1>4, <1>7, <2>1
<1>10. ASSUME NEW x \in Workers, Guards(job'[x], p, t)
       PROVE  t \notin keyed[p] /\ \A v \in Workers : Guards(job'[v], p, t) => v = x
  BY <1>4, <1>5, <1>10 DEF Guarded
<1> QED
  BY <1>1, <1>8, <1>9, <1>10 DEF Guarded

LEMMA LapseGuarded ==
    ASSUME JobsInv, RunsGuarded, NEW q \in Plans, NEW s \in Runs, Lapse(q, s)
    PROVE  RunsGuarded'
<1>1. /\ DataOK /\ s \in keyed[q] /\ UNCHANGED <<paid, raced, job>>
      /\ keyed' = [keyed EXCEPT ![q] = @ \ {s}]
      /\ unkeyed' = [unkeyed EXCEPT ![q][s] = @ + 1]
  BY JobsParts DEF Lapse
<1> SUFFICES ASSUME NEW p \in Plans, NEW t \in Runs \ raced[p]
             PROVE  Guarded(p, t)'
  BY <1>1 DEF RunsGuarded, Guarded
<1>2. Guarded(p, t) /\ paid[p][t] \in Nat /\ unkeyed[p][t] \in Nat
  BY <1>1, GuardedEach, Counts
<1>3. CASE p = q /\ t = s
  <2>1. t \notin keyed'[p] /\ unkeyed'[p][t] = unkeyed[p][t] + 1
    BY <1>1, <1>3 DEF DataOK
  <2>2. paid[p][t] <= unkeyed'[p][t]
    BY <1>2, <2>1 DEF Guarded
  <2>3. \A v \in Workers : ~Guards(job[v], p, t)
    BY <1>1, <1>2, <1>3 DEF Guarded
  <2> QED
    BY <1>1, <1>2, <2>1, <2>2, <2>3 DEF Guarded
<1>4. CASE ~(p = q /\ t = s)
  <2>1. /\ t \in keyed'[p] <=> t \in keyed[p]
        /\ unkeyed'[p][t] = unkeyed[p][t]
    BY <1>1, <1>4 DEF DataOK
  <2> QED
    BY <1>1, <1>2, <2>1 DEF Guarded
<1> QED
  BY <1>3, <1>4

\* A job that neither guards a run before the step nor after it.
LEMMA GuardedAway ==
    ASSUME RunsGuarded, NEW w \in Workers, Others(w),
           UNCHANGED <<paid, keyed, unkeyed, raced>>,
           job[w].pc \notin {"unpaid", "paid", "keying"},
           job'[w].pc \notin {"unpaid", "paid", "keying"}
    PROVE  RunsGuarded'
<1>1. \A p \in Plans, t \in Runs : ~Guards(job'[w], p, t) /\ ~Owes(job[w], p, t)
  BY DEF Guards, Owes
<1> QED
  BY <1>1, GuardedSame

LEMMA SaveChargeGuarded ==
    ASSUME JobsInv, RunsGuarded, NEW w \in Workers, SaveCharge(w)
    PROVE  RunsGuarded'
<1>1. /\ Others(w) /\ job[w].pc = "paid"
      /\ Turns(w, IF job[w].existing THEN "settling" ELSE "keying", job[w].plan,
               job[w].copy, job[w].existing, "succeeded", job[w].cols)
      /\ UNCHANGED <<paid, keyed, unkeyed, raced>>
  BY SaveChargeTurns, JobsParts DEF SaveCharge, At, history
<1>2. /\ job'[w].plan = job[w].plan /\ job'[w].copy = job[w].copy
      /\ job'[w].existing = job[w].existing
      /\ job'[w].pc = IF job[w].existing THEN "settling" ELSE "keying"
  BY <1>1 DEF Turns
<1>3. \A p \in Plans, t \in Runs :
         /\ Guards(job'[w], p, t) => Guards(job[w], p, t)
         /\ Owes(job[w], p, t) => Owes(job'[w], p, t)
  BY <1>1, <1>2 DEF Guards, Owes
<1> QED
  BY <1>1, <1>3, GuardedSame

LEMMA ForgetGuarded ==
    ASSUME JobsInv, RunsGuarded, NEW w \in Workers, Fails(w) \/ Cut(w)
    PROVE  RunsGuarded'
<1>1. Active(w) /\ Forget(w) /\ UNCHANGED <<paid, keyed, raced>>
  BY DEF Fails, Cut, Active, store
<1>2. CASE Fails(w)
  <2>1. Others(w) /\ job'[w].pc = "caught"
    <3>1. PICK charge : Caught(w, job[w].plan, charge)
      BY <1>2 DEF Fails
    <3> QED
      BY <1>1, <3>1, CaughtTurns, JobsParts
  <2> QED
    BY <1>1, <2>1, GuardedForgotten
<1>3. CASE Cut(w)
  <2>1. Others(w) /\ job'[w].pc = "idle"
    BY <1>3, FinishTurns, JobsParts DEF Cut, Ended, Idle
  <2> QED
    BY <1>1, <2>1, GuardedForgotten
<1> QED
  BY <1>2, <1>3

LEMMA GuardedKept ==
    ASSUME JobsInv, RunsGuarded, [Next]_vars
    PROVE  RunsGuarded'
<1>0. TypeOK
  BY JobsParts
<1>1. CASE UNCHANGED vars
  BY <1>1 DEF vars, store, history, RunsGuarded
<1>2. CASE Tick
  BY <1>2 DEF Tick, history, RunsGuarded
<1>3. ASSUME NEW p \in Plans, NEW t \in Runs, Lapse(p, t)
      PROVE  RunsGuarded'
  BY <1>3, LapseGuarded
<1>4. ASSUME NEW w \in Workers, NEW kind, NEW P, Start(w, kind, P)
      PROVE  RunsGuarded'
  <2>1. Others(w) /\ job'[w].pc = "next"
    BY <1>0, <1>4, StartTurns
  <2> QED
    BY <1>4, <2>1, GuardedAway DEF Start, Active, store
<1>5. ASSUME NEW w \in Workers, NEW p, BeginFails(w, p)
      PROVE  RunsGuarded'
  <2>1. Others(w) /\ job'[w].pc = "caught"
    BY <1>0, <1>5, BeginFailsTurns
  <2> QED
    BY <1>5, <2>1, GuardedAway DEF BeginFails, At, store, history
<1>6. ASSUME NEW w \in Workers, NEW p, Begin(w, p)
      PROVE  RunsGuarded'
  <2>1. Others(w) /\ job'[w].pc = "opened"
    BY <1>0, <1>6, BeginTurns
  <2> QED
    BY <1>6, <2>1, GuardedAway DEF Begin, At, history
<1>7. ASSUME NEW w \in Workers, NEW p, SendNotice(w, p)
      PROVE  RunsGuarded'
  <2>1. Others(w) /\ job'[w].pc = "sent"
    BY <1>0, <1>7, SendTurns
  <2> QED
    BY <1>7, <2>1, GuardedAway DEF SendNotice, At, history
<1>8. ASSUME NEW w \in Workers, NEW p, SkipNotice(w, p)
      PROVE  RunsGuarded'
  <2>1. Others(w) /\ job'[w].pc \in {"idle", "next"}
    BY <1>0, <1>8, SkipTurns
  <2> QED
    BY <1>8, <2>1, GuardedAway DEF SkipNotice, At, store, history
<1>9. ASSUME NEW w \in Workers, Update(w)
      PROVE  RunsGuarded'
  <2>1. Active(w) /\ Proceed(w)
    BY <1>9 DEF Update, Active
  <2>2. Others(w) /\ job'[w].pc \in {"idle", "next"}
    BY <1>0, <2>1, ProceedTurns
  <2> QED
    BY <1>9, <2>2, GuardedAway DEF Update
<1>10. ASSUME NEW w \in Workers, NEW c, Active(w), StartSave(w, c),
              UNCHANGED <<store, bounds, history>>,
              job[w].pc \notin {"unpaid", "paid", "keying"}
       PROVE  RunsGuarded'
  <2>1. Others(w) /\ job'[w].pc = "dirty"
    BY <1>0, <1>10, StartSaveTurns
  <2> QED
    BY <1>10, <2>1, GuardedAway DEF store, history
<1>11. ASSUME NEW w \in Workers,
              \/ Advance(w) \/ MarkNotice(w) \/ \E i \in Intervals : Apply(w, i)
       PROVE  RunsGuarded'
  BY <1>10, <1>11 DEF Advance, MarkNotice, Apply, At, Active
<1>12. ASSUME NEW w \in Workers, RecordFailure(w)
       PROVE  RunsGuarded'
  <2>1. Active(w) /\ Goto(w, "counted")
    BY <1>12 DEF RecordFailure, At, Active
  <2>2. Others(w) /\ job'[w].pc = "counted"
    BY <1>0, <2>1, GotoTurns
  <2> QED
    BY <1>12, <2>2, GuardedAway DEF RecordFailure, At, history
<1>13. ASSUME NEW w \in Workers, SaveFailure(w)
       PROVE  RunsGuarded'
  <2>1. Others(w) /\ job'[w].pc = "redirty"
    BY <1>0, <1>13, SaveFailureTurns
  <2> QED
    BY <1>13, <2>1, GuardedAway DEF SaveFailure, At, store, history
<1>14. ASSUME NEW w \in Workers, AutoPause(w) \/ Reject(w)
       PROVE  RunsGuarded'
  <2>1. Finish(w)
    BY <1>14 DEF AutoPause, Reject
  <2>2. Others(w) /\ job'[w].pc = "idle"
    BY <1>0, <2>1, FinishTurns DEF Ended, Idle
  <2> QED
    BY <1>14, <2>2, GuardedAway DEF AutoPause, Reject, At, store, history
<1>15. ASSUME NEW w \in Workers, Misfortune(w)
       PROVE  RunsGuarded'
  BY <1>5, <1>15, ForgetGuarded, CreateFailsGuarded DEF Misfortune
<1>16. ASSUME NEW w \in Workers, Step(w)
       PROVE  RunsGuarded'
  BY <1>6, <1>7, <1>8, <1>9, <1>11, <1>12, <1>13, <1>14, <1>16, CheckGuarded, CreateGuarded,
     SaveChargeGuarded, StoreGuarded DEF Step
<1> QED
  BY <1>1, <1>2, <1>3, <1>4, <1>15, <1>16 DEF Next, Find, Load

LEMMA GuardedInit == Init => RunsGuarded
<1> SUFFICES ASSUME Init PROVE RunsGuarded
  OBVIOUS
<1>1. \A w \in Workers : job[w].pc = "idle"
  BY DEF Init, Idle
<1>2. \A p \in Plans, t \in Runs : paid[p][t] = 0 /\ unkeyed[p][t] = 0
  BY DEF Init
<1> QED
  BY <1>1, <1>2 DEF RunsGuarded, Guards

\* A scheduled run is paid once, plus once for each payment whose key was lost: in
\* every interleaving of every number of sweeps and of calls of the owner, except for
\* the runs that two sweeps found without a key at once.
THEOREM RunsPaidOnce == Spec => []PaymentsPerRun
<1>1. JobsInv /\ RunsGuarded /\ [Next]_vars => RunsGuarded'
  BY GuardedKept
<1>2. RunsGuarded => PaymentsPerRun
  BY DEF RunsGuarded, PaymentsPerRun
<1> QED
  BY <1>1, <1>2, GuardedInit, JobsAlways, PTL DEF Spec

----------------------------------------------------------------------------
(* Payments stay, keys follow payments, and holders are alone.             *)

PaidGrows == \A p \in Plans, t \in Runs : paid'[p][t] >= paid[p][t]

LEMMA PaidKept ==
    ASSUME DataOK, paid' = paid
    PROVE  PaidGrows
  BY DEF DataOK, PaidGrows

LEMMA PaidMore ==
    ASSUME DataOK, NEW q \in Plans, NEW s \in Runs,
           paid' = [paid EXCEPT ![q][s] = @ + 1]
    PROVE  PaidGrows /\ paid'[q][s] > 0
  BY DEF DataOK, PaidGrows

LEMMA Grows ==
    ASSUME JobsInv, [Next]_vars
    PROVE  PaidGrows
<1>1. DataOK
  BY JobsParts
<1>2. ASSUME NEW w \in Workers, CreatePayment(w)
      PROVE  PaidGrows
  <2>1. job[w].plan \in Plans /\ Run(w) \in Runs
    BY <1>2, Working DEF CreatePayment, At, Active
  <2> QED
    BY <1>1, <1>2, <2>1, PaidMore DEF CreatePayment
<1>3. ASSUME NEW w \in Workers, NEW committed \in BOOLEAN, CreateFails(w, committed)
      PROVE  PaidGrows
  <2>1. job[w].plan \in Plans /\ Run(w) \in Runs
    BY <1>3, Working DEF CreateFails, At, Active
  <2>2. paid' = paid \/ paid' = [paid EXCEPT ![job[w].plan][Run(w)] = @ + 1]
    BY <1>3 DEF CreateFails
  <2> QED
    BY <1>1, <2>1, <2>2, PaidMore, PaidKept
<1>4. ASSUME NEW w \in Workers, Step(w), ~CreatePayment(w)
      PROVE  paid' = paid
  BY <1>4 DEF Step, Begin, SendNotice, SkipNotice, CheckKey, SaveCharge, StoreKey, Advance,
     RecordFailure, SaveFailure, AutoPause, MarkNotice, Apply, Reject, Update, store
<1>5. ASSUME NEW w \in Workers, Misfortune(w),
             ~\E committed \in BOOLEAN : CreateFails(w, committed)
      PROVE  paid' = paid
  BY <1>5 DEF Misfortune, BeginFails, Fails, Cut, store
<1>6. CASE UNCHANGED vars \/ Tick \/ \E p \in Plans, t \in Runs : Lapse(p, t)
  BY <1>1, <1>6, PaidKept DEF Tick, Lapse, vars, store
<1>7. ASSUME NEW w \in Workers, NEW kind, NEW P, Start(w, kind, P)
      PROVE  paid' = paid
  BY <1>7 DEF Start, store
<1> QED
  BY <1>1, <1>2, <1>3, <1>4, <1>5, <1>6, <1>7, PaidKept DEF Next, Misfortune, Find, Load

LEMMA KeysJoin ==
    ASSUME JobsInv, KeysPaid, PaidGrows, DataOK', NEW w \in Workers, Others(w),
           \A p \in Plans : \A t \in keyed'[p] : t \in keyed[p] \/ paid'[p][t] > 0,
           job'[w].pc \in {"paid", "keying", "settling"} =>
              paid'[job'[w].plan][job'[w].copy[job'[w].plan].nextRunAt] > 0
    PROVE  KeysPaid'
<1>1. DataOK
  BY JobsParts
<1>2. ASSUME NEW p \in Plans, NEW t \in keyed'[p]
      PROVE  paid'[p][t] > 0
  <2>1. CASE t \in keyed[p]
    BY <1>1, <2>1 DEF KeysPaid, PaidGrows, DataOK
  <2> QED
    BY <2>1
<1>3. ASSUME NEW v \in Workers \ {w}, job[v].pc \in {"paid", "keying", "settling"}
      PROVE  paid'[job[v].plan][job[v].copy[job[v].plan].nextRunAt] > 0
  <2>1. job[v].plan \in Plans /\ job[v].copy[job[v].plan].nextRunAt \in Runs
    BY <1>3, Working DEF Active, Run, Copy
  <2> QED
    BY <1>1, <1>3, <2>1 DEF KeysPaid, PaidGrows, DataOK
<1>4. ASSUME NEW v \in Workers, job'[v].pc \in {"paid", "keying", "settling"}
      PROVE  paid'[job'[v].plan][job'[v].copy[job'[v].plan].nextRunAt] > 0
  <2>1. CASE v = w
    BY <1>4, <2>1
  <2>2. CASE v # w
    <3>1. job'[v] = job[v]
      BY <2>2 DEF Others
    <3> QED
      BY <1>3, <1>4, <2>2, <3>1
  <2> QED
    BY <2>1, <2>2
<1> QED
  BY <1>2, <1>4 DEF KeysPaid

LEMMA KeysCheck ==
    ASSUME JobsInv, KeysPaid, PaidGrows, DataOK', NEW w \in Workers, CheckKey(w)
    PROVE  KeysPaid'
<1>1. /\ Others(w) /\ Active(w) /\ UNCHANGED <<paid, keyed>>
      /\ Turns(w, IF Run(w) \in keyed[job[w].plan] THEN "paid" ELSE "unpaid",
               job[w].plan, job[w].copy, Run(w) \in keyed[job[w].plan],
               job[w].charge, job[w].cols)
      /\ job[w].pc = "opened"
  BY CheckTurns, JobsParts DEF CheckKey, store, At
<1>2. job[w].plan \in Plans
  BY <1>1, Working
<1>3. /\ job'[w].pc = IF Run(w) \in keyed[job[w].plan] THEN "paid" ELSE "unpaid"
      /\ job'[w].plan = job[w].plan /\ job'[w].copy = job[w].copy
  BY <1>1 DEF Turns
<1>4. job'[w].pc \in {"paid", "keying", "settling"} => paid[job[w].plan][Run(w)] > 0
  BY <1>2, <1>3 DEF KeysPaid
<1> QED
  BY <1>1, <1>3, <1>4, KeysJoin DEF Run, Copy

LEMMA KeysPay ==
    ASSUME JobsInv, KeysPaid, PaidGrows, DataOK', NEW w \in Workers,
           CreatePayment(w) \/ SaveCharge(w) \/ StoreKey(w)
    PROVE  KeysPaid'
<1>1. Active(w) /\ job[w].pc \in {"unpaid", "paid", "keying"}
  BY DEF CreatePayment, SaveCharge, StoreKey, At, Active
<1>2. DataOK /\ job[w].plan \in Plans /\ Run(w) \in Runs
  BY <1>1, Working
<1>3. Others(w) /\ job'[w].plan = job[w].plan /\ job'[w].copy = job[w].copy
  <2>1. CASE SaveCharge(w)
    <3>1. /\ Others(w)
          /\ Turns(w, IF job[w].existing THEN "settling" ELSE "keying", job[w].plan,
                   job[w].copy, job[w].existing, "succeeded", job[w].cols)
      BY <2>1, SaveChargeTurns, JobsParts
    <3> QED
      BY <3>1 DEF Turns
  <2>2. CASE ~SaveCharge(w)
    <3>1. PICK pc : Goto(w, pc)
      BY <2>2 DEF CreatePayment, StoreKey
    <3>2. /\ Others(w)
          /\ Turns(w, pc, job[w].plan, job[w].copy, job[w].existing, job[w].charge,
                   job[w].cols)
      BY <1>1, <3>1, GotoTurns, JobsParts
    <3> QED
      BY <3>2 DEF Turns
  <2> QED
    BY <2>1, <2>2
<1>4. paid'[job[w].plan][Run(w)] > 0
  <2>1. CASE CreatePayment(w)
    BY <1>2, <2>1, PaidMore DEF CreatePayment
  <2>2. CASE ~CreatePayment(w)
    <3>1. paid' = paid /\ job[w].pc \in {"paid", "keying"}
      BY <2>2 DEF SaveCharge, StoreKey, At
    <3> QED
      BY <3>1 DEF KeysPaid, Run, Copy
  <2> QED
    BY <2>1, <2>2
<1>5. \A p \in Plans : \A t \in keyed'[p] : t \in keyed[p] \/ paid'[p][t] > 0
  <2>1. keyed' = keyed \/ keyed' = [keyed EXCEPT ![job[w].plan] = @ \cup {Run(w)}]
    BY DEF CreatePayment, SaveCharge, StoreKey
  <2>2. CASE keyed' = keyed
    BY <2>2
  <2>3. CASE keyed' = [keyed EXCEPT ![job[w].plan] = @ \cup {Run(w)}]
    <3>1. keyed'[job[w].plan] = keyed[job[w].plan] \cup {Run(w)}
      BY <1>2, <2>3 DEF DataOK
    <3>2. \A p \in Plans : p # job[w].plan => keyed'[p] = keyed[p]
      BY <1>2, <2>3 DEF DataOK
    <3> QED
      BY <1>4, <3>1, <3>2
  <2> QED
    BY <2>1, <2>2, <2>3
<1>6. paid'[job'[w].plan][job'[w].copy[job'[w].plan].nextRunAt] > 0
  BY <1>3, <1>4 DEF Run, Copy
<1> QED
  BY <1>3, <1>5, <1>6, KeysJoin

LEMMA KeysAway ==
    ASSUME JobsInv, KeysPaid, PaidGrows, DataOK', NEW w \in Workers, Others(w),
           keyed' = keyed, job'[w].pc \notin {"paid", "keying", "settling"}
    PROVE  KeysPaid'
  BY KeysJoin

LEMMA KeysKept ==
    ASSUME JobsInv, KeysPaid, [Next]_vars
    PROVE  KeysPaid'
<1>0. TypeOK /\ DataOK /\ PaidGrows /\ DataOK'
  BY JobsParts, Grows, JobsKept DEF JobsInv, TypeOK, DataOK
<1>1. CASE UNCHANGED vars \/ Tick
  BY <1>1 DEF vars, store, Tick, KeysPaid
<1>2. ASSUME NEW p \in Plans, NEW t \in Runs, Lapse(p, t)
      PROVE  KeysPaid'
  <2>1. keyed' = [keyed EXCEPT ![p] = @ \ {t}] /\ UNCHANGED <<paid, job>>
    BY <1>2 DEF Lapse
  <2>2. \A q \in Plans : keyed'[q] \subseteq keyed[q]
    BY <1>0, <2>1 DEF DataOK
  <2> QED
    BY <2>1, <2>2 DEF KeysPaid
<1>3. ASSUME NEW w \in Workers, NEW kind, NEW P, Start(w, kind, P)
      PROVE  KeysPaid'
  BY <1>0, <1>3, StartTurns, KeysAway DEF Start, store
<1>4. ASSUME NEW w \in Workers, NEW p,
             Begin(w, p) \/ BeginFails(w, p) \/ SendNotice(w, p) \/ SkipNotice(w, p)
      PROVE  KeysPaid'
  <2>1. /\ Others(w) /\ job'[w].pc \in {"opened", "caught", "sent", "idle", "next"}
    BY <1>0, <1>4, BeginTurns, BeginFailsTurns, SendTurns, SkipTurns
  <2>2. keyed' = keyed
    BY <1>4 DEF Begin, BeginFails, SendNotice, SkipNotice, store
  <2> QED
    BY <1>0, <2>1, <2>2, KeysAway
<1>5. ASSUME NEW w \in Workers, Update(w)
      PROVE  KeysPaid'
  <2>1. Active(w) /\ Proceed(w) /\ keyed' = keyed
    BY <1>5 DEF Update, Active
  <2>2. Others(w) /\ job'[w].pc \in {"idle", "next"}
    BY <1>0, <2>1, ProceedTurns
  <2> QED
    BY <1>0, <2>1, <2>2, KeysAway
<1>6. ASSUME NEW w \in Workers, NEW c, Active(w), StartSave(w, c), UNCHANGED store
      PROVE  KeysPaid'
  BY <1>0, <1>6, StartSaveTurns, KeysAway DEF store
<1>7. ASSUME NEW w \in Workers,
             \/ Advance(w) \/ MarkNotice(w) \/ \E i \in Intervals : Apply(w, i)
      PROVE  KeysPaid'
  BY <1>6, <1>7 DEF Advance, MarkNotice, Apply, At, Active
<1>8. ASSUME NEW w \in Workers, RecordFailure(w) \/ SaveFailure(w)
      PROVE  KeysPaid'
  <2>1. Active(w) /\ keyed' = keyed
    BY <1>8 DEF RecordFailure, SaveFailure, At, Active, store
  <2>2. Others(w) /\ job'[w].pc \in {"counted", "redirty"}
    <3>1. CASE RecordFailure(w)
      <4>1. Goto(w, "counted")
        BY <3>1 DEF RecordFailure
      <4> QED
        BY <1>0, <2>1, <4>1, GotoTurns
    <3>2. CASE SaveFailure(w)
      BY <1>0, <3>2, SaveFailureTurns
    <3> QED
      BY <1>8, <3>1, <3>2
  <2> QED
    BY <1>0, <2>1, <2>2, KeysAway
<1>9. ASSUME NEW w \in Workers, AutoPause(w) \/ Reject(w) \/ Cut(w)
      PROVE  KeysPaid'
  <2>1. Finish(w) /\ keyed' = keyed
    BY <1>9 DEF AutoPause, Reject, Cut, store
  <2>2. Others(w) /\ job'[w].pc = "idle"
    BY <1>0, <2>1, FinishTurns DEF Ended, Idle
  <2> QED
    BY <1>0, <2>1, <2>2, KeysAway
<1>10. ASSUME NEW w \in Workers, Fails(w) \/ \E committed \in BOOLEAN : CreateFails(w, committed)
       PROVE  KeysPaid'
  <2>1. Active(w) /\ keyed' = keyed /\ \E charge : Caught(w, job[w].plan, charge)
    BY <1>10 DEF Fails, CreateFails, At, Active, store
  <2>2. Others(w) /\ job'[w].pc = "caught"
    BY <1>0, <2>1, CaughtTurns
  <2> QED
    BY <1>0, <2>1, <2>2, KeysAway
<1>11. ASSUME NEW w \in Workers, Misfortune(w)
       PROVE  KeysPaid'
  BY <1>4, <1>9, <1>10, <1>11 DEF Misfortune
<1>12. ASSUME NEW w \in Workers, Step(w)
       PROVE  KeysPaid'
  BY <1>0, <1>4, <1>5, <1>7, <1>8, <1>9, <1>12, KeysCheck, KeysPay DEF Step
<1> QED
  BY <1>1, <1>2, <1>3, <1>11, <1>12 DEF Next, Find, Load

\* A step that is not the start of a job gives nobody another copy.
LEMMA CopiesLess ==
    ASSUME JobsInv, [Next]_vars,
           ~\E w \in Workers : \E kind, P : Start(w, kind, P)
    PROVE  /\ overlapped' = overlapped
           /\ \A v \in Workers, p \in Plans : Holds(v, p)' => Holds(v, p)
<1>0. TypeOK
  BY JobsParts
<1>1. CASE UNCHANGED vars \/ Tick \/ \E p \in Plans, t \in Runs : Lapse(p, t)
  BY <1>1 DEF vars, store, history, Tick, Lapse, Holds, Active
<1>2. ASSUME NEW w \in Workers, Others(w), Active(w),
             job'[w].pc = "idle" \/ DOMAIN job'[w].copy \subseteq DOMAIN job[w].copy
      PROVE  \A v \in Workers, p \in Plans : Holds(v, p)' => Holds(v, p)
  BY <1>2 DEF Others, Holds, Active
<1>3. ASSUME NEW w \in Workers, Active(w), Others(w), NEW pc, NEW p, NEW f, NEW e, NEW charge,
             NEW cols, Turns(w, pc, p, f, e, charge, cols),
             DOMAIN f \subseteq DOMAIN job[w].copy
      PROVE  \A v \in Workers, q \in Plans : Holds(v, q)' => Holds(v, q)
  BY <1>2, <1>3 DEF Turns
<1>4. ASSUME NEW w \in Workers, NEW p,
             Begin(w, p) \/ BeginFails(w, p) \/ SendNotice(w, p) \/ SkipNotice(w, p)
      PROVE  /\ overlapped' = overlapped
             /\ \A v \in Workers, q \in Plans : Holds(v, q)' => Holds(v, q)
  <2>1. overlapped' = overlapped
    BY <1>4 DEF Begin, BeginFails, SendNotice, SkipNotice, history
  <2>2. CASE Begin(w, p)
    <3>1. /\ Others(w) /\ Active(w)
          /\ Turns(w, "opened", p, [job[w].copy EXCEPT ![p].status = "active"],
                   job[w].existing, "pending", job[w].cols)
      BY <1>0, <2>2, BeginTurns
    <3> QED
      BY <1>3, <2>1, <3>1
  <2>3. CASE BeginFails(w, p)
    <3>1. /\ Others(w) /\ Active(w)
          /\ Turns(w, "caught", p, [job[w].copy EXCEPT ![p].status = "active",
                                                       ![p].consecutiveFailures = @ + 1],
                   job[w].existing, job[w].charge, job[w].cols)
      BY <1>0, <2>3, BeginFailsTurns
    <3> QED
      BY <1>3, <2>1, <3>1
  <2>4. CASE SendNotice(w, p)
    <3>1. /\ Others(w) /\ Active(w)
          /\ Turns(w, "sent", p, job[w].copy, job[w].existing, job[w].charge, job[w].cols)
      BY <1>0, <2>4, SendTurns
    <3> QED
      BY <1>3, <2>1, <3>1
  <2>5. CASE SkipNotice(w, p)
    <3>1. /\ Others(w) /\ Active(w)
          /\ \/ Ended(w)
             \/ Turns(w, "next", job[w].plan,
                      [q \in DOMAIN job[w].copy \ {p} |-> job[w].copy[q]],
                      job[w].existing, job[w].charge, job[w].cols)
      BY <1>0, <2>5, SkipTurns
    <3>2. CASE Ended(w)
      BY <1>2, <2>1, <3>1, <3>2 DEF Ended, Idle
    <3>3. CASE ~Ended(w)
      BY <1>3, <2>1, <3>1, <3>3
    <3> QED
      BY <3>2, <3>3
  <2> QED
    BY <1>4, <2>2, <2>3, <2>4, <2>5
<1>5. ASSUME NEW w \in Workers, Update(w)
      PROVE  /\ overlapped' = overlapped
             /\ \A v \in Workers, q \in Plans : Holds(v, q)' => Holds(v, q)
  <2>1. Active(w) /\ Proceed(w) /\ overlapped' = overlapped
    BY <1>5 DEF Update, Active
  <2>2. /\ Others(w)
        /\ \/ Ended(w)
           \/ Turns(w, "next", job[w].plan,
                    [p \in DOMAIN job[w].copy \ {job[w].plan} |-> job[w].copy[p]],
                    FALSE, NoCharge, {})
    BY <1>0, <2>1, ProceedTurns
  <2>3. CASE Ended(w)
    BY <1>2, <2>1, <2>2, <2>3 DEF Ended, Idle
  <2>4. CASE ~Ended(w)
    <3>1. DOMAIN job'[w].copy \subseteq DOMAIN job[w].copy
      BY <2>2, <2>4 DEF Turns
    <3> QED
      BY <1>2, <2>1, <2>2, <3>1
  <2> QED
    BY <2>3, <2>4
<1>6. ASSUME NEW w \in Workers,
             \/ Advance(w) \/ MarkNotice(w) \/ \E i \in Intervals : Apply(w, i)
      PROVE  /\ overlapped' = overlapped
             /\ \A v \in Workers, q \in Plans : Holds(v, q)' => Holds(v, q)
  <2>1. PICK c : Active(w) /\ StartSave(w, c) /\ overlapped' = overlapped
    BY <1>6 DEF Advance, MarkNotice, Apply, At, Active, history
  <2>2. /\ Others(w)
        /\ Turns(w, "dirty", job[w].plan, [job[w].copy EXCEPT ![job[w].plan] = c],
                 job[w].existing, job[w].charge, Diff(c, plan[job[w].plan]))
    BY <1>0, <2>1, StartSaveTurns
  <2> QED
    BY <1>3, <2>1, <2>2
<1>7. ASSUME NEW w \in Workers,
             CreatePayment(w) \/ StoreKey(w) \/ RecordFailure(w)
      PROVE  /\ overlapped' = overlapped
             /\ \A v \in Workers, q \in Plans : Holds(v, q)' => Holds(v, q)
  <2>1. PICK pc : Active(w) /\ Goto(w, pc) /\ overlapped' = overlapped
    BY <1>7 DEF CreatePayment, StoreKey, RecordFailure, At, Active, history
  <2>2. /\ Others(w)
        /\ Turns(w, pc, job[w].plan, job[w].copy, job[w].existing, job[w].charge,
                 job[w].cols)
    BY <1>0, <2>1, GotoTurns
  <2> QED
    BY <1>3, <2>1, <2>2
<1>8. ASSUME NEW w \in Workers, CheckKey(w) \/ SaveCharge(w) \/ SaveFailure(w)
      PROVE  /\ overlapped' = overlapped
             /\ \A v \in Workers, q \in Plans : Holds(v, q)' => Holds(v, q)
  <2>1. Active(w) /\ overlapped' = overlapped
    BY <1>8 DEF CheckKey, SaveCharge, SaveFailure, At, Active, history
  <2>2. PICK pc, e, charge, cols :
           /\ Others(w) /\ Turns(w, pc, job[w].plan, job[w].copy, e, charge, cols)
    BY <1>0, <1>8, CheckTurns, SaveChargeTurns, SaveFailureTurns
  <2> QED
    BY <1>3, <2>1, <2>2
<1>9. ASSUME NEW w \in Workers, AutoPause(w) \/ Reject(w) \/ Cut(w)
      PROVE  /\ overlapped' = overlapped
             /\ \A v \in Workers, q \in Plans : Holds(v, q)' => Holds(v, q)
  <2>1. Active(w) /\ Finish(w) /\ overlapped' = overlapped
    BY <1>9 DEF AutoPause, Reject, Cut, history, At, Active
  <2>2. Others(w) /\ job'[w].pc = "idle"
    BY <1>0, <2>1, FinishTurns DEF Ended, Idle
  <2> QED
    BY <1>2, <2>1, <2>2
<1>10. ASSUME NEW w \in Workers, Fails(w) \/ \E committed \in BOOLEAN : CreateFails(w, committed)
       PROVE  /\ overlapped' = overlapped
              /\ \A v \in Workers, q \in Plans : Holds(v, q)' => Holds(v, q)
  <2>1. PICK charge : /\ Active(w) /\ overlapped' = overlapped
                      /\ Caught(w, job[w].plan, charge)
    BY <1>10 DEF Fails, CreateFails, At, Active
  <2>2. /\ Others(w)
        /\ Turns(w, "caught", job[w].plan,
                 [job[w].copy EXCEPT ![job[w].plan].consecutiveFailures = @ + 1],
                 job[w].existing, charge, job[w].cols)
    BY <1>0, <2>1, CaughtTurns
  <2> QED
    BY <1>3, <2>1, <2>2
<1>11. ASSUME NEW w \in Workers, Step(w) \/ Misfortune(w)
       PROVE  /\ overlapped' = overlapped
              /\ \A v \in Workers, q \in Plans : Holds(v, q)' => Holds(v, q)
  BY <1>4, <1>5, <1>6, <1>7, <1>8, <1>9, <1>10, <1>11 DEF Step, Misfortune
<1> QED
  BY <1>1, <1>11 DEF Next, Find, Load

LEMMA SoleKept ==
    ASSUME JobsInv, SoleHolder, [Next]_vars
    PROVE  SoleHolder'
<1>1. CASE ~\E w \in Workers : \E kind, P : Start(w, kind, P)
  BY <1>1, CopiesLess DEF SoleHolder
<1>2. ASSUME NEW w \in Workers, NEW kind, NEW P, Start(w, kind, P)
      PROVE  SoleHolder'
  <2>1. /\ Others(w) /\ overlapped \subseteq overlapped'
        /\ overlapped' = overlapped \cup {p \in P : \E v \in Workers \ {w} : Holds(v, p)}
        /\ job'[w] = [pc |-> "next", kind |-> kind, copy |-> [p \in P |-> plan[p]],
                      plan |-> CHOOSE p \in P : TRUE, existing |-> FALSE,
                      charge |-> NoCharge, cols |-> {}]
    BY <1>2, StartTurns, JobsParts DEF Start
  <2>2. \A v \in Workers \ {w}, p \in Plans : Holds(v, p)' => Holds(v, p)
    BY <2>1 DEF Others, Holds, Active
  <2>3. \A p \in Plans : Holds(w, p)' => p \in P
    BY <2>1 DEF Holds, Active
  <2> QED
    BY <2>1, <2>2, <2>3 DEF SoleHolder
<1> QED
  BY <1>1, <1>2

----------------------------------------------------------------------------
(* How the only copy of a plan differs from its row.                       *)

\* CopyFollows for a job's record k, the plan's row r and its payments f.
FollowsRow(k, p, r, f) ==
    /\ p # k.plan \/ k.pc \in {"next", "sent"} => k.copy[p] = r
    /\ p = k.plan /\ k.pc \in {"dirty", "redirty"} => k.cols = Diff(k.copy[p], r)
    /\ r.status = "cancelled" => k.kind \in HttpKinds /\ k.copy[p].status = "cancelled"
    /\ IF k.kind = "trialNotice"
       THEN p = k.plan /\ k.pc = "dirty" => k.copy[p].trialEndingNotified
       ELSE k.copy[p].trialEndingNotified = r.trialEndingNotified
    /\ IF k.kind = "reminder"
       THEN p = k.plan /\ k.pc = "dirty" => k.copy[p].lastNotifiedCycle = r.occurrences + 1
       ELSE k.copy[p].lastNotifiedCycle = r.lastNotifiedCycle
    /\ \/ /\ k.copy[p].occurrences = r.occurrences
          /\ k.copy[p].nextRunAt = r.nextRunAt
       \/ /\ k.kind = "execute" /\ k.pc \in Catching \cup {"dirty"}
          /\ k.copy[p].occurrences = r.occurrences + 1
          /\ k.copy[p].nextRunAt > r.nextRunAt
          /\ f[r.nextRunAt] > 0
       \/ /\ k.kind = "resume" /\ k.pc = "dirty"
          /\ k.copy[p].occurrences = r.occurrences
          /\ k.copy[p].nextRunAt > r.nextRunAt

LEMMA FollowsEach ==
    /\ CopiesFollow <=>
          \A p \in Plans \ overlapped : \A w \in Workers :
             Holds(w, p) => FollowsRow(job[w], p, plan[p], paid[p])
    /\ CopiesFollow' <=>
          \A p \in Plans \ overlapped' : \A w \in Workers :
             Holds(w, p)' => FollowsRow(job'[w], p, plan'[p], paid'[p])
  BY DEF CopiesFollow, CopyFollows, FollowsRow

\* Later payments do not matter.
LEMMA FollowsLater ==
    ASSUME NEW k, NEW p, NEW r \in Row, NEW f \in [Runs -> Nat], NEW g \in [Runs -> Nat],
           FollowsRow(k, p, r, f), \A t \in Runs : g[t] >= f[t]
    PROVE  FollowsRow(k, p, r, g)
<1>1. f[r.nextRunAt] > 0 => g[r.nextRunAt] > 0
  <2>1. r.nextRunAt \in Runs
    BY DEF Row
  <2> QED
    BY <2>1
<1> QED
  BY <1>1 DEF FollowsRow

\* The record of the job that took the step is all that has to be looked at.
LEMMA FollowJoin ==
    ASSUME JobsInv, SoleHolder, CopiesFollow, PaidGrows, DataOK', NEW w \in Workers, Others(w),
           overlapped \subseteq overlapped',
           \A p \in Plans \ overlapped' : plan'[p] = plan[p] \/ Holds(w, p),
           \A p \in Plans \ overlapped' :
              Holds(w, p)' => FollowsRow(job'[w], p, plan'[p], paid'[p])
    PROVE  CopiesFollow'
<1>0. DataOK
  BY JobsParts
<1>1. SUFFICES ASSUME NEW p \in Plans \ overlapped', NEW v \in Workers, Holds(v, p)', v # w
               PROVE  FollowsRow(job'[v], p, plan'[p], paid'[p])
  BY FollowsEach
<1>2. job'[v] = job[v] /\ Holds(v, p)
  BY <1>1 DEF Others, Holds, Active
<1>3. plan'[p] = plan[p]
  BY <1>1, <1>2 DEF SoleHolder
<1>4. FollowsRow(job[v], p, plan[p], paid[p])
  BY <1>1, <1>2, FollowsEach
<1>5. /\ plan[p] \in Row /\ paid[p] \in [Runs -> Nat] /\ paid'[p] \in [Runs -> Nat]
      /\ \A t \in Runs : paid'[p][t] >= paid[p][t]
  BY <1>0 DEF DataOK, PaidGrows
<1> QED
  BY <1>2, <1>3, <1>4, <1>5, FollowsLater

\* The copies that a job has not come to yet, and those it did not touch.
LEMMA RestFollows ==
    ASSUME NEW k, NEW m, NEW p, NEW r, NEW f, NEW g, FollowsRow(k, p, r, f),
           p # k.plan \/ k.pc \in {"next", "sent"},
           p # m.plan \/ m.pc \in {"next", "sent"},
           m.kind = k.kind, m.copy[p] = k.copy[p]
    PROVE  FollowsRow(m, p, r, g)
<1>1. k.copy[p] = r
  BY DEF FollowsRow
<1>2. r.status = "cancelled" => k.kind \in HttpKinds
  BY DEF FollowsRow
<1> QED
  BY <1>1, <1>2 DEF FollowsRow

\* An execution changes the status and the failures of its copy, no more, until the
\* schedule moves on.
LEMMA ExecFollows ==
    ASSUME NEW k, NEW m, NEW p, NEW r \in Row, NEW f \in [Runs -> Nat], NEW g \in [Runs -> Nat],
           FollowsRow(k, p, r, f), \A t \in Runs : g[t] >= f[t],
           k.kind = "execute", m.kind = "execute", p = m.plan,
           p = k.plan \/ k.pc = "next",
           m.pc \in Executing \cup Catching,
           m.pc \in Executing => k.pc \in Executing \cup {"next"},
           m.copy[p].occurrences = k.copy[p].occurrences,
           m.copy[p].nextRunAt = k.copy[p].nextRunAt,
           m.copy[p].lastNotifiedCycle = k.copy[p].lastNotifiedCycle,
           m.copy[p].trialEndingNotified = k.copy[p].trialEndingNotified,
           m.pc = "redirty" => m.cols = Diff(m.copy[p], r)
    PROVE  FollowsRow(m, p, r, g)
<1>1. m.pc \notin {"next", "sent", "dirty"}
  BY DEF Executing, Catching
<1>2. r.status # "cancelled"
  BY DEF FollowsRow, HttpKinds
<1>3. /\ m.copy[p].trialEndingNotified = r.trialEndingNotified
      /\ m.copy[p].lastNotifiedCycle = r.lastNotifiedCycle
  BY DEF FollowsRow
<1>4. FollowsRow(k, p, r, g)
  BY FollowsLater
<1>5. \/ /\ m.copy[p].occurrences = r.occurrences
         /\ m.copy[p].nextRunAt = r.nextRunAt
      \/ /\ m.pc \in Catching
         /\ m.copy[p].occurrences = r.occurrences + 1
         /\ m.copy[p].nextRunAt > r.nextRunAt
         /\ g[r.nextRunAt] > 0
  BY <1>1, <1>4, SMT DEF FollowsRow, Executing, Catching
<1> QED
  BY <1>1, <1>2, <1>3, <1>5 DEF FollowsRow

\* A step of an execution.
LEMMA ExecStep ==
    ASSUME JobsInv, SoleHolder, CopiesFollow, PaidGrows, DataOK', NEW w \in Workers, Others(w),
           Active(w), overlapped' = overlapped, plan' = plan,
           job[w].kind = "execute", job'[w].kind = "execute", NEW q, job'[w].plan = q,
           q = job[w].plan \/ job[w].pc = "next",
           DOMAIN job'[w].copy = DOMAIN job[w].copy,
           \A p \in DOMAIN job[w].copy \ {q} : job'[w].copy[p] = job[w].copy[p],
           job'[w].pc \in Executing \cup Catching,
           job'[w].pc \in Executing => job[w].pc \in Executing \cup {"next"},
           job'[w].copy[q].occurrences = job[w].copy[q].occurrences,
           job'[w].copy[q].nextRunAt = job[w].copy[q].nextRunAt,
           job'[w].copy[q].lastNotifiedCycle = job[w].copy[q].lastNotifiedCycle,
           job'[w].copy[q].trialEndingNotified = job[w].copy[q].trialEndingNotified,
           job'[w].pc = "redirty" => job'[w].cols = Diff(job'[w].copy[q], plan[q])
    PROVE  CopiesFollow'
<1>1. SUFFICES ASSUME NEW p \in Plans \ overlapped', Holds(w, p)'
               PROVE  FollowsRow(job'[w], p, plan'[p], paid'[p])
  BY FollowJoin
<1>2. Holds(w, p) /\ plan'[p] = plan[p] /\ p \in DOMAIN job[w].copy
  BY <1>1 DEF Holds, Active
<1>3. FollowsRow(job[w], p, plan[p], paid[p])
  BY <1>1, <1>2, FollowsEach
<1>4. /\ plan[p] \in Row /\ paid[p] \in [Runs -> Nat] /\ paid'[p] \in [Runs -> Nat]
      /\ \A t \in Runs : paid'[p][t] >= paid[p][t]
  BY JobsParts DEF DataOK, PaidGrows
<1>5. CASE p = q
  BY <1>2, <1>3, <1>4, <1>5, ExecFollows, SMTT(30)
<1>6. CASE p # q
  BY <1>2, <1>3, <1>6, RestFollows
<1> QED
  BY <1>5, <1>6

LEMMA BeginFollow ==
    ASSUME JobsInv, SoleHolder, CopiesFollow, PaidGrows, DataOK', NEW w \in Workers, NEW q,
           Begin(w, q) \/ BeginFails(w, q)
    PROVE  CopiesFollow'
<1>1. /\ Active(w) /\ Sound(job[w], now) /\ job[w].pc = "next" /\ job[w].kind = "execute"
      /\ q \in DOMAIN job[w].copy /\ overlapped' = overlapped /\ plan' = plan
  BY JobsParts DEF Begin, BeginFails, At, Active, store, history
<1>2. job[w].copy \in [DOMAIN job[w].copy -> Row]
  BY <1>1 DEF Sound, WellTyped, Job, Active
<1> DEFINE g == job[w].copy
           f == [g EXCEPT ![q].status = "active"]
           h == [f EXCEPT ![q].consecutiveFailures = @ + 1]
<1>3. /\ f \in [DOMAIN g -> Row] /\ \A p \in DOMAIN g \ {q} : f[p] = g[p]
      /\ f[q] = [g[q] EXCEPT !.status = "active"]
  BY <1>1, <1>2, TriedCopy
<1>4. /\ h \in [DOMAIN g -> Row] /\ \A p \in DOMAIN g \ {q} : h[p] = f[p]
      /\ h[q] = [f[q] EXCEPT !.consecutiveFailures = @ + 1]
  <2> HIDE DEF f
  <2> QED
    BY <1>1, <1>3, FailedCopy
<1>5. \A c : c = f[q] \/ c = h[q] =>
         /\ c.occurrences = g[q].occurrences /\ c.nextRunAt = g[q].nextRunAt
         /\ c.lastNotifiedCycle = g[q].lastNotifiedCycle
         /\ c.trialEndingNotified = g[q].trialEndingNotified
  <2>1. g[q] \in Row /\ f[q] \in Row
    BY <1>1, <1>2, <1>3
  <2> HIDE DEF f, g, h
  <2> QED
    BY <1>3, <1>4, <2>1, ZenonT(30) DEF Row
<1>8. /\ DOMAIN f = DOMAIN g /\ DOMAIN h = DOMAIN g
      /\ \A p \in DOMAIN g \ {q} : f[p] = g[p] /\ h[p] = g[p]
  BY <1>3, <1>4
<1>6. CASE Begin(w, q)
  <2>1. /\ Others(w)
        /\ Turns(w, "opened", q, f, job[w].existing, "pending", job[w].cols)
    BY <1>6, BeginTurns, JobsParts
  <2>2. /\ job'[w].kind = "execute" /\ job'[w].plan = q /\ job'[w].copy = f
        /\ job'[w].pc = "opened"
    BY <1>1, <2>1 DEF Turns
  <2> HIDE DEF f, h
  <2>3. job'[w].pc \in Executing /\ job'[w].pc # "redirty"
    BY <2>2 DEF Executing
  <2> QED
    BY <1>1, <1>5, <1>8, <2>1, <2>2, <2>3, ExecStep
<1>7. CASE BeginFails(w, q)
  <2>1. /\ Others(w)
        /\ Turns(w, "caught", q, [g EXCEPT ![q].status = "active",
                                           ![q].consecutiveFailures = @ + 1],
                 job[w].existing, job[w].charge, job[w].cols)
    BY <1>7, BeginFailsTurns, JobsParts
  <2>2. /\ job'[w].kind = "execute" /\ job'[w].plan = q /\ job'[w].copy = h
        /\ job'[w].pc = "caught"
    BY <1>1, <2>1 DEF Turns
  <2> HIDE DEF f, h
  <2>3. job'[w].pc \in Catching \ Executing /\ job'[w].pc # "redirty"
    BY <2>2 DEF Executing, Catching
  <2> QED
    BY <1>1, <1>5, <1>8, <2>1, <2>2, <2>3, ExecStep
<1> QED
  BY <1>6, <1>7

LEMMA RunFollow ==
    ASSUME JobsInv, SoleHolder, CopiesFollow, PaidGrows, DataOK', NEW w \in Workers,
           \/ CheckKey(w) \/ CreatePayment(w) \/ SaveCharge(w) \/ StoreKey(w)
           \/ RecordFailure(w) \/ SaveFailure(w)
    PROVE  CopiesFollow'
<1>1. /\ Active(w) /\ job[w].pc \in Executing \cup {"caught", "counted"}
      /\ overlapped' = overlapped /\ plan' = plan
  BY DEF CheckKey, CreatePayment, SaveCharge, StoreKey, RecordFailure, SaveFailure,
     At, Active, store, history, Executing
<1>2. job[w].kind = "execute" /\ Sound(job[w], now)
  BY <1>1, JobsParts DEF Sound, JobShape, Active, Executing, Catching
<1>3. PICK pc, existing, charge, cols :
         /\ Others(w)
         /\ Turns(w, pc, job[w].plan, job[w].copy, existing, charge, cols)
         /\ pc \in Executing \cup Catching
         /\ pc \in Executing => job[w].pc \in Executing
         /\ pc = "redirty" => cols = Diff(Copy(w), plan[job[w].plan])
  <2>1. CASE CheckKey(w)
    <3>1. job[w].pc = "opened"
      BY <2>1 DEF CheckKey, At
    <3>2. /\ Others(w)
          /\ \E pc \in {"paid", "unpaid"} : \E existing :
                Turns(w, pc, job[w].plan, job[w].copy, existing, job[w].charge, job[w].cols)
      BY <2>1, CheckTurns, JobsParts
    <3> QED
      BY <3>1, <3>2 DEF Executing
  <2>2. CASE SaveCharge(w)
    <3>1. job[w].pc = "paid"
      BY <2>2 DEF SaveCharge, At
    <3>2. /\ Others(w)
          /\ \E pc \in {"settling", "keying"} :
                Turns(w, pc, job[w].plan, job[w].copy, job[w].existing, "succeeded",
                      job[w].cols)
      BY <2>2, SaveChargeTurns, JobsParts
    <3> QED
      BY <3>1, <3>2 DEF Executing
  <2>3. CASE SaveFailure(w)
    <3>1. /\ Others(w)
          /\ Turns(w, "redirty", job[w].plan, job[w].copy, job[w].existing,
                   job[w].charge, Diff(Copy(w), plan[job[w].plan]))
      BY <2>3, SaveFailureTurns, JobsParts
    <3> QED
      BY <3>1 DEF Catching, Executing
  <2>4. CASE CreatePayment(w) \/ StoreKey(w) \/ RecordFailure(w)
    <3>1. \/ Goto(w, "paid") /\ job[w].pc = "unpaid"
          \/ Goto(w, "settling") /\ job[w].pc = "keying"
          \/ Goto(w, "counted")
      BY <2>4 DEF CreatePayment, StoreKey, RecordFailure, At
    <3>2. \A pc : Goto(w, pc) =>
             /\ Others(w)
             /\ Turns(w, pc, job[w].plan, job[w].copy, job[w].existing, job[w].charge,
                      job[w].cols)
      BY <1>1, GotoTurns, JobsParts
    <3> QED
      BY <3>1, <3>2 DEF Catching, Executing
  <2> QED
    BY <2>1, <2>2, <2>3, <2>4
<1>4. /\ job'[w].kind = "execute" /\ job'[w].plan = job[w].plan /\ job'[w].pc = pc
      /\ job'[w].copy = job[w].copy /\ job'[w].cols = cols
  BY <1>2, <1>3 DEF Turns
<1> QED
  BY <1>1, <1>2, <1>3, <1>4, ExecStep DEF Copy

LEMMA CaughtFollow ==
    ASSUME JobsInv, SoleHolder, CopiesFollow, PaidGrows, DataOK', NEW w \in Workers,
           Fails(w) \/ \E committed \in BOOLEAN : CreateFails(w, committed)
    PROVE  CopiesFollow'
<1>1. /\ Active(w) /\ job[w].pc \in {"opened", "unpaid", "paid", "keying", "settling", "dirty"}
      /\ overlapped' = overlapped /\ plan' = plan
      /\ \E charge : Caught(w, job[w].plan, charge)
  BY DEF Fails, CreateFails, At, Active, store
<1>2. /\ job[w].kind = "execute" /\ Sound(job[w], now) /\ Copy(w) \in Row
      /\ job[w].plan \in DOMAIN job[w].copy
  BY <1>1, Working DEF Sound, JobShape, Active, Executing, Fails, CreateFails, At
<1>3. job[w].copy \in [DOMAIN job[w].copy -> Row]
  BY <1>1, <1>2 DEF Sound, WellTyped, Job, Active
<1> DEFINE q == job[w].plan
           g == job[w].copy
           f == [g EXCEPT ![q].consecutiveFailures = @ + 1]
<1>4. /\ f \in [DOMAIN g -> Row] /\ \A p \in DOMAIN g \ {q} : f[p] = g[p]
      /\ f[q] = [g[q] EXCEPT !.consecutiveFailures = @ + 1]
  BY <1>2, <1>3, FailedCopy
<1>5. /\ f[q].occurrences = g[q].occurrences /\ f[q].nextRunAt = g[q].nextRunAt
      /\ f[q].lastNotifiedCycle = g[q].lastNotifiedCycle
      /\ f[q].trialEndingNotified = g[q].trialEndingNotified
  <2>1. g[q] \in Row
    BY <1>2, <1>3
  <2> HIDE DEF f, g, q
  <2> QED
    BY <1>4, <2>1, Zenon DEF Row
<1>6. PICK charge : Others(w) /\ Turns(w, "caught", q, f, job[w].existing, charge, job[w].cols)
  BY <1>1, CaughtTurns, JobsParts
<1>7. /\ job'[w].kind = "execute" /\ job'[w].plan = job[w].plan /\ job'[w].pc = "caught"
      /\ job'[w].copy = f
  BY <1>2, <1>6 DEF Turns
<1>8. DOMAIN f = DOMAIN g
  BY <1>4
<1> HIDE DEF f
<1> QED
  BY <1>1, <1>2, <1>4, <1>5, <1>6, <1>7, <1>8, ExecStep, ZenonT(30) DEF Executing, Catching

\* The SELECT of save(plan), with copy c of the plan.
LEMMA SaveFollow ==
    ASSUME JobsInv, SoleHolder, CopiesFollow, PaidGrows, DataOK', NEW w \in Workers, Active(w),
           NEW c, StartSave(w, c), overlapped' = overlapped, plan' = plan, paid' = paid,
           job[w].plan \in DOMAIN job[w].copy,
           \A m : /\ job[w].plan \in Plans \ overlapped
                  /\ m.pc = "dirty" /\ m.kind = job[w].kind /\ m.plan = job[w].plan
                  /\ m.copy[m.plan] = c /\ m.cols = Diff(c, plan[m.plan])
                  => FollowsRow(m, m.plan, plan[m.plan], paid[m.plan])
    PROVE  CopiesFollow'
<1> DEFINE q == job[w].plan
           f == [job[w].copy EXCEPT ![q] = c]
<1>1. /\ Others(w)
      /\ Turns(w, "dirty", q, f, job[w].existing, job[w].charge, Diff(c, plan[q]))
  BY StartSaveTurns, JobsParts
<1>2. /\ job'[w].pc = "dirty" /\ job'[w].kind = job[w].kind /\ job'[w].plan = q
      /\ job'[w].copy = f /\ job'[w].cols = Diff(c, plan[q])
  BY <1>1 DEF Turns
<1>3. /\ DOMAIN f = DOMAIN job[w].copy
      /\ f[q] = c
      /\ \A p \in DOMAIN job[w].copy : p # q => f[p] = job[w].copy[p]
  OBVIOUS
<1> HIDE DEF f
<1>4. SUFFICES ASSUME NEW p \in Plans \ overlapped', Holds(w, p)'
               PROVE  FollowsRow(job'[w], p, plan[p], paid[p])
  BY <1>1, FollowJoin
<1>5. Holds(w, p) /\ p \in DOMAIN job[w].copy
  BY <1>2, <1>3, <1>4 DEF Holds, Active
<1>6. CASE p = q
  BY <1>2, <1>3, <1>4, <1>6
<1>7. CASE p # q
  <2>1. FollowsRow(job[w], p, plan[p], paid[p])
    BY <1>4, <1>5, FollowsEach
  <2>2. p # job[w].plan /\ p # job'[w].plan /\ job'[w].copy[p] = job[w].copy[p]
    BY <1>2, <1>3, <1>5, <1>7
  <2> QED
    BY <1>2, <2>1, <2>2, RestFollows
<1> QED
  BY <1>6, <1>7

LEMMA AdvanceFollow ==
    ASSUME JobsInv, SoleHolder, CopiesFollow, KeysPaid, PaidGrows, DataOK', NEW w \in Workers,
           Advance(w)
    PROVE  CopiesFollow'
<1> DEFINE q == job[w].plan
           c == Advanced(q, Copy(w))
<1>1. /\ Active(w) /\ job[w].pc = "settling" /\ StartSave(w, c)
      /\ overlapped' = overlapped /\ plan' = plan /\ paid' = paid
  BY DEF Advance, At, Active, store, history
<1>2. /\ Sound(job[w], now) /\ DataOK /\ q \in DOMAIN job[w].copy /\ Copy(w) \in Row
      /\ Copy(w).nextRunAt <= now
  BY <1>1, Working DEF Sound, Active, JobShape, Executing, Copy
<1>3. job[w].kind = "execute"
  BY <1>1, <1>2 DEF Sound, Active, JobShape, Executing
<1>4. /\ c.nextRunAt > Copy(w).nextRunAt /\ c.occurrences = Copy(w).occurrences + 1
      /\ c.trialEndingNotified = Copy(w).trialEndingNotified
      /\ c.lastNotifiedCycle = Copy(w).lastNotifiedCycle
  BY <1>2, AdvancedFields DEF DataOK
<1> HIDE DEF c
<1>5. ASSUME q \in Plans \ overlapped
      PROVE  /\ plan[q].status # "cancelled"
             /\ Copy(w).occurrences = plan[q].occurrences
             /\ Copy(w).nextRunAt = plan[q].nextRunAt
             /\ Copy(w).trialEndingNotified = plan[q].trialEndingNotified
             /\ Copy(w).lastNotifiedCycle = plan[q].lastNotifiedCycle
  <2>1. FollowsRow(job[w], q, plan[q], paid[q])
    BY <1>1, <1>2, <1>5, FollowsEach DEF Holds
  <2> QED
    BY <1>1, <1>3, <2>1 DEF FollowsRow, Copy, HttpKinds, Catching
<1>6. paid[q][Copy(w).nextRunAt] > 0
  BY <1>1 DEF KeysPaid, Copy
<1>7. ASSUME NEW m, q \in Plans \ overlapped, m.pc = "dirty", m.kind = job[w].kind, m.plan = q,
             m.copy[m.plan] = c, m.cols = Diff(c, plan[m.plan])
      PROVE  FollowsRow(m, m.plan, plan[m.plan], paid[m.plan])
  BY <1>3, <1>4, <1>5, <1>6, <1>7 DEF FollowsRow
<1> QED
  BY <1>1, <1>2, <1>7, SaveFollow

LEMMA MarkFollow ==
    ASSUME JobsInv, SoleHolder, CopiesFollow, PaidGrows, DataOK', NEW w \in Workers, MarkNotice(w)
    PROVE  CopiesFollow'
<1> DEFINE q == job[w].plan
<1>1. /\ Active(w) /\ job[w].pc = "sent"
      /\ overlapped' = overlapped /\ plan' = plan /\ paid' = paid
  BY DEF MarkNotice, At, Active, store, history
<1>2. /\ Sound(job[w], now) /\ DataOK /\ q \in DOMAIN job[w].copy /\ Copy(w) \in Row
      /\ job[w].kind \in {"trialNotice", "reminder"}
  BY <1>1, Working DEF Sound, Active, JobShape
<1>3. PICK c :
         /\ StartSave(w, c)
         /\ c.status = Copy(w).status /\ c.occurrences = Copy(w).occurrences
         /\ c.nextRunAt = Copy(w).nextRunAt
         /\ IF job[w].kind = "trialNotice" THEN c.trialEndingNotified
            ELSE c.trialEndingNotified = Copy(w).trialEndingNotified
         /\ IF job[w].kind = "trialNotice" THEN c.lastNotifiedCycle = Copy(w).lastNotifiedCycle
            ELSE c.lastNotifiedCycle = Copy(w).occurrences + 1
  <2>1. CASE job[w].kind = "trialNotice"
    <3> DEFINE c == [Copy(w) EXCEPT !.trialEndingNotified = TRUE]
    <3>1. StartSave(w, c)
      BY <2>1 DEF MarkNotice
    <3>2. /\ c.status = Copy(w).status /\ c.occurrences = Copy(w).occurrences
          /\ c.nextRunAt = Copy(w).nextRunAt /\ c.lastNotifiedCycle = Copy(w).lastNotifiedCycle
      BY <1>2, Zenon DEF Row
    <3>3. c.trialEndingNotified
      BY <1>2, Zenon DEF Row
    <3> HIDE DEF c
    <3> QED
      BY <2>1, <3>1, <3>2, <3>3, Zenon
  <2>2. CASE job[w].kind # "trialNotice"
    <3> DEFINE c == [Copy(w) EXCEPT !.lastNotifiedCycle = Notice(w, q)]
    <3>1. StartSave(w, c)
      BY <2>2 DEF MarkNotice
    <3>2. Notice(w, q) = Copy(w).occurrences + 1
      BY <2>2 DEF Notice, Copy
    <3>3. /\ c.status = Copy(w).status /\ c.occurrences = Copy(w).occurrences
          /\ c.nextRunAt = Copy(w).nextRunAt
          /\ c.lastNotifiedCycle = Notice(w, q)
      BY <1>2, Zenon DEF Row
    <3>4. c.trialEndingNotified = Copy(w).trialEndingNotified
      BY <1>2, Zenon DEF Row
    <3> HIDE DEF c
    <3> QED
      BY <2>2, <3>1, <3>2, <3>3, <3>4, Zenon
  <2> QED
    BY <2>1, <2>2
<1>4. ASSUME q \in Plans \ overlapped
      PROVE  plan[q].status # "cancelled" /\ Copy(w) = plan[q]
  <2>1. FollowsRow(job[w], q, plan[q], paid[q])
    BY <1>1, <1>2, <1>4, FollowsEach DEF Holds
  <2> QED
    BY <1>1, <1>2, <2>1 DEF FollowsRow, Copy, HttpKinds
<1>5. ASSUME NEW m, q \in Plans \ overlapped, m.pc = "dirty", m.kind = job[w].kind, m.plan = q,
             m.copy[m.plan] = c, m.cols = Diff(c, plan[m.plan])
      PROVE  FollowsRow(m, m.plan, plan[m.plan], paid[m.plan])
  <2>1. CASE job[w].kind = "trialNotice"
    BY <1>3, <1>4, <1>5, <2>1 DEF FollowsRow
  <2>2. CASE job[w].kind = "reminder"
    BY <1>3, <1>4, <1>5, <2>2 DEF FollowsRow
  <2> QED
    BY <1>2, <2>1, <2>2
<1> QED
  BY <1>1, <1>2, <1>3, <1>5, SaveFollow

LEMMA ApplyFollow ==
    ASSUME JobsInv, SoleHolder, CopiesFollow, PaidGrows, DataOK', NEW w \in Workers,
           NEW i \in Intervals, Apply(w, i)
    PROVE  CopiesFollow'
<1> DEFINE q == job[w].plan
           kind == job[w].kind
           c == Changed(kind, Copy(w), i)
<1>1. /\ Active(w) /\ job[w].pc = "next" /\ kind \in HttpKinds /\ StartSave(w, c)
      /\ overlapped' = overlapped /\ plan' = plan /\ paid' = paid
      /\ Accepts(kind, Copy(w))
  BY DEF Apply, At, Active, store, history
<1>2. Sound(job[w], now) /\ DataOK
  BY JobsParts
<1>3. q \in DOMAIN job[w].copy
  BY <1>1, <1>2 DEF Sound, Active, JobShape
<1>4. Copy(w) \in Row
  BY <1>1, <1>2, <1>3 DEF Sound, Active, WellTyped, Job, Copy
<1>5. /\ c.nextRunAt >= Copy(w).nextRunAt
      /\ kind # "resume" => c.nextRunAt = Copy(w).nextRunAt
      /\ c.occurrences = Copy(w).occurrences
      /\ c.trialEndingNotified = Copy(w).trialEndingNotified
      /\ c.lastNotifiedCycle = Copy(w).lastNotifiedCycle
  BY <1>1, <1>2, <1>4, ChangedFields DEF DataOK
<1>6. Copy(w).status = "cancelled" => c.status = "cancelled"
  <2> SUFFICES ASSUME Copy(w).status = "cancelled"
               PROVE  c.status = "cancelled"
    OBVIOUS
  <2>1. kind = "update"
    BY <1>1 DEF Accepts, HttpKinds
  <2>2. c = [Copy(w) EXCEPT !.interval = i]
    BY <2>1 DEF Changed
  <2> HIDE DEF c
  <2> QED
    BY <1>4, <2>2 DEF Row
<1>7. c.nextRunAt \in Int /\ Copy(w).nextRunAt \in Int
  <2>1. c \in Row
    BY <1>1, <1>2, <1>4, ChangedFields DEF DataOK
  <2> QED
    BY <1>4, <2>1 DEF Row, Runs
<1> HIDE DEF c
<1>8. ASSUME q \in Plans \ overlapped
      PROVE  Copy(w) = plan[q]
  <2>1. FollowsRow(job[w], q, plan[q], paid[q])
    BY <1>1, <1>3, <1>8, FollowsEach DEF Holds
  <2> QED
    BY <1>1, <2>1 DEF FollowsRow, Copy
<1>9. ASSUME NEW m, q \in Plans \ overlapped, m.pc = "dirty", m.kind = job[w].kind, m.plan = q,
             m.copy[m.plan] = c, m.cols = Diff(c, plan[m.plan])
      PROVE  FollowsRow(m, m.plan, plan[m.plan], paid[m.plan])
  BY <1>1, <1>5, <1>6, <1>7, <1>8, <1>9 DEF FollowsRow, HttpKinds
<1> QED
  BY <1>1, <1>3, <1>9, SaveFollow

\* A step that leaves the copies alone, or drops some of them.
LEMMA KeepFollow ==
    ASSUME JobsInv, SoleHolder, CopiesFollow, PaidGrows, DataOK', NEW w \in Workers, Others(w),
           Active(w), overlapped' = overlapped,
           \A p \in Plans : plan'[p] = plan[p] \/ Holds(w, p),
           \A p \in Plans : Holds(w, p)' =>
              /\ Holds(w, p) /\ plan'[p] = plan[p]
              /\ p # job[w].plan \/ job[w].pc \in {"next", "sent"}
              /\ p # job'[w].plan \/ job'[w].pc \in {"next", "sent"}
              /\ job'[w].kind = job[w].kind /\ job'[w].copy[p] = job[w].copy[p]
    PROVE  CopiesFollow'
<1>1. ASSUME NEW p \in Plans \ overlapped', Holds(w, p)'
      PROVE  FollowsRow(job'[w], p, plan'[p], paid'[p])
  <2>1. Holds(w, p) /\ plan'[p] = plan[p]
    BY <1>1
  <2>2. FollowsRow(job[w], p, plan[p], paid[p])
    BY <1>1, <2>1, FollowsEach
  <2> QED
    BY <1>1, <2>1, <2>2, RestFollows
<1> QED
  BY <1>1, FollowJoin

LEMMA EndFollow ==
    ASSUME JobsInv, SoleHolder, CopiesFollow, PaidGrows, DataOK', NEW w \in Workers, Others(w),
           overlapped' = overlapped, \A p \in Plans : plan'[p] = plan[p] \/ Holds(w, p),
           job'[w].pc = "idle"
    PROVE  CopiesFollow'
<1>1. \A p \in Plans : ~Holds(w, p)'
  BY DEF Holds, Active
<1> QED
  BY <1>1, FollowJoin

LEMMA NoticeFollow ==
    ASSUME JobsInv, SoleHolder, CopiesFollow, PaidGrows, DataOK', NEW w \in Workers, NEW q,
           SendNotice(w, q) \/ SkipNotice(w, q)
    PROVE  CopiesFollow'
<1>1. /\ Active(w) /\ job[w].pc = "next" /\ overlapped' = overlapped /\ plan' = plan
  BY DEF SendNotice, SkipNotice, At, Active, store, history
<1>2. CASE SendNotice(w, q)
  <2>1. /\ Others(w)
        /\ Turns(w, "sent", q, job[w].copy, job[w].existing, job[w].charge, job[w].cols)
    BY <1>2, SendTurns, JobsParts
  <2>2. job'[w].pc = "sent" /\ job'[w].kind = job[w].kind /\ job'[w].copy = job[w].copy
    BY <2>1 DEF Turns
  <2>3. \A p \in Plans : Holds(w, p)' =>
           /\ Holds(w, p) /\ plan'[p] = plan[p]
           /\ p # job[w].plan \/ job[w].pc \in {"next", "sent"}
           /\ p # job'[w].plan \/ job'[w].pc \in {"next", "sent"}
           /\ job'[w].kind = job[w].kind /\ job'[w].copy[p] = job[w].copy[p]
    BY <1>1, <2>2 DEF Holds, Active
  <2>4. \A p \in Plans : plan'[p] = plan[p] \/ Holds(w, p)
    BY <1>1
  <2> QED
    BY <1>1, <2>1, <2>3, <2>4, KeepFollow
<1>3. CASE SkipNotice(w, q)
  <2>1. /\ Others(w)
        /\ \/ Ended(w)
           \/ Turns(w, "next", job[w].plan, [p \in DOMAIN job[w].copy \ {q} |-> job[w].copy[p]],
                    job[w].existing, job[w].charge, job[w].cols)
    BY <1>3, SkipTurns, JobsParts
  <2>2. CASE Ended(w)
    BY <1>1, <2>1, <2>2, EndFollow DEF Ended, Idle
  <2>3. CASE ~Ended(w)
    <3>1. /\ job'[w].pc = "next" /\ job'[w].kind = job[w].kind
          /\ job'[w].copy = [p \in DOMAIN job[w].copy \ {q} |-> job[w].copy[p]]
      BY <2>1, <2>3 DEF Turns
    <3>2. \A p \in Plans : Holds(w, p)' =>
             /\ Holds(w, p) /\ plan'[p] = plan[p]
             /\ p # job[w].plan \/ job[w].pc \in {"next", "sent"}
             /\ p # job'[w].plan \/ job'[w].pc \in {"next", "sent"}
             /\ job'[w].kind = job[w].kind /\ job'[w].copy[p] = job[w].copy[p]
      BY <1>1, <3>1 DEF Holds, Active
    <3>3. \A p \in Plans : plan'[p] = plan[p] \/ Holds(w, p)
      BY <1>1
    <3> QED
      BY <1>1, <2>1, <3>2, <3>3, KeepFollow
  <2> QED
    BY <2>2, <2>3
<1> QED
  BY <1>2, <1>3

\* A save writes all that the copy has, unless another job held a copy.
LEMMA UpdateWrites ==
    ASSUME JobsInv, CopiesFollow, NEW w \in Workers, Update(w)
    PROVE  /\ Active(w) /\ job[w].plan \in Plans /\ Holds(w, job[w].plan)
           /\ \A p \in Plans : p # job[w].plan => plan'[p] = plan[p]
           /\ job[w].plan \notin overlapped =>
                 /\ job[w].cols = Diff(Copy(w), plan[job[w].plan])
                 /\ plan'[job[w].plan] = Copy(w)
<1> DEFINE q == job[w].plan
<1>1. Active(w) /\ job[w].pc \in {"dirty", "redirty"}
  BY DEF Update, Active
<1>2. /\ q \in Plans /\ q \in DOMAIN job[w].copy /\ DataOK
      /\ Copy(w) \in Row /\ plan[q] \in Row
  BY <1>1, Working
<1>3. Holds(w, q)
  BY <1>1, <1>2 DEF Holds
<1>4. plan' = [plan EXCEPT ![q] = Patch(plan[q], Copy(w), job[w].cols)]
  BY DEF Update
<1>5. ASSUME q \notin overlapped
      PROVE  job[w].cols = Diff(Copy(w), plan[q]) /\ plan'[q] = Copy(w)
  <2>1. FollowsRow(job[w], q, plan[q], paid[q])
    BY <1>2, <1>3, <1>5, FollowsEach
  <2>2. job[w].cols = Diff(Copy(w), plan[q])
    BY <1>1, <2>1 DEF FollowsRow, Copy
  <2>3. plan'[q] = Patch(plan[q], Copy(w), job[w].cols)
    BY <1>2, <1>4 DEF DataOK
  <2> QED
    BY <1>2, <2>2, <2>3, PatchDiff
<1>6. \A p \in Plans : p # q => plan'[p] = plan[p]
  BY <1>2, <1>4 DEF DataOK
<1> QED
  BY <1>1, <1>2, <1>3, <1>5, <1>6

LEMMA UpdateFollow ==
    ASSUME JobsInv, SoleHolder, CopiesFollow, PaidGrows, DataOK', NEW w \in Workers, Update(w)
    PROVE  CopiesFollow'
<1>1. /\ Active(w) /\ Proceed(w) /\ overlapped' = overlapped
      /\ \A p \in Plans : p # job[w].plan => plan'[p] = plan[p]
      /\ Holds(w, job[w].plan)
  BY UpdateWrites DEF Update
<1>2. /\ Others(w)
      /\ \/ Ended(w)
         \/ Turns(w, "next", job[w].plan,
                  [p \in DOMAIN job[w].copy \ {job[w].plan} |-> job[w].copy[p]],
                  FALSE, NoCharge, {})
  BY <1>1, ProceedTurns, JobsParts
<1>3. CASE Ended(w)
  <2>1. job'[w].pc = "idle"
    BY <1>3 DEF Ended, Idle
  <2> QED
    BY <1>1, <1>2, <2>1, EndFollow
<1>4. CASE ~Ended(w)
  <2>1. /\ job'[w].pc = "next" /\ job'[w].kind = job[w].kind
        /\ job'[w].copy = [p \in DOMAIN job[w].copy \ {job[w].plan} |-> job[w].copy[p]]
    BY <1>2, <1>4 DEF Turns
  <2>2. \A p \in Plans : Holds(w, p)' =>
           /\ Holds(w, p) /\ p # job[w].plan /\ job'[w].copy[p] = job[w].copy[p]
    BY <1>1, <2>1 DEF Holds, Active
  <2>3. \A p \in Plans : Holds(w, p)' =>
           /\ Holds(w, p) /\ plan'[p] = plan[p]
           /\ p # job[w].plan \/ job[w].pc \in {"next", "sent"}
           /\ p # job'[w].plan \/ job'[w].pc \in {"next", "sent"}
           /\ job'[w].kind = job[w].kind /\ job'[w].copy[p] = job[w].copy[p]
    BY <1>1, <2>1, <2>2
  <2>4. \A p \in Plans : plan'[p] = plan[p] \/ Holds(w, p)
    BY <1>1
  <2> QED
    BY <1>1, <1>2, <2>3, <2>4, KeepFollow
<1> QED
  BY <1>3, <1>4

LEMMA StartFollow ==
    ASSUME JobsInv, SoleHolder, CopiesFollow, PaidGrows, DataOK', NEW w \in Workers, NEW kind,
           NEW P, Start(w, kind, P),
           kind \in HttpKinds \/ \A p \in P : plan[p].status # "cancelled"
    PROVE  CopiesFollow'
<1>1. /\ Others(w) /\ plan' = plan /\ overlapped \subseteq overlapped'
      /\ job'[w] = [pc |-> "next", kind |-> kind, copy |-> [p \in P |-> plan[p]],
                    plan |-> CHOOSE p \in P : TRUE, existing |-> FALSE,
                    charge |-> NoCharge, cols |-> {}]
  BY StartTurns, JobsParts DEF Start, store
<1>2. /\ job'[w].pc = "next" /\ job'[w].kind = kind /\ DOMAIN job'[w].copy = P
      /\ \A p \in P : job'[w].copy[p] = plan[p]
  BY <1>1
<1>3. ASSUME NEW p \in Plans \ overlapped', Holds(w, p)'
      PROVE  FollowsRow(job'[w], p, plan'[p], paid'[p])
  <2>1. p \in P /\ job'[w].copy[p] = plan'[p]
    BY <1>1, <1>2, <1>3 DEF Holds
  <2> QED
    BY <1>1, <1>2, <2>1 DEF FollowsRow
<1> QED
  BY <1>1, <1>3, FollowJoin

LEMMA CopiesKept ==
    ASSUME JobsInv, SoleHolder, CopiesFollow, KeysPaid, [Next]_vars
    PROVE  CopiesFollow'
<1>0. TypeOK /\ DataOK /\ PaidGrows /\ DataOK'
  BY JobsParts, Grows, JobsKept DEF JobsInv, TypeOK, DataOK
<1>1. CASE UNCHANGED vars \/ Tick \/ \E p \in Plans, t \in Runs : Lapse(p, t)
  BY <1>1 DEF vars, store, history, Tick, Lapse, CopiesFollow, CopyFollows, Holds, Active
<1>2. ASSUME NEW w \in Workers, NEW kind \in SweepKinds, Find(w, kind)
      PROVE  CopiesFollow'
  BY <1>0, <1>2, StartFollow DEF Find, Selected, Due, SweepKinds
<1>3. ASSUME NEW w \in Workers, NEW kind \in HttpKinds, NEW p \in Plans, Load(w, kind, p)
      PROVE  CopiesFollow'
  BY <1>0, <1>3, StartFollow DEF Load
<1>4. ASSUME NEW w \in Workers, AutoPause(w) \/ Reject(w) \/ Cut(w)
      PROVE  CopiesFollow'
  <2>1. Active(w) /\ Finish(w) /\ overlapped' = overlapped /\ plan' = plan
    BY <1>4 DEF AutoPause, Reject, Cut, history, store, At, Active
  <2>2. Others(w) /\ job'[w].pc = "idle"
    BY <1>0, <2>1, FinishTurns DEF Ended, Idle
  <2> QED
    BY <1>0, <2>1, <2>2, EndFollow
<1>5. ASSUME NEW w \in Workers, Step(w) \/ Misfortune(w)
      PROVE  CopiesFollow'
  BY <1>0, <1>4, <1>5, BeginFollow, NoticeFollow, RunFollow, CaughtFollow, AdvanceFollow,
     MarkFollow, ApplyFollow, UpdateFollow DEF Step, Misfortune
<1> QED
  BY <1>1, <1>2, <1>3, <1>5 DEF Next

----------------------------------------------------------------------------
(* Occurrences and payments.                                               *)

Billed(f, m, t) == {s \in Runs : f[s] > 0} \ (m \cup {t})

LEMMA BilledEach ==
    /\ BilledRunsCounted <=>
          \A p \in Plans \ overlapped :
             plan[p].occurrences = Cardinality(Billed(paid[p], moved[p], plan[p].nextRunAt))
    /\ BilledRunsCounted' <=>
          \A p \in Plans \ overlapped' :
             plan'[p].occurrences = Cardinality(Billed(paid'[p], moved'[p], plan'[p].nextRunAt))
  BY DEF BilledRunsCounted, Billed

LEMMA RunsSame ==
    ASSUME RunsOrdered, BilledRunsCounted, UNCHANGED <<plan, paid, moved>>,
           overlapped \subseteq overlapped'
    PROVE  RunsOrdered' /\ BilledRunsCounted'
  BY BilledEach DEF RunsOrdered

\* A payment is for the run that the plan is at.
LEMMA PayRuns ==
    ASSUME JobsInv, CopiesFollow, RunsOrdered, BilledRunsCounted, NEW w \in Workers,
           At(w, "unpaid"), UNCHANGED <<plan, moved, overlapped>>,
           paid' = [paid EXCEPT ![job[w].plan][Run(w)] = @ + 1]
    PROVE  RunsOrdered' /\ BilledRunsCounted'
<1> DEFINE q == job[w].plan
<1>1. /\ DataOK /\ q \in Plans /\ Run(w) \in Runs /\ Holds(w, q) /\ job[w].pc = "unpaid"
  BY Working DEF At, Active, Holds
<1>2. ASSUME q \notin overlapped
      PROVE  Run(w) = plan[q].nextRunAt
  <2>1. FollowsRow(job[w], q, plan[q], paid[q])
    BY <1>1, <1>2, FollowsEach
  <2>2. job[w].kind # "resume" /\ job[w].pc \notin Catching \cup {"dirty"}
    BY <1>1, Working DEF Sound, JobShape, Executing, Catching, Active
  <2> QED
    BY <2>1, <2>2 DEF FollowsRow, Run, Copy
<1>3. /\ \A p \in Plans : p # q => paid'[p] = paid[p]
      /\ \A t \in Runs : t # Run(w) => paid'[q][t] = paid[q][t]
  BY <1>1 DEF DataOK
<1>4. ASSUME NEW p \in Plans \ overlapped
      PROVE  /\ \A t \in Runs : paid'[p][t] > 0 => t <= plan[p].nextRunAt
             /\ Billed(paid'[p], moved[p], plan[p].nextRunAt)
                  = Billed(paid[p], moved[p], plan[p].nextRunAt)
  <2>1. CASE p # q
    BY <1>3, <1>4, <2>1 DEF RunsOrdered
  <2>2. CASE p = q
    <3>1. \A t \in Runs : t # plan[p].nextRunAt => paid'[p][t] = paid[p][t]
      BY <1>2, <1>3, <1>4, <2>2
    <3>2. \A t \in Runs : t <= t
      BY DEF Runs
    <3>3. plan[p].nextRunAt \in Runs
      BY <1>1, <1>4 DEF DataOK, Row
    <3>4. \A t \in Runs : paid'[p][t] > 0 => t <= plan[p].nextRunAt
      BY <3>1, <3>2, <3>3 DEF RunsOrdered
    <3>5. Billed(paid'[p], moved[p], plan[p].nextRunAt)
            = Billed(paid[p], moved[p], plan[p].nextRunAt)
      BY <3>1 DEF Billed
    <3> QED
      BY <3>4, <3>5
  <2> QED
    BY <2>1, <2>2
<1>5. RunsOrdered'
  BY <1>4 DEF RunsOrdered
<1>6. BilledRunsCounted'
  BY <1>4, BilledEach
<1> QED
  BY <1>5, <1>6

\* The run that an execution leaves is the one more that is billed.
LEMMA BilledMore ==
    ASSUME NEW f \in [Runs -> Nat], NEW m \in SUBSET Runs, NEW t \in Runs, NEW u \in Runs,
           f[t] > 0, t \notin m, f[u] = 0
    PROVE  Cardinality(Billed(f, m, u)) = Cardinality(Billed(f, m, t)) + 1
<1>1. Billed(f, m, u) = Billed(f, m, t) \cup {t}
  BY DEF Billed
<1>2. t \notin Billed(f, m, t)
  BY DEF Billed
<1>3. IsFiniteSet(Billed(f, m, t))
  <2>1. IsFiniteSet(Runs)
    BY RecurringAssumption, FS_Interval DEF RecurringAssumption, Runs
  <2>2. Billed(f, m, t) \subseteq Runs
    BY DEF Billed
  <2> QED
    BY <2>1, <2>2, FS_Subset
<1> DEFINE S == Billed(f, m, t)
<1> HIDE DEF S
<1>4. IsFiniteSet(S) /\ t \notin S /\ Billed(f, m, u) = S \cup {t}
  BY <1>1, <1>2, <1>3 DEF S
<1>5. Cardinality(S \cup {t}) = Cardinality(S) + 1
  BY <1>4, FS_AddElement
<1> QED
  BY <1>4, <1>5 DEF S

\* The schedule moves from run t to run u.
LEMMA RunsMove ==
    ASSUME NEW f \in [Runs -> Nat], NEW m \in SUBSET Runs, NEW t \in Runs, NEW u \in Runs, u > t,
           \A s \in Runs : f[s] > 0 => s <= t, \A s \in m : s < t
    PROVE  /\ u # t /\ t \notin m /\ f[u] = 0
           /\ \A s \in Runs : f[s] > 0 => s <= u
           /\ \A s \in m \cup {t} : s < u
<1>1. \A s \in Runs : s \in Int
  BY DEF Runs
<1> QED
  BY <1>1

LEMMA UpdateRuns ==
    ASSUME JobsInv, CopiesFollow, RunsOrdered, BilledRunsCounted, NEW w \in Workers, Update(w)
    PROVE  RunsOrdered' /\ BilledRunsCounted'
<1> DEFINE q == job[w].plan
           c == Copy(w)
           r == plan[q]
<1>1. /\ q \in Plans /\ Holds(w, q) /\ job[w].pc \in {"dirty", "redirty"}
      /\ \A p \in Plans : p # q => plan'[p] = plan[p]
      /\ q \notin overlapped => job[w].cols = Diff(c, r) /\ plan'[q] = c
      /\ UNCHANGED <<paid, overlapped>>
  BY UpdateWrites DEF Update
<1>2. DataOK /\ c \in Row /\ r \in Row
  BY <1>1, Working DEF Holds, Active
<1>3. moved' = IF job[w].kind = "resume" /\ "nextRunAt" \in job[w].cols
               THEN [moved EXCEPT ![q] = @ \cup {r.nextRunAt}] ELSE moved
  BY DEF Update
<1>4. \A p \in Plans : p # q => moved'[p] = moved[p]
  BY <1>1, <1>2, <1>3 DEF DataOK
<1> HIDE DEF c
<1>5. ASSUME q \notin overlapped
      PROVE  /\ \A t \in Runs : paid[q][t] > 0 => t <= c.nextRunAt
             /\ \A t \in moved'[q] : t < c.nextRunAt
             /\ c.occurrences = Cardinality(Billed(paid[q], moved'[q], c.nextRunAt))
  <2>0. FollowsRow(job[w], q, r, paid[q]) /\ job[w].copy[q] = c
    BY <1>1, <1>5, FollowsEach DEF c, Copy
  <2>1. /\ r.occurrences = Cardinality(Billed(paid[q], moved[q], r.nextRunAt))
        /\ \A t \in Runs : paid[q][t] > 0 => t <= r.nextRunAt
        /\ \A t \in moved[q] : t < r.nextRunAt
    BY <1>1, <1>5, BilledEach DEF RunsOrdered
  <2>2. /\ c.nextRunAt \in Runs /\ r.nextRunAt \in Runs
        /\ moved[q] \in SUBSET Runs /\ paid[q] \in [Runs -> Nat]
    BY <1>1, <1>2 DEF Row, DataOK
  <2>3. ASSUME c.nextRunAt > r.nextRunAt
        PROVE  /\ c.nextRunAt # r.nextRunAt
               /\ r.nextRunAt \notin moved[q] /\ paid[q][c.nextRunAt] = 0
               /\ \A t \in Runs : paid[q][t] > 0 => t <= c.nextRunAt
               /\ \A t \in moved[q] \cup {r.nextRunAt} : t < c.nextRunAt
    <3> DEFINE f == paid[q]
               m == moved[q]
               t1 == r.nextRunAt
               t2 == c.nextRunAt
    <3>1. /\ f \in [Runs -> Nat] /\ m \in SUBSET Runs /\ t1 \in Runs /\ t2 \in Runs /\ t2 > t1
          /\ \A t \in Runs : f[t] > 0 => t <= t1
          /\ \A t \in m : t < t1
      BY <2>1, <2>2, <2>3
    <3> HIDE DEF f, m, t1, t2
    <3>2. /\ t2 # t1 /\ t1 \notin m /\ f[t2] = 0
          /\ \A t \in Runs : f[t] > 0 => t <= t2
          /\ \A t \in m \cup {t1} : t < t2
      BY <3>1, RunsMove
    <3> QED
      BY <3>2 DEF f, m, t1, t2
  <2>4. CASE c.occurrences = r.occurrences /\ c.nextRunAt = r.nextRunAt
    <3>1. "nextRunAt" \notin job[w].cols
      BY <1>1, <1>5, <2>4 DEF Diff
    <3> QED
      BY <1>3, <2>1, <2>4, <3>1
  <2>5. CASE /\ job[w].kind = "execute" /\ c.occurrences = r.occurrences + 1
             /\ c.nextRunAt > r.nextRunAt /\ paid[q][r.nextRunAt] > 0
    <3>1. moved' = moved
      BY <1>3, <2>5
    <3>2. /\ r.nextRunAt \notin moved[q] /\ paid[q][c.nextRunAt] = 0
          /\ \A t \in Runs : paid[q][t] > 0 => t <= c.nextRunAt
          /\ \A t \in moved[q] : t < c.nextRunAt
      BY <2>5, <2>3
    <3>3. Cardinality(Billed(paid[q], moved[q], c.nextRunAt))
            = Cardinality(Billed(paid[q], moved[q], r.nextRunAt)) + 1
      BY <2>2, <2>5, <3>2, BilledMore
    <3> QED
      BY <2>1, <2>5, <3>1, <3>2, <3>3
  <2>6. CASE /\ job[w].kind = "resume" /\ c.occurrences = r.occurrences
             /\ c.nextRunAt > r.nextRunAt
    <3>1. /\ c.nextRunAt # r.nextRunAt /\ paid[q][c.nextRunAt] = 0
          /\ \A t \in Runs : paid[q][t] > 0 => t <= c.nextRunAt
          /\ \A t \in moved[q] \cup {r.nextRunAt} : t < c.nextRunAt
      BY <2>6, <2>3
    <3>2. moved'[q] = moved[q] \cup {r.nextRunAt}
      <4>1. "nextRunAt" \in job[w].cols
        BY <1>1, <1>5, <3>1 DEF Diff, Columns
      <4> QED
        BY <1>1, <1>2, <1>3, <2>6, <4>1 DEF DataOK
    <3>3. Billed(paid[q], moved'[q], c.nextRunAt) = Billed(paid[q], moved[q], r.nextRunAt)
      BY <2>2, <3>1, <3>2 DEF Billed
    <3> QED
      BY <2>1, <2>6, <3>1, <3>2, <3>3
  <2> QED
    BY <2>0, <2>4, <2>5, <2>6 DEF FollowsRow
<1>6. RunsOrdered'
  BY <1>1, <1>4, <1>5 DEF RunsOrdered
<1>7. BilledRunsCounted'
  <2> SUFFICES ASSUME NEW p \in Plans \ overlapped
               PROVE  plan'[p].occurrences
                        = Cardinality(Billed(paid[p], moved'[p], plan'[p].nextRunAt))
    BY <1>1, BilledEach
  <2>1. CASE p = q
    BY <1>1, <1>5, <2>1
  <2>2. CASE p # q
    BY <1>1, <1>4, <2>2, BilledEach
  <2> QED
    BY <2>1, <2>2
<1> QED
  BY <1>6, <1>7

LEMMA RunsKept ==
    ASSUME JobsInv, CopiesFollow, RunsOrdered, BilledRunsCounted, [Next]_vars
    PROVE  RunsOrdered' /\ BilledRunsCounted'
<1>1. CASE UNCHANGED vars \/ Tick \/ \E p \in Plans, t \in Runs : Lapse(p, t)
  BY <1>1, RunsSame DEF vars, store, history, Tick, Lapse
<1>2. ASSUME NEW w \in Workers, NEW kind, NEW P, Start(w, kind, P)
      PROVE  RunsOrdered' /\ BilledRunsCounted'
  BY <1>2, RunsSame DEF Start, store
<1>3. ASSUME NEW w \in Workers, CreatePayment(w)
      PROVE  RunsOrdered' /\ BilledRunsCounted'
  BY <1>3, PayRuns DEF CreatePayment, history
<1>4. ASSUME NEW w \in Workers, NEW committed \in BOOLEAN, CreateFails(w, committed)
      PROVE  RunsOrdered' /\ BilledRunsCounted'
  <2>1. At(w, "unpaid") /\ UNCHANGED <<plan, moved, overlapped>>
    BY <1>4 DEF CreateFails
  <2>2. paid' = paid \/ paid' = [paid EXCEPT ![job[w].plan][Run(w)] = @ + 1]
    BY <1>4 DEF CreateFails
  <2> QED
    BY <2>1, <2>2, PayRuns, RunsSame
<1>5. ASSUME NEW w \in Workers, Step(w), ~CreatePayment(w), ~Update(w)
      PROVE  UNCHANGED <<plan, paid, moved, overlapped>>
  BY <1>5 DEF Step, Begin, SendNotice, SkipNotice, CheckKey, SaveCharge, StoreKey, Advance,
     RecordFailure, SaveFailure, AutoPause, MarkNotice, Apply, Reject, store, history
<1>6. ASSUME NEW w \in Workers, Misfortune(w),
             ~\E committed \in BOOLEAN : CreateFails(w, committed)
      PROVE  UNCHANGED <<plan, paid, moved, overlapped>>
  BY <1>6 DEF Misfortune, BeginFails, Fails, Cut, store, history
<1> QED
  BY <1>1, <1>2, <1>3, <1>4, <1>5, <1>6, UpdateRuns, RunsSame DEF Next, Misfortune, Find, Load

LEMMA ScheduleInit == Init => ScheduleInv
<1> SUFFICES ASSUME Init PROVE ScheduleInv
  OBVIOUS
<1>1. \A w \in Workers : job[w].pc = "idle"
  BY DEF Init, Idle
<1>2. KeysPaid /\ SoleHolder /\ CopiesFollow
  BY <1>1 DEF Init, KeysPaid, SoleHolder, CopiesFollow, Holds, Active
<1>3. \A p \in Plans : /\ paid[p] = [t \in Runs |-> 0] /\ moved[p] = {}
                       /\ plan[p].occurrences = 0
  BY DEF Init, Created
<1>4. RunsOrdered
  BY <1>3 DEF RunsOrdered
<1>5. BilledRunsCounted
  <2>1. \A p \in Plans : Billed(paid[p], moved[p], plan[p].nextRunAt) = {}
    BY <1>3 DEF Billed
  <2> QED
    BY <1>3, <2>1, BilledEach, FS_EmptySet
<1> QED
  BY <1>2, <1>4, <1>5 DEF ScheduleInv

LEMMA ScheduleAlways == Spec => []ScheduleInv
<1>1. JobsInv /\ ScheduleInv /\ [Next]_vars => ScheduleInv'
  BY KeysKept, SoleKept, CopiesKept, RunsKept DEF ScheduleInv
<1> QED
  BY <1>1, ScheduleInit, JobsAlways, PTL DEF Spec

\* The occurrences of a plan are the runs that were paid, apart from the one it is at
\* and those that resume() left behind, whatever fails, crashes and is tried again, as
\* long as no two jobs hold copies of the plan at once.
THEOREM RunsCounted == Spec => []BilledRunsCounted
<1>1. ScheduleInv => BilledRunsCounted
  BY DEF ScheduleInv
<1> QED
  BY <1>1, ScheduleAlways, PTL

----------------------------------------------------------------------------
(* Cancelled plans.                                                        *)

LEMMA OverlappedGrows ==
    ASSUME JobsInv, [Next]_vars
    PROVE  overlapped \subseteq overlapped'
<1>1. CASE \E w \in Workers : \E kind, P : Start(w, kind, P)
  BY <1>1 DEF Start
<1> QED
  BY <1>1, CopiesLess

\* Who holds the copy of a cancelled plan is a handler of the plan's owner.
LEMMA CancelledHeld ==
    ASSUME JobsInv, CopiesFollow, NEW p \in Plans \ overlapped, plan[p].status = "cancelled",
           NEW w \in Workers, Holds(w, p)
    PROVE  job[w].kind \in HttpKinds /\ job[w].copy[p].status = "cancelled"
  BY FollowsEach DEF FollowsRow

StaysEnded(p) ==
    plan'[p].status = "cancelled" /\ paid'[p] = paid[p] /\ notices'[p] = notices[p]

LEMMA FinalStep ==
    ASSUME JobsInv, CopiesFollow, [Next]_vars, NEW p \in Plans \ overlapped',
           plan[p].status = "cancelled"
    PROVE  StaysEnded(p)
<1>0. p \in Plans \ overlapped /\ DataOK
  BY OverlappedGrows, JobsParts
<1>1. CASE UNCHANGED vars \/ Tick \/ \E q \in Plans, t \in Runs : Lapse(q, t)
  BY <1>1 DEF vars, store, Tick, Lapse, StaysEnded
<1>2. ASSUME NEW w \in Workers, NEW kind, NEW P, Start(w, kind, P)
      PROVE  StaysEnded(p)
  BY <1>2 DEF Start, store, StaysEnded
<1>3. ASSUME NEW w \in Workers,
             CreatePayment(w) \/ \E committed \in BOOLEAN : CreateFails(w, committed)
      PROVE  StaysEnded(p)
  <2>1. /\ Active(w) /\ job[w].pc = "unpaid" /\ plan' = plan /\ notices' = notices
        /\ paid' = paid \/ paid' = [paid EXCEPT ![job[w].plan][Run(w)] = @ + 1]
    BY <1>3 DEF CreatePayment, CreateFails, At, Active
  <2>2. /\ job[w].kind = "execute" /\ job[w].plan \in Plans /\ Run(w) \in Runs
        /\ Holds(w, job[w].plan)
    BY <2>1, Working DEF Sound, JobShape, Active, Executing, Holds
  <2>3. p # job[w].plan
    BY <1>0, <2>2, CancelledHeld DEF HttpKinds
  <2> QED
    BY <1>0, <2>1, <2>2, <2>3 DEF DataOK, StaysEnded
<1>4. ASSUME NEW w \in Workers, NEW q, SendNotice(w, q)
      PROVE  StaysEnded(p)
  <2>1. /\ Active(w) /\ job[w].kind \in {"trialNotice", "reminder"} /\ q \in DOMAIN job[w].copy
        /\ plan' = plan /\ paid' = paid
        /\ notices' = [notices EXCEPT ![q][Notice(w, q)] = @ + 1]
    BY <1>4 DEF SendNotice, At, Active
  <2>2. p # q
    BY <1>0, <2>1, CancelledHeld DEF HttpKinds, Holds
  <2> QED
    BY <1>0, <2>1, <2>2 DEF DataOK, StaysEnded
<1>5. ASSUME NEW w \in Workers, Update(w)
      PROVE  StaysEnded(p)
  <2>1. paid' = paid /\ notices' = notices
    BY <1>5 DEF Update
  <2>2. CASE p # job[w].plan
    BY <1>5, <2>1, <2>2, UpdateWrites DEF StaysEnded
  <2>3. CASE p = job[w].plan
    <3>1. plan'[p] = Copy(w) /\ Holds(w, p)
      BY <1>0, <1>5, <2>3, UpdateWrites
    <3>2. Copy(w).status = "cancelled"
      BY <1>0, <2>3, <3>1, CancelledHeld DEF Copy
    <3> QED
      BY <2>1, <3>1, <3>2 DEF StaysEnded
  <2> QED
    BY <2>2, <2>3
<1>6. ASSUME NEW w \in Workers, Step(w), ~CreatePayment(w), ~Update(w),
             ~\E q \in DOMAIN job[w].copy : SendNotice(w, q)
      PROVE  UNCHANGED <<plan, paid, notices>>
  BY <1>6 DEF Step, Begin, SkipNotice, CheckKey, SaveCharge, StoreKey, Advance,
     RecordFailure, SaveFailure, AutoPause, MarkNotice, Apply, Reject, store
<1>7. ASSUME NEW w \in Workers, Misfortune(w),
             ~\E committed \in BOOLEAN : CreateFails(w, committed)
      PROVE  UNCHANGED <<plan, paid, notices>>
  BY <1>7 DEF Misfortune, BeginFails, Fails, Cut, store
<1>8. UNCHANGED <<plan, paid, notices>> => StaysEnded(p)
  BY DEF StaysEnded
<1> QED
  BY <1>1, <1>2, <1>3, <1>4, <1>5, <1>6, <1>7, <1>8 DEF Next, Misfortune, Find, Load

\* A cancelled plan stays cancelled, is not charged again and sends no notices, as
\* long as no job held a copy of it from before.
THEOREM CancellationsFinal == Spec => CancelledIsFinal
<1>1. JobsInv /\ ScheduleInv /\ [Next]_vars =>
         [\A p \in Plans \ overlapped' : plan[p].status = "cancelled" =>
             /\ plan'[p].status = "cancelled"
             /\ paid'[p] = paid[p] /\ notices'[p] = notices[p]]_vars
  BY FinalStep DEF ScheduleInv, StaysEnded
<1> QED
  BY <1>1, JobsAlways, ScheduleAlways, PTL DEF Spec, CancelledIsFinal

----------------------------------------------------------------------------
(* Notices.                                                                *)

NoticeKinds == {"trialNotice", "reminder"}

\* A job with record k has sent a notice of plan p and has not stored that yet.
Tells(k, kind, p) == k.pc \in {"sent", "dirty"} /\ k.kind = kind /\ k.plan = p

\* NoticesTold for a row r and its notices f, after c jobs were cut off.
ToldRow(p, r, f, c) ==
    /\ \A n \in Runs : f[n] <= 1 + c
    /\ ~r.trialEndingNotified /\ ~Telling("trialNotice", p) => f[TrialEnding] <= c
    /\ \A n \in Runs \ {TrialEnding} :
          /\ n > r.occurrences + 1 => f[n] = 0
          /\ n = r.occurrences + 1 /\ r.lastNotifiedCycle # n /\ ~Telling("reminder", p)
                => f[n] <= c

LEMMA ToldEach ==
    /\ NoticesTold <=> \A p \in Plans \ overlapped : ToldRow(p, plan[p], notices[p], cuts)
    /\ NoticesTold' <=>
          \A p \in Plans \ overlapped' : ToldRow(p, plan[p], notices[p], cuts)'
  BY DEF NoticesTold, ToldRow

\* Nothing is told anew, and whoever was telling still is.
LEMMA ToldSame ==
    ASSUME DataOK, DataOK', NEW p \in Plans, ToldRow(p, plan[p], notices[p], cuts),
           plan'[p] = plan[p], notices'[p] = notices[p], cuts' >= cuts,
           \A kind \in NoticeKinds : Telling(kind, p) => Telling(kind, p)'
    PROVE  ToldRow(p, plan[p], notices[p], cuts)'
<1>1. cuts \in Nat /\ cuts' \in Nat /\ \A n \in Runs : notices[p][n] \in Nat
  <2>1. MaxTrouble \in Nat
    BY RecurringAssumption DEF RecurringAssumption
  <2> QED
    BY <2>1 DEF DataOK
<1>2. TrialEnding \in Runs
  BY RecurringAssumption DEF RecurringAssumption, TrialEnding, Runs
<1>3. /\ Telling("trialNotice", p) => Telling("trialNotice", p)'
      /\ Telling("reminder", p) => Telling("reminder", p)'
  BY DEF NoticeKinds
<1>4. \A n \in Runs : notices'[p][n] <= 1 + cuts'
  BY <1>1 DEF ToldRow
<1>5. ~plan'[p].trialEndingNotified /\ ~Telling("trialNotice", p)' =>
         notices'[p][TrialEnding] <= cuts'
  <2> SUFFICES ASSUME ~plan'[p].trialEndingNotified, ~Telling("trialNotice", p)'
               PROVE  notices'[p][TrialEnding] <= cuts'
    OBVIOUS
  <2>1. notices[p][TrialEnding] <= cuts
    BY <1>3 DEF ToldRow
  <2> QED
    BY <1>1, <1>2, <2>1
<1>6. ASSUME NEW n \in Runs \ {TrialEnding}
      PROVE  /\ n > plan'[p].occurrences + 1 => notices'[p][n] = 0
             /\ n = plan'[p].occurrences + 1 /\ plan'[p].lastNotifiedCycle # n
                /\ ~Telling("reminder", p)' => notices'[p][n] <= cuts'
  <2>1. n > plan'[p].occurrences + 1 => notices'[p][n] = 0
    BY DEF ToldRow
  <2>2. ASSUME n = plan'[p].occurrences + 1, plan'[p].lastNotifiedCycle # n,
               ~Telling("reminder", p)'
        PROVE  notices'[p][n] <= cuts'
    <3>1. notices[p][n] <= cuts
      BY <1>3, <2>2 DEF ToldRow
    <3> QED
      BY <1>1, <3>1
  <2> QED
    BY <2>1, <2>2
<1> QED
  BY <1>4, <1>5, <1>6 DEF ToldRow

LEMMA ToldAway ==
    ASSUME JobsInv, NoticesTold, DataOK', NEW w \in Workers, Others(w), plan' = plan,
           notices' = notices, cuts' >= cuts, overlapped \subseteq overlapped',
           \A kind \in NoticeKinds, p \in Plans :
              Tells(job[w], kind, p) => Tells(job'[w], kind, p)
    PROVE  NoticesTold'
<1>1. \A kind \in NoticeKinds, p \in Plans : Telling(kind, p) => Telling(kind, p)'
  BY DEF Telling, Tells, Others
<1> QED
  BY <1>1, ToldEach, ToldSame, JobsParts

\* Who is telling of a plan that only one job holds is that job.
LEMMA SoleTeller ==
    ASSUME JobsInv, SoleHolder, NEW p \in Plans \ overlapped, NEW w \in Workers, Holds(w, p),
           NEW kind, ~Tells(job[w], kind, p)
    PROVE  ~Telling(kind, p)
<1> SUFFICES ASSUME NEW v \in Workers, Tells(job[v], kind, p)
             PROVE  FALSE
  BY DEF Telling, Tells
<1>1. Active(v) /\ job[v].pc # "next"
  BY DEF Tells, Active
<1>2. Holds(v, p)
  BY <1>1, Working DEF Holds, Tells
<1> QED
  BY <1>2 DEF SoleHolder

LEMMA CutTold ==
    ASSUME JobsInv, NoticesTold, DataOK', cuts' = cuts + 1,
           UNCHANGED <<plan, notices, overlapped>>
    PROVE  NoticesTold'
<1>0. DataOK
  BY JobsParts
<1>1. cuts \in Nat /\ TrialEnding \in Runs
  <2>1. MaxTrouble \in Nat /\ Horizon \in Nat
    BY RecurringAssumption DEF RecurringAssumption
  <2> QED
    BY <1>0, <2>1 DEF DataOK, TrialEnding, Runs
<1>2. ASSUME NEW p \in Plans \ overlapped
      PROVE  ToldRow(p, plan[p], notices[p], cuts)'
  <2>1. \A n \in Runs : notices[p][n] \in Nat /\ notices[p][n] <= cuts'
    BY <1>0, <1>1, ToldEach DEF ToldRow, DataOK
  <2>2. \A n \in Runs : notices[p][n] <= 1 + cuts'
    BY <1>1, <2>1
  <2>3. \A n \in Runs \ {TrialEnding} : n > plan[p].occurrences + 1 => notices[p][n] = 0
    BY ToldEach DEF ToldRow
  <2> QED
    BY <1>1, <2>1, <2>2, <2>3 DEF ToldRow
<1> QED
  BY <1>2, ToldEach

LEMMA SendTold ==
    ASSUME JobsInv, SoleHolder, CopiesFollow, NoticesTold, DataOK', NEW w \in Workers, NEW q,
           SendNotice(w, q)
    PROVE  NoticesTold'
<1> DEFINE kind == job[w].kind
           t == Notice(w, q)
<1>1. /\ Active(w) /\ job[w].pc = "next" /\ kind \in NoticeKinds /\ q \in DOMAIN job[w].copy
      /\ ~Told(w, q) /\ UNCHANGED <<plan, overlapped, cuts>>
      /\ notices' = [notices EXCEPT ![q][t] = @ + 1]
  BY DEF SendNotice, At, Active, bounds, history, NoticeKinds
<1>2. Sound(job[w], now) /\ DataOK /\ q \in Plans /\ Holds(w, q)
  BY <1>1, JobsParts DEF Sound, WellTyped, Active, Holds
<1>3. Others(w) /\ job'[w].pc = "sent" /\ job'[w].plan = q /\ job'[w].kind = kind
  <2>1. /\ Others(w)
        /\ Turns(w, "sent", q, job[w].copy, job[w].existing, job[w].charge, job[w].cols)
    BY SendTurns, JobsParts
  <2> QED
    BY <2>1 DEF Turns
<1>4. \A p \in Plans : \A k \in NoticeKinds :
         /\ ~Tells(job[w], k, p)
         /\ Telling(k, p) => Telling(k, p)'
  BY <1>1, <1>3 DEF Tells, Telling, Others
<1>5. \A k : k = kind => Telling(k, q)'
  BY <1>3 DEF Telling
<1>6. cuts \in Nat /\ cuts' = cuts /\ TrialEnding \in Runs
  <2>1. MaxTrouble \in Nat /\ Horizon \in Nat
    BY RecurringAssumption DEF RecurringAssumption
  <2> QED
    BY <1>1, <1>2, <2>1 DEF DataOK, TrialEnding, Runs
<1>7. ASSUME NEW p \in Plans \ overlapped, p # q
      PROVE  ToldRow(p, plan[p], notices[p], cuts)'
  <2>1. notices'[p] = notices[p] /\ plan'[p] = plan[p] /\ cuts' >= cuts
    BY <1>1, <1>2, <1>6, <1>7 DEF DataOK
  <2> QED
    BY <1>2, <1>4, <1>7, <2>1, ToldEach, ToldSame
<1>8. ASSUME q \notin overlapped
      PROVE  ToldRow(q, plan[q], notices[q], cuts)'
  <2>1. ToldRow(q, plan[q], notices[q], cuts)
    BY <1>2, <1>8, ToldEach
  <2>2. ~Telling("trialNotice", q) /\ ~Telling("reminder", q)
    BY <1>2, <1>4, <1>8, SoleTeller DEF NoticeKinds
  <2>3. job[w].copy[q] = plan[q]
    <3>1. FollowsRow(job[w], q, plan[q], paid[q])
      BY <1>2, <1>8, FollowsEach
    <3> QED
      BY <1>1, <3>1 DEF FollowsRow
  <2>4. \A n \in Runs : notices[q][n] \in Nat
    BY <1>2 DEF DataOK
  <2>5. /\ \A n \in Runs : n # t => notices'[q][n] = notices[q][n]
        /\ t \in Runs => notices'[q][t] = notices[q][t] + 1
    BY <1>1, <1>2 DEF DataOK
  <2>6. CASE kind = "trialNotice"
    <3>1. t = TrialEnding /\ ~plan[q].trialEndingNotified
      BY <1>1, <2>3, <2>6 DEF Told, Notice
    <3>2. notices[q][t] <= cuts
      BY <2>1, <2>2, <3>1 DEF ToldRow
    <3>3. \A n \in Runs : notices'[q][n] <= 1 + cuts
      BY <1>6, <2>1, <2>4, <2>5, <3>2 DEF ToldRow
    <3>4. \A n \in Runs \ {TrialEnding} : notices'[q][n] = notices[q][n]
      BY <2>5, <3>1
    <3>5. Telling("trialNotice", q)'
      BY <1>5, <2>6
    <3> HIDE DEF t
    <3> QED
      BY <1>1, <1>6, <2>1, <2>2, <3>3, <3>4, <3>5 DEF ToldRow
  <2>7. CASE kind = "reminder"
    <3>1. t = plan[q].occurrences + 1 /\ plan[q].lastNotifiedCycle # t
      BY <1>1, <2>3, <2>7 DEF Told, Notice
    <3>2. t # TrialEnding
      <4>1. plan[q].occurrences \in Nat
        BY <1>2 DEF DataOK, Row
      <4> QED
        BY <3>1, <4>1 DEF TrialEnding
    <3>3. t \in Runs => notices[q][t] <= cuts
      BY <2>1, <2>2, <3>1, <3>2 DEF ToldRow
    <3>4. \A n \in Runs : notices'[q][n] <= 1 + cuts
      BY <1>6, <2>1, <2>4, <2>5, <3>3 DEF ToldRow
    <3>5. notices'[q][TrialEnding] = notices[q][TrialEnding]
      BY <1>6, <2>5, <3>2
    <3>6. \A n \in Runs : n > plan[q].occurrences + 1 => n # t
      <4>1. plan[q].occurrences \in Nat /\ \A n \in Runs : n \in Int
        BY <1>2 DEF DataOK, Row, Runs
      <4> QED
        BY <3>1, <4>1
    <3>7. \A n \in Runs \ {TrialEnding} : n > plan[q].occurrences + 1 => notices'[q][n] = 0
      BY <2>1, <2>5, <3>6 DEF ToldRow
    <3>8. Telling("reminder", q)'
      BY <1>5, <2>7
    <3> HIDE DEF t
    <3> QED
      BY <1>1, <1>6, <2>1, <2>2, <3>4, <3>5, <3>7, <3>8 DEF ToldRow
  <2> QED
    BY <1>1, <2>6, <2>7 DEF NoticeKinds
<1> QED
  BY <1>1, <1>2, <1>7, <1>8, ToldEach

\* A save tells the row of the notice that was sent, and moves on by a cycle at most.
LEMMA UpdateTold ==
    ASSUME JobsInv, SoleHolder, CopiesFollow, NoticesTold, DataOK', NEW w \in Workers, Update(w)
    PROVE  NoticesTold'
<1> DEFINE q == job[w].plan
           c == Copy(w)
<1>1. /\ Active(w) /\ q \in Plans /\ Holds(w, q) /\ job[w].pc \in {"dirty", "redirty"}
      /\ \A p \in Plans : p # q => plan'[p] = plan[p]
      /\ q \notin overlapped => plan'[q] = c
      /\ Proceed(w) /\ UNCHANGED <<notices, cuts, overlapped>>
  BY UpdateWrites DEF Update, bounds
<1>2. DataOK /\ c \in Row /\ plan[q] \in Row /\ Sound(job[w], now)
  BY <1>1, Working
<1>3. Others(w) /\ job'[w].pc \in {"idle", "next"}
  BY <1>1, ProceedTurns, JobsParts
<1>4. cuts \in Nat
  <2>1. MaxTrouble \in Nat
    BY RecurringAssumption DEF RecurringAssumption
  <2> QED
    BY <1>2, <2>1 DEF DataOK
<1>5. ASSUME NEW p \in Plans \ overlapped, p # q
      PROVE  ToldRow(p, plan[p], notices[p], cuts)'
  <2>1. \A kind \in NoticeKinds : Telling(kind, p) => Telling(kind, p)'
    BY <1>3, <1>5 DEF Telling, Others
  <2>2. notices'[p] = notices[p] /\ plan'[p] = plan[p] /\ cuts' >= cuts
    BY <1>1, <1>4, <1>5
  <2> QED
    BY <1>2, <1>5, <2>1, <2>2, ToldEach, ToldSame
<1> HIDE DEF c
<1>6. ASSUME q \notin overlapped
      PROVE  \A p \in Plans : p = q => ToldRow(p, plan[p], notices[p], cuts)'
  <2>1. ToldRow(q, plan[q], notices[q], cuts) /\ FollowsRow(job[w], q, plan[q], paid[q])
    BY <1>1, <1>6, ToldEach, FollowsEach
  <2>2. job[w].copy[q] = c
    BY DEF c, Copy
  <2>3. /\ \/ c.occurrences = plan[q].occurrences
           \/ c.occurrences = plan[q].occurrences + 1
        /\ job[w].kind # "trialNotice" => c.trialEndingNotified = plan[q].trialEndingNotified
        /\ job[w].kind # "reminder" => c.lastNotifiedCycle = plan[q].lastNotifiedCycle
    BY <2>1, <2>2 DEF FollowsRow
  <2>4. ~plan'[q].trialEndingNotified => notices[q][TrialEnding] <= cuts
    <3>1. CASE job[w].kind = "trialNotice"
      <4>1. job[w].pc = "dirty"
        BY <1>1, <1>2, <3>1 DEF Sound, JobShape, Active, Catching
      <4> QED
        BY <1>1, <1>6, <2>1, <2>2, <3>1, <4>1 DEF FollowsRow
    <3>2. CASE job[w].kind # "trialNotice"
      <4>1. ~Telling("trialNotice", q)
        BY <1>1, <1>6, <3>2, SoleTeller DEF Tells
      <4>2. plan'[q].trialEndingNotified = plan[q].trialEndingNotified
        BY <1>1, <1>6, <2>3, <3>2
      <4> QED
        BY <2>1, <4>1, <4>2 DEF ToldRow
    <3> QED
      BY <3>1, <3>2
  <2>5. ASSUME NEW n \in Runs \ {TrialEnding}
        PROVE  /\ n > c.occurrences + 1 => notices[q][n] = 0
               /\ n = c.occurrences + 1 /\ c.lastNotifiedCycle # n => notices[q][n] <= cuts
    <3>1. /\ n > plan[q].occurrences + 1 => notices[q][n] = 0
          /\ n = plan[q].occurrences + 1 /\ plan[q].lastNotifiedCycle # n
             /\ ~Telling("reminder", q) => notices[q][n] <= cuts
      BY <2>1, <2>5 DEF ToldRow
    <3>2. c.occurrences \in Nat /\ plan[q].occurrences \in Nat /\ n \in Int
      BY <1>2, <2>5 DEF Row, Runs
    <3>3. CASE c.occurrences = plan[q].occurrences
      <4>1. CASE job[w].kind = "reminder"
        <5>1. job[w].pc = "dirty"
          BY <1>1, <1>2, <4>1 DEF Sound, JobShape, Active, Catching
        <5>2. c.lastNotifiedCycle = plan[q].occurrences + 1
          BY <2>1, <2>2, <4>1, <5>1 DEF FollowsRow
        <5> QED
          BY <3>1, <3>3, <5>2
      <4>2. CASE job[w].kind # "reminder"
        <5>1. ~Telling("reminder", q)
          BY <1>1, <1>6, <4>2, SoleTeller DEF Tells
        <5> QED
          BY <2>3, <3>1, <3>3, <4>2, <5>1
      <4> QED
        BY <4>1, <4>2
    <3>4. CASE c.occurrences = plan[q].occurrences + 1
      BY <1>4, <3>1, <3>2, <3>4
    <3> QED
      BY <2>3, <3>3, <3>4
  <2>6. \A n \in Runs : notices[q][n] <= 1 + cuts
    BY <2>1 DEF ToldRow
  <2>7. ASSUME NEW p \in Plans, p = q
        PROVE  ToldRow(p, plan[p], notices[p], cuts)'
    <3>1. plan'[p] = c /\ notices'[p] = notices[p] /\ cuts' = cuts
      BY <1>1, <1>6, <2>7
    <3> HIDE DEF q
    <3> QED
      BY <2>4, <2>5, <2>6, <2>7, <3>1 DEF ToldRow
  <2> QED
    BY <2>7
<1> QED
  BY <1>1, <1>5, <1>6, ToldEach

LEMMA MarkTold ==
    ASSUME JobsInv, NoticesTold, DataOK', NEW w \in Workers, MarkNotice(w)
    PROVE  NoticesTold'
<1>1. PICK c : /\ Active(w) /\ StartSave(w, c)
               /\ UNCHANGED <<plan, notices, cuts, overlapped>>
  BY DEF MarkNotice, At, Active, store, bounds, history
<1>2. /\ Others(w)
      /\ Turns(w, "dirty", job[w].plan, [job[w].copy EXCEPT ![job[w].plan] = c],
               job[w].existing, job[w].charge, Diff(c, plan[job[w].plan]))
  BY <1>1, StartSaveTurns, JobsParts
<1>3. job'[w].pc = "dirty" /\ job'[w].plan = job[w].plan /\ job'[w].kind = job[w].kind
  BY <1>2 DEF Turns
<1>4. \A kind \in NoticeKinds, p \in Plans : Tells(job[w], kind, p) => Tells(job'[w], kind, p)
  BY <1>3 DEF Tells
<1>5. cuts' >= cuts
  BY <1>1, JobsParts DEF DataOK
<1> QED
  BY <1>1, <1>2, <1>4, <1>5, ToldAway

LEMMA TurnsOthers ==
    ASSUME JobsInv, NEW w \in Workers, Step(w) \/ Misfortune(w)
    PROVE  Others(w)
<1>0. TypeOK /\ Active(w)
  BY JobsParts DEF Step, Misfortune
<1>1. ASSUME NEW p, Begin(w, p) \/ BeginFails(w, p) \/ SendNotice(w, p) \/ SkipNotice(w, p)
      PROVE  Others(w)
  BY <1>0, <1>1, BeginTurns, BeginFailsTurns, SendTurns, SkipTurns
<1>2. CASE CheckKey(w) \/ SaveCharge(w) \/ SaveFailure(w)
  BY <1>0, <1>2, CheckTurns, SaveChargeTurns, SaveFailureTurns
<1>3. CASE CreatePayment(w) \/ StoreKey(w) \/ RecordFailure(w)
  BY <1>0, <1>3, GotoTurns DEF CreatePayment, StoreKey, RecordFailure
<1>4. CASE Advance(w) \/ MarkNotice(w) \/ \E i \in Intervals : Apply(w, i)
  BY <1>0, <1>4, StartSaveTurns DEF Advance, MarkNotice, Apply
<1>5. CASE AutoPause(w) \/ Reject(w) \/ Cut(w)
  BY <1>0, <1>5, FinishTurns DEF AutoPause, Reject, Cut
<1>6. CASE Update(w)
  BY <1>0, <1>6, ProceedTurns DEF Update
<1>7. CASE Fails(w) \/ \E committed \in BOOLEAN : CreateFails(w, committed)
  BY <1>0, <1>7, CaughtTurns DEF Fails, CreateFails
<1> QED
  BY <1>1, <1>2, <1>3, <1>4, <1>5, <1>6, <1>7 DEF Step, Misfortune

LEMMA NoticesKept ==
    ASSUME JobsInv, SoleHolder, CopiesFollow, NoticesTold, [Next]_vars
    PROVE  NoticesTold'
<1>0. DataOK /\ DataOK' /\ cuts \in Int /\ overlapped \subseteq overlapped'
  <2>1. DataOK /\ DataOK'
    BY JobsParts, JobsKept DEF JobsInv, TypeOK, DataOK
  <2> QED
    BY <2>1, OverlappedGrows DEF DataOK
<1>1. CASE UNCHANGED vars \/ Tick
  <2>1. UNCHANGED <<plan, notices, cuts, overlapped, job>>
    BY <1>1 DEF vars, store, bounds, history, Tick
  <2> QED
    BY <2>1 DEF NoticesTold, Telling
<1>2. ASSUME NEW p \in Plans, NEW t \in Runs, Lapse(p, t)
      PROVE  NoticesTold'
  BY <1>0, <1>2, CutTold DEF Lapse
<1>3. ASSUME NEW w \in Workers, Others(w), UNCHANGED <<plan, notices, cuts>>,
             job[w].pc \notin {"sent", "dirty"} \/ job[w].kind \notin NoticeKinds
      PROVE  NoticesTold'
  <2>1. \A kind \in NoticeKinds, p \in Plans :
           Tells(job[w], kind, p) => Tells(job'[w], kind, p)
    BY <1>3 DEF Tells
  <2>2. cuts' >= cuts
    BY <1>0, <1>3
  <2> QED
    BY <1>0, <1>3, <2>1, <2>2, ToldAway
<1>4. ASSUME NEW w \in Workers, NEW kind, NEW P, Start(w, kind, P)
      PROVE  NoticesTold'
  <2>1. Others(w) /\ UNCHANGED <<plan, notices, cuts>> /\ job[w].pc = "idle"
    BY <1>4, StartTurns, JobsParts DEF Start, store, Active
  <2> QED
    BY <1>3, <2>1
<1>5. ASSUME NEW w \in Workers, Cut(w)
      PROVE  NoticesTold'
  BY <1>0, <1>5, CutTold DEF Cut, store
<1>6. ASSUME NEW w \in Workers, Step(w) \/ Misfortune(w),
             ~MarkNotice(w), ~Update(w), ~Cut(w),
             ~\E p \in DOMAIN job[w].copy : SendNotice(w, p)
      PROVE  NoticesTold'
  <2>1. UNCHANGED <<plan, notices, cuts>>
    BY <1>6 DEF Step, Misfortune, Begin, SkipNotice, CheckKey, CreatePayment, SaveCharge,
       StoreKey, Advance, RecordFailure, SaveFailure, AutoPause, Apply, Reject,
       BeginFails, Fails, CreateFails, store, bounds
  <2>2. job[w].pc \notin {"sent", "dirty"} \/ job[w].kind = "execute"
    BY <1>6 DEF Step, Misfortune, Begin, SkipNotice, CheckKey, CreatePayment, SaveCharge,
       StoreKey, Advance, RecordFailure, SaveFailure, AutoPause, Apply, Reject,
       BeginFails, Fails, CreateFails, At
  <2> QED
    BY <1>3, <1>6, <2>1, <2>2, TurnsOthers DEF NoticeKinds
<1>7. ASSUME NEW w \in Workers, Step(w) \/ Misfortune(w)
      PROVE  NoticesTold'
  BY <1>0, <1>5, <1>6, <1>7, MarkTold, UpdateTold, SendTold
<1> QED
  BY <1>1, <1>2, <1>4, <1>7 DEF Next, Find, Load

LEMMA NoticesInit == Init => NoticesTold
<1> SUFFICES ASSUME Init PROVE NoticesTold
  OBVIOUS
<1>1. /\ \A p \in Plans, n \in Runs : notices[p][n] = 0
      /\ cuts = 0 /\ TrialEnding \in Runs
  BY RecurringAssumption DEF Init, RecurringAssumption, TrialEnding, Runs
<1> QED
  BY <1>1 DEF NoticesTold

\* The end of a trial is announced once and each cycle has one reminder, apart from
\* the notices of jobs that were cut off before they stored that they had sent one,
\* as long as no two jobs hold copies of the plan at once.
THEOREM NoticesSentOnce == Spec => []NoticesOnce
<1>1. JobsInv /\ ScheduleInv /\ NoticesTold /\ [Next]_vars => NoticesTold'
  BY NoticesKept DEF ScheduleInv
<1>2. NoticesTold => NoticesOnce
  BY DEF NoticesTold, NoticesOnce
<1> QED
  BY <1>1, <1>2, NoticesInit, JobsAlways, ScheduleAlways, PTL DEF Spec

----------------------------------------------------------------------------
(* Payments and charges.                                                   *)

\* One more payment of a run is one more pair of the run and a number.
LEMMA OneMore ==
    ASSUME NEW f \in [Runs -> Nat], NEW t \in Runs, IsFiniteSet(Units(f))
    PROVE  /\ IsFiniteSet(Units([f EXCEPT ![t] = f[t] + 1]))
           /\ SumOf([f EXCEPT ![t] = f[t] + 1]) = SumOf(f) + 1
<1> DEFINE g == [f EXCEPT ![t] = f[t] + 1]
           x == <<t, f[t] + 1>>
<1>1. DOMAIN g = Runs /\ DOMAIN f = Runs
  OBVIOUS
<1>2. f[t] \in Nat /\ g[t] = f[t] + 1 /\ \A s \in Runs \ {t} : g[s] = f[s]
  OBVIOUS
<1> HIDE DEF g
<1>3. 1 .. g[t] = (1 .. f[t]) \cup {f[t] + 1}
  BY <1>2
<1>6. {t} \X (1 .. g[t]) = ({t} \X (1 .. f[t])) \cup {x}
  BY <1>3
<1>4. Units(g) = Units(f) \cup {x}
  <2>1. ASSUME NEW u \in Units(g) PROVE u \in Units(f) \cup {x}
    <3>1. PICK s \in Runs : u \in {s} \X (1 .. g[s])
      BY <1>1 DEF Units
    <3>2. CASE s = t
      BY <1>1, <1>6, <3>1, <3>2 DEF Units
    <3>3. CASE s # t
      BY <1>1, <1>2, <3>1, <3>3 DEF Units
    <3> QED
      BY <3>2, <3>3
  <2>2. ASSUME NEW u \in Units(f) PROVE u \in Units(g)
    <3>1. PICK s \in Runs : u \in {s} \X (1 .. f[s])
      BY <1>1 DEF Units
    <3>2. CASE s = t
      BY <1>1, <1>6, <3>1, <3>2 DEF Units
    <3>3. CASE s # t
      BY <1>1, <1>2, <3>1, <3>3 DEF Units
    <3> QED
      BY <3>2, <3>3
  <2>3. x \in Units(g)
    BY <1>1, <1>6 DEF Units
  <2> QED
    BY <2>1, <2>2, <2>3
<1>5. x \notin Units(f)
  BY <1>1, <1>2 DEF Units
<1>7. IsFiniteSet(Units(g)) /\ Cardinality(Units(g)) = Cardinality(Units(f)) + 1
  BY <1>4, <1>5, FS_AddElement
<1> QED
  BY <1>7 DEF g, SumOf

\* ChargesBacked, of one plan.
Backed(p) ==
    /\ IsFiniteSet(Units(paid[p])) /\ IsFiniteSet(Units(unkeyed[p]))
    /\ SumOf(paid[p]) + Cardinality(Unbacked(p))
         <= SumOf(unkeyed[p]) + charges[p]["pending"] + charges[p]["succeeded"]

\* A count that stays as it is, or that one run adds to.
Adds(f, g) == \/ g = f
              \/ \E t \in Runs : g = [f EXCEPT ![t] = f[t] + 1]

LEMMA AddsCount ==
    ASSUME NEW f \in [Runs -> Nat], NEW g, Adds(f, g), IsFiniteSet(Units(f))
    PROVE  /\ IsFiniteSet(Units(g))
           /\ SumOf(f) \in Nat /\ SumOf(g) \in Nat
           /\ SumOf(f) <= SumOf(g)
<1>1. SumOf(f) \in Nat
  BY FS_CardinalityType DEF SumOf
<1>2. CASE g = f
  BY <1>1, <1>2
<1>3. CASE g # f
  <2>1. PICK t \in Runs : g = [f EXCEPT ![t] = f[t] + 1]
    BY <1>3 DEF Adds
  <2>2. IsFiniteSet(Units(g)) /\ SumOf(g) = SumOf(f) + 1
    BY <2>1, OneMore
  <2> QED
    BY <1>1, <2>2
<1> QED
  BY <1>2, <1>3

\* The numbers that Backed compares.
LEMMA BackedCounts ==
    ASSUME DataOK, NEW p \in Plans, Backed(p)
    PROVE  /\ paid[p] \in [Runs -> Nat] /\ unkeyed[p] \in [Runs -> Nat]
           /\ charges[p]["pending"] \in Nat /\ charges[p]["succeeded"] \in Nat
           /\ IsFiniteSet(Unbacked(p)) /\ Cardinality(Unbacked(p)) \in Nat
           /\ SumOf(paid[p]) \in Nat /\ SumOf(unkeyed[p]) \in Nat
<1>1. Unbacked(p) \subseteq Charging(p)
  BY DEF Unbacked
<1>2. IsFiniteSet(Unbacked(p)) /\ Cardinality(Unbacked(p)) \in Nat
  BY <1>1, ChargingFinite, FS_Subset, FS_CardinalityType
<1>3. SumOf(paid[p]) \in Nat /\ SumOf(unkeyed[p]) \in Nat
  BY FS_CardinalityType DEF Backed, SumOf
<1> QED
  BY <1>2, <1>3 DEF DataOK, ChargeStatus

LEMMA UnbackedFewer ==
    ASSUME NEW p, NEW S, IsFiniteSet(S), Unbacked(p)' \subseteq S
    PROVE  Cardinality(Unbacked(p)') \in Nat /\ Cardinality(Unbacked(p)') <= Cardinality(S)
  BY FS_Subset, FS_CardinalityType

\* Most steps: no charge is made or paid for, and none loses its payment.
LEMMA BackedQuiet ==
    ASSUME DataOK, NEW p \in Plans, Backed(p), paid'[p] = paid[p],
           Adds(unkeyed[p], unkeyed'[p]),
           charges'[p]["pending"] + charges'[p]["succeeded"]
             = charges[p]["pending"] + charges[p]["succeeded"],
           DataOK', Unbacked(p)' \subseteq Unbacked(p)
    PROVE  Backed(p)'
<1>1. /\ unkeyed[p] \in [Runs -> Nat] /\ IsFiniteSet(Unbacked(p))
      /\ charges[p]["pending"] \in Nat /\ charges[p]["succeeded"] \in Nat
      /\ Cardinality(Unbacked(p)) \in Nat
      /\ SumOf(paid[p]) \in Nat /\ SumOf(unkeyed[p]) \in Nat
      /\ IsFiniteSet(Units(unkeyed[p])) /\ IsFiniteSet(Units(paid[p]))
  BY BackedCounts DEF Backed
<1>2. /\ IsFiniteSet(Units(unkeyed'[p])) /\ SumOf(unkeyed'[p]) \in Nat
      /\ SumOf(unkeyed[p]) <= SumOf(unkeyed'[p])
  BY <1>1, AddsCount
<1>3. /\ Cardinality(Unbacked(p)') \in Nat
      /\ Cardinality(Unbacked(p)') <= Cardinality(Unbacked(p))
  BY <1>1, UnbackedFewer
<1>4. charges'[p]["pending"] \in Nat /\ charges'[p]["succeeded"] \in Nat
  BY DEF DataOK, ChargeStatus
<1>5. SumOf(paid[p]) + Cardinality(Unbacked(p)')
        <= SumOf(unkeyed'[p]) + charges'[p]["pending"] + charges'[p]["succeeded"]
  <2>1. SumOf(paid[p]) + Cardinality(Unbacked(p))
          <= SumOf(unkeyed[p]) + charges[p]["pending"] + charges[p]["succeeded"]
    BY DEF Backed
  <2> QED
    BY <1>1, <1>2, <1>3, <1>4, <2>1
<1> QED
  BY <1>1, <1>2, <1>5 DEF Backed

\* A step that leaves charges alone and puts nobody into Unbacked.
LEMMA BackedSame ==
    ASSUME DataOK, DataOK', ChargesBacked, NEW w \in Workers, Others(w),
           charges' = charges, paid' = paid,
           \A p \in Plans : Adds(unkeyed[p], unkeyed'[p]),
           \A p \in Plans : w \in Unbacked(p)' => w \in Unbacked(p)
    PROVE  ChargesBacked'
<1> SUFFICES ASSUME NEW p \in Plans
             PROVE  Backed(p)'
  BY DEF ChargesBacked, Backed
<1>1. Unbacked(p)' \subseteq Unbacked(p)
  BY DEF Unbacked, Charging, Others
<1>2. Backed(p)
  BY DEF ChargesBacked, Backed
<1> QED
  BY <1>1, <1>2, BackedQuiet

LEMMA AddsOne ==
    ASSUME NEW h \in [Plans -> [Runs -> Nat]], NEW p \in Plans, NEW t \in Runs,
           NEW g, g = h \/ g = [h EXCEPT ![p][t] = @ + 1]
    PROVE  \A q \in Plans : Adds(h[q], g[q])
  BY DEF Adds

LEMMA ForgetAdds ==
    ASSUME JobsInv, NEW w \in Workers, Active(w), Forget(w)
    PROVE  \A p \in Plans : Adds(unkeyed[p], unkeyed'[p])
<1>1. DataOK
  BY JobsParts
<1>2. CASE unkeyed' = unkeyed
  BY <1>2 DEF Adds
<1>3. CASE unkeyed' # unkeyed
  <2>1. /\ unkeyed' = [unkeyed EXCEPT ![job[w].plan][Run(w)] = @ + 1]
        /\ job[w].pc # "next"
    BY <1>3 DEF Forget
  <2>2. job[w].plan \in Plans /\ Run(w) \in Runs
    BY <2>1, Working
  <2> QED
    BY <1>1, <2>1, <2>2, AddsOne DEF DataOK
<1> QED
  BY <1>2, <1>3

\* A step after which its job holds no PENDING charge.
LEMMA BackedAway ==
    ASSUME DataOK, DataOK', ChargesBacked, NEW w \in Workers, Others(w),
           charges' = charges, paid' = paid,
           \A p \in Plans : Adds(unkeyed[p], unkeyed'[p]),
           job'[w].pc \notin {"opened", "unpaid", "paid", "caught"}
    PROVE  ChargesBacked'
  BY BackedSame DEF Unbacked, Charging

\* The INSERT of a charge.
LEMMA BeginBacked ==
    ASSUME JobsInv, DataOK, DataOK', ChargesBacked, NEW w \in Workers, NEW q, Begin(w, q)
    PROVE  ChargesBacked'
<1>1. /\ Others(w) /\ Active(w) /\ Sound(job[w], now)
      /\ Turns(w, "opened", q, [job[w].copy EXCEPT ![q].status = "active"],
               job[w].existing, "pending", job[w].cols)
      /\ paid' = paid /\ unkeyed' = unkeyed
  BY BeginTurns, JobsParts DEF Begin, history
<1>2. q \in Plans /\ charges' = [charges EXCEPT ![q]["pending"] = @ + 1]
  BY <1>1 DEF Begin, Sound, WellTyped, Active
<1> SUFFICES ASSUME NEW p \in Plans
             PROVE  Backed(p)'
  BY DEF ChargesBacked, Backed
<1>3. Backed(p)
  BY DEF ChargesBacked, Backed
<1>4. CASE p # q
  <2>1. charges'[p] = charges[p]
    BY <1>2, <1>4 DEF DataOK
  <2>2. Unbacked(p)' \subseteq Unbacked(p)
    BY <1>1, <1>4 DEF Unbacked, Charging, Others, Turns
  <2> QED
    BY <1>1, <1>3, <2>1, <2>2, BackedQuiet DEF Adds
<1>5. CASE p = q
  <2>1. /\ charges'[p]["pending"] = charges[p]["pending"] + 1
        /\ charges'[p]["succeeded"] = charges[p]["succeeded"]
    BY <1>2, <1>5 DEF DataOK, ChargeStatus
  <2> DEFINE more == Unbacked(p) \cup {w}
  <2>2. Unbacked(p)' \subseteq more
    BY <1>1, <1>5 DEF Unbacked, Charging, Others
  <2>3. /\ charges[p]["pending"] \in Nat /\ charges[p]["succeeded"] \in Nat
        /\ IsFiniteSet(Unbacked(p)) /\ Cardinality(Unbacked(p)) \in Nat
        /\ SumOf(paid[p]) \in Nat /\ SumOf(unkeyed[p]) \in Nat
    BY <1>3, BackedCounts
  <2>4. /\ IsFiniteSet(more) /\ Cardinality(more) \in Nat
        /\ Cardinality(more) <= Cardinality(Unbacked(p)) + 1
    <3>1. /\ IsFiniteSet(more)
          /\ Cardinality(more) = IF w \in Unbacked(p) THEN Cardinality(Unbacked(p))
                                                     ELSE Cardinality(Unbacked(p)) + 1
      BY <2>3, FS_AddElement
    <3> HIDE DEF more
    <3> QED
      BY <2>3, <3>1
  <2> HIDE DEF more
  <2>5. /\ Cardinality(Unbacked(p)') \in Nat
        /\ Cardinality(Unbacked(p)') <= Cardinality(more)
    BY <2>2, <2>4, UnbackedFewer
  <2>6. SumOf(paid[p]) + Cardinality(Unbacked(p))
          <= SumOf(unkeyed[p]) + charges[p]["pending"] + charges[p]["succeeded"]
    BY <1>3 DEF Backed
  <2>7. SumOf(paid[p]) + Cardinality(Unbacked(p)')
          <= SumOf(unkeyed[p]) + charges'[p]["pending"] + charges'[p]["succeeded"]
    BY <2>1, <2>3, <2>4, <2>5, <2>6
  <2> QED
    BY <1>1, <1>3, <2>7 DEF Backed
<1> QED
  BY <1>4, <1>5

\* The job of an Unbacked charge leaves it, and one more is paid or none is: what
\* CreatePayment and RecordFailure do.
LEMMA UnbackedLeft ==
    ASSUME DataOK, NEW p \in Plans, Backed(p), NEW w, w \in Unbacked(p),
           Unbacked(p)' \subseteq Unbacked(p) \ {w}
    PROVE  /\ Cardinality(Unbacked(p)') \in Nat
           /\ Cardinality(Unbacked(p)') <= Cardinality(Unbacked(p)) - 1
<1> DEFINE less == Unbacked(p) \ {w}
<1>1. IsFiniteSet(Unbacked(p)) /\ Cardinality(Unbacked(p)) \in Nat
  BY BackedCounts
<1>2. IsFiniteSet(less) /\ Cardinality(less) = Cardinality(Unbacked(p)) - 1
  BY <1>1, FS_RemoveElement
<1> HIDE DEF less
<1>3. Unbacked(p)' \subseteq less
  BY DEF less
<1>4. Cardinality(Unbacked(p)') \in Nat /\ Cardinality(Unbacked(p)') <= Cardinality(less)
  BY <1>2, <1>3, UnbackedFewer
<1> QED
  BY <1>1, <1>2, <1>4

LEMMA CreateBacked ==
    ASSUME JobsInv, DataOK, DataOK', ChargesBacked, NEW w \in Workers, CreatePayment(w)
    PROVE  ChargesBacked'
<1>1. Active(w) /\ job[w].pc = "unpaid"
  BY DEF CreatePayment, Active, At
<1>2. /\ Others(w)
      /\ Turns(w, "paid", job[w].plan, job[w].copy, job[w].existing,
               job[w].charge, job[w].cols)
  BY <1>1, GotoTurns, JobsParts DEF CreatePayment
<1>3. Sound(job[w], now) /\ job[w].plan \in Plans /\ Run(w) \in Runs
  BY <1>1, Working
<1>4. job[w].charge = "pending" /\ ~job[w].existing
  BY <1>1, <1>3 DEF Sound, JobShape
<1>5. /\ paid' = [paid EXCEPT ![job[w].plan][Run(w)] = @ + 1]
      /\ charges' = charges /\ unkeyed' = unkeyed
  BY DEF CreatePayment, history
<1> SUFFICES ASSUME NEW p \in Plans
             PROVE  Backed(p)'
  BY DEF ChargesBacked, Backed
<1>6. Backed(p)
  BY DEF ChargesBacked, Backed
<1>7. CASE p # job[w].plan
  <2>1. paid'[p] = paid[p]
    BY <1>5, <1>7 DEF DataOK
  <2>2. Unbacked(p)' \subseteq Unbacked(p)
    BY <1>2, <1>7 DEF Unbacked, Charging, Others, Turns
  <2> QED
    BY <1>5, <1>6, <2>1, <2>2, BackedQuiet DEF Adds
<1>8. CASE p = job[w].plan
  <2>1. paid'[p] = [paid[p] EXCEPT ![Run(w)] = paid[p][Run(w)] + 1]
    BY <1>3, <1>5, <1>8 DEF DataOK
  <2>2. w \in Unbacked(p)
    BY <1>1, <1>4, <1>8 DEF Unbacked, Charging
  <2>3. Unbacked(p)' \subseteq Unbacked(p) \ {w}
    BY <1>2, <1>4 DEF Unbacked, Charging, Others, Turns
  <2>4. /\ Cardinality(Unbacked(p)') \in Nat
        /\ Cardinality(Unbacked(p)') <= Cardinality(Unbacked(p)) - 1
    BY <1>6, <2>2, <2>3, UnbackedLeft
  <2>5. /\ charges[p]["pending"] \in Nat /\ charges[p]["succeeded"] \in Nat
        /\ Cardinality(Unbacked(p)) \in Nat /\ paid[p] \in [Runs -> Nat]
        /\ SumOf(paid[p]) \in Nat /\ SumOf(unkeyed[p]) \in Nat
    BY <1>6, BackedCounts
  <2>6. IsFiniteSet(Units(paid'[p])) /\ SumOf(paid'[p]) = SumOf(paid[p]) + 1
    BY <1>3, <1>6, <2>1, <2>5, OneMore DEF Backed
  <2>7. SumOf(paid[p]) + Cardinality(Unbacked(p))
          <= SumOf(unkeyed[p]) + charges[p]["pending"] + charges[p]["succeeded"]
    BY <1>6 DEF Backed
  <2>8. SumOf(paid'[p]) + Cardinality(Unbacked(p)')
          <= SumOf(unkeyed[p]) + charges[p]["pending"] + charges[p]["succeeded"]
    BY <2>4, <2>5, <2>6, <2>7
  <2> QED
    BY <1>5, <1>6, <2>6, <2>8 DEF Backed
<1> QED
  BY <1>7, <1>8

\* A charge that changes between PENDING and another status: what is left of the
\* two sums.
LEMMA MovedSums ==
    ASSUME DataOK, NEW q \in Plans, NEW s \in {"succeeded", "failed"},
           charges' = [charges EXCEPT ![q]["pending"] = @ - 1, ![q][s] = @ + 1]
    PROVE  \A p \in Plans :
              charges'[p]["pending"] + charges'[p]["succeeded"] =
                IF p = q /\ s = "failed"
                THEN charges[p]["pending"] + charges[p]["succeeded"] - 1
                ELSE charges[p]["pending"] + charges[p]["succeeded"]
<1> DEFINE d == [charges EXCEPT ![q]["pending"] = @ - 1]
           u == [d EXCEPT ![q][s] = @ + 1]
<1>1. charges \in [Plans -> [ChargeStatus -> Nat]]
  BY DEF DataOK
<1>2. /\ d \in [Plans -> [ChargeStatus -> Int]]
      /\ \A p \in Plans : /\ d[p]["pending"] = IF p = q THEN charges[p]["pending"] - 1
                                               ELSE charges[p]["pending"]
                          /\ d[p]["succeeded"] = charges[p]["succeeded"]
  BY <1>1 DEF ChargeStatus
<1>3. \A p \in Plans : /\ u[p]["pending"] = d[p]["pending"]
                       /\ u[p]["succeeded"] = IF p = q /\ s = "succeeded"
                                              THEN d[p]["succeeded"] + 1
                                              ELSE d[p]["succeeded"]
  <2> HIDE DEF d
  <2> QED
    BY <1>2 DEF ChargeStatus
<1>4. charges' = u
  BY <1>1 DEF ChargeStatus
<1>5. \A p \in Plans : charges[p]["pending"] \in Nat /\ charges[p]["succeeded"] \in Nat
  BY <1>1 DEF ChargeStatus
<1> HIDE DEF d, u
<1> SUFFICES ASSUME NEW p \in Plans
             PROVE  charges'[p]["pending"] + charges'[p]["succeeded"] =
                      IF p = q /\ s = "failed"
                      THEN charges[p]["pending"] + charges[p]["succeeded"] - 1
                      ELSE charges[p]["pending"] + charges[p]["succeeded"]
  OBVIOUS
<1>6. /\ charges'[p]["pending"] =
           IF p = q THEN charges[p]["pending"] - 1 ELSE charges[p]["pending"]
      /\ charges'[p]["succeeded"] =
           IF p = q /\ s = "succeeded" THEN charges[p]["succeeded"] + 1
                                      ELSE charges[p]["succeeded"]
  BY <1>2, <1>3, <1>4, Zenon
<1>7. s = "failed" <=> s # "succeeded"
  OBVIOUS
<1>8. charges[p]["pending"] \in Nat /\ charges[p]["succeeded"] \in Nat
  BY <1>5
<1> DEFINE a == charges[p]["pending"]
           b == charges[p]["succeeded"]
           c == charges'[p]["pending"]
           e == charges'[p]["succeeded"]
<1>9. /\ a \in Nat /\ b \in Nat
      /\ c = IF p = q THEN a - 1 ELSE a
      /\ e = IF p = q /\ s = "succeeded" THEN b + 1 ELSE b
  BY <1>6, <1>8
<1> HIDE DEF a, b, c, e
<1>10. c + e = IF p = q /\ s = "failed" THEN a + b - 1 ELSE a + b
  BY <1>7, <1>9
<1> QED
  BY <1>10 DEF a, b, c, e

LEMMA SavedSums ==
    ASSUME DataOK, NEW q \in Plans,
           charges' = [charges EXCEPT ![q]["pending"] = @ - 1, ![q]["succeeded"] = @ + 1]
    PROVE  \A p \in Plans : charges'[p]["pending"] + charges'[p]["succeeded"]
                              = charges[p]["pending"] + charges[p]["succeeded"]
<1> DEFINE s == "succeeded"
<1>1. s \in {"succeeded", "failed"} /\ s # "failed"
  OBVIOUS
<1>2. charges' = [charges EXCEPT ![q]["pending"] = @ - 1, ![q][s] = @ + 1]
  OBVIOUS
<1> HIDE DEF s
<1> QED
  BY <1>1, <1>2, MovedSums

LEMMA FailedSums ==
    ASSUME DataOK, NEW q \in Plans,
           charges' = [charges EXCEPT ![q]["pending"] = @ - 1, ![q]["failed"] = @ + 1]
    PROVE  \A p \in Plans : charges'[p]["pending"] + charges'[p]["succeeded"]
                              = IF p = q
                                THEN charges[p]["pending"] + charges[p]["succeeded"] - 1
                                ELSE charges[p]["pending"] + charges[p]["succeeded"]
<1> DEFINE s == "failed"
<1>1. s \in {"succeeded", "failed"} /\ s = "failed"
  OBVIOUS
<1>2. charges' = [charges EXCEPT ![q]["pending"] = @ - 1, ![q][s] = @ + 1]
  OBVIOUS
<1> HIDE DEF s
<1> QED
  BY <1>1, <1>2, MovedSums

LEMMA SaveBacked ==
    ASSUME JobsInv, DataOK, DataOK', ChargesBacked, NEW w \in Workers, SaveCharge(w)
    PROVE  ChargesBacked'
<1>1. Active(w) /\ job[w].pc = "paid"
  BY DEF SaveCharge, Active, At
<1>2. /\ Others(w) /\ job[w].plan \in Plans
      /\ Turns(w, IF job[w].existing THEN "settling" ELSE "keying", job[w].plan,
               job[w].copy, job[w].existing, "succeeded", job[w].cols)
  BY <1>1, SaveChargeTurns, JobsParts, Working
<1>3. /\ charges' = [charges EXCEPT ![job[w].plan]["pending"] = @ - 1,
                                    ![job[w].plan]["succeeded"] = @ + 1]
      /\ paid' = paid /\ unkeyed' = unkeyed
  BY DEF SaveCharge, history
<1> SUFFICES ASSUME NEW p \in Plans
             PROVE  Backed(p)'
  BY DEF ChargesBacked, Backed
<1>4. Backed(p)
  BY DEF ChargesBacked, Backed
<1>5. charges'[p]["pending"] + charges'[p]["succeeded"]
        = charges[p]["pending"] + charges[p]["succeeded"]
  BY <1>2, <1>3, SavedSums
<1>6. Unbacked(p)' \subseteq Unbacked(p)
  BY <1>2 DEF Unbacked, Charging, Others, Turns
<1> QED
  BY <1>3, <1>4, <1>5, <1>6, BackedQuiet DEF Adds

LEMMA RecordBacked ==
    ASSUME JobsInv, DataOK, DataOK', ChargesBacked, NEW w \in Workers, RecordFailure(w)
    PROVE  ChargesBacked'
<1>1. Active(w) /\ job[w].pc = "caught"
  BY DEF RecordFailure, Active, At
<1>2. /\ Others(w) /\ job[w].plan \in Plans /\ job'[w].pc = "counted"
      /\ paid' = paid /\ unkeyed' = unkeyed
  BY <1>1, GotoTurns, JobsParts, Working DEF RecordFailure, history
<1>3. CASE job[w].charge # "pending"
  <2>1. charges' = charges
    BY <1>3 DEF RecordFailure
  <2> QED
    BY <1>2, <2>1, BackedAway DEF Adds
<1>4. CASE job[w].charge = "pending"
  <2>1. charges' = [charges EXCEPT ![job[w].plan]["pending"] = @ - 1,
                                   ![job[w].plan]["failed"] = @ + 1]
    BY <1>4 DEF RecordFailure
  <2> SUFFICES ASSUME NEW p \in Plans
               PROVE  Backed(p)'
    BY DEF ChargesBacked, Backed
  <2>2. Backed(p)
    BY DEF ChargesBacked, Backed
  <2>3. Unbacked(p)' \subseteq Unbacked(p) \ {w}
    BY <1>2 DEF Unbacked, Charging, Others
  <2>4. CASE p # job[w].plan
    <3>1. charges'[p]["pending"] + charges'[p]["succeeded"]
            = charges[p]["pending"] + charges[p]["succeeded"]
      BY <1>2, <2>1, <2>4, FailedSums
    <3> QED
      BY <1>2, <2>2, <2>3, <3>1, BackedQuiet DEF Adds
  <2>5. CASE p = job[w].plan
    <3>1. charges'[p]["pending"] + charges'[p]["succeeded"]
            = charges[p]["pending"] + charges[p]["succeeded"] - 1
      BY <1>2, <2>1, <2>5, FailedSums
    <3>2. w \in Unbacked(p)
      BY <1>1, <1>4, <2>5 DEF Unbacked, Charging
    <3>3. /\ Cardinality(Unbacked(p)') \in Nat
          /\ Cardinality(Unbacked(p)') <= Cardinality(Unbacked(p)) - 1
      BY <2>2, <2>3, <3>2, UnbackedLeft
    <3>4. /\ charges[p]["pending"] \in Nat /\ charges[p]["succeeded"] \in Nat
          /\ Cardinality(Unbacked(p)) \in Nat
          /\ SumOf(paid[p]) \in Nat /\ SumOf(unkeyed[p]) \in Nat
      BY <2>2, BackedCounts
    <3>5. charges'[p]["pending"] \in Nat /\ charges'[p]["succeeded"] \in Nat
      BY DEF DataOK, ChargeStatus
    <3>6. SumOf(paid[p]) + Cardinality(Unbacked(p))
            <= SumOf(unkeyed[p]) + charges[p]["pending"] + charges[p]["succeeded"]
      BY <2>2 DEF Backed
    <3>7. SumOf(paid[p]) + Cardinality(Unbacked(p)')
            <= SumOf(unkeyed[p]) + charges'[p]["pending"] + charges'[p]["succeeded"]
      BY <3>1, <3>3, <3>4, <3>5, <3>6
    <3> QED
      BY <1>2, <2>2, <3>7 DEF Backed
  <2> QED
    BY <2>4, <2>5
<1> QED
  BY <1>3, <1>4

LEMMA CheckBacked ==
    ASSUME JobsInv, DataOK, DataOK', ChargesBacked, NEW w \in Workers, CheckKey(w)
    PROVE  ChargesBacked'
<1>0. /\ Others(w)
      /\ Turns(w, IF Run(w) \in keyed[job[w].plan] THEN "paid" ELSE "unpaid",
               job[w].plan, job[w].copy, Run(w) \in keyed[job[w].plan],
               job[w].charge, job[w].cols)
  BY CheckTurns, JobsParts
<1>1. /\ job[w].pc = "opened"
      /\ job'[w].plan = job[w].plan /\ job'[w].charge = job[w].charge
      /\ paid' = paid /\ unkeyed' = unkeyed /\ charges' = charges
  BY <1>0 DEF CheckKey, At, Turns, store
<1>2. \A p \in Plans : w \in Unbacked(p)' => w \in Unbacked(p)
  BY <1>1 DEF Unbacked, Charging
<1> QED
  BY <1>0, <1>1, <1>2, BackedSame DEF Adds

\* Into the catch block: a charge that stays PENDING there was Unbacked before.
LEMMA CaughtBacked ==
    ASSUME JobsInv, DataOK, DataOK', ChargesBacked, NEW w \in Workers, Active(w),
           NEW charge, Caught(w, job[w].plan, charge), charges' = charges, paid' = paid,
           \A p \in Plans : Adds(unkeyed[p], unkeyed'[p]),
           charge = "pending" =>
              job[w].pc \in {"opened", "unpaid"} /\ job[w].charge = "pending"
    PROVE  ChargesBacked'
<1>0. /\ Others(w) /\ job'[w].pc = "caught"
      /\ Turns(w, "caught", job[w].plan,
               [job[w].copy EXCEPT ![job[w].plan].consecutiveFailures = @ + 1],
               job[w].existing, charge, job[w].cols)
  BY CaughtTurns, JobsParts
<1>1. /\ Others(w) /\ job'[w].pc = "caught"
      /\ job'[w].plan = job[w].plan /\ job'[w].charge = charge
  BY <1>0 DEF Turns
<1>2. \A p \in Plans : w \in Unbacked(p)' => w \in Unbacked(p)
  BY <1>1 DEF Unbacked, Charging
<1> QED
  BY <1>1, <1>2, BackedSame

LEMMA FailsBacked ==
    ASSUME JobsInv, DataOK, DataOK', ChargesBacked, NEW w \in Workers, Fails(w)
    PROVE  ChargesBacked'
<1> DEFINE charge == IF At(w, "paid") THEN "succeeded" ELSE job[w].charge
<1>1. /\ Active(w) /\ job[w].pc \in {"opened", "paid", "keying", "settling", "dirty"}
      /\ job[w].kind = "execute" /\ Caught(w, job[w].plan, charge)
      /\ paid' = paid /\ charges' = charges
  BY DEF Fails, Active, store
<1>2. Sound(job[w], now)
  BY JobsParts
<1>3. charge = "pending" => job[w].pc \in {"opened", "unpaid"} /\ job[w].charge = "pending"
  BY <1>1, <1>2 DEF Sound, JobShape, Active, At
<1>4. \A p \in Plans : Adds(unkeyed[p], unkeyed'[p])
  BY <1>1, ForgetAdds DEF Fails
<1> HIDE DEF charge
<1> QED
  BY <1>1, <1>3, <1>4, CaughtBacked

\* A payment that was committed unheard is on no charge, and no key tells of it.
LEMMA CreateFailsBacked ==
    ASSUME JobsInv, DataOK, DataOK', ChargesBacked, NEW w \in Workers,
           NEW committed \in BOOLEAN, CreateFails(w, committed)
    PROVE  ChargesBacked'
<1>1. /\ Active(w) /\ job[w].pc = "unpaid" /\ Caught(w, job[w].plan, job[w].charge)
      /\ charges' = charges
  BY DEF CreateFails, Active, At
<1>2. /\ Sound(job[w], now) /\ job[w].plan \in Plans /\ Run(w) \in Runs
  BY <1>1, Working
<1>3. CASE ~committed
  <2>1. paid' = paid /\ unkeyed' = unkeyed
    BY <1>3 DEF CreateFails
  <2> QED
    BY <1>1, <2>1, CaughtBacked DEF Adds
<1>4. CASE committed
  <2>1. /\ paid' = [paid EXCEPT ![job[w].plan][Run(w)] = @ + 1]
        /\ unkeyed' = [unkeyed EXCEPT ![job[w].plan][Run(w)] = @ + 1]
    BY <1>4 DEF CreateFails
  <2>7. /\ Others(w) /\ job'[w].pc = "caught"
        /\ Turns(w, "caught", job[w].plan,
                 [job[w].copy EXCEPT ![job[w].plan].consecutiveFailures = @ + 1],
                 job[w].existing, job[w].charge, job[w].cols)
    BY <1>1, CaughtTurns, JobsParts
  <2>2. /\ job'[w].pc = "caught"
        /\ job'[w].plan = job[w].plan /\ job'[w].charge = job[w].charge
    BY <2>7 DEF Turns
  <2> SUFFICES ASSUME NEW p \in Plans
               PROVE  Backed(p)'
    BY DEF ChargesBacked, Backed
  <2>3. Backed(p)
    BY DEF ChargesBacked, Backed
  <2>4. Unbacked(p)' \subseteq Unbacked(p)
    BY <1>1, <2>2, <2>7 DEF Unbacked, Charging, Others
  <2>5. CASE p # job[w].plan
    <3>1. paid'[p] = paid[p] /\ unkeyed'[p] = unkeyed[p]
      BY <2>1, <2>5 DEF DataOK
    <3> QED
      BY <1>1, <2>3, <2>4, <3>1, BackedQuiet DEF Adds
  <2>6. CASE p = job[w].plan
    <3>1. /\ paid'[p] = [paid[p] EXCEPT ![Run(w)] = paid[p][Run(w)] + 1]
          /\ unkeyed'[p] = [unkeyed[p] EXCEPT ![Run(w)] = unkeyed[p][Run(w)] + 1]
      BY <1>2, <2>1, <2>6 DEF DataOK
    <3>2. /\ charges[p]["pending"] \in Nat /\ charges[p]["succeeded"] \in Nat
          /\ IsFiniteSet(Unbacked(p)) /\ Cardinality(Unbacked(p)) \in Nat
          /\ paid[p] \in [Runs -> Nat] /\ unkeyed[p] \in [Runs -> Nat]
          /\ SumOf(paid[p]) \in Nat /\ SumOf(unkeyed[p]) \in Nat
      BY <2>3, BackedCounts
    <3>3. /\ IsFiniteSet(Units(paid'[p])) /\ SumOf(paid'[p]) = SumOf(paid[p]) + 1
          /\ IsFiniteSet(Units(unkeyed'[p])) /\ SumOf(unkeyed'[p]) = SumOf(unkeyed[p]) + 1
      BY <1>2, <2>3, <3>1, <3>2, OneMore DEF Backed
    <3>4. /\ Cardinality(Unbacked(p)') \in Nat
          /\ Cardinality(Unbacked(p)') <= Cardinality(Unbacked(p))
      BY <2>4, <3>2, UnbackedFewer
    <3>5. SumOf(paid[p]) + Cardinality(Unbacked(p))
            <= SumOf(unkeyed[p]) + charges[p]["pending"] + charges[p]["succeeded"]
      BY <2>3 DEF Backed
    <3>6. SumOf(paid'[p]) + Cardinality(Unbacked(p)')
            <= SumOf(unkeyed'[p]) + charges[p]["pending"] + charges[p]["succeeded"]
      BY <3>2, <3>3, <3>4, <3>5
    <3> QED
      BY <1>1, <3>3, <3>6 DEF Backed
  <2> QED
    BY <2>5, <2>6
<1> QED
  BY <1>3, <1>4

LEMMA BackedKept ==
    ASSUME JobsInv, ChargesBacked, [Next]_vars
    PROVE  ChargesBacked'
<1>0. TypeOK /\ DataOK /\ DataOK'
  BY JobsParts, JobsKept DEF JobsInv, TypeOK, DataOK
<1>1. CASE UNCHANGED vars \/ Tick
  <2>1. UNCHANGED <<paid, unkeyed, charges, job>>
    BY <1>1 DEF vars, store, history, Tick
  <2> QED
    BY <2>1 DEF ChargesBacked, Unbacked, Charging
<1>2. ASSUME NEW p \in Plans, NEW t \in Runs, Lapse(p, t)
      PROVE  ChargesBacked'
  <2>1. /\ UNCHANGED <<paid, charges, job>>
        /\ unkeyed' = [unkeyed EXCEPT ![p][t] = @ + 1]
    BY <1>2 DEF Lapse
  <2>2. \A q \in Plans : Adds(unkeyed[q], unkeyed'[q])
    BY <1>0, <2>1, AddsOne DEF DataOK
  <2> SUFFICES ASSUME NEW q \in Plans
               PROVE  Backed(q)'
    BY DEF ChargesBacked, Backed
  <2>3. Backed(q) /\ Unbacked(q)' \subseteq Unbacked(q)
    BY <2>1 DEF ChargesBacked, Backed, Unbacked, Charging
  <2> QED
    BY <1>0, <2>1, <2>2, <2>3, BackedQuiet
<1>3. ASSUME NEW w \in Workers, Others(w), paid' = paid, unkeyed' = unkeyed,
             charges' = charges, job'[w].pc \notin {"opened", "unpaid", "paid", "caught"}
      PROVE  ChargesBacked'
  BY <1>0, <1>3, BackedAway DEF Adds
<1>4. ASSUME NEW w \in Workers, NEW kind, NEW P, Start(w, kind, P)
      PROVE  ChargesBacked'
  BY <1>0, <1>3, <1>4, StartTurns DEF Start, store
<1>5. ASSUME NEW w \in Workers, NEW p, SendNotice(w, p) \/ SkipNotice(w, p)
      PROVE  ChargesBacked'
  BY <1>0, <1>3, <1>5, SendTurns, SkipTurns DEF SendNotice, SkipNotice, store, history
<1>6. ASSUME NEW w \in Workers, NEW p, BeginFails(w, p)
      PROVE  ChargesBacked'
  <2>1. /\ Sound(job[w], now) /\ job[w].pc = "next"
        /\ UNCHANGED <<paid, unkeyed, charges>>
    BY <1>6, JobsParts DEF BeginFails, At, store, history
  <2>4. /\ Others(w)
        /\ Turns(w, "caught", p, [job[w].copy EXCEPT ![p].status = "active",
                                                     ![p].consecutiveFailures = @ + 1],
                 job[w].existing, job[w].charge, job[w].cols)
    BY <1>0, <1>6, BeginFailsTurns
  <2>2. job'[w].charge = NoCharge
    BY <2>1, <2>4 DEF Sound, JobShape, Turns
  <2>3. \A q \in Plans : w \in Unbacked(q)' => w \in Unbacked(q)
    BY <2>2 DEF Unbacked, Charging, NoCharge
  <2> QED
    BY <1>0, <2>1, <2>3, <2>4, BackedSame DEF Adds
<1>7. ASSUME NEW w \in Workers, NEW c, Active(w), StartSave(w, c),
             UNCHANGED <<store, history>>
      PROVE  ChargesBacked'
  BY <1>0, <1>3, <1>7, StartSaveTurns DEF store, history
<1>8. ASSUME NEW w \in Workers,
             \/ Advance(w) \/ MarkNotice(w) \/ \E i \in Intervals : Apply(w, i)
      PROVE  ChargesBacked'
  BY <1>7, <1>8 DEF Advance, MarkNotice, Apply, At, Active
<1>9. ASSUME NEW w \in Workers, AutoPause(w) \/ Reject(w) \/ Cut(w)
      PROVE  ChargesBacked'
  <2>1. Finish(w) /\ UNCHANGED <<paid, charges>>
    BY <1>9 DEF AutoPause, Reject, Cut, store
  <2>2. \A p \in Plans : Adds(unkeyed[p], unkeyed'[p])
    BY <1>9, ForgetAdds DEF AutoPause, Reject, Cut, history, Adds
  <2>3. Others(w) /\ job'[w].pc = "idle"
    BY <1>0, <2>1, FinishTurns DEF Ended, Idle
  <2> QED
    BY <1>0, <2>1, <2>2, <2>3, BackedAway
<1>10. ASSUME NEW w \in Workers, Update(w)
       PROVE  ChargesBacked'
  <2>1. Active(w) /\ Proceed(w) /\ UNCHANGED <<paid, charges, unkeyed>>
    BY <1>10 DEF Update, Active
  <2>2. Others(w) /\ job'[w].pc \in {"idle", "next"}
    BY <1>0, <2>1, ProceedTurns
  <2> QED
    BY <1>3, <2>1, <2>2
<1>11. ASSUME NEW w \in Workers, StoreKey(w)
       PROVE  ChargesBacked'
  <2>1. Active(w) /\ Goto(w, "settling") /\ UNCHANGED <<paid, charges, unkeyed>>
    BY <1>11 DEF StoreKey, Active, At, history
  <2> QED
    BY <1>0, <1>3, <2>1, GotoTurns
<1>12. ASSUME NEW w \in Workers, SaveFailure(w)
       PROVE  ChargesBacked'
  BY <1>0, <1>3, <1>12, SaveFailureTurns DEF SaveFailure, store, history
<1>13. ASSUME NEW w \in Workers, Misfortune(w)
       PROVE  ChargesBacked'
  BY <1>0, <1>6, <1>9, <1>13, FailsBacked, CreateFailsBacked DEF Misfortune
<1>14. ASSUME NEW w \in Workers, Step(w)
       PROVE  ChargesBacked'
  BY <1>0, <1>5, <1>8, <1>9, <1>10, <1>11, <1>12, <1>14, BeginBacked, CheckBacked,
     CreateBacked, SaveBacked, RecordBacked DEF Step
<1> QED
  BY <1>1, <1>2, <1>4, <1>13, <1>14 DEF Next, Find, Load

LEMMA BackedInit == Init => ChargesBacked
<1> SUFFICES ASSUME Init, NEW p \in Plans PROVE Backed(p)
  BY DEF ChargesBacked, Backed
<1>1. /\ paid[p] = [t \in Runs |-> 0] /\ unkeyed[p] = [t \in Runs |-> 0]
      /\ charges[p] = [s \in ChargeStatus |-> 0]
      /\ \A w \in Workers : job[w].pc = "idle"
  BY DEF Init, Idle
<1>2. Units(paid[p]) = {} /\ Units(unkeyed[p]) = {} /\ Unbacked(p) = {}
  BY <1>1 DEF Units, Unbacked, Charging
<1>3. charges[p]["pending"] = 0 /\ charges[p]["succeeded"] = 0
  BY <1>1 DEF ChargeStatus
<1> QED
  BY <1>2, <1>3, FS_EmptySet DEF Backed, SumOf

\* The payments of a plan that a key remembers, or remembered until its charge was
\* saved, are on charges that are PENDING or SUCCEEDED: no failure that comes after
\* a payment turns its charge to FAILED, for any number of plans and sweeps.
THEOREM ChargesRecorded == Spec => []PaymentsOnRecord
<1>1. JobsInv /\ ChargesBacked /\ [Next]_vars => ChargesBacked'
  BY BackedKept
<1>2. JobsInv /\ ChargesBacked => PaymentsOnRecord
  <2> SUFFICES ASSUME JobsInv, ChargesBacked, NEW p \in Plans
               PROVE  SumOf(paid[p]) - SumOf(unkeyed[p])
                        <= charges[p]["pending"] + charges[p]["succeeded"]
    BY DEF PaymentsOnRecord
  <2>1. DataOK /\ Backed(p)
    BY JobsParts DEF ChargesBacked, Backed
  <2>2. /\ charges[p]["pending"] \in Nat /\ charges[p]["succeeded"] \in Nat
        /\ Cardinality(Unbacked(p)) \in Nat
        /\ SumOf(paid[p]) \in Nat /\ SumOf(unkeyed[p]) \in Nat
    BY <2>1, BackedCounts
  <2> QED
    BY <2>1, <2>2 DEF Backed
<1> QED
  BY <1>1, <1>2, BackedInit, JobsAlways, PTL DEF Spec
=============================================================================
