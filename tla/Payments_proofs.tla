--------------------------- MODULE Payments_proofs ---------------------------
(***************************************************************************)
(* Proofs about Payments, for every value of its constants: the type       *)
(* invariant; the exact refund ledger, with the cap and the adjustments (a *)
(* handler that overlaps no other holds a fresh copy of its row); the      *)
(* bound on refundedAmount, which needs no such condition; the payouts     *)
(* (each leg paid once, failures on record) and the lifecycle of the       *)
(* status, for handlers that do not overlap; and the links, credited last  *)
(* however handlers overlap.                                               *)
(***************************************************************************)
EXTENDS Payments, TLAPS

----------------------------------------------------------------------------
(* Calls, rows and handlers: what the types give.                          *)

\* The amounts that a refund or a simulation may ask for, the default included,
\* are natural numbers.
LEMMA AmountsAreNat ==
    /\ \A x \in RefundAmounts \cup {Remaining} : x \in Nat
    /\ \A x \in PartialAmounts \cup {NoOverride} : x \in Nat
<1>1. RefundAmounts \subseteq Nat /\ PartialAmounts \subseteq Nat
  BY PaymentsAssumption DEF PaymentsAssumption
<1> QED
  BY <1>1, SMT DEF Remaining, NoOverride

\* The amount of a refund request is a natural number.
LEMMA RefundCall ==
    ASSUME NEW c \in Calls, c.kind = "refund"
    PROVE  c.amount \in Nat
<1>1. c.amount \in RefundAmounts \cup {Remaining}
  BY SMT DEF Calls, JobKinds
<1> QED
  BY <1>1, AmountsAreNat

\* The provider's webhook carries a payment status.
LEMMA WebhookCall ==
    ASSUME NEW c \in Calls, c.kind = "webhook"
    PROVE  c.status \in Status
<1>1. c.status \in WebhookStatuses
  BY SMT DEF Calls, JobKinds
<1> QED
  BY <1>1, PaymentsAssumption DEF PaymentsAssumption

\* A simulation carries a payment status and an amount.
LEMMA SimulateCall ==
    ASSUME NEW c \in Calls, c.kind = "simulate"
    PROVE  c.status \in Status /\ c.amount \in Nat
<1>1. c.status \in SimulateOutcome /\ c.amount \in PartialAmounts \cup {NoOverride}
  BY SMT DEF Calls, JobKinds
<1> QED
  BY <1>1, AmountsAreNat, SMT DEF SimulateOutcome, Status

\* The UPDATE of some columns turns a row into a row.
LEMMA PatchType ==
    ASSUME NEW row \in Row, NEW entity \in Row, NEW cols
    PROVE  Patch(row, entity, cols) \in Row
  BY SMT DEF Patch, Row

\* A row whose status is replaced is a row.
LEMMA RowStatus ==
    ASSUME NEW row \in Row, NEW s \in Status
    PROVE  [row EXCEPT !.status = s] \in Row
  BY Zenon DEF Row

\* save(entity) compares columns.
LEMMA DiffType ==
    ASSUME NEW entity, NEW row
    PROVE  Diff(entity, row) \in SUBSET Columns
  BY DEF Diff

\* A handler that has just read its row is well typed.
LEMMA LoadedHandler ==
    ASSUME NEW c \in Calls, NEW p \in Payments, NEW row \in Row
    PROVE  [pc |-> "loaded", call |-> c, pay |-> p, mem |-> row,
            cols |-> {}, count |-> 0, due |-> 0, first |-> FALSE,
            was |-> row.status, todo |-> {}, leg |-> NoLeg, paid |-> FALSE, bad |-> FALSE] \in Handler
<1>1. 0 \in Nat /\ 0 \in Int /\ row.status \in Status
  BY SMT DEF Row
<1> QED
  BY <1>1, Zenon DEF Handler, Holding

\* A slot that is not idle runs a well-typed handler.
LEMMA ActiveHandler ==
    ASSUME TypeOK, NEW w \in Workers, Active(w)
    PROVE  req[w] \in Handler
  BY SMT DEF TypeOK, Active, Idle

\* What the types say of a handler's local variables.
LEMMA HandlerFields ==
    ASSUME NEW h \in Handler
    PROVE  /\ h.call \in Calls /\ h.pay \in Payments /\ h.mem \in Row
           /\ h.count \in Nat /\ h.due \in Int /\ h.leg \in Splits \cup {NoLeg}
           /\ h.todo \subseteq Splits /\ h.paid \in BOOLEAN /\ h.bad \in BOOLEAN
  BY Zenon DEF Handler

----------------------------------------------------------------------------
(* The parts of a step that actions share.                                 *)

\* Giving a slot a well-typed handler, or none, keeps the slots typed.
LEMMA ReqType ==
    ASSUME TypeOK, NEW w \in Workers, NEW k \in Handler \cup {Idle},
           req' = [req EXCEPT ![w] = k]
    PROVE  req' \in [Workers -> Handler \cup {Idle}]
  BY Zenon DEF TypeOK

\* A handler that ends keeps the slots typed.
LEMMA FinishType ==
    ASSUME TypeOK, NEW w \in Workers, Finish(w)
    PROVE  req' \in [Workers -> Handler \cup {Idle}]
  BY ReqType, Zenon DEF Finish

\* A handler that only moves on keeps the slots typed.
LEMMA PcType ==
    ASSUME TypeOK, NEW w \in Workers, Active(w), NEW pc \in Holding \cup Trailing,
           req' = [req EXCEPT ![w].pc = pc]
    PROVE  req' \in [Workers -> Handler \cup {Idle}]
<1> DEFINE k == [req[w] EXCEPT !.pc = pc]
<1>1. k \in Handler
  BY ActiveHandler, Zenon DEF Handler
<1>2. req' = [req EXCEPT ![w] = k]
  BY Zenon
<1> QED
  BY <1>1, <1>2, ReqType, Zenon

\* The SELECT of save(entity) keeps the slots typed.
LEMMA StartSaveType ==
    ASSUME TypeOK, NEW w \in Workers, Active(w), NEW entity \in Row,
           NEW first \in BOOLEAN, StartSave(w, entity, first)
    PROVE  req' \in [Workers -> Handler \cup {Idle}]
<1> DEFINE cols == Diff(entity, db[req[w].pay])
           k == [req[w] EXCEPT !.pc = "dirty", !.mem = entity,
                               !.cols = cols, !.first = first,
                               !.was = req[w].mem.status]
<1>1. cols \in SUBSET Columns
  BY DiffType
<1>2. req' = [req EXCEPT ![w] = k]
  BY Zenon DEF StartSave
<1> HIDE DEF cols
<1>4. req[w].mem.status \in Status
  BY ActiveHandler, HandlerFields, Zenon DEF Row
<1>3. k \in Handler
  BY <1>1, <1>4, ActiveHandler, Zenon DEF Handler, Holding
<1> HIDE DEF k
<1> QED
  BY <1>2, <1>3, ReqType, Zenon

\* The UPDATE of save(entity) keeps the rows typed.
LEMMA EndSaveType ==
    ASSUME TypeOK, NEW w \in Workers, Active(w), EndSave(w)
    PROVE  db' \in [Payments -> Row]
<1>1. req[w].pay \in Payments /\ req[w].mem \in Row
  BY ActiveHandler, HandlerFields
<1>2. db[req[w].pay] \in Row
  BY <1>1 DEF TypeOK
<1>3. Patch(db[req[w].pay], req[w].mem, req[w].cols) \in Row
  BY <1>1, <1>2, PatchType
<1> QED
  BY <1>1, <1>3, Zenon DEF TypeOK, EndSave

\* Dispatching an event, or failing to, keeps the events typed.
LEMMA AnnounceType ==
    ASSUME TypeOK, NEW p \in Payments, NEW event \in Events, Announce(p, event)
    PROVE  announced' \in [Payments -> SUBSET Events]
<1>1. CASE UNCHANGED announced
  BY <1>1 DEF TypeOK
<1>2. CASE announced' = [announced EXCEPT ![p] = @ \cup {event}]
  BY <1>2, Zenon DEF TypeOK
<1> QED
  BY <1>1, <1>2, Zenon DEF Announce

----------------------------------------------------------------------------
(* Type correctness, one lemma per group of actions.                       *)

\* The first read of a handler preserves the types.
LEMMA LoadType ==
    ASSUME TypeOK, NEW w \in Workers, NEW c \in Calls, NEW p \in Payments,
           Load(w, c, p)
    PROVE  TypeOK'
<1>1. req' \in [Workers -> Handler \cup {Idle}]
  <2>1. db[p] \in Row
    BY DEF TypeOK
  <2> QED
    BY <2>1, LoadedHandler, ReqType, Zenon DEF Load
<1>2. calls' \in 0..MaxCalls
  BY PaymentsAssumption, SMT DEF TypeOK, Load, PaymentsAssumption
<1>3. overlapped' \subseteq Payments
  BY SMT DEF TypeOK, Load
<1> QED
  BY <1>1, <1>2, <1>3 DEF TypeOK, Load, store

\* The steps of refund() preserve the types.
LEMMA RefundType ==
    ASSUME TypeOK, NEW w \in Workers,
           \/ RefundCount(w) \/ RefundApply(w) \/ RefundReject(w)
           \/ RefundCommit(w) \/ RefundFails(w)
    PROVE  TypeOK'
<1>1. CASE RefundCount(w)
  <2>1. Active(w)
    BY <1>1, SMT DEF RefundCount, At, Active
  <2> DEFINE n == ledger[req[w].pay].count
             k == [req[w] EXCEPT !.pc = "counted", !.count = n]
  <2>2. n \in Nat
    BY <2>1, ActiveHandler, HandlerFields, SMT DEF TypeOK, Ledger
  <2>3. req' = [req EXCEPT ![w] = k]
    BY <1>1, Zenon DEF RefundCount
  <2> HIDE DEF n
  <2>4. k \in Handler
    BY <2>1, <2>2, ActiveHandler, Zenon DEF Handler, Holding
  <2> HIDE DEF k
  <2>5. req' \in [Workers -> Handler \cup {Idle}]
    BY <2>3, <2>4, ReqType, Zenon
  <2> QED
    BY <1>1, <2>5 DEF TypeOK, RefundCount, store, history
<1>2. CASE RefundApply(w)
  <2>1. Active(w)
    BY <1>2, SMT DEF RefundApply, At, Active
  <2> DEFINE h == req[w]
             amount == RefundAmount(h)
             entity == Refunded(h.mem, amount)
             cols == Diff(entity, db[h.pay])
             k == [h EXCEPT !.pc = "dirty", !.mem = entity, !.cols = cols,
                            !.due = amount, !.was = h.mem.status]
  <2>2. h \in Handler
    BY <2>1, ActiveHandler
  <2>3. amount \in Int
    <3>1. h.call.amount \in Nat
      BY <1>2, <2>2, HandlerFields, RefundCall DEF RefundApply, At
    <3>2. h.mem \in Row
      BY <2>2, HandlerFields
    <3> QED
      BY <3>1, <3>2, SMT DEF RefundAmount, LeftToRefund, Row
  <2>4. entity \in Row
    <3>1. h.mem \in Row
      BY <2>2, HandlerFields
    <3> HIDE DEF h, amount
    <3> DEFINE s == IF h.mem.refunded + amount >= h.mem.amount
                    THEN "REFUNDED" ELSE "PARTIALLY_REFUNDED"
               r == h.mem.refunded + amount
    <3>2. s \in Status
      BY SMT DEF Status
    <3>3. r \in Int
      BY <2>3, <3>1, SMT DEF Row
    <3>4. entity = [h.mem EXCEPT !.refunded = r, !.status = s]
      BY Zenon DEF Refunded
    <3> HIDE DEF s, r
    <3> QED
      BY <3>1, <3>2, <3>3, <3>4, Zenon DEF Row
  <2>5. cols \in SUBSET Columns
    BY DiffType
  <2>6. req' = [req EXCEPT ![w] = k]
    BY <1>2, Zenon DEF RefundApply
  <2> HIDE DEF cols, entity, amount
  <2>7. k \in Handler
    <3>1. h.mem.status \in Status
      BY <2>2, HandlerFields, Zenon DEF Row
    <3> HIDE DEF h
    <3> QED
      BY <2>2, <2>3, <2>4, <2>5, <3>1, Zenon DEF Handler, Holding
  <2> HIDE DEF k
  <2>8. req' \in [Workers -> Handler \cup {Idle}]
    BY <2>6, <2>7, ReqType, Zenon
  <2> QED
    BY <1>2, <2>8 DEF TypeOK, RefundApply, store, history
<1>3. CASE RefundReject(w)
  BY <1>3, FinishType DEF TypeOK, RefundReject, store, history
<1>4. CASE RefundCommit(w)
  <2>1. Active(w)
    BY <1>4, SMT DEF RefundCommit, At, Active
  <2>2. db' \in [Payments -> Row]
    BY <1>4, <2>1, EndSaveType DEF RefundCommit
  <2>3. "announcing" \in Holding \cup Trailing
    BY DEF Trailing
  <2>4. req' \in [Workers -> Handler \cup {Idle}]
    BY <1>4, <2>1, <2>3, PcType, Zenon DEF RefundCommit
  <2>5. ledger' \in [Payments -> Ledger]
    <3> DEFINE h == req[w]
    <3>1. h \in Handler
      BY <2>1, ActiveHandler
    <3>2. h.pay \in Payments /\ h.due \in Int /\ h.mem \in Row
      BY <3>1, HandlerFields
    <3>3. ledger[h.pay] \in Ledger /\ AdjustmentFor(h) \in Int
      BY <3>2, SMT DEF TypeOK, AdjustmentFor
    <3> DEFINE row == [count |-> ledger[h.pay].count + 1,
                 total |-> ledger[h.pay].total + h.due,
                 settled |-> ledger[h.pay].settled + IF db[h.pay].settled THEN h.due ELSE 0,
                 adjusted |-> ledger[h.pay].adjusted + AdjustmentFor(h)]
    <3>4. row \in Ledger
      BY <3>2, <3>3, SMT DEF Ledger
    <3>5. ledger' = [ledger EXCEPT ![h.pay] = row]
      BY <1>4, Zenon DEF RefundCommit
    <3> HIDE DEF row
    <3> QED
      BY <3>2, <3>4, <3>5, Zenon DEF TypeOK
  <2> QED
    BY <1>4, <2>2, <2>4, <2>5 DEF TypeOK, RefundCommit, history
<1>5. CASE RefundFails(w)
  <2>1. Active(w)
    BY <1>5, SMT DEF RefundFails, At, Active
  <2>2. announced' \in [Payments -> SUBSET Events]
    <3>1. "refund.failed" \in Events
      BY DEF Events
    <3> QED
      BY <1>5, <2>1, <3>1, ActiveHandler, HandlerFields, AnnounceType, Zenon
      DEF RefundFails
  <2> QED
    BY <1>5, <2>2, FinishType DEF TypeOK, RefundFails, history
<1> QED
  BY <1>1, <1>2, <1>3, <1>4, <1>5

\* The in-memory changes of the other handlers preserve the types.
LEMMA StatusType ==
    ASSUME TypeOK, NEW w \in Workers,
           \/ WebhookApply(w) \/ CancelApply(w) \/ ExpireApply(w)
           \/ HorizonApply(w) \/ SimulateApply(w) \/ StatusReject(w)
    PROVE  TypeOK'
<1>1. CASE WebhookApply(w)
  <2>1. Active(w)
    BY <1>1, SMT DEF WebhookApply, At, Active
  <2>2. req[w].mem \in Row /\ req[w].call.status \in Status
    BY <1>1, <2>1, ActiveHandler, HandlerFields, WebhookCall DEF WebhookApply, At
  <2>3. req' \in [Workers -> Handler \cup {Idle}]
    BY <1>1, <2>1, <2>2, RowStatus, StartSaveType DEF WebhookApply
  <2> QED
    BY <1>1, <2>3 DEF TypeOK, WebhookApply, store, history
<1>2. CASE CancelApply(w) \/ ExpireApply(w) \/ HorizonApply(w)
  <2>1. Active(w)
    <3>1. req[w].pc = "loaded"
      BY <1>2, Zenon DEF CancelApply, ExpireApply, HorizonApply, At
    <3> QED
      BY <3>1 DEF Active
  <2>2. PICK s \in {"CANCELLED", "EXPIRED", "COMPLETED"} :
            StartSave(w, [req[w].mem EXCEPT !.status = s], FALSE)
    BY <1>2, Zenon DEF CancelApply, ExpireApply, HorizonApply
  <2>3. req[w].mem \in Row /\ s \in Status
    BY <2>1, ActiveHandler, HandlerFields, SMT DEF Status
  <2>4. req' \in [Workers -> Handler \cup {Idle}]
    BY <2>1, <2>2, <2>3, RowStatus, StartSaveType
  <2> QED
    BY <1>2, <2>4
    DEF TypeOK, CancelApply, ExpireApply, HorizonApply, store, history
<1>3. CASE SimulateApply(w)
  <2> DEFINE h == req[w]
             amount == IF h.call.amount # NoOverride THEN h.call.amount
                                                     ELSE h.mem.amount
             entity == [h.mem EXCEPT !.status = h.call.status, !.amount = amount]
             first == h.mem.status # "COMPLETED"
  <2>1. Active(w)
    BY <1>3, SMT DEF SimulateApply, At, Active
  <2>2. h.mem \in Row /\ h.call.status \in Status /\ h.call.amount \in Nat
    BY <1>3, <2>1, ActiveHandler, HandlerFields, SimulateCall
    DEF SimulateApply, At
  <2>3. amount \in Nat
    BY <2>2, SMT DEF Row
  <2>4. StartSave(w, entity, first)
    <3>1. entity = [h.mem EXCEPT !.status = h.call.status,
                       !.amount = IF h.call.amount # NoOverride
                                  THEN h.call.amount ELSE @]
      BY Zenon
    <3> QED
      BY <1>3, <3>1, Zenon DEF SimulateApply
  <2>5. first \in BOOLEAN
    OBVIOUS
  <2> HIDE DEF amount, first
  <2>6. entity \in Row
    BY <2>2, <2>3, Zenon DEF Row
  <2> HIDE DEF entity
  <2>7. req' \in [Workers -> Handler \cup {Idle}]
    BY <2>1, <2>4, <2>5, <2>6, StartSaveType
  <2>8. h.pay \in Payments
    BY <2>1, ActiveHandler, HandlerFields
  <2>9. simulated' = simulated \cup {h.pay}
    BY <1>3 DEF SimulateApply
  <2>10. simulated' \subseteq Payments
    BY <2>8, <2>9 DEF TypeOK
  <2> QED
    BY <1>3, <2>7, <2>10 DEF TypeOK, SimulateApply, store
<1>4. CASE StatusReject(w)
  BY <1>4, FinishType DEF TypeOK, StatusReject, store, history
<1> QED
  BY <1>1, <1>2, <1>3, <1>4

\* The settlement stamp and the UPDATEs preserve the types.
LEMMA CommitType ==
    ASSUME TypeOK, NEW w \in Workers,
           SettleCommit(w) \/ CommitCompleting(w) \/ Commit(w)
    PROVE  TypeOK'
<1>1. CASE SettleCommit(w)
  <2>1. Active(w)
    BY <1>1, SMT DEF SettleCommit, At, Active
  <2>2. req[w].pay \in Payments
    BY <2>1, ActiveHandler, HandlerFields
  <2>3. [db[req[w].pay] EXCEPT !.settled = TRUE] \in Row
    BY <2>2, ZenonT(30) DEF TypeOK, Row
  <2>4. db' \in [Payments -> Row]
    BY <1>1, <2>2, <2>3, Zenon DEF TypeOK, SettleCommit
  <2> QED
    BY <1>1, <2>4, FinishType DEF TypeOK, SettleCommit, history
<1>2. CASE CommitCompleting(w)
  <2>1. Active(w)
    BY <1>2, SMT DEF CommitCompleting, Active
  <2>2. db' \in [Payments -> Row]
    BY <1>2, <2>1, EndSaveType DEF CommitCompleting
  <2>3. "notifying" \in Holding \cup Trailing
    BY DEF Holding
  <2>4. req' \in [Workers -> Handler \cup {Idle}]
    BY <1>2, <2>1, <2>3, PcType, Zenon DEF CommitCompleting
  <2> QED
    BY <1>2, <2>2, <2>4 DEF TypeOK, CommitCompleting, history
<1>3. CASE Commit(w)
  <2>1. Active(w)
    BY <1>3, SMT DEF Commit, Active
  <2>2. db' \in [Payments -> Row]
    BY <1>3, <2>1, EndSaveType DEF Commit
  <2>3. "announcing" \in Holding \cup Trailing
    BY DEF Trailing
  <2>4. req' \in [Workers -> Handler \cup {Idle}]
    <3>1. \/ req' = [req EXCEPT ![w].pc = "announcing"]
          \/ Finish(w)
      BY <1>3, Zenon DEF Commit
    <3> QED
      BY <2>1, <2>3, <3>1, PcType, FinishType, Zenon
  <2> QED
    BY <1>3, <2>2, <2>4 DEF TypeOK, Commit, history
<1> QED
  BY <1>1, <1>2, <1>3

\* processSplitsForPayment preserves the types.
LEMMA SplitType ==
    ASSUME TypeOK, NEW w \in Workers,
           \/ SplitsFind(w) \/ SplitSend(w) \/ SplitSave(w)
           \/ SplitsFailed(w) \/ SplitsFailedCommit(w)
    PROVE  TypeOK'
<1> DEFINE h == req[w]
<1>1. Active(w)
  <2>1. h.pc \in {"notifying", "splitting", "sent", "redirty"}
    BY Zenon DEF SplitsFind, SplitSend, SplitSave, SplitsFailed, SplitsFailedCommit
  <2> QED
    BY <2>1, SMT DEF Active
<1>2. h \in Handler
  BY <1>1, ActiveHandler
<1>3. h.pay \in Payments /\ h.mem \in Row /\ h.todo \subseteq Splits
  BY <1>2, HandlerFields
<1>4. CASE SplitsFind(w)
  <2> DEFINE todo == PendingLegs(h.pay)
             pc == IF todo = {} THEN "linking" ELSE "splitting"
             k == [h EXCEPT !.todo = todo, !.pc = pc]
  <2>1. todo \subseteq Splits
    BY <1>3, PaymentsAssumption DEF PaymentsAssumption, PendingLegs
  <2>2. pc \in Holding \cup Trailing
    BY DEF Holding, Trailing
  <2>3. req' = [req EXCEPT ![w] = k]
    BY <1>4, Zenon DEF SplitsFind
  <2> HIDE DEF todo, pc, h
  <2>4. k \in Handler
    BY <1>2, <2>1, <2>2, Zenon DEF Handler
  <2> HIDE DEF k
  <2> QED
    BY <1>4, <2>3, <2>4, ReqType DEF TypeOK, SplitsFind, store, history
<1>5. CASE SplitSend(w)
  <2>1. PICK s \in h.todo, returns \in BOOLEAN, reached \in BOOLEAN :
          /\ sent' = IF reached THEN [sent EXCEPT ![h.pay][s] = @ + 1] ELSE sent
          /\ req' = [req EXCEPT ![w].pc = "sent", ![w].leg = s,
                                ![w].paid = returns]
    BY <1>5 DEF SplitSend
  <2> DEFINE k == [h EXCEPT !.pc = "sent", !.leg = s, !.paid = returns]
  <2>2. req' = [req EXCEPT ![w] = k]
    BY <2>1, Zenon
  <2>3. k \in Handler
    BY <1>2, <1>3, Zenon DEF Handler, Holding
  <2>4. sent' \in [Payments -> [Splits -> Nat]]
    BY <1>3, <2>1, SMT DEF TypeOK
  <2> HIDE DEF k
  <2> QED
    BY <1>5, <2>2, <2>3, <2>4, ReqType DEF TypeOK, SplitSend, history
<1>6. CASE SplitSave(w)
  <2> DEFINE todo == h.todo \ {h.leg}
             bad == h.bad \/ ~h.paid
             k == [h EXCEPT !.pc = "splitting", !.todo = todo, !.leg = NoLeg,
                            !.paid = FALSE, !.bad = bad]
  <2>1. todo \subseteq Splits /\ bad \in BOOLEAN
    BY <1>3
  <2>2. req' = [req EXCEPT ![w] = k]
    BY <1>6, Zenon DEF SplitSave
  <2>3. split' \in [Payments -> [Splits -> SplitStatus]]
    BY <1>3, <1>6, Zenon DEF TypeOK, SplitSave, LegOutcome, SplitStatus
  <2> HIDE DEF todo, bad
  <2>4. k \in Handler
    BY <1>2, <2>1, Zenon DEF Handler, Holding
  <2> HIDE DEF k
  <2> QED
    BY <1>6, <2>2, <2>3, <2>4, ReqType DEF TypeOK, SplitSave, history
<1>7. CASE SplitsFailed(w)
  <2> DEFINE entity == [h.mem EXCEPT !.status = "PARTIALLY_COMPLETED"]
             cols == Diff(entity, db[h.pay])
             k == [h EXCEPT !.pc = "redirty", !.mem = entity, !.cols = cols,
                            !.was = h.mem.status]
  <2>1. entity \in Row
    BY <1>3, RowStatus DEF Status
  <2>2. cols \in SUBSET Columns
    BY DiffType
  <2>3. req' = [req EXCEPT ![w] = k]
    BY <1>7, Zenon DEF SplitsFailed
  <2> HIDE DEF entity, cols
  <2>4. k \in Handler
    <3>1. h.mem.status \in Status
      BY <1>3, Zenon DEF Row
    <3> QED
      BY <1>2, <2>1, <2>2, <3>1, Zenon DEF Handler, Holding
  <2> HIDE DEF k
  <2> QED
    BY <1>7, <2>3, <2>4, ReqType DEF TypeOK, SplitsFailed, store, history
<1>8. CASE SplitsFailedCommit(w)
  <2>1. db' \in [Payments -> Row]
    BY <1>1, <1>8, EndSaveType DEF SplitsFailedCommit
  <2>2. "splitDone" \in Holding \cup Trailing
    BY DEF Trailing
  <2>3. req' \in [Workers -> Handler \cup {Idle}]
    BY <1>1, <1>8, <2>2, PcType, Zenon DEF SplitsFailedCommit
  <2> QED
    BY <1>8, <2>1, <2>3 DEF TypeOK, SplitsFailedCommit, history
<1> QED
  BY <1>4, <1>5, <1>6, <1>7, <1>8

\* What a handler does after its last write preserves the types.
LEMMA TrailType ==
    ASSUME TypeOK, NEW w \in Workers,
           SplitsAnnounce(w) \/ LinkCredit(w) \/ Dispatch(w)
    PROVE  TypeOK'
<1>1. Active(w)
  <2>1. req[w].pc \in {"splitting", "splitDone", "linking", "announcing"}
    BY Zenon DEF SplitsAnnounce, LinkCredit, Dispatch
  <2> QED
    BY <2>1, SMT DEF Active
<1>2. req[w].pay \in Payments
  BY <1>1, ActiveHandler, HandlerFields
<1>3. CASE SplitsAnnounce(w)
  <2>1. announced' \in [Payments -> SUBSET Events]
    <3>1. "payment.split_processed" \in Events
      BY DEF Events
    <3> QED
      BY <1>2, <1>3, <3>1, AnnounceType, Zenon DEF TypeOK, SplitsAnnounce
  <2>2. "linking" \in Holding \cup Trailing
    BY DEF Trailing
  <2>3. req' \in [Workers -> Handler \cup {Idle}]
    BY <1>1, <1>3, <2>2, PcType, Zenon DEF SplitsAnnounce
  <2> QED
    BY <1>3, <2>1, <2>3 DEF TypeOK, SplitsAnnounce, history
<1>4. CASE LinkCredit(w)
  <2>1. credits' \in [Payments -> Nat]
    <3>1. \/ credits' = [credits EXCEPT ![req[w].pay] = @ + 1]
          \/ credits' = credits
      BY <1>4, Zenon DEF LinkCredit
    <3> QED
      BY <1>2, <3>1, SMT DEF TypeOK
  <2>2. "announcing" \in Holding \cup Trailing
    BY DEF Trailing
  <2>3. req' \in [Workers -> Handler \cup {Idle}]
    <3>1. \/ req' = [req EXCEPT ![w].pc = "announcing"]
          \/ Finish(w)
      BY <1>4, Zenon DEF LinkCredit
    <3> QED
      BY <1>1, <2>2, <3>1, PcType, FinishType, Zenon
  <2> QED
    BY <1>4, <2>1, <2>3 DEF TypeOK, LinkCredit, history
<1>5. CASE Dispatch(w)
  <2>1. EventOf(req[w]) \in Events
    BY Zenon DEF EventOf, Events
  <2>2. announced' \in [Payments -> SUBSET Events]
    BY <1>2, <1>5, <2>1, AnnounceType DEF Dispatch
  <2> QED
    BY <1>5, <2>2, FinishType DEF TypeOK, Dispatch, history
<1> QED
  BY <1>3, <1>4, <1>5

\* Crashes and the overdue sweep preserve the types.
LEMMA OutsideType ==
    ASSUME TypeOK
    PROVE  /\ \A w \in Workers : Cut(w) => TypeOK'
           /\ \A p \in Payments : MarkOverdue(p) => TypeOK'
<1>1. ASSUME NEW w \in Workers, Cut(w)
      PROVE  TypeOK'
  <2>1. req[w].pay \in Payments
    BY <1>1, ActiveHandler, HandlerFields DEF Cut
  <2>2. cuts' \in 0..MaxCuts
    BY <1>1, PaymentsAssumption, SMT DEF TypeOK, Cut, PaymentsAssumption
  <2>3. cut' \subseteq Payments
    BY <1>1, <2>1, SMT DEF TypeOK, Cut
  <2> QED
    BY <1>1, <2>2, <2>3, FinishType DEF TypeOK, Cut, store
<1>2. ASSUME NEW p \in Payments, MarkOverdue(p)
      PROVE  TypeOK'
  <2>1. [db[p] EXCEPT !.status = "OVERDUE"] \in Row
    BY RowStatus DEF TypeOK, Status
  <2>2. db' \in [Payments -> Row]
    BY <1>2, <2>1, Zenon DEF TypeOK, MarkOverdue
  <2>3. overlapped' \subseteq Payments
    BY <1>2, SMT DEF TypeOK, MarkOverdue
  <2> QED
    BY <1>2, <2>2, <2>3 DEF TypeOK, MarkOverdue
<1> QED
  BY <1>1, <1>2

\* A payment that has just been created is well typed.
LEMMA InitType == Init => TypeOK
<1> SUFFICES ASSUME Init PROVE TypeOK
  OBVIOUS
<1>1. 0 \in Nat /\ 0 \in Int /\ 0 \in 0..MaxCalls /\ 0 \in 0..MaxCuts
  BY PaymentsAssumption, SMT DEF PaymentsAssumption
<1>2. db \in [Payments -> Row]
  <2>1. \A p \in Payments : Amount[p] \in Nat
    BY PaymentsAssumption DEF PaymentsAssumption
  <2> QED
    BY <1>1, <2>1, SMT DEF Init, Row, Status
<1>3. ledger \in [Payments -> Ledger]
  BY <1>1, SMT DEF Init, Ledger
<1>4. split \in [Payments -> [Splits -> SplitStatus]]
  BY DEF Init, SplitStatus
<1> QED
  BY <1>1, <1>2, <1>3, <1>4 DEF Init, TypeOK

\* Every step preserves the types.
LEMMA StepType ==
    ASSUME TypeOK, [Next]_vars
    PROVE  TypeOK'
<1>1. CASE UNCHANGED vars
  BY <1>1 DEF TypeOK, vars, store, history
<1>2. ASSUME NEW w \in Workers, Step(w)
      PROVE  TypeOK'
  BY <1>2, RefundType, StatusType, CommitType, SplitType, TrailType, Zenon DEF Step
<1> QED
  BY <1>1, <1>2, LoadType, OutsideType, Zenon DEF Next

\* Every variable keeps its type, in every instance of the constants.
THEOREM TypeCorrect == Spec => []TypeOK
<1> QED
  BY InitType, StepType, PTL DEF Spec

----------------------------------------------------------------------------
(* Fresh copies: without overlap, save() writes the whole entity, and each *)
(* step keeps the copies of the handlers in line with the rows.            *)

\* An UPDATE of the columns that differ stores the entity, if the row is still the
\* one that was compared.
LEMMA PatchDiff ==
    ASSUME NEW row \in Row, NEW entity \in Row
    PROVE  Patch(row, entity, Diff(entity, row)) = entity
<1>1. \A c \in Columns : c \notin Diff(entity, row) => row[c] = entity[c]
  BY DEF Diff
<1>2. Patch(row, entity, Diff(entity, row)) =
        [status |-> entity.status, amount |-> entity.amount,
         refunded |-> entity.refunded, settled |-> entity.settled]
  BY <1>1, Zenon DEF Patch, Columns
<1> QED
  BY <1>2, SMT DEF Row

\* A handler that changes its own row, or none, keeps all copies fresh if its own
\* copy is fresh afterwards.
LEMMA FreshStep ==
    ASSUME TypeOK, FreshCopies, NEW w \in Workers, NEW k,
           req' = [req EXCEPT ![w] = k],
           overlapped' = overlapped,
           \A p \in Payments :
              Holds(w, p) \/ (db'[p] = db[p] /\ ledger'[p] = ledger[p]),
           k.pc \in Holding =>
              /\ req[w].pc \in Holding
              /\ k.pay = req[w].pay
              /\ k.pay \notin overlapped => Fresh(k, db'[k.pay], ledger'[k.pay])
    PROVE  FreshCopies'
<1> SUFFICES ASSUME NEW p \in Payments, p \notin overlapped, NEW v \in Workers,
                    Holds(v, p)'
             PROVE  ~Contended(v, p)' /\ Fresh(req'[v], db'[p], ledger'[p])
  BY DEF FreshCopies
<1>1. \A u \in Workers : req'[u] = IF u = w THEN k ELSE req[u]
  BY DEF TypeOK
<1>2. \A u \in Workers : Holds(u, p)' => Holds(u, p)
  BY <1>1 DEF Holds
<1>3. Holds(v, p) /\ ~Contended(v, p) /\ Fresh(req[v], db[p], ledger[p])
  BY <1>2 DEF FreshCopies
<1>4. ~Contended(v, p)'
  BY <1>2, <1>3 DEF Contended
<1>5. Fresh(req'[v], db'[p], ledger'[p])
  <2>1. CASE v = w
    BY <2>1, <1>1 DEF Holds
  <2>2. CASE v # w
    <3>1. ~Holds(w, p)
      BY <2>2, <1>3 DEF Contended
    <3> QED
      BY <2>2, <3>1, <1>1, <1>3
  <2> QED
    BY <2>1, <2>2
<1> QED
  BY <1>4, <1>5

\* Without overlap, the UPDATE of save(entity) stores exactly the entity, and in no
\* other row.
LEMMA SaveLands ==
    ASSUME TypeOK, FreshCopies, NEW w \in Workers,
           req[w].pc \in {"dirty", "redirty"}, EndSave(w)
    PROVE  /\ req[w].pay \in Payments
           /\ Holds(w, req[w].pay)
           /\ \A p \in Payments : p # req[w].pay => db'[p] = db[p]
           /\ req[w].pay \notin overlapped => db'[req[w].pay] = req[w].mem
<1> DEFINE p == req[w].pay
<1>1. p \in Payments /\ req[w].mem \in Row /\ db[p] \in Row
  <2>1. Active(w)
    BY SMT DEF Active
  <2> QED
    BY <2>1, ActiveHandler, HandlerFields DEF TypeOK
<1>2. Holds(w, p)
  BY SMT DEF Holds, Holding
<1>3. db' = [db EXCEPT ![p] = Patch(db[p], req[w].mem, req[w].cols)]
  BY Zenon DEF EndSave
<1>4. ASSUME p \notin overlapped
      PROVE  db'[p] = req[w].mem
  <2>1. req[w].cols = Diff(req[w].mem, db[p])
    BY <1>1, <1>2, <1>4 DEF FreshCopies, Fresh
  <2> QED
    BY <1>1, <1>3, <2>1, PatchDiff, Zenon DEF TypeOK
<1> QED
  BY <1>1, <1>2, <1>3, <1>4, Zenon DEF TypeOK

\* A step that commits no refund and changes no refundedAmount keeps the ledger
\* exact and the number of refunds under its cap.
LEMMA LedgerKept ==
    ASSUME TypeOK, LedgerExact, AdjustmentExact, RefundCap,
           ledger' = ledger, overlapped \subseteq overlapped',
           \A p \in Payments \ overlapped : db'[p].refunded = db[p].refunded
    PROVE  LedgerExact' /\ AdjustmentExact' /\ RefundCap'
  BY Zenon DEF LedgerExact, AdjustmentExact, RefundCap

\* A handler that writes nothing keeps the invariant if its copy stays fresh.
LEMMA QuietStep ==
    ASSUME TypeOK, RefundsInv, NEW w \in Workers, NEW k,
           req' = [req EXCEPT ![w] = k],
           UNCHANGED <<db, ledger, overlapped>>,
           k.pc \in Holding =>
              /\ req[w].pc \in Holding
              /\ k.pay = req[w].pay
              /\ k.pay \notin overlapped => Fresh(k, db[k.pay], ledger[k.pay])
    PROVE  RefundsInv'
<1>1. FreshCopies'
  BY FreshStep, Zenon DEF RefundsInv
<1> QED
  BY <1>1, LedgerKept, Zenon DEF RefundsInv

\* A handler that ends without writing keeps the invariant.
LEMMA QuietFinish ==
    ASSUME TypeOK, RefundsInv, NEW w \in Workers, Finish(w),
           UNCHANGED <<db, ledger, overlapped>>
    PROVE  RefundsInv'
<1>1. Idle.pc \notin Holding
  BY DEF Idle, Holding
<1> QED
  BY <1>1, QuietStep, Zenon DEF Finish

\* A handler that goes on past its last write keeps the invariant.
LEMMA QuietTrail ==
    ASSUME TypeOK, RefundsInv, NEW w \in Workers, Active(w),
           NEW pc \in Trailing, req' = [req EXCEPT ![w].pc = pc],
           UNCHANGED <<db, ledger, overlapped>>
    PROVE  RefundsInv'
<1> DEFINE k == [req[w] EXCEPT !.pc = pc]
<1>1. k.pc = pc
  BY ActiveHandler, Zenon DEF Handler
<1>2. k.pc \notin Holding
  BY <1>1, SMT DEF Holding, Trailing
<1>3. req' = [req EXCEPT ![w] = k]
  BY Zenon
<1> QED
  BY <1>2, <1>3, QuietStep, Zenon

\* What a handler that holds a payment without overlap knows of its row.
LEMMA HeldRow ==
    ASSUME TypeOK, RefundsInv, NEW w \in Workers, req[w].pc \in Holding
    PROVE  /\ req[w] \in Handler
           /\ req[w].pay \in Payments
           /\ Holds(w, req[w].pay)
           /\ req[w].pay \notin overlapped =>
                Fresh(req[w], db[req[w].pay], ledger[req[w].pay])
<1>1. Active(w)
  BY SMT DEF Active, Holding
<1>2. req[w] \in Handler /\ req[w].pay \in Payments
  BY <1>1, ActiveHandler, HandlerFields
<1> QED
  BY <1>2, Zenon DEF Holds, RefundsInv, FreshCopies

\* A change of status, with the SELECT of its save(), leaves the copy fresh.
LEMMA StartSaveFresh ==
    ASSUME TypeOK, RefundsInv, NEW w \in Workers, NEW entity \in Row, NEW first,
           req[w].pc = "loaded", req[w].call.kind # "refund",
           entity.refunded = req[w].mem.refunded,
           entity.settled = req[w].mem.settled,
           StartSave(w, entity, first), UNCHANGED <<db, ledger, overlapped>>
    PROVE  RefundsInv'
<1> DEFINE p == req[w].pay
           cols == Diff(entity, db[p])
           k == [req[w] EXCEPT !.pc = "dirty", !.mem = entity,
                               !.cols = cols, !.first = first,
                               !.was = req[w].mem.status]
<1>1. req[w].pc \in Holding
  BY DEF Holding
<1>2. req[w] \in Handler
  BY <1>1, HeldRow
<1>3. req' = [req EXCEPT ![w] = k]
  BY Zenon DEF StartSave
<1>4. /\ k.pc = "dirty" /\ k.mem = entity /\ k.cols = cols /\ k.pay = p
      /\ k.call = req[w].call
  BY <1>2, Zenon DEF Handler
<1>5. ASSUME p \notin overlapped
      PROVE  Fresh(k, db[p], ledger[p])
  <2>1. Fresh(req[w], db[p], ledger[p])
    BY <1>1, <1>5, HeldRow
  <2>2. req[w].mem = db[p]
    BY <2>1, SMT DEF Fresh, Holding
  <2>3. db[p].refunded \in Int
    BY <1>1, HeldRow, SMT DEF TypeOK, Row
  <2> HIDE DEF k, cols
  <2>4. k.pc \notin Holding \ {"dirty", "redirty"}
    BY <1>4
  <2>5. entity.refunded = db[p].refunded + 0
    BY <2>2, <2>3, SMT
  <2> QED
    BY <1>4, <2>2, <2>4, <2>5 DEF Fresh, cols
<1> HIDE DEF k
<1> QED
  BY <1>1, <1>3, <1>4, <1>5, QuietStep, Zenon

\* WebhookApply, CancelApply, ExpireApply, HorizonApply, SimulateApply and
\* StatusReject keep the invariant.
LEMMA StatusApplyFresh ==
    ASSUME TypeOK, RefundsInv, NEW w \in Workers,
           \/ WebhookApply(w) \/ CancelApply(w) \/ ExpireApply(w)
           \/ HorizonApply(w) \/ SimulateApply(w) \/ StatusReject(w)
    PROVE  RefundsInv'
<1>1. CASE StatusReject(w)
  BY <1>1, QuietFinish DEF StatusReject, store, history
<1>2. CASE SimulateApply(w)
  <2> DEFINE h == req[w]
             entity == [h.mem EXCEPT !.status = h.call.status,
                           !.amount = IF h.call.amount # NoOverride
                                      THEN h.call.amount ELSE @]
  <2>1. h.pc = "loaded" /\ h.call.kind = "simulate"
    BY <1>2 DEF SimulateApply, At
  <2>2. h \in Handler
    BY <2>1, HeldRow, SMT DEF Holding
  <2>3. h.mem \in Row /\ h.call.status \in Status /\ h.call.amount \in Nat
    BY <2>1, <2>2, HandlerFields, SimulateCall
  <2>4. entity \in Row
    <3> DEFINE amount == IF h.call.amount # NoOverride THEN h.call.amount
                                                       ELSE h.mem.amount
    <3>1. amount \in Nat
      BY <2>3, SMT DEF Row
    <3>2. entity = [h.mem EXCEPT !.status = h.call.status, !.amount = amount]
      BY Zenon
    <3> HIDE DEF amount
    <3> QED
      BY <2>3, <3>1, <3>2, Zenon DEF Row
  <2>5. entity.refunded = h.mem.refunded /\ entity.settled = h.mem.settled
    BY <2>3, SMT DEF Row
  <2>6. /\ StartSave(w, entity, h.mem.status # "COMPLETED")
        /\ UNCHANGED <<db, ledger, overlapped>>
    BY <1>2, Zenon DEF SimulateApply, store, history
  <2> HIDE DEF entity
  <2> QED
    BY <2>1, <2>4, <2>5, <2>6, StartSaveFresh
<1>3. CASE WebhookApply(w) \/ CancelApply(w) \/ ExpireApply(w) \/ HorizonApply(w)
  <2>1. req[w].pc = "loaded" /\ req[w].call.kind # "refund"
    <3>1. \E kind \in {"webhook", "cancel", "expire", "horizon"} :
             At(w, kind, "loaded")
      BY <1>3, Zenon DEF WebhookApply, CancelApply, ExpireApply, HorizonApply
    <3> QED
      BY <3>1, SMT DEF At
  <2>2. req[w] \in Handler
    BY <2>1, HeldRow, SMT DEF Holding
  <2>3. PICK s \in Status, first \in BOOLEAN :
            StartSave(w, [req[w].mem EXCEPT !.status = s], first)
    <3>1. CASE WebhookApply(w)
      <4>1. req[w].call.status \in Status
        BY <2>2, <3>1, HandlerFields, WebhookCall DEF WebhookApply, At
      <4>2. (req[w].mem.status # "COMPLETED") \in BOOLEAN
        OBVIOUS
      <4> QED
        BY <3>1, <4>1, <4>2, Zenon DEF WebhookApply
    <3>2. CASE CancelApply(w) \/ ExpireApply(w) \/ HorizonApply(w)
      BY <3>2, Zenon DEF CancelApply, ExpireApply, HorizonApply, Status
    <3> QED
      BY <1>3, <3>1, <3>2
  <2> DEFINE entity == [req[w].mem EXCEPT !.status = s]
  <2>4. req[w].mem \in Row
    BY <2>2, HandlerFields
  <2>5. entity \in Row
    BY <2>4, RowStatus
  <2>6. entity.refunded = req[w].mem.refunded /\ entity.settled = req[w].mem.settled
    BY <2>4, SMT DEF Row
  <2>7. UNCHANGED <<db, ledger, overlapped>>
    BY <1>3
    DEF WebhookApply, CancelApply, ExpireApply, HorizonApply, store, history
  <2> HIDE DEF entity
  <2> QED
    BY <2>1, <2>3, <2>5, <2>6, <2>7, StartSaveFresh, Zenon DEF entity
<1> QED
  BY <1>1, <1>2, <1>3

\* refund() keeps the invariant up to its commit.
LEMMA RefundFresh ==
    ASSUME TypeOK, RefundsInv, NEW w \in Workers,
           \/ RefundCount(w) \/ RefundApply(w) \/ RefundReject(w) \/ RefundFails(w)
    PROVE  RefundsInv'
<1> DEFINE h == req[w]
           p == h.pay
<1>1. CASE RefundReject(w) \/ RefundFails(w)
  BY <1>1, QuietFinish DEF RefundReject, RefundFails, store, history
<1>2. CASE RefundCount(w)
  <2> DEFINE n == ledger[p].count
             k == [h EXCEPT !.pc = "counted", !.count = n]
  <2>1. h.pc = "loaded" /\ h.call.kind = "refund"
    BY <1>2 DEF RefundCount, At
  <2>2. h.pc \in Holding
    BY <2>1 DEF Holding
  <2>3. h \in Handler
    BY <2>2, HeldRow
  <2>4. req' = [req EXCEPT ![w] = k]
    BY <1>2, Zenon DEF RefundCount
  <2>5. /\ k.pc = "counted" /\ k.count = n /\ k.pay = p
        /\ k.mem = h.mem /\ k.call = h.call
    BY <2>3, Zenon DEF Handler
  <2>6. ASSUME p \notin overlapped
        PROVE  Fresh(k, db[p], ledger[p])
    <3>1. Fresh(h, db[p], ledger[p])
      BY <2>2, <2>6, HeldRow
    <3>2. h.mem = db[p] /\ h.mem.refunded = db[p].refunded + 0
      BY <2>1, <3>1, SMT DEF Fresh, Holding
    <3> HIDE DEF k, h
    <3> QED
      BY <2>5, <3>2, SMT DEF Fresh
  <2> HIDE DEF k
  <2>7. UNCHANGED <<db, ledger, overlapped>>
    BY <1>2 DEF RefundCount, store, history
  <2> QED
    BY <2>2, <2>4, <2>5, <2>6, <2>7, QuietStep, Zenon
<1>3. CASE RefundApply(w)
  <2> DEFINE amount == RefundAmount(h)
             entity == Refunded(h.mem, amount)
             cols == Diff(entity, db[p])
             k == [h EXCEPT !.pc = "dirty", !.mem = entity, !.cols = cols,
                            !.due = amount, !.was = h.mem.status]
  <2>1. h.pc = "counted" /\ h.call.kind = "refund" /\ UnderCap(h)
    BY <1>3 DEF RefundApply, At
  <2>2. h.pc \in Holding
    BY <2>1 DEF Holding
  <2>3. h \in Handler
    BY <2>2, HeldRow
  <2>4. req' = [req EXCEPT ![w] = k]
    BY <1>3, Zenon DEF RefundApply
  <2>5. /\ k.pc = "dirty" /\ k.mem = entity /\ k.cols = cols /\ k.due = amount
        /\ k.pay = p /\ k.call = h.call /\ k.count = h.count
    BY <2>3, Zenon DEF Handler
  <2>6. ASSUME p \notin overlapped
        PROVE  Fresh(k, db[p], ledger[p])
    <3>1. Fresh(h, db[p], ledger[p])
      BY <2>2, <2>6, HeldRow
    <3>2. h.mem = db[p] /\ h.count = ledger[p].count
      BY <2>1, <3>1, SMT DEF Fresh, Holding
    <3>3. h.mem \in Row
      BY <2>3, HandlerFields
    <3>4. /\ entity.refunded = h.mem.refunded + amount
          /\ entity.settled = h.mem.settled
      BY <3>3, Zenon DEF Refunded, Row
    <3>5. UnderCap(k)
      BY <2>1, <2>5 DEF UnderCap
    <3> HIDE DEF k, h, amount, entity, cols
    <3> QED
      BY <2>1, <2>5, <3>2, <3>4, <3>5, SMT DEF Fresh, cols
  <2> HIDE DEF k
  <2>7. UNCHANGED <<db, ledger, overlapped>>
    BY <1>3 DEF RefundApply, store, history
  <2> QED
    BY <2>2, <2>4, <2>5, <2>6, <2>7, QuietStep, Zenon
<1> QED
  BY <1>1, <1>2, <1>3

\* An UPDATE that no refund sends changes no refundedAmount.
LEMMA SaveKeepsRefunded ==
    ASSUME TypeOK, RefundsInv, NEW w \in Workers, EndSave(w),
           req[w].pc \in {"dirty", "redirty"},
           req[w].pc = "dirty" => req[w].call.kind # "refund"
    PROVE  \A p \in Payments \ overlapped : db'[p].refunded = db[p].refunded
<1> DEFINE h == req[w]
<1>1. h.pc \in Holding
  BY SMT DEF Holding
<1>2. h.pay \notin overlapped => db'[h.pay].refunded = db[h.pay].refunded
  <2> SUFFICES ASSUME h.pay \notin overlapped
               PROVE  db'[h.pay].refunded = db[h.pay].refunded
    OBVIOUS
  <2>1. db'[h.pay] = h.mem
    BY SaveLands DEF RefundsInv
  <2>2. Fresh(h, db[h.pay], ledger[h.pay]) /\ h.pay \in Payments
    BY <1>1, HeldRow
  <2>3. db[h.pay].refunded \in Int
    BY <2>2, SMT DEF TypeOK, Row
  <2>4. h.mem.refunded = db[h.pay].refunded + 0
    BY <2>2, Zenon DEF Fresh
  <2> QED
    BY <2>1, <2>3, <2>4, SMT
<1> QED
  BY <1>2, SaveLands, Zenon DEF RefundsInv

\* The settlement stamp and the UPDATEs of the other handlers keep the invariant.
LEMMA CommitFresh ==
    ASSUME TypeOK, RefundsInv, NEW w \in Workers,
           \/ SettleCommit(w) \/ CommitCompleting(w)
           \/ Commit(w) \/ SplitsFailedCommit(w)
    PROVE  RefundsInv'
<1> DEFINE h == req[w]
           p == h.pay
<1>1. CASE SettleCommit(w)
  <2>1. h.pc \in Holding
    BY <1>1, SMT DEF SettleCommit, At, Holding
  <2>2. p \in Payments /\ Holds(w, p)
    BY <2>1, HeldRow
  <2>3. db[p] \in Row
    BY <2>2 DEF TypeOK
  <2>4. db' = [db EXCEPT ![p].settled = TRUE]
    BY <1>1 DEF SettleCommit
  <2>5. /\ \A q \in Payments : q # p => db'[q] = db[q]
        /\ db'[p].refunded = db[p].refunded
    BY <2>2, <2>3, <2>4, Zenon DEF TypeOK, Row
  <2>6. /\ req' = [req EXCEPT ![w] = Idle]
        /\ ledger' = ledger /\ overlapped' = overlapped
    BY <1>1 DEF SettleCommit, Finish, history
  <2>7. Idle.pc \notin Holding
    BY DEF Idle, Holding
  <2>8. \A q \in Payments : Holds(w, q) \/ (db'[q] = db[q] /\ ledger'[q] = ledger[q])
    BY <2>2, <2>5, <2>6
  <2>9. FreshCopies'
    BY <2>6, <2>7, <2>8, FreshStep, Zenon DEF RefundsInv
  <2>10. \A q \in Payments \ overlapped : db'[q].refunded = db[q].refunded
    BY <2>5
  <2> QED
    BY <2>6, <2>9, <2>10, LedgerKept, Zenon DEF RefundsInv
<1>2. CASE CommitCompleting(w) \/ Commit(w) \/ SplitsFailedCommit(w)
  <2>1. /\ h.pc \in {"dirty", "redirty"} /\ EndSave(w)
        /\ h.pc = "dirty" => h.call.kind # "refund"
    BY <1>2, SMT DEF CommitCompleting, Commit, SplitsFailedCommit, Completes
  <2>2. h.pc \in Holding
    BY <2>1, SMT DEF Holding
  <2>3. h \in Handler /\ p \in Payments
    BY <2>2, HeldRow
  <2>4. ledger' = ledger /\ overlapped' = overlapped
    BY <1>2 DEF CommitCompleting, Commit, SplitsFailedCommit, history
  <2>5. PICK k :
          /\ req' = [req EXCEPT ![w] = k]
          /\ \/ k.pc \notin Holding
             \/ /\ CommitCompleting(w)
                /\ k.pc = "notifying" /\ k.mem = h.mem
                /\ k.call = h.call /\ k.pay = p
    <3>1. ASSUME NEW pc, req' = [req EXCEPT ![w].pc = pc]
          PROVE  /\ req' = [req EXCEPT ![w] = [h EXCEPT !.pc = pc]]
                 /\ [h EXCEPT !.pc = pc].pc = pc
                 /\ [h EXCEPT !.pc = pc].mem = h.mem
                 /\ [h EXCEPT !.pc = pc].call = h.call
                 /\ [h EXCEPT !.pc = pc].pay = p
      BY <2>3, <3>1, Zenon DEF Handler
    <3>2. CASE CommitCompleting(w)
      <4>1. req' = [req EXCEPT ![w].pc = "notifying"]
        BY <3>2 DEF CommitCompleting
      <4> DEFINE k == [h EXCEPT !.pc = "notifying"]
      <4>2. /\ req' = [req EXCEPT ![w] = k]
            /\ k.pc = "notifying" /\ k.mem = h.mem
            /\ k.call = h.call /\ k.pay = p
        BY <3>1, <4>1
      <4> HIDE DEF k
      <4> QED
        BY <3>2, <4>2
    <3>3. CASE Commit(w) \/ SplitsFailedCommit(w)
      <4>1. Idle.pc \notin Holding
        BY DEF Idle, Holding
      <4>2. "announcing" \notin Holding /\ "splitDone" \notin Holding
        BY DEF Holding
      <4>3. \/ req' = [req EXCEPT ![w] = Idle]
            \/ req' = [req EXCEPT ![w].pc = "announcing"]
            \/ req' = [req EXCEPT ![w].pc = "splitDone"]
        BY <3>3, Zenon DEF Commit, SplitsFailedCommit, Finish
      <4>4. CASE req' = [req EXCEPT ![w] = Idle]
        BY <4>1, <4>4
      <4>5. ASSUME NEW pc \in {"announcing", "splitDone"},
                   req' = [req EXCEPT ![w].pc = pc]
            PROVE  \E k : req' = [req EXCEPT ![w] = k] /\ k.pc \notin Holding
        <5> DEFINE k == [h EXCEPT !.pc = pc]
        <5>1. req' = [req EXCEPT ![w] = k] /\ k.pc = pc
          BY <3>1, <4>5
        <5> HIDE DEF k
        <5> QED
          BY <4>2, <5>1
      <4> QED
        BY <4>3, <4>4, <4>5
    <3> QED
      BY <1>2, <3>2, <3>3
  <2>6. /\ \A q \in Payments : Holds(w, q) \/ (db'[q] = db[q] /\ ledger'[q] = ledger[q])
        /\ p \notin overlapped => db'[p] = h.mem
    BY <2>1, <2>4, SaveLands, Zenon DEF RefundsInv
  <2>7. ASSUME k.pc \in Holding, p \notin overlapped
        PROVE  Fresh(k, db'[p], ledger'[p])
    <3>1. k.pc = "notifying" /\ k.mem = h.mem
      BY <2>5, <2>7
    <3>2. db'[p] = h.mem
      BY <2>6, <2>7
    <3>3. h.mem.refunded \in Int
      BY <2>3, HandlerFields, SMT DEF Row
    <3> HIDE DEF h
    <3> QED
      BY <3>1, <3>2, <3>3, SMT DEF Fresh
  <2>8. FreshCopies'
    BY <2>2, <2>4, <2>5, <2>6, <2>7, FreshStep, Zenon DEF RefundsInv
  <2>9. \A q \in Payments \ overlapped : db'[q].refunded = db[q].refunded
    BY <2>1, SaveKeepsRefunded
  <2> QED
    BY <2>4, <2>8, <2>9, LedgerKept, Zenon DEF RefundsInv
<1> QED
  BY <1>1, <1>2

\* The commit of a refund moves the row, its Refund rows and its adjustments
\* together.
LEMMA RefundCommitFresh ==
    ASSUME TypeOK, RefundsInv, NEW w \in Workers, RefundCommit(w)
    PROVE  RefundsInv'
<1> DEFINE h == req[w]
           p == h.pay
<1>1. h.pc = "dirty" /\ h.call.kind = "refund" /\ EndSave(w)
  BY DEF RefundCommit, At
<1>2. h.pc \in Holding
  BY <1>1 DEF Holding
<1>3. h \in Handler /\ p \in Payments /\ Holds(w, p)
  BY <1>2, HeldRow
<1>4. overlapped' = overlapped
  BY DEF RefundCommit, history
<1>5. /\ \A q \in Payments : q # p => db'[q] = db[q]
      /\ p \notin overlapped => db'[p] = h.mem
  BY <1>1, SaveLands, Zenon DEF RefundsInv
<1>6. /\ \A q \in Payments : q # p => ledger'[q] = ledger[q]
      /\ ledger'[p] =
            [count    |-> ledger[p].count + 1,
             total    |-> ledger[p].total + h.due,
             settled  |-> ledger[p].settled + IF db[p].settled THEN h.due ELSE 0,
             adjusted |-> ledger[p].adjusted + AdjustmentFor(h)]
  BY <1>3, Zenon DEF RefundCommit, TypeOK
<1>7. FreshCopies'
  <2> DEFINE k == [h EXCEPT !.pc = "announcing"]
  <2>1. req' = [req EXCEPT ![w] = k]
    BY Zenon DEF RefundCommit
  <2>2. k.pc \notin Holding
    BY <1>3, Zenon DEF Handler, Holding
  <2>3. \A q \in Payments :
          Holds(w, q) \/ (db'[q] = db[q] /\ ledger'[q] = ledger[q])
    BY <1>3, <1>5, <1>6
  <2> HIDE DEF k
  <2> QED
    BY <1>4, <2>1, <2>2, <2>3, FreshStep, Zenon DEF RefundsInv
<1>8. ASSUME p \notin overlapped
      PROVE  /\ ledger'[p].total = db'[p].refunded
             /\ ledger'[p].adjusted = ledger'[p].settled
             /\ MaxRefunds > 0 => ledger'[p].count <= MaxRefunds
  <2>1. Fresh(h, db[p], ledger[p])
    BY <1>2, <1>8, HeldRow
  <2>2. /\ h.mem.refunded = db[p].refunded + h.due
        /\ h.mem.settled = db[p].settled
        /\ h.count = ledger[p].count
        /\ UnderCap(h)
    BY <1>1, <2>1, Zenon DEF Fresh
  <2>3. /\ ledger[p].total = db[p].refunded
        /\ ledger[p].adjusted = ledger[p].settled
    BY <1>3, <1>8 DEF RefundsInv, LedgerExact, AdjustmentExact
  <2>4. db'[p] = h.mem
    BY <1>5, <1>8
  <2>5. ledger[p] \in Ledger
    BY <1>3 DEF TypeOK
  <2>6. MaxRefunds \in Nat
    BY PaymentsAssumption DEF PaymentsAssumption
  <2> DEFINE due == IF h.mem.settled THEN h.due ELSE 0
  <2>7. /\ ledger'[p].count = ledger[p].count + 1
         /\ ledger'[p].total = ledger[p].total + h.due
         /\ ledger'[p].settled = ledger[p].settled + due
         /\ ledger'[p].adjusted = ledger[p].adjusted + due
    <3>1. due = (IF db[p].settled THEN h.due ELSE 0) /\ due = AdjustmentFor(h)
      BY <2>2 DEF AdjustmentFor
    <3> HIDE DEF due, h
    <3> QED
      BY <1>6, <3>1, SMT
  <2> HIDE DEF due, h, p
  <2>8. ledger'[p].total = db'[p].refunded
    BY <2>2, <2>3, <2>4, <2>7
  <2>9. ledger'[p].adjusted = ledger'[p].settled
    BY <2>3, <2>7
  <2>10. ledger'[p].count = ledger[p].count + 1
    BY <2>7
  <2>11. ledger[p].count \in Nat
    BY <2>5, Zenon DEF Ledger
  <2>12. MaxRefunds > 0 => ledger[p].count < MaxRefunds
    BY <2>2, <2>6, SMT DEF UnderCap
  <2>13. MaxRefunds > 0 => ledger'[p].count <= MaxRefunds
    BY <2>6, <2>10, <2>11, <2>12, SMT
  <2> QED
    BY <2>8, <2>9, <2>13
<1>9. LedgerExact' /\ AdjustmentExact' /\ RefundCap'
  <2>1. \A q \in Payments \ overlapped :
          /\ ledger'[q].total = db'[q].refunded
          /\ ledger'[q].adjusted = ledger'[q].settled
          /\ MaxRefunds > 0 => ledger'[q].count <= MaxRefunds
    BY <1>5, <1>6, <1>8, Zenon
    DEF RefundsInv, LedgerExact, AdjustmentExact, RefundCap
  <2> QED
    BY <1>4, <2>1, Zenon DEF LedgerExact, AdjustmentExact, RefundCap
<1> QED
  BY <1>7, <1>9 DEF RefundsInv

\* processSplitsForPayment keeps the invariant.
LEMMA SplitFresh ==
    ASSUME TypeOK, RefundsInv, NEW w \in Workers,
           \/ SplitsFind(w) \/ SplitSend(w) \/ SplitSave(w) \/ SplitsFailed(w)
    PROVE  RefundsInv'
<1> DEFINE h == req[w]
           p == h.pay
<1>1. h.pc \in {"notifying", "splitting", "sent"}
  BY Zenon DEF SplitsFind, SplitSend, SplitSave, SplitsFailed
<1>2. h.pc \in Holding
  BY <1>1, SMT DEF Holding
<1>3. h \in Handler /\ p \in Payments
  BY <1>2, HeldRow
<1>4. UNCHANGED <<db, ledger, overlapped>>
  BY DEF SplitsFind, SplitSend, SplitSave, SplitsFailed, store, history
<1>5. p \notin overlapped =>
        /\ h.mem = db[p]
        /\ h.mem.refunded = db[p].refunded + 0
  BY <1>1, <1>2, HeldRow, SMT DEF Fresh, Holding
\* Program points inside the loop over the splits leave the copy alone.
<1>6. ASSUME NEW k, req' = [req EXCEPT ![w] = k], k.pay = p, k.mem = h.mem,
             k.call = h.call, k.pc \in {"splitting", "sent", "linking"}
      PROVE  RefundsInv'
  <2>1. p \notin overlapped => Fresh(k, db[p], ledger[p])
    <3> HIDE DEF h
    <3> QED
      BY <1>5, <1>6, SMT DEF Fresh
  <2> QED
    BY <1>2, <1>4, <1>6, <2>1, QuietStep, Zenon
<1>7. CASE SplitsFind(w)
  <2> DEFINE todo == PendingLegs(p)
             pc == IF todo = {} THEN "linking" ELSE "splitting"
             k == [h EXCEPT !.todo = todo, !.pc = pc]
  <2>1. req' = [req EXCEPT ![w] = k]
    BY <1>7, Zenon DEF SplitsFind
  <2>2. k.pay = p /\ k.mem = h.mem /\ k.call = h.call /\ k.pc = pc
    BY <1>3, Zenon DEF Handler
  <2>3. pc \in {"splitting", "sent", "linking"}
    OBVIOUS
  <2> HIDE DEF k, pc
  <2> QED
    BY <1>6, <2>1, <2>2, <2>3
<1>8. CASE SplitSend(w)
  <2>1. PICK s \in h.todo, returns \in BOOLEAN :
          req' = [req EXCEPT ![w].pc = "sent", ![w].leg = s, ![w].paid = returns]
    BY <1>8, Zenon DEF SplitSend
  <2> DEFINE k == [h EXCEPT !.pc = "sent", !.leg = s, !.paid = returns]
  <2>2. req' = [req EXCEPT ![w] = k]
    BY <2>1, Zenon
  <2>3. k.pay = p /\ k.mem = h.mem /\ k.call = h.call /\ k.pc = "sent"
    BY <1>3, Zenon DEF Handler
  <2> HIDE DEF k
  <2> QED
    BY <1>6, <2>2, <2>3
<1>9. CASE SplitSave(w)
  <2> DEFINE k == [h EXCEPT !.pc = "splitting", !.todo = @ \ {h.leg},
                     !.leg = NoLeg, !.paid = FALSE, !.bad = @ \/ ~h.paid]
  <2>1. req' = [req EXCEPT ![w] = k]
    BY <1>9, Zenon DEF SplitSave
  <2>2. k.pay = p /\ k.mem = h.mem /\ k.call = h.call /\ k.pc = "splitting"
    BY <1>3, Zenon DEF Handler
  <2> HIDE DEF k
  <2> QED
    BY <1>6, <2>1, <2>2
<1>10. CASE SplitsFailed(w)
  <2> DEFINE entity == [h.mem EXCEPT !.status = "PARTIALLY_COMPLETED"]
             cols == Diff(entity, db[p])
             k == [h EXCEPT !.pc = "redirty", !.mem = entity, !.cols = cols,
                            !.was = h.mem.status]
  <2>1. req' = [req EXCEPT ![w] = k]
    BY <1>10, Zenon DEF SplitsFailed
  <2>2. /\ k.pay = p /\ k.mem = entity /\ k.call = h.call
        /\ k.pc = "redirty" /\ k.cols = cols
    BY <1>3, Zenon DEF Handler
  <2>3. entity.refunded = h.mem.refunded /\ entity.settled = h.mem.settled
    BY <1>3, HandlerFields, Zenon DEF Row
  <2>4. p \notin overlapped => Fresh(k, db[p], ledger[p])
    <3> HIDE DEF k, entity, h, cols
    <3> QED
      BY <1>5, <2>2, <2>3, SMT DEF Fresh, cols
  <2> HIDE DEF k
  <2> QED
    BY <1>2, <1>4, <2>1, <2>2, <2>4, QuietStep, Zenon
<1> QED
  BY <1>7, <1>8, <1>9, <1>10

\* What a handler does after its last write keeps the invariant.
LEMMA TrailFresh ==
    ASSUME TypeOK, RefundsInv, NEW w \in Workers,
           SplitsAnnounce(w) \/ LinkCredit(w) \/ Dispatch(w)
    PROVE  RefundsInv'
<1>1. Active(w)
  <2>1. req[w].pc \in {"splitting", "splitDone", "linking", "announcing"}
    BY Zenon DEF SplitsAnnounce, LinkCredit, Dispatch
  <2> QED
    BY <2>1, SMT DEF Active
<1>2. UNCHANGED <<db, ledger, overlapped>>
  BY DEF SplitsAnnounce, LinkCredit, Dispatch, history
<1>3. \/ \E pc \in Trailing : req' = [req EXCEPT ![w].pc = pc]
      \/ Finish(w)
  <2>1. "linking" \in Trailing /\ "announcing" \in Trailing
    BY DEF Trailing
  <2> QED
    BY <2>1, Zenon DEF SplitsAnnounce, LinkCredit, Dispatch
<1> QED
  BY <1>1, <1>2, <1>3, QuietTrail, QuietFinish

\* A first read either finds the payment free, or marks it as overlapped.
LEMMA LoadFresh ==
    ASSUME TypeOK, RefundsInv, NEW w \in Workers, NEW c \in Calls,
           NEW p \in Payments, Load(w, c, p)
    PROVE  RefundsInv'
<1> DEFINE k == [pc |-> "loaded", call |-> c, pay |-> p, mem |-> db[p],
                 cols |-> {}, count |-> 0, due |-> 0, first |-> FALSE,
                 was |-> db[p].status, todo |-> {}, leg |-> NoLeg, paid |-> FALSE, bad |-> FALSE]
<1>1. req' = [req EXCEPT ![w] = k]
  BY Zenon DEF Load
<1>2. k.pc = "loaded" /\ k.pay = p /\ k.mem = db[p]
  BY Zenon
<1>3. UNCHANGED <<db, ledger>>
  BY DEF Load, store
<1>4. overlapped' = IF Contended(w, p) THEN overlapped \cup {p} ELSE overlapped
  BY DEF Load
<1> HIDE DEF k
<1>5. \A u \in Workers : req'[u] = IF u = w THEN k ELSE req[u]
  BY <1>1 DEF TypeOK
<1>6. FreshCopies'
  <2> SUFFICES ASSUME NEW q \in Payments, q \notin overlapped',
                      NEW v \in Workers, Holds(v, q)'
               PROVE  ~Contended(v, q)' /\ Fresh(req'[v], db[q], ledger[q])
    BY <1>3 DEF FreshCopies
  <2>1. q \notin overlapped /\ (q = p => ~Contended(w, p))
    BY <1>4, SMT
  <2>2. \A u \in Workers : Holds(u, q)' => Holds(u, q) \/ (u = w /\ q = p)
    BY <1>2, <1>5 DEF Holds
  <2>3. CASE v = w
    <3>1. q = p
      BY <1>2, <1>5, <2>3 DEF Holds
    <3>2. ~Contended(v, q)'
      BY <2>1, <2>2, <2>3, <3>1 DEF Contended
    <3>3. Fresh(k, db[p], ledger[p])
      <4>1. db[p].refunded \in Int
        BY SMT DEF TypeOK, Row
      <4>2. db[p].refunded = db[p].refunded + 0
        BY <4>1, SMT
      <4> QED
        BY <1>2, <4>2, SMT DEF Fresh
    <3> QED
      BY <1>5, <2>3, <3>1, <3>2, <3>3
  <2>4. CASE v # w
    <3>1. Holds(v, q)
      BY <2>2, <2>4
    <3>2. q # p
      BY <2>1, <2>4, <3>1 DEF Contended
    <3>3. ~Contended(v, q) /\ Fresh(req[v], db[q], ledger[q])
      BY <2>1, <3>1 DEF RefundsInv, FreshCopies
    <3> QED
      BY <1>5, <2>2, <2>4, <3>2, <3>3 DEF Contended
  <2> QED
    BY <2>3, <2>4
<1>7. overlapped \subseteq overlapped'
  BY <1>4
<1> QED
  BY <1>3, <1>6, <1>7, LedgerKept DEF RefundsInv

\* Crashes and the overdue sweep keep the invariant.
LEMMA OutsideFresh ==
    ASSUME TypeOK, RefundsInv
    PROVE  /\ \A w \in Workers : Cut(w) => RefundsInv'
           /\ \A p \in Payments : MarkOverdue(p) => RefundsInv'
<1>1. ASSUME NEW w \in Workers, Cut(w)
      PROVE  RefundsInv'
  BY <1>1, QuietFinish DEF Cut, store
<1>2. ASSUME NEW p \in Payments, MarkOverdue(p)
      PROVE  RefundsInv'
  <2>1. db' = [db EXCEPT ![p].status = "OVERDUE"] /\ UNCHANGED <<ledger, req>>
    BY <1>2 DEF MarkOverdue
  <2>2. overlapped' = IF \E w \in Workers : Holds(w, p)
                      THEN overlapped \cup {p} ELSE overlapped
    BY <1>2 DEF MarkOverdue
  <2>3. /\ \A q \in Payments : q # p => db'[q] = db[q]
        /\ db'[p].refunded = db[p].refunded
    BY <2>1, Zenon DEF TypeOK, Row
  <2>4. FreshCopies'
    <3> SUFFICES ASSUME NEW q \in Payments, q \notin overlapped',
                        NEW v \in Workers, Holds(v, q)
                 PROVE  ~Contended(v, q) /\ Fresh(req[v], db'[q], ledger[q])
      BY <2>1 DEF FreshCopies, Holds, Contended
    <3>1. q \notin overlapped /\ q # p
      BY <2>2, SMT
    <3> QED
      BY <2>3, <3>1 DEF RefundsInv, FreshCopies
  <2>5. /\ overlapped \subseteq overlapped'
        /\ \A q \in Payments \ overlapped : db'[q].refunded = db[q].refunded
    BY <2>2, <2>3
  <2> QED
    BY <2>1, <2>4, <2>5, LedgerKept DEF RefundsInv
<1> QED
  BY <1>1, <1>2

\* The invariant holds of payments that have just been created.
LEMMA InitFresh == Init => RefundsInv
<1> SUFFICES ASSUME Init PROVE RefundsInv
  OBVIOUS
<1>1. \A w \in Workers : req[w].pc \notin Holding
  BY DEF Init, Idle, Holding
<1>2. FreshCopies
  BY <1>1 DEF FreshCopies, Holds
<1>3. \A p \in Payments : /\ ledger[p].total = db[p].refunded
                         /\ ledger[p].adjusted = ledger[p].settled
                         /\ ledger[p].count = 0
  BY Zenon DEF Init
<1>4. MaxRefunds > 0 => 0 <= MaxRefunds
  BY PaymentsAssumption, SMT DEF PaymentsAssumption
<1> QED
  BY <1>2, <1>3, <1>4 DEF RefundsInv, LedgerExact, AdjustmentExact, RefundCap

\* Every step keeps the invariant.
LEMMA StepFresh ==
    ASSUME TypeOK, RefundsInv, [Next]_vars
    PROVE  RefundsInv'
<1>1. CASE UNCHANGED vars
  <2>1. UNCHANGED <<db, ledger, req, overlapped>>
    BY <1>1 DEF vars, store, history
  <2> QED
    BY <2>1
    DEF RefundsInv, FreshCopies, Holds, Contended, LedgerExact, AdjustmentExact, RefundCap
<1>2. ASSUME NEW w \in Workers, Step(w)
      PROVE  RefundsInv'
  BY <1>2, RefundFresh, RefundCommitFresh, StatusApplyFresh, CommitFresh,
     SplitFresh, TrailFresh, Zenon DEF Step
<1> QED
  BY <1>1, <1>2, LoadFresh, OutsideFresh, Zenon DEF Next

\* The invariant of the refunds holds of every behaviour.
LEMMA RefundsKept == Spec => []RefundsInv
<1>1. Init => RefundsInv
  BY InitFresh
<1>2. TypeOK /\ TypeOK' /\ RefundsInv /\ [Next]_vars => RefundsInv'
  BY StepFresh
<1> QED
  BY <1>1, <1>2, TypeCorrect, PTL DEF Spec

\* Without overlapping handlers every copy is fresh, and the Refund rows of a payment
\* add up to its refundedAmount.
THEOREM RefundsExact == Spec => [](FreshCopies /\ LedgerExact)
<1>1. RefundsInv => FreshCopies /\ LedgerExact
  BY DEF RefundsInv
<1> QED
  BY <1>1, RefundsKept, PTL

\* Without overlapping handlers no more refunds are committed than
\* PAYMENT_MAX_REFUNDS_PER_PAYMENT allows.
THEOREM RefundsCapped == Spec => []RefundCap
<1>1. RefundsInv => RefundCap
  BY DEF RefundsInv
<1> QED
  BY <1>1, RefundsKept, PTL

\* Without overlapping handlers the SettlementAdjustments of a payment add up to
\* what was refunded after its settlement.
THEOREM AdjustmentsExact == Spec => []AdjustmentExact
<1>1. RefundsInv => AdjustmentExact
  BY DEF RefundsInv
<1> QED
  BY <1>1, RefundsKept, PTL

----------------------------------------------------------------------------
(* The bound on refundedAmount: no handler, with a fresh copy or a stale   *)
(* one, ever makes the sum exceed the amount in that copy.                 *)

\* A handler keeps the bounds if its copy and all rows are within them afterwards.
LEMMA WithinStep ==
    ASSUME TypeOK, CopiesWithinAmount, NEW w \in Workers, NEW k,
           req' = [req EXCEPT ![w] = k],
           \/ k = Idle
           \/ /\ k.call.kind \in Serves[w]
              /\ Within(k.mem, k.pay),
           \A p \in Payments : Within(db'[p], p)
    PROVE  CopiesWithinAmount'
<1>1. \A u \in Workers : req'[u] = IF u = w THEN k ELSE req[u]
  BY DEF TypeOK
<1> SUFFICES ASSUME NEW u \in Workers, Active(u)'
             PROVE  /\ req'[u].call.kind \in Serves[u]
                    /\ Within(req'[u].mem, req'[u].pay)
  BY DEF CopiesWithinAmount, Within
<1>2. CASE u = w
  <2>1. k # Idle
    BY <1>1, <1>2 DEF Active, Idle
  <2> QED
    BY <1>1, <1>2, <2>1
<1>3. CASE u # w
  BY <1>1, <1>3, Zenon DEF CopiesWithinAmount, Active
<1> QED
  BY <1>2, <1>3

\* What a handler in progress may rely on.
LEMMA WithinRead ==
    ASSUME TypeOK, CopiesWithinAmount, NEW w \in Workers, Active(w)
    PROVE  /\ req[w] \in Handler /\ req[w].pay \in Payments
           /\ req[w].mem \in Row /\ req[w].call.kind \in Serves[w]
           /\ Within(req[w].mem, req[w].pay)
           /\ Within(db[req[w].pay], req[w].pay)
           /\ Amount[req[w].pay] \in Nat
<1>1. req[w] \in Handler /\ req[w].pay \in Payments /\ req[w].mem \in Row
  BY ActiveHandler, HandlerFields
<1>2. \A p \in Payments : Amount[p] \in Nat
  BY PaymentsAssumption DEF PaymentsAssumption
<1> QED
  BY <1>1, <1>2 DEF CopiesWithinAmount

\* A copy with the amounts of a row within bounds is within bounds.
LEMMA WithinCopied ==
    ASSUME NEW row, NEW copy, NEW p, Within(row, p),
           copy.amount = row.amount, copy.refunded = row.refunded
    PROVE  Within(copy, p)
  BY DEF Within

\* A step that leaves the rows alone and keeps or only restates the copy.
LEMMA WithinQuiet ==
    ASSUME TypeOK, CopiesWithinAmount, NEW w \in Workers, Active(w), NEW k,
           UNCHANGED db, req' = [req EXCEPT ![w] = k],
           k = Idle \/ (k.call = req[w].call /\ k.pay = req[w].pay
                          /\ Within(k.mem, k.pay))
    PROVE  CopiesWithinAmount'
<1>1. \A p \in Payments : Within(db'[p], p)
  BY DEF CopiesWithinAmount
<1>2. k = Idle \/ (k.call.kind \in Serves[w] /\ Within(k.mem, k.pay))
  BY WithinRead
<1> QED
  BY <1>1, <1>2, WithinStep, Zenon

\* A handler that ends without writing keeps the bounds.
LEMMA WithinFinish ==
    ASSUME TypeOK, CopiesWithinAmount, NEW w \in Workers, Active(w), Finish(w),
           UNCHANGED db
    PROVE  CopiesWithinAmount'
  BY WithinQuiet, Zenon DEF Finish

\* A handler that moves on keeps the bounds if the rows are within them.
LEMMA WithinPc ==
    ASSUME TypeOK, CopiesWithinAmount, NEW w \in Workers, Active(w), NEW pc,
           req' = [req EXCEPT ![w].pc = pc],
           \A p \in Payments : Within(db'[p], p)
    PROVE  CopiesWithinAmount'
<1> DEFINE k == [req[w] EXCEPT !.pc = pc]
<1>1. req[w] \in Handler
  BY WithinRead
<1>2. k.call = req[w].call /\ k.pay = req[w].pay /\ k.mem = req[w].mem
  BY <1>1, Zenon DEF Handler
<1>3. req' = [req EXCEPT ![w] = k]
  BY Zenon
<1> HIDE DEF k
<1>4. k.call.kind \in Serves[w] /\ Within(k.mem, k.pay)
  BY <1>2, WithinRead
<1> QED
  BY <1>3, <1>4, WithinStep, Zenon

\* A change of status, with the SELECT of its save(), keeps the bounds.
LEMMA WithinStartSave ==
    ASSUME TypeOK, CopiesWithinAmount, NEW w \in Workers, Active(w),
           NEW s, NEW first, UNCHANGED db,
           StartSave(w, [req[w].mem EXCEPT !.status = s], first)
    PROVE  CopiesWithinAmount'
<1> DEFINE h == req[w]
           entity == [h.mem EXCEPT !.status = s]
           cols == Diff(entity, db[h.pay])
           k == [h EXCEPT !.pc = "dirty", !.mem = entity, !.cols = cols, !.first = first,
                               !.was = req[w].mem.status]
<1>1. h \in Handler /\ h.mem \in Row /\ Within(h.mem, h.pay)
  BY WithinRead
<1>2. req' = [req EXCEPT ![w] = k]
  BY Zenon DEF StartSave
<1>3. k.call = h.call /\ k.pay = h.pay /\ k.mem = entity
  BY <1>1, Zenon DEF Handler
<1>4. entity.amount = h.mem.amount /\ entity.refunded = h.mem.refunded
  BY <1>1, Zenon DEF Row
<1> HIDE DEF entity, k
<1>5. Within(entity, h.pay)
  BY <1>1, <1>4, WithinCopied
<1> QED
  BY <1>2, <1>3, <1>5, WithinQuiet, Zenon

\* An UPDATE of any columns from a copy within bounds, however stale, stores a row
\* within bounds.
LEMMA WithinSave ==
    ASSUME TypeOK, CopiesWithinAmount, NEW w \in Workers, Active(w), EndSave(w)
    PROVE  \A p \in Payments : Within(db'[p], p)
<1> DEFINE p == req[w].pay
           new == Patch(db[p], req[w].mem, req[w].cols)
<1>1. Within(req[w].mem, p) /\ Within(db[p], p) /\ p \in Payments
  BY WithinRead
<1>2. /\ new.amount \in {req[w].mem.amount, db[p].amount}
      /\ new.refunded \in {req[w].mem.refunded, db[p].refunded}
  BY SMT DEF Patch
<1>3. db' = [db EXCEPT ![p] = new]
  BY Zenon DEF EndSave
<1> HIDE DEF new
<1>4. Within(new, p)
  BY <1>1, <1>2 DEF Within
<1> QED
  BY <1>1, <1>3, <1>4, Zenon DEF TypeOK, CopiesWithinAmount

\* refund() keeps the bounds: it asks for no more than its copy leaves.
LEMMA WithinRefund ==
    ASSUME TypeOK, CopiesWithinAmount, NEW w \in Workers,
           \/ RefundCount(w) \/ RefundApply(w) \/ RefundReject(w)
           \/ RefundCommit(w) \/ RefundFails(w)
    PROVE  CopiesWithinAmount'
<1> DEFINE h == req[w]
<1>1. Active(w) /\ h.call.kind = "refund"
  <2>1. \E pc \in {"loaded", "counted", "dirty"} : At(w, "refund", pc)
    BY Zenon
    DEF RefundCount, RefundApply, RefundReject, RefundCommit, RefundFails
  <2> QED
    BY <2>1, SMT DEF At, Active
<1>2. /\ h \in Handler /\ h.pay \in Payments /\ h.mem \in Row
      /\ Within(h.mem, h.pay) /\ Amount[h.pay] \in Nat
  BY <1>1, WithinRead
<1>3. CASE RefundReject(w) \/ RefundFails(w)
  BY <1>1, <1>3, WithinFinish DEF RefundReject, RefundFails, store
<1>4. CASE RefundCount(w)
  <2> DEFINE k == [h EXCEPT !.pc = "counted", !.count = ledger[h.pay].count]
  <2>1. req' = [req EXCEPT ![w] = k] /\ UNCHANGED db
    BY <1>4, Zenon DEF RefundCount, store
  <2>2. k.call = h.call /\ k.pay = h.pay /\ k.mem = h.mem
    BY <1>2, Zenon DEF Handler
  <2> HIDE DEF k
  <2> QED
    BY <1>1, <1>2, <2>1, <2>2, WithinQuiet, Zenon
<1>5. CASE RefundApply(w)
  <2> DEFINE amount == RefundAmount(h)
             entity == Refunded(h.mem, amount)
             cols == Diff(entity, db[h.pay])
             k == [h EXCEPT !.pc = "dirty", !.mem = entity, !.cols = cols,
                            !.due = amount, !.was = h.mem.status]
  <2>1. req' = [req EXCEPT ![w] = k] /\ UNCHANGED db
    BY <1>5, Zenon DEF RefundApply, store
  <2>2. k.call = h.call /\ k.pay = h.pay /\ k.mem = entity
    BY <1>2, Zenon DEF Handler
  <2>3. h.call.amount \in Nat /\ amount <= LeftToRefund(h.mem)
    BY <1>1, <1>2, <1>5, HandlerFields, RefundCall DEF RefundApply
  <2>4. amount \in 0..(h.mem.amount - h.mem.refunded)
    BY <1>2, <2>3, SMT DEF Within, Row, RefundAmount, LeftToRefund
  <2>5. /\ entity.amount = h.mem.amount
        /\ entity.refunded = h.mem.refunded + amount
    BY <1>2, Zenon DEF Refunded, Row
  <2> HIDE DEF k, entity, amount
  <2>6. Within(entity, h.pay)
    BY <1>2, <2>4, <2>5, SMT DEF Within, Row
  <2> QED
    BY <1>1, <2>1, <2>2, <2>6, WithinQuiet, Zenon
<1>6. CASE RefundCommit(w)
  BY <1>1, <1>6, WithinSave, WithinPc, Zenon DEF RefundCommit
<1> QED
  BY <1>3, <1>4, <1>5, <1>6

\* The in-memory changes of the other handlers keep the bounds.
LEMMA WithinStatus ==
    ASSUME TypeOK, CopiesWithinAmount, NEW w \in Workers,
           "simulate" \notin Serves[w],
           \/ WebhookApply(w) \/ CancelApply(w) \/ ExpireApply(w)
           \/ HorizonApply(w) \/ SimulateApply(w) \/ StatusReject(w)
    PROVE  CopiesWithinAmount'
<1>1. Active(w)
  <2>1. req[w].pc = "loaded"
    BY Zenon DEF At, WebhookApply, CancelApply, ExpireApply, HorizonApply,
                 SimulateApply, StatusReject
  <2> QED
    BY <2>1 DEF Active
<1>2. UNCHANGED db
  BY DEF WebhookApply, CancelApply, ExpireApply, HorizonApply, SimulateApply,
         StatusReject, store
<1>3. ~SimulateApply(w)
  BY <1>1, WithinRead, Zenon DEF SimulateApply, At
<1>4. CASE StatusReject(w)
  BY <1>1, <1>2, <1>4, WithinFinish DEF StatusReject
<1>5. CASE WebhookApply(w) \/ CancelApply(w) \/ ExpireApply(w) \/ HorizonApply(w)
  <2>1. \E s, first : StartSave(w, [req[w].mem EXCEPT !.status = s], first)
    BY <1>5, Zenon DEF WebhookApply, CancelApply, ExpireApply, HorizonApply
  <2> QED
    BY <1>1, <1>2, <2>1, WithinStartSave, Zenon
<1> QED
  BY <1>3, <1>4, <1>5

\* The settlement stamp and the UPDATEs keep the bounds.
LEMMA WithinCommit ==
    ASSUME TypeOK, CopiesWithinAmount, NEW w \in Workers,
           \/ SettleCommit(w) \/ CommitCompleting(w)
           \/ Commit(w) \/ SplitsFailedCommit(w)
    PROVE  CopiesWithinAmount'
<1>1. CASE SettleCommit(w)
  <2> DEFINE p == req[w].pay
  <2>1. Active(w)
    BY <1>1, SMT DEF SettleCommit, At, Active
  <2>2. p \in Payments /\ Within(db[p], p)
    BY <2>1, WithinRead
  <2>3. db' = [db EXCEPT ![p].settled = TRUE]
    BY <1>1 DEF SettleCommit
  <2>4. /\ db'[p].amount = db[p].amount /\ db'[p].refunded = db[p].refunded
        /\ \A q \in Payments : q # p => db'[q] = db[q]
    BY <2>2, <2>3, Zenon DEF TypeOK, Row
  <2>5. \A q \in Payments : Within(db'[q], q)
    BY <2>2, <2>4, WithinCopied DEF CopiesWithinAmount
  <2> QED
    BY <1>1, <2>5, WithinStep, Zenon DEF SettleCommit, Finish
<1>2. CASE CommitCompleting(w) \/ Commit(w) \/ SplitsFailedCommit(w)
  <2>1. req[w].pc \in {"dirty", "redirty"} /\ EndSave(w)
    BY <1>2, Zenon DEF CommitCompleting, Commit, SplitsFailedCommit
  <2>2. Active(w)
    BY <2>1, SMT DEF Active
  <2>3. \A p \in Payments : Within(db'[p], p)
    BY <2>1, <2>2, WithinSave
  <2>4. (\E pc : req' = [req EXCEPT ![w].pc = pc]) \/ Finish(w)
    BY <1>2, Zenon DEF CommitCompleting, Commit, SplitsFailedCommit
  <2>5. CASE Finish(w)
    BY <2>3, <2>5, WithinStep, Zenon DEF Finish
  <2> QED
    BY <2>2, <2>3, <2>4, <2>5, WithinPc, Zenon
<1> QED
  BY <1>1, <1>2

\* processSplitsForPayment keeps the bounds.
LEMMA WithinSplit ==
    ASSUME TypeOK, CopiesWithinAmount, NEW w \in Workers,
           \/ SplitsFind(w) \/ SplitSend(w) \/ SplitSave(w) \/ SplitsFailed(w)
    PROVE  CopiesWithinAmount'
<1> DEFINE h == req[w]
<1>1. Active(w)
  <2>1. h.pc \in {"notifying", "splitting", "sent"}
    BY Zenon DEF SplitsFind, SplitSend, SplitSave, SplitsFailed
  <2> QED
    BY <2>1, SMT DEF Active
<1>2. h \in Handler /\ h.mem \in Row /\ Within(h.mem, h.pay)
  BY <1>1, WithinRead
<1>3. UNCHANGED db
  BY DEF SplitsFind, SplitSend, SplitSave, SplitsFailed, store
<1>4. PICK k : /\ req' = [req EXCEPT ![w] = k]
               /\ k.call = h.call /\ k.pay = h.pay
               /\ k.mem.amount = h.mem.amount
               /\ k.mem.refunded = h.mem.refunded
  <2>1. CASE SplitsFind(w)
    <3> DEFINE k == [h EXCEPT !.todo = PendingLegs(h.pay),
                       !.pc = IF PendingLegs(h.pay) = {} THEN "linking"
                                                         ELSE "splitting"]
    <3>1. req' = [req EXCEPT ![w] = k]
      BY <2>1, Zenon DEF SplitsFind
    <3>2. k.call = h.call /\ k.pay = h.pay /\ k.mem = h.mem
      BY <1>2, Zenon DEF Handler
    <3> HIDE DEF k
    <3> QED
      BY <3>1, <3>2
  <2>2. CASE SplitSend(w)
    <3>1. PICK s \in h.todo, returns \in BOOLEAN :
            req' = [req EXCEPT ![w].pc = "sent", ![w].leg = s, ![w].paid = returns]
      BY <2>2, Zenon DEF SplitSend
    <3> DEFINE k == [h EXCEPT !.pc = "sent", !.leg = s, !.paid = returns]
    <3>2. req' = [req EXCEPT ![w] = k]
      BY <3>1, Zenon
    <3>3. k.call = h.call /\ k.pay = h.pay /\ k.mem = h.mem
      BY <1>2, Zenon DEF Handler
    <3> HIDE DEF k
    <3> QED
      BY <3>2, <3>3
  <2>3. CASE SplitSave(w)
    <3> DEFINE k == [h EXCEPT !.pc = "splitting", !.todo = @ \ {h.leg},
                       !.leg = NoLeg, !.paid = FALSE, !.bad = @ \/ ~h.paid]
    <3>1. req' = [req EXCEPT ![w] = k]
      BY <2>3, Zenon DEF SplitSave
    <3>2. k.call = h.call /\ k.pay = h.pay /\ k.mem = h.mem
      BY <1>2, Zenon DEF Handler
    <3> HIDE DEF k
    <3> QED
      BY <3>1, <3>2
  <2>4. CASE SplitsFailed(w)
    <3> DEFINE entity == [h.mem EXCEPT !.status = "PARTIALLY_COMPLETED"]
               cols == Diff(entity, db[h.pay])
               k == [h EXCEPT !.pc = "redirty", !.mem = entity, !.cols = cols,
                              !.was = h.mem.status]
    <3>1. req' = [req EXCEPT ![w] = k]
      BY <2>4, Zenon DEF SplitsFailed
    <3>2. k.call = h.call /\ k.pay = h.pay /\ k.mem = entity
      BY <1>2, Zenon DEF Handler
    <3>3. entity.amount = h.mem.amount /\ entity.refunded = h.mem.refunded
      BY <1>2, Zenon DEF Row
    <3> HIDE DEF k, entity
    <3> QED
      BY <3>1, <3>2, <3>3
  <2> QED
    BY <2>1, <2>2, <2>3, <2>4
<1>5. Within(k.mem, k.pay)
  BY <1>2, <1>4, WithinCopied
<1> QED
  BY <1>1, <1>3, <1>4, <1>5, WithinQuiet, Zenon

\* What a handler does after its last write keeps the bounds.
LEMMA WithinTrail ==
    ASSUME TypeOK, CopiesWithinAmount, NEW w \in Workers,
           SplitsAnnounce(w) \/ LinkCredit(w) \/ Dispatch(w)
    PROVE  CopiesWithinAmount'
<1>1. Active(w)
  <2>1. req[w].pc \in {"splitting", "splitDone", "linking", "announcing"}
    BY Zenon DEF SplitsAnnounce, LinkCredit, Dispatch
  <2> QED
    BY <2>1, SMT DEF Active
<1>2. UNCHANGED db
  BY DEF SplitsAnnounce, LinkCredit, Dispatch
<1>3. \A p \in Payments : Within(db'[p], p)
  BY <1>2 DEF CopiesWithinAmount
<1>4. (\E pc : req' = [req EXCEPT ![w].pc = pc]) \/ Finish(w)
  BY Zenon DEF SplitsAnnounce, LinkCredit, Dispatch
<1> QED
  BY <1>1, <1>2, <1>3, <1>4, WithinPc, WithinFinish, Zenon

\* First reads, crashes and the overdue sweep keep the bounds.
LEMMA WithinOutside ==
    ASSUME TypeOK, CopiesWithinAmount
    PROVE  /\ \A w \in Workers, c \in Calls, p \in Payments :
                Load(w, c, p) => CopiesWithinAmount'
           /\ \A w \in Workers : Cut(w) => CopiesWithinAmount'
           /\ \A p \in Payments : MarkOverdue(p) => CopiesWithinAmount'
<1>1. ASSUME NEW w \in Workers, NEW c \in Calls, NEW p \in Payments, Load(w, c, p)
      PROVE  CopiesWithinAmount'
  <2> DEFINE k == [pc |-> "loaded", call |-> c, pay |-> p, mem |-> db[p],
                   cols |-> {}, count |-> 0, due |-> 0, first |-> FALSE,
                   was |-> db[p].status, todo |-> {}, leg |-> NoLeg, paid |-> FALSE, bad |-> FALSE]
  <2>1. /\ req' = [req EXCEPT ![w] = k] /\ UNCHANGED db
        /\ c.kind \in Serves[w]
    BY <1>1, Zenon DEF Load, store
  <2>2. k.call = c /\ k.pay = p /\ k.mem = db[p]
    BY Zenon
  <2> HIDE DEF k
  <2>3. \A q \in Payments : Within(db'[q], q)
    BY <2>1 DEF CopiesWithinAmount
  <2>4. k.call.kind \in Serves[w] /\ Within(k.mem, k.pay)
    BY <2>1, <2>2 DEF CopiesWithinAmount
  <2> QED
    BY <2>1, <2>3, <2>4, WithinStep, Zenon
<1>2. ASSUME NEW w \in Workers, Cut(w)
      PROVE  CopiesWithinAmount'
  BY <1>2, WithinFinish DEF Cut, store
<1>3. ASSUME NEW p \in Payments, MarkOverdue(p)
      PROVE  CopiesWithinAmount'
  <2>1. db' = [db EXCEPT ![p].status = "OVERDUE"] /\ UNCHANGED req
    BY <1>3 DEF MarkOverdue
  <2>2. /\ db'[p].amount = db[p].amount /\ db'[p].refunded = db[p].refunded
        /\ \A q \in Payments : q # p => db'[q] = db[q]
    BY <2>1, Zenon DEF TypeOK, Row
  <2>3. \A q \in Payments : Within(db'[q], q)
    BY <2>2, WithinCopied DEF CopiesWithinAmount
  <2> QED
    BY <2>1, <2>3 DEF CopiesWithinAmount, Active, Within
<1> QED
  BY <1>1, <1>2, <1>3

\* Every step keeps the bounds.
LEMMA WithinNext ==
    ASSUME \A w \in Workers : "simulate" \notin Serves[w],
           TypeOK, CopiesWithinAmount, [Next]_vars
    PROVE  CopiesWithinAmount'
<1>1. CASE UNCHANGED vars
  BY <1>1 DEF vars, store, CopiesWithinAmount, Active, Within
<1>2. ASSUME NEW w \in Workers, Step(w)
      PROVE  CopiesWithinAmount'
  BY <1>2, WithinRefund, WithinStatus, WithinCommit, WithinSplit, WithinTrail,
     Zenon DEF Step
<1> QED
  BY <1>1, <1>2, WithinOutside, Zenon DEF Next

\* refundedAmount stays between zero and the amount in every instance that does
\* not serve simulate, however handlers overlap and whoever crashes.
THEOREM RefundsBounded ==
    ASSUME \A w \in Workers : "simulate" \notin Serves[w]
    PROVE  Spec => []RefundedWithinAmount
<1>1. Init => CopiesWithinAmount
  <2> SUFFICES ASSUME Init PROVE CopiesWithinAmount
    OBVIOUS
  <2>1. \A w \in Workers : ~Active(w)
    BY DEF Init, Active, Idle
  <2>2. \A p \in Payments : Amount[p] \in Nat
    BY PaymentsAssumption DEF PaymentsAssumption
  <2>3. \A p \in Payments : db[p].amount = Amount[p] /\ db[p].refunded = 0
    BY Zenon DEF Init
  <2>4. \A p \in Payments : Within(db[p], p)
    BY <2>2, <2>3, SMT DEF Within
  <2> QED
    BY <2>1, <2>4 DEF CopiesWithinAmount
<1>2. TypeOK /\ CopiesWithinAmount /\ [Next]_vars => CopiesWithinAmount'
  BY WithinNext
<1>3. CopiesWithinAmount => RefundedWithinAmount
  BY DEF CopiesWithinAmount, Within, RefundedWithinAmount
<1> QED
  BY <1>1, <1>2, <1>3, TypeCorrect, PTL DEF Spec

----------------------------------------------------------------------------
(* Payouts: which legs are still to be paid.                               *)

\* What PayoutInv says of a payment p that only slot w may hold.
InOrder(w, p) ==
    /\ Holds(w, p) => Orderly(req[w], p)
    /\ p \notin cut =>
          \A s \in Legs[p] :
             /\ sent[p][s] <= 1
             /\ s \in PendingLegs(p) =>
                  \/ sent[p][s] = 0
                  \/ Holds(w, p) /\ req[w].pc = "sent" /\ req[w].leg = s
    /\ Unforced(p) /\ db[p].status = "PARTIALLY_COMPLETED" => HasFailedLeg(p)

\* A step of slot w leaves the other slots alone.
Alone(w) == \A v \in Workers \ {w} : req'[v] = req[v]

\* What a handler relies on does not change with the row, the legs and the handler.
LEMMA OrderlyKept ==
    ASSUME NEW p \in Payments, NEW v \in Workers, req'[v] = req[v],
           db'[p] = db[p], split'[p] = split[p], simulated \subseteq simulated',
           Orderly(req[v], p)
    PROVE  Orderly(req[v], p)'
<1>1. PendingLegs(p)' = PendingLegs(p) /\ HasFailedLeg(p)' = HasFailedLeg(p)
  BY DEF PendingLegs, HasFailedLeg
<1>3. Unforced(p)' => Unforced(p)
  BY DEF Unforced
<1> QED
  BY <1>1, <1>3, Zenon DEF Orderly

\* While slot w holds p without overlap, the invariant says of p what it says of w.
LEMMA InOrderHeld ==
    ASSUME TypeOK, RefundsInv, PayoutInv, NEW w \in Workers, NEW p \in Payments,
           p \notin overlapped, Holds(w, p)
    PROVE  /\ InOrder(w, p) /\ Orderly(req[w], p)
           /\ Fresh(req[w], db[p], ledger[p])
           /\ ~Contended(w, p)
<1>1. ~Contended(w, p) /\ Fresh(req[w], db[p], ledger[p])
  BY DEF RefundsInv, FreshCopies
<1>2. Orderly(req[w], p)
  BY DEF PayoutInv, OrderlyHandlers
<1>3. ASSUME p \notin cut, NEW s \in Legs[p]
      PROVE  /\ sent[p][s] <= 1
             /\ s \in PendingLegs(p) =>
                  \/ sent[p][s] = 0
                  \/ Holds(w, p) /\ req[w].pc = "sent" /\ req[w].leg = s
  BY <1>1, <1>3, Zenon DEF PayoutInv, PendingUnpaid, LegPaidOnce, Contended
<1>4. Unforced(p) /\ db[p].status = "PARTIALLY_COMPLETED" => HasFailedLeg(p)
  BY Zenon DEF PayoutInv, PartialHasFailedLeg, Unforced
<1> QED
  BY <1>1, <1>2, <1>3, <1>4, Zenon DEF InOrder

\* A step of slot w that changes only the payment it holds keeps the invariant if it
\* keeps what the invariant says of that payment.
LEMMA PayoutStep ==
    ASSUME TypeOK, RefundsInv, PayoutInv, NEW w \in Workers, Alone(w),
           overlapped' = overlapped, cut \subseteq cut', simulated \subseteq simulated',
           \A p \in Payments :
              Holds(w, p) \/ (db'[p] = db[p] /\ split'[p] = split[p] /\ sent'[p] = sent[p]),
           \A p \in Payments : Holds(w, p)' => Holds(w, p),
           \A p \in Payments : p \notin overlapped /\ Holds(w, p) => InOrder(w, p)'
    PROVE  PayoutInv'
<1>1. ASSUME NEW p \in Payments, p \notin overlapped, Holds(w, p)
      PROVE  \A v \in Workers \ {w} : ~Holds(v, p)'
  BY <1>1, InOrderHeld, Zenon DEF Alone, Contended, Holds
<1>2. OrderlyHandlers'
  <2> SUFFICES ASSUME NEW p \in Payments, p \notin overlapped, NEW v \in Workers,
                      Holds(v, p)'
               PROVE  Orderly(req[v], p)'
    BY DEF OrderlyHandlers
  <2>1. CASE Holds(w, p)
    BY <2>1, <1>1, Zenon DEF InOrder
  <2>2. CASE ~Holds(w, p)
    <3>1. v # w
      BY <2>2
    <3>2. Holds(v, p) /\ req'[v] = req[v]
      BY <3>1, Zenon DEF Holds, Alone
    <3>3. Orderly(req[v], p)
      BY <3>2, Zenon DEF PayoutInv, OrderlyHandlers
    <3> QED
      BY <2>2, <3>2, <3>3, OrderlyKept, Zenon
  <2> QED
    BY <2>1, <2>2
<1>3. PendingUnpaid' /\ LegPaidOnce'
  <2> SUFFICES ASSUME NEW p \in Payments, p \notin overlapped, p \notin cut',
                      NEW s \in Legs[p]
               PROVE  /\ sent'[p][s] <= 1
                      /\ s \in PendingLegs(p)' =>
                           \/ sent'[p][s] = 0
                           \/ \E v \in Workers :
                                (Holds(v, p) /\ req[v].pc = "sent" /\ req[v].leg = s)'
    <3>1. \A p \in Payments : PendingLegs(p)' \subseteq Legs[p]
      BY DEF PendingLegs
    <3> QED
      BY <3>1, Zenon DEF PendingUnpaid, LegPaidOnce
  <2>1. CASE Holds(w, p)
    BY <2>1, Zenon DEF InOrder
  <2>2. CASE ~Holds(w, p)
    <3>1. sent'[p] = sent[p] /\ PendingLegs(p)' = PendingLegs(p) /\ p \notin cut
      BY <2>2 DEF PendingLegs
    <3>2. \A v \in Workers : Holds(v, p) => req'[v] = req[v]
      BY <2>2, Zenon DEF Alone
    <3>3. sent[p][s] <= 1
      BY <3>1, Zenon DEF PayoutInv, LegPaidOnce
    <3>4. s \in PendingLegs(p) =>
             \/ sent[p][s] = 0
             \/ \E v \in Workers : Holds(v, p) /\ req[v].pc = "sent" /\ req[v].leg = s
      BY <3>1, Zenon DEF PayoutInv, PendingUnpaid
    <3> QED
      BY <3>1, <3>2, <3>3, <3>4, Zenon DEF Holds
  <2> QED
    BY <2>1, <2>2
<1>4. PartialHasFailedLeg'
  <2> SUFFICES ASSUME NEW p \in Payments, p \notin overlapped, Unforced(p)',
                      db'[p].status = "PARTIALLY_COMPLETED"
               PROVE  HasFailedLeg(p)'
    BY DEF PartialHasFailedLeg
  <2>1. CASE Holds(w, p)
    BY <2>1, Zenon DEF InOrder
  <2>2. CASE ~Holds(w, p)
    BY <2>2, Zenon DEF PayoutInv, PartialHasFailedLeg, Unforced, HasFailedLeg
  <2> QED
    BY <2>1, <2>2
<1> QED
  BY <1>2, <1>3, <1>4 DEF PayoutInv

\* A handler that touches no row and no leg keeps the invariant if what it relies on
\* afterwards holds; it may end, or go on past its last write.
LEMMA LocalPayout ==
    ASSUME TypeOK, RefundsInv, PayoutInv, NEW w \in Workers, Alone(w),
           UNCHANGED <<db, split, sent, overlapped, cut>>,
           simulated \subseteq simulated', req[w].pc # "sent",
           req'[w].pc \in Holding => req[w].pc \in Holding /\ req'[w].pay = req[w].pay,
           \A p \in Payments \ overlapped :
              Holds(w, p) /\ Holds(w, p)' => Orderly(req[w], p)'
    PROVE  PayoutInv'
<1>1. \A p \in Payments : Holds(w, p)' => Holds(w, p)
  BY Zenon DEF Holds
<1>2. ASSUME NEW p \in Payments, p \notin overlapped, Holds(w, p)
      PROVE  InOrder(w, p)'
  <2>1. InOrder(w, p)
    BY <1>2, InOrderHeld
  <2>2. /\ PendingLegs(p)' = PendingLegs(p) /\ HasFailedLeg(p)' = HasFailedLeg(p)
        /\ Unforced(p)' => Unforced(p)
    BY DEF PendingLegs, HasFailedLeg, Unforced
  <2> QED
    BY <1>2, <2>1, <2>2, Zenon DEF InOrder
<1> QED
  BY <1>1, <1>2, PayoutStep, Zenon

\* Only slot w changes when its handler does.
LEMMA AloneSlot ==
    ASSUME TypeOK, NEW w \in Workers, NEW k, req' = [req EXCEPT ![w] = k]
    PROVE  Alone(w) /\ req'[w] = k
  BY Zenon DEF TypeOK, Alone

\* A handler that ends without writing keeps the invariant.
LEMMA EndPayout ==
    ASSUME TypeOK, RefundsInv, PayoutInv, NEW w \in Workers, Finish(w),
           UNCHANGED <<db, split, sent, overlapped, cut, simulated>>,
           req[w].pc # "sent"
    PROVE  PayoutInv'
<1>1. Alone(w) /\ req'[w] = Idle
  BY AloneSlot, Zenon DEF Finish
<1>2. req'[w].pc \notin Holding
  BY <1>1 DEF Idle, Holding
<1>3. \A p \in Payments : ~Holds(w, p)'
  BY <1>2 DEF Holds
<1> QED
  BY <1>1, <1>2, <1>3, LocalPayout, Zenon

\* A handler that goes on past its last write keeps the invariant.
LEMMA TrailPayout ==
    ASSUME TypeOK, RefundsInv, PayoutInv, NEW w \in Workers, Active(w),
           NEW pc \in Trailing, req' = [req EXCEPT ![w].pc = pc],
           UNCHANGED <<db, split, sent, overlapped, cut, simulated>>,
           req[w].pc # "sent"
    PROVE  PayoutInv'
<1> DEFINE k == [req[w] EXCEPT !.pc = pc]
<1>1. k.pc = pc
  BY ActiveHandler, Zenon DEF Handler
<1>2. req' = [req EXCEPT ![w] = k]
  BY Zenon
<1> HIDE DEF k
<1>3. Alone(w) /\ req'[w] = k
  BY <1>2, AloneSlot, Zenon
<1>4. req'[w].pc \notin Holding
  BY <1>1, <1>3, SMT DEF Holding, Trailing
<1>5. \A p \in Payments : ~Holds(w, p)'
  BY <1>4 DEF Holds
<1> QED
  BY <1>3, <1>4, <1>5, LocalPayout, Zenon

\* A change of status, and the SELECT of its save(), keeps the invariant if it does not
\* claim a failed leg.
LEMMA StartSavePayout ==
    ASSUME TypeOK, RefundsInv, PayoutInv, NEW w \in Workers, NEW entity, NEW first,
           req[w].pc = "loaded", StartSave(w, entity, first),
           UNCHANGED <<db, split, sent, overlapped, cut>>,
           simulated \subseteq simulated',
           \A p \in Payments \ overlapped :
              Holds(w, p) /\ Unforced(p)' => entity.status # "PARTIALLY_COMPLETED"
    PROVE  PayoutInv'
<1> DEFINE cols == Diff(entity, db[req[w].pay])
           k == [req[w] EXCEPT !.pc = "dirty", !.mem = entity,
                               !.cols = cols, !.first = first,
                               !.was = req[w].mem.status]
<1>1. req[w].pc \in Holding
  BY DEF Holding
<1>2. req[w] \in Handler
  BY <1>1, HeldRow
<1>3. k.pc = "dirty" /\ k.mem = entity /\ k.pay = req[w].pay /\ k.bad = req[w].bad
  BY <1>2, Zenon DEF Handler
<1>4. req' = [req EXCEPT ![w] = k]
  BY Zenon DEF StartSave
<1> HIDE DEF k
<1>5. Alone(w) /\ req'[w] = k
  BY <1>4, AloneSlot, Zenon
<1>6. ASSUME NEW p \in Payments \ overlapped, Holds(w, p)
      PROVE  Orderly(req[w], p)'
  <2>1. Orderly(req[w], p)
    BY <1>6, InOrderHeld
  <2>3. Unforced(p)' => entity.status # "PARTIALLY_COMPLETED"
    BY <1>6, Zenon
  <2>4. (Unforced(p)' => Unforced(p)) /\ HasFailedLeg(p)' = HasFailedLeg(p)
    BY DEF Unforced, HasFailedLeg
  <2>5. Unforced(p) /\ req[w].bad => HasFailedLeg(p)
    BY <2>1, Zenon DEF Orderly
  <2> QED
    BY <1>3, <1>5, <2>3, <2>4, <2>5, SMT DEF Orderly
<1> QED
  BY <1>1, <1>3, <1>5, <1>6, LocalPayout, Zenon

\* The handlers that set a status keep the invariant.
LEMMA StatusApplyPayout ==
    ASSUME TypeOK, RefundsInv, PayoutInv, NEW w \in Workers,
           \/ WebhookApply(w) \/ CancelApply(w) \/ ExpireApply(w)
           \/ HorizonApply(w) \/ SimulateApply(w) \/ StatusReject(w)
    PROVE  PayoutInv'
<1> DEFINE h == req[w]
<1>1. h.pc = "loaded"
  BY Zenon DEF WebhookApply, CancelApply, ExpireApply, HorizonApply, SimulateApply,
               StatusReject, At
<1>2. h \in Handler /\ h.mem \in Row
  BY <1>1, HeldRow, HandlerFields, SMT DEF Holding
<1>3. \A s : [h.mem EXCEPT !.status = s].status = s
  BY <1>2, Zenon DEF Row
<1>4. CASE WebhookApply(w)
  <2>1. h.call.kind = "webhook" /\ h.call.status \in WebhookStatuses
    BY <1>2, <1>4, HandlerFields, SMT DEF WebhookApply, At, Calls, JobKinds
  <2> DEFINE entity == [h.mem EXCEPT !.status = h.call.status]
  <2>2. entity.status = h.call.status
    BY <1>3
  <2>5. /\ StartSave(w, entity, h.mem.status # "COMPLETED")
        /\ UNCHANGED <<db, split, sent, overlapped, cut, simulated>>
    BY <1>4 DEF WebhookApply, store, history
  <2> HIDE DEF entity
  <2>4. \A p \in Payments : Unforced(p)' => entity.status # "PARTIALLY_COMPLETED"
    BY <2>1, <2>2 DEF Unforced
  <2> QED
    BY <1>1, <2>4, <2>5, StartSavePayout
<1>5. CASE CancelApply(w) \/ ExpireApply(w) \/ HorizonApply(w)
  <2>1. PICK s \in {"CANCELLED", "EXPIRED", "COMPLETED"} :
            StartSave(w, [h.mem EXCEPT !.status = s], FALSE)
    BY <1>5, Zenon DEF CancelApply, ExpireApply, HorizonApply
  <2>2. UNCHANGED <<db, split, sent, overlapped, cut, simulated>>
    BY <1>5, Zenon DEF CancelApply, ExpireApply, HorizonApply, store, history
  <2> DEFINE entity == [h.mem EXCEPT !.status = s]
  <2>3. entity.status = s
    BY <1>3
  <2>4. StartSave(w, entity, FALSE)
    BY <2>1
  <2> HIDE DEF entity
  <2>5. entity.status # "PARTIALLY_COMPLETED"
    BY <2>3
  <2> QED
    BY <1>1, <2>2, <2>4, <2>5, StartSavePayout
<1>6. CASE SimulateApply(w)
  <2> DEFINE amount == IF h.call.amount # NoOverride THEN h.call.amount
                                                     ELSE h.mem.amount
             entity == [h.mem EXCEPT !.status = h.call.status, !.amount = amount]
  <2>1. /\ StartSave(w, entity, h.mem.status # "COMPLETED")
        /\ simulated' = simulated \cup {h.pay}
        /\ UNCHANGED <<db, split, sent, overlapped, cut>>
    BY <1>6, Zenon DEF SimulateApply, store
  <2> HIDE DEF entity
  <2>2. \A p \in Payments : Holds(w, p) => ~Unforced(p)'
    BY <2>1 DEF Holds, Unforced
  <2>3. simulated \subseteq simulated'
    BY <2>1
  <2> QED
    BY <1>1, <2>1, <2>2, <2>3, StartSavePayout, Zenon
<1>7. CASE StatusReject(w)
  <2>1. /\ Finish(w) /\ h.pc # "sent"
        /\ UNCHANGED <<db, split, sent, overlapped, cut, simulated>>
    BY <1>1, <1>7 DEF StatusReject, store, history
  <2> QED
    BY <2>1, EndPayout
<1> QED
  BY <1>4, <1>5, <1>6, <1>7

\* refund() keeps the invariant up to its commit.
LEMMA RefundPayout ==
    ASSUME TypeOK, RefundsInv, PayoutInv, NEW w \in Workers,
           \/ RefundCount(w) \/ RefundApply(w) \/ RefundReject(w) \/ RefundFails(w)
    PROVE  PayoutInv'
<1> DEFINE h == req[w]
<1>1. h.pc \in {"loaded", "counted", "dirty"}
  BY Zenon DEF RefundCount, RefundApply, RefundReject, RefundFails, At
<1>2. h \in Handler /\ h.mem \in Row
  BY <1>1, HeldRow, HandlerFields, SMT DEF Holding
<1>3. UNCHANGED <<db, split, sent, overlapped, cut, simulated>>
  BY DEF RefundCount, RefundApply, RefundReject, RefundFails, store, history
<1>4. CASE RefundReject(w) \/ RefundFails(w)
  BY <1>1, <1>3, <1>4, EndPayout DEF RefundReject, RefundFails
\* The two steps that read and decide leave the handler in possession.
<1>5. ASSUME NEW k, req' = [req EXCEPT ![w] = k], k.pay = h.pay, k.bad = h.bad,
             k.pc \in {"counted", "dirty"}, h.pc \in {"loaded", "counted"},
             k.pc = "counted" => k.mem = h.mem,
             k.pc = "dirty" => k.mem.status # "PARTIALLY_COMPLETED"
      PROVE  PayoutInv'
  <2>1. Alone(w) /\ req'[w] = k
    BY <1>5, AloneSlot
  <2>2. ASSUME NEW p \in Payments \ overlapped, Holds(w, p)
        PROVE  Orderly(req[w], p)'
    <3>1. Orderly(h, p)
      BY <2>2, InOrderHeld
    <3>3. /\ HasFailedLeg(p)' = HasFailedLeg(p) /\ (Unforced(p)' => Unforced(p))
          /\ PendingLegs(p)' = PendingLegs(p) /\ db'[p] = db[p]
      BY <1>3 DEF HasFailedLeg, Unforced, PendingLegs
    <3>4. Unforced(p) /\ (h.bad \/ h.mem.status = "PARTIALLY_COMPLETED") => HasFailedLeg(p)
      BY <3>1, Zenon DEF Orderly
    <3>5. CASE k.pc = "counted"
      BY <1>5, <2>1, <3>3, <3>4, <3>5, SMT DEF Orderly
    <3>6. CASE k.pc = "dirty"
      BY <1>5, <2>1, <3>3, <3>4, <3>6, SMT DEF Orderly
    <3> QED
      BY <1>5, <3>5, <3>6
  <2>3. h.pc \in Holding /\ h.pc # "sent"
    BY <1>5, SMT DEF Holding
  <2> QED
    BY <1>3, <1>5, <2>1, <2>2, <2>3, LocalPayout, Zenon
<1>6. CASE RefundCount(w)
  <2> DEFINE n == ledger[h.pay].count
             k == [h EXCEPT !.pc = "counted", !.count = n]
  <2>1. req' = [req EXCEPT ![w] = k] /\ h.pc = "loaded"
    BY <1>6, Zenon DEF RefundCount, At
  <2>2. k.pc = "counted" /\ k.pay = h.pay /\ k.mem = h.mem /\ k.bad = h.bad
    BY <1>2, Zenon DEF Handler
  <2> HIDE DEF k
  <2> QED
    BY <1>5, <2>1, <2>2
<1>7. CASE RefundApply(w)
  <2> DEFINE amount == RefundAmount(h)
             entity == Refunded(h.mem, amount)
             cols == Diff(entity, db[h.pay])
             k == [h EXCEPT !.pc = "dirty", !.mem = entity, !.cols = cols,
                            !.due = amount, !.was = h.mem.status]
  <2>1. req' = [req EXCEPT ![w] = k] /\ h.pc = "counted"
    BY <1>7, Zenon DEF RefundApply, At
  <2>2. k.pc = "dirty" /\ k.pay = h.pay /\ k.mem = entity /\ k.bad = h.bad
    BY <1>2, Zenon DEF Handler
  <2>3. entity.status \in {"REFUNDED", "PARTIALLY_REFUNDED"}
    BY <1>2, Zenon DEF Refunded, Row
  <2> HIDE DEF k, entity
  <2>6. entity.status # "PARTIALLY_COMPLETED"
    BY <2>3
  <2> QED
    BY <1>5, <2>1, <2>2, <2>6
<1> QED
  BY <1>4, <1>6, <1>7

\* The UPDATE of a save() keeps the invariant.
LEMMA SavePayout ==
    ASSUME TypeOK, RefundsInv, PayoutInv, NEW w \in Workers, EndSave(w), Alone(w),
           req[w].pc \in {"dirty", "redirty"},
           UNCHANGED <<split, sent, overlapped, cut, simulated>>,
           \/ req'[w].pc \notin Holding
           \/ /\ req'[w].pc = "notifying" /\ req'[w].pay = req[w].pay
              /\ req'[w].mem = req[w].mem /\ req'[w].bad = req[w].bad
    PROVE  PayoutInv'
<1> DEFINE h == req[w]
<1>1. /\ h.pay \in Payments /\ Holds(w, h.pay)
      /\ \A p \in Payments : p # h.pay => db'[p] = db[p]
      /\ h.pay \notin overlapped => db'[h.pay] = h.mem
  BY SaveLands, Zenon DEF RefundsInv
<1>2. \A p \in Payments : Holds(w, p) => p = h.pay
  BY DEF Holds
<1>3. \A p \in Payments : Holds(w, p)' => Holds(w, p)
  BY <1>1, Zenon DEF Holds
<1>4. ASSUME NEW p \in Payments, p \notin overlapped, Holds(w, p)
      PROVE  InOrder(w, p)'
  <2>1. InOrder(w, p) /\ Orderly(h, p) /\ p = h.pay
    BY <1>2, <1>4, InOrderHeld
  <2>2. /\ PendingLegs(p)' = PendingLegs(p) /\ HasFailedLeg(p)' = HasFailedLeg(p)
        /\ (Unforced(p)' => Unforced(p)) /\ db'[p] = h.mem
    BY <1>1, <1>4, <2>1 DEF PendingLegs, HasFailedLeg, Unforced
  <2>3. h.pc # "sent"
    OBVIOUS
  <2>4. Unforced(p) /\ (h.bad \/ h.mem.status = "PARTIALLY_COMPLETED") => HasFailedLeg(p)
    BY <2>1, Zenon DEF Orderly
  <2>5. Holds(w, p)' => Orderly(req[w], p)'
    <3> SUFFICES ASSUME Holds(w, p)'
                 PROVE  Orderly(req[w], p)'
      OBVIOUS
    <3>1. /\ req'[w].pc = "notifying" /\ req'[w].mem = h.mem /\ req'[w].bad = h.bad
      BY Zenon DEF Holds
    <3> QED
      BY <2>2, <2>4, <3>1, SMT DEF Orderly
  <2>6. p \notin cut' =>
          \A s \in Legs[p] :
             sent'[p][s] <= 1 /\ (s \in PendingLegs(p)' => sent'[p][s] = 0)
    BY <2>1, <2>2, <2>3, Zenon DEF InOrder
  <2> QED
    BY <2>2, <2>4, <2>5, <2>6, Zenon DEF InOrder
<1>5. \A p \in Payments :
         Holds(w, p) \/ (db'[p] = db[p] /\ split'[p] = split[p] /\ sent'[p] = sent[p])
  BY <1>1
<1> QED
  BY <1>3, <1>4, <1>5, PayoutStep, Zenon

\* The UPDATEs of the handlers, and the settlement stamp, keep the invariant.
LEMMA CommitPayout ==
    ASSUME TypeOK, RefundsInv, PayoutInv, NEW w \in Workers,
           \/ SettleCommit(w) \/ CommitCompleting(w) \/ Commit(w)
           \/ SplitsFailedCommit(w) \/ RefundCommit(w)
    PROVE  PayoutInv'
<1> DEFINE h == req[w]
<1>1. h.pc \in {"loaded", "dirty", "redirty"}
  BY Zenon DEF SettleCommit, CommitCompleting, Commit, SplitsFailedCommit, RefundCommit, At
<1>2. h.pc \in Holding /\ h.pc # "sent"
  BY <1>1, SMT DEF Holding
<1>3. h \in Handler /\ h.pay \in Payments /\ Holds(w, h.pay)
  BY <1>2, HeldRow
<1>4. UNCHANGED <<split, sent, overlapped, cut, simulated>>
  BY DEF SettleCommit, CommitCompleting, Commit, SplitsFailedCommit, RefundCommit, history
<1>5. Idle.pc \notin Holding
  BY DEF Idle, Holding
<1>6. ASSUME NEW pc, req' = [req EXCEPT ![w].pc = pc]
      PROVE  /\ Alone(w) /\ req'[w].pc = pc /\ req'[w].pay = h.pay
             /\ req'[w].mem = h.mem /\ req'[w].bad = h.bad
  <2> DEFINE k == [h EXCEPT !.pc = pc]
  <2>1. k.pc = pc /\ k.pay = h.pay /\ k.mem = h.mem /\ k.bad = h.bad
    BY <1>3, Zenon DEF Handler
  <2>2. req' = [req EXCEPT ![w] = k]
    BY <1>6, Zenon
  <2> HIDE DEF k
  <2> QED
    BY <2>1, <2>2, AloneSlot
<1>7. Finish(w) => Alone(w) /\ req'[w].pc \notin Holding
  BY <1>5, AloneSlot, Zenon DEF Finish
<1>8. CASE SettleCommit(w)
  <2>1. Alone(w) /\ req'[w].pc \notin Holding
    BY <1>7, <1>8 DEF SettleCommit
  <2>2. db' = [db EXCEPT ![h.pay].settled = TRUE]
    BY <1>8 DEF SettleCommit
  <2>3. /\ \A p \in Payments : p # h.pay => db'[p] = db[p]
        /\ db'[h.pay].status = db[h.pay].status
    <3>1. db[h.pay] \in Row
      BY <1>3 DEF TypeOK
    <3> QED
      BY <1>3, <2>2, <3>1, Zenon DEF TypeOK, Row
  <2>4. \A p \in Payments : ~Holds(w, p)'
    BY <2>1 DEF Holds
  <2>5. ASSUME NEW p \in Payments, p \notin overlapped, Holds(w, p)
        PROVE  InOrder(w, p)'
    <3>1. InOrder(w, p) /\ p = h.pay
      BY <2>5, InOrderHeld DEF Holds
    <3>2. /\ PendingLegs(p)' = PendingLegs(p) /\ HasFailedLeg(p)' = HasFailedLeg(p)
          /\ (Unforced(p)' => Unforced(p))
      BY <1>4 DEF PendingLegs, HasFailedLeg, Unforced
    <3> QED
      BY <1>2, <1>4, <2>3, <2>4, <3>1, <3>2, Zenon DEF InOrder
  <2>6. \A p \in Payments :
           Holds(w, p) \/ (db'[p] = db[p] /\ split'[p] = split[p] /\ sent'[p] = sent[p])
    BY <1>3, <1>4, <2>3
  <2> QED
    BY <1>4, <2>1, <2>4, <2>5, <2>6, PayoutStep, Zenon
<1>9. CASE CommitCompleting(w)
  <2>1. /\ EndSave(w) /\ req' = [req EXCEPT ![w].pc = "notifying"] /\ h.pc = "dirty"
    BY <1>9, SMT DEF CommitCompleting
  <2>2. /\ Alone(w) /\ req'[w].pc = "notifying" /\ req'[w].pay = h.pay
        /\ req'[w].mem = h.mem /\ req'[w].bad = h.bad
    BY <1>6, <2>1
  <2> QED
    BY <1>4, <2>1, <2>2, SavePayout
<1>10. CASE Commit(w) \/ SplitsFailedCommit(w) \/ RefundCommit(w)
  <2>1. /\ EndSave(w) /\ h.pc \in {"dirty", "redirty"}
        /\ \/ req' = [req EXCEPT ![w].pc = "announcing"]
           \/ req' = [req EXCEPT ![w].pc = "splitDone"]
           \/ Finish(w)
    BY <1>10, Zenon DEF Commit, SplitsFailedCommit, RefundCommit, At
  <2>2. Alone(w) /\ req'[w].pc \notin Holding
    <3>1. "announcing" \notin Holding /\ "splitDone" \notin Holding
      BY DEF Holding
    <3> QED
      BY <1>6, <1>7, <2>1, <3>1
  <2> QED
    BY <1>4, <2>1, <2>2, SavePayout
<1> QED
  BY <1>8, <1>9, <1>10

\* Choosing the legs to pay, and the second save of a batch with failures, keep the
\* invariant: the chosen legs are the pending ones, and a failure is on record.
LEMMA BatchPayout ==
    ASSUME TypeOK, RefundsInv, PayoutInv, NEW w \in Workers,
           SplitsFind(w) \/ SplitsFailed(w)
    PROVE  PayoutInv'
<1> DEFINE h == req[w]
<1>1. h.pc \in {"notifying", "splitting"}
  BY Zenon DEF SplitsFind, SplitsFailed
<1>2. h.pc \in Holding /\ h.pc # "sent" /\ h.pc \notin {"dirty", "redirty"}
  BY <1>1, SMT DEF Holding
<1>3. h \in Handler /\ h.mem \in Row /\ h.pay \in Payments
  BY <1>2, HeldRow, HandlerFields
<1>4. UNCHANGED <<db, split, sent, overlapped, cut, simulated>>
  BY DEF SplitsFind, SplitsFailed, store, history
<1>5. ASSUME NEW p \in Payments
      PROVE  /\ PendingLegs(p)' = PendingLegs(p) /\ HasFailedLeg(p)' = HasFailedLeg(p)
             /\ Unforced(p)' => Unforced(p)
  BY <1>4 DEF PendingLegs, HasFailedLeg, Unforced
<1>6. ASSUME NEW p \in Payments \ overlapped, Holds(w, p)
      PROVE  /\ p = h.pay
             /\ Unforced(p) /\ (h.bad \/ h.mem.status = "PARTIALLY_COMPLETED")
                  => HasFailedLeg(p)
  <2>1. Orderly(h, p)
    BY <1>6, InOrderHeld
  <2>2. p = h.pay
    BY <1>6 DEF Holds
  <2> QED
    BY <1>1, <2>1, <2>2, SMT DEF Orderly
<1>7. CASE SplitsFind(w)
  <2> DEFINE todo == PendingLegs(h.pay)
             pc == IF todo = {} THEN "linking" ELSE "splitting"
             k == [h EXCEPT !.todo = todo, !.pc = pc]
  <2>1. req' = [req EXCEPT ![w] = k]
    BY <1>7, Zenon DEF SplitsFind
  <2>2. /\ k.pc = pc /\ k.todo = todo /\ k.pay = h.pay /\ k.mem = h.mem
        /\ k.bad = h.bad
    BY <1>3, Zenon DEF Handler
  <2>3. pc \in {"linking", "splitting"} /\ "linking" \notin Holding
    BY DEF Holding
  <2> HIDE DEF k, pc
  <2>4. Alone(w) /\ req'[w] = k
    BY <2>1, AloneSlot
  <2>5. ASSUME NEW p \in Payments \ overlapped, Holds(w, p), Holds(w, p)'
        PROVE  Orderly(req[w], p)'
    <3>1. k.pc = "splitting" /\ k.todo = PendingLegs(p)
      BY <1>6, <2>2, <2>3, <2>4, <2>5, Zenon DEF Holds
    <3> QED
      BY <1>5, <1>6, <2>2, <2>4, <2>5, <3>1, SMT DEF Orderly
  <2>6. req'[w].pay = h.pay
    BY <2>2, <2>4
  <2> QED
    BY <1>2, <1>4, <2>4, <2>5, <2>6, LocalPayout, Zenon
<1>8. CASE SplitsFailed(w)
  <2> DEFINE entity == [h.mem EXCEPT !.status = "PARTIALLY_COMPLETED"]
             cols == Diff(entity, db[h.pay])
             k == [h EXCEPT !.pc = "redirty", !.mem = entity, !.cols = cols,
                            !.was = h.mem.status]
  <2>1. req' = [req EXCEPT ![w] = k] /\ h.bad
    BY <1>8, Zenon DEF SplitsFailed
  <2>2. k.pc = "redirty" /\ k.pay = h.pay /\ k.mem = entity /\ k.bad = h.bad
    BY <1>3, Zenon DEF Handler
  <2>3. entity.status = "PARTIALLY_COMPLETED"
    BY <1>3, Zenon DEF Row
  <2> HIDE DEF k, entity
  <2>4. Alone(w) /\ req'[w] = k
    BY <2>1, AloneSlot
  <2>5. ASSUME NEW p \in Payments \ overlapped, Holds(w, p), Holds(w, p)'
        PROVE  Orderly(req[w], p)'
    BY <1>4, <1>5, <1>6, <2>1, <2>2, <2>3, <2>4, <2>5, SMT DEF Orderly
  <2>6. req'[w].pay = h.pay
    BY <2>2, <2>4
  <2> QED
    BY <1>2, <1>4, <2>4, <2>5, <2>6, LocalPayout, Zenon
<1> QED
  BY <1>7, <1>8

\* Paying a leg keeps the invariant: the leg was pending and not paid, and the
\* handler remembers that its result is still to be saved.
LEMMA SendPayout ==
    ASSUME TypeOK, RefundsInv, PayoutInv, NEW w \in Workers, SplitSend(w)
    PROVE  PayoutInv'
<1> DEFINE h == req[w]
<1>1. h.pc = "splitting" /\ h.pc \in Holding
  BY DEF SplitSend, Holding
<1>2. h \in Handler /\ h.pay \in Payments
  BY <1>1, HeldRow
<1>3. PICK leg \in h.todo, returns \in BOOLEAN, reached \in BOOLEAN :
        /\ sent' = IF reached THEN [sent EXCEPT ![h.pay][leg] = @ + 1] ELSE sent
        /\ req' = [req EXCEPT ![w].pc = "sent", ![w].leg = leg, ![w].paid = returns]
  BY Zenon DEF SplitSend
<1> DEFINE k == [h EXCEPT !.pc = "sent", !.leg = leg, !.paid = returns]
<1>4. req' = [req EXCEPT ![w] = k]
  BY <1>3, Zenon
<1>5. /\ k.pc = "sent" /\ k.leg = leg /\ k.pay = h.pay /\ k.mem = h.mem
      /\ k.bad = h.bad /\ k.todo = h.todo
  BY <1>2, Zenon DEF Handler
<1> HIDE DEF k
<1>6. Alone(w) /\ req'[w] = k
  BY <1>4, AloneSlot
<1>7. UNCHANGED <<db, split, overlapped, cut, simulated>>
  BY DEF SplitSend, history
<1>8. /\ \A p \in Payments : p # h.pay => sent'[p] = sent[p]
      /\ \A s \in Splits : s # leg => sent'[h.pay][s] = sent[h.pay][s]
      /\ sent'[h.pay][leg] \in {sent[h.pay][leg], sent[h.pay][leg] + 1}
  <2>1. leg \in Splits /\ sent \in [Payments -> [Splits -> Nat]]
    BY <1>2, HandlerFields DEF TypeOK
  <2> QED
    BY <1>2, <1>3, <2>1
<1>9. \A p \in Payments : Holds(w, p)' => Holds(w, p)
  BY <1>1, <1>5, <1>6 DEF Holds
<1>10. ASSUME NEW p \in Payments, p \notin overlapped, Holds(w, p)
       PROVE  InOrder(w, p)'
  <2>1. InOrder(w, p) /\ Orderly(h, p) /\ p = h.pay
    BY <1>10, InOrderHeld DEF Holds
  <2>2. /\ PendingLegs(p)' = PendingLegs(p) /\ HasFailedLeg(p)' = HasFailedLeg(p)
        /\ Unforced(p)' => Unforced(p)
    BY <1>7 DEF PendingLegs, HasFailedLeg, Unforced
  <2>3. /\ h.todo \subseteq PendingLegs(p)
        /\ Unforced(p) /\ (h.bad \/ h.mem.status = "PARTIALLY_COMPLETED")
             => HasFailedLeg(p)
    BY <1>1, <2>1, SMT DEF Orderly
  <2>4. Orderly(req[w], p)'
    <3>1. /\ Unforced(p)' /\ (h.bad \/ h.mem.status = "PARTIALLY_COMPLETED")
               => HasFailedLeg(p)'
          /\ h.todo \subseteq PendingLegs(p)'
      BY <2>2, <2>3, Zenon
    <3> QED
      BY <1>5, <1>6, <2>3, <3>1, leg \in h.todo, SMT DEF Orderly
  <2>5. leg \in PendingLegs(p) /\ leg \in Legs[p]
    BY <1>3, <2>3 DEF PendingLegs
  <2>6. ASSUME p \notin cut', NEW s \in Legs[p]
        PROVE  /\ sent'[p][s] <= 1
               /\ s \in PendingLegs(p) => s = leg \/ sent'[p][s] = 0
    <3>1. sent[p][s] <= 1 /\ (s \in PendingLegs(p) => sent[p][s] = 0)
      BY <1>1, <1>7, <2>1, <2>6, Zenon DEF InOrder
    <3>2. s \in Splits
      BY PaymentsAssumption, SMT DEF PaymentsAssumption
    <3>3. CASE s = leg
      BY <1>8, <2>1, <2>5, <3>1, <3>3, SMT
    <3>4. CASE s # leg
      BY <1>8, <2>1, <3>1, <3>2, <3>4, Zenon
    <3> QED
      BY <3>3, <3>4
  <2>7. Holds(w, p)' /\ req'[w].pc = "sent" /\ req'[w].leg = leg
    BY <1>1, <1>5, <1>6, <2>1, SMT DEF Holds, Holding
  <2>8. Unforced(p)' /\ db'[p].status = "PARTIALLY_COMPLETED" => HasFailedLeg(p)'
    BY <1>7, <2>1, <2>2, Zenon DEF InOrder
  <2> QED
    BY <2>2, <2>4, <2>6, <2>7, <2>8, Zenon DEF InOrder
<1>11. \A p \in Payments :
          Holds(w, p) \/ (db'[p] = db[p] /\ split'[p] = split[p] /\ sent'[p] = sent[p])
  BY <1>1, <1>7, <1>8 DEF Holds
<1> QED
  BY <1>6, <1>7, <1>9, <1>10, <1>11, PayoutStep, Zenon

\* Saving the result of a leg keeps the invariant: the leg is not pending any more,
\* and when its payment failed it is the failed leg on record.
LEMMA SaveLegPayout ==
    ASSUME TypeOK, RefundsInv, PayoutInv, NEW w \in Workers, SplitSave(w)
    PROVE  PayoutInv'
<1> DEFINE h == req[w]
           todo == h.todo \ {h.leg}
           bad == h.bad \/ ~h.paid
           k == [h EXCEPT !.pc = "splitting", !.todo = todo, !.leg = NoLeg,
                          !.paid = FALSE, !.bad = bad]
<1>1. h.pc = "sent" /\ h.pc \in Holding
  BY DEF SplitSave, Holding
<1>2. h \in Handler /\ h.pay \in Payments
  BY <1>1, HeldRow
<1>4. req' = [req EXCEPT ![w] = k]
  BY Zenon DEF SplitSave
<1>5. /\ k.pc = "splitting" /\ k.pay = h.pay /\ k.mem = h.mem
      /\ k.bad = bad /\ k.todo = todo
  BY <1>2, Zenon DEF Handler
<1> HIDE DEF k
<1>6. Alone(w) /\ req'[w] = k
  BY <1>4, AloneSlot
<1>7. UNCHANGED <<db, sent, overlapped, cut, simulated>>
  BY DEF SplitSave, history
<1>8. /\ \A p \in Payments : p # h.pay => split'[p] = split[p]
      /\ \A s \in Splits : s # h.leg => split'[h.pay][s] = split[h.pay][s]
      /\ h.leg \in Splits => split'[h.pay][h.leg] = LegOutcome(h)
  <2>1. split \in [Payments -> [Splits -> SplitStatus]]
    BY DEF TypeOK
  <2>2. split' = [split EXCEPT ![h.pay][h.leg] = LegOutcome(h)]
    BY DEF SplitSave
  <2> QED
    BY <1>2, <2>1, <2>2
<1>9. \A p \in Payments : Holds(w, p)' => Holds(w, p)
  BY <1>1, <1>5, <1>6 DEF Holds
<1>10. ASSUME NEW p \in Payments, p \notin overlapped, Holds(w, p)
       PROVE  InOrder(w, p)'
  <2>1. InOrder(w, p) /\ Orderly(h, p) /\ p = h.pay
    BY <1>10, InOrderHeld DEF Holds
  <2>2. Legs[p] \subseteq Splits
    BY PaymentsAssumption, SMT DEF PaymentsAssumption
  <2>3. /\ h.todo \subseteq PendingLegs(p) /\ h.leg \in h.todo
        /\ Unforced(p) /\ (h.bad \/ h.mem.status = "PARTIALLY_COMPLETED")
             => HasFailedLeg(p)
    BY <1>1, <2>1, Zenon DEF Orderly
  <2>4. h.leg \in Legs[p] /\ h.leg \in Splits /\ split[p][h.leg] = "PENDING"
    BY <2>2, <2>3 DEF PendingLegs
  <2>5. split'[p][h.leg] # "PENDING" /\ (~h.paid => split'[p][h.leg] = "FAILED")
    BY <1>8, <2>1, <2>4, SMT DEF LegOutcome
  <2>6. PendingLegs(p)' = PendingLegs(p) \ {h.leg}
    BY <1>8, <2>1, <2>2, <2>5, Zenon DEF PendingLegs
  <2>7. /\ HasFailedLeg(p) => HasFailedLeg(p)'
        /\ ~h.paid => HasFailedLeg(p)'
        /\ Unforced(p)' => Unforced(p)
    <3>1. HasFailedLeg(p) => HasFailedLeg(p)'
      <4> SUFFICES ASSUME NEW s \in Legs[p], split[p][s] = "FAILED"
                   PROVE  split'[p][s] = "FAILED"
        BY DEF HasFailedLeg
      <4>1. s # h.leg
        BY <2>4
      <4> QED
        BY <1>8, <2>1, <2>2, <4>1, Zenon
    <3> QED
      BY <1>7, <2>4, <2>5, <3>1, Zenon DEF HasFailedLeg, Unforced
  <2>8. Unforced(p)' /\ (bad \/ h.mem.status = "PARTIALLY_COMPLETED") => HasFailedLeg(p)'
    BY <2>3, <2>7, Zenon
  <2> HIDE DEF bad
  <2>9. Orderly(req[w], p)'
    <3>1. todo \subseteq PendingLegs(p)'
      BY <2>3, <2>6
    <3> QED
      BY <1>5, <1>6, <2>3, <2>8, <3>1, SMT DEF Orderly
  <2>10. Unforced(p)' /\ db'[p].status = "PARTIALLY_COMPLETED" => HasFailedLeg(p)'
    BY <1>7, <2>1, <2>7, Zenon DEF InOrder
  <2>11. ASSUME p \notin cut', NEW s \in Legs[p]
         PROVE  /\ sent'[p][s] <= 1
                /\ s \in PendingLegs(p)' => sent'[p][s] = 0
    BY <1>7, <2>1, <2>6, <2>11, Zenon DEF InOrder
  <2> QED
    BY <2>9, <2>10, <2>11, Zenon DEF InOrder
<1>11. \A p \in Payments :
          Holds(w, p) \/ (db'[p] = db[p] /\ split'[p] = split[p] /\ sent'[p] = sent[p])
  BY <1>1, <1>7, <1>8 DEF Holds
<1> QED
  BY <1>6, <1>7, <1>9, <1>10, <1>11, PayoutStep, Zenon

\* What a handler does after its last write keeps the invariant.
LEMMA AfterPayout ==
    ASSUME TypeOK, RefundsInv, PayoutInv, NEW w \in Workers,
           SplitsAnnounce(w) \/ LinkCredit(w) \/ Dispatch(w)
    PROVE  PayoutInv'
<1>1. req[w].pc \in {"splitDone", "splitting", "linking", "announcing"}
  BY Zenon DEF SplitsAnnounce, LinkCredit, Dispatch
<1>2. Active(w) /\ req[w].pc # "sent"
  BY <1>1, SMT DEF Active
<1>3. UNCHANGED <<db, split, sent, overlapped, cut, simulated>>
  BY DEF SplitsAnnounce, LinkCredit, Dispatch, history
<1>4. \/ \E pc \in Trailing : req' = [req EXCEPT ![w].pc = pc]
      \/ Finish(w)
  <2>1. "linking" \in Trailing /\ "announcing" \in Trailing
    BY DEF Trailing
  <2> QED
    BY <2>1, Zenon DEF SplitsAnnounce, LinkCredit, Dispatch
<1> QED
  BY <1>2, <1>3, <1>4, TrailPayout, EndPayout

\* First reads, crashes and the overdue sweep keep the invariant.
LEMMA OutsidePayout ==
    ASSUME TypeOK, RefundsInv, PayoutInv
    PROVE  /\ \A w \in Workers, c \in Calls, p \in Payments :
                Load(w, c, p) => PayoutInv'
           /\ \A w \in Workers : Cut(w) => PayoutInv'
           /\ \A p \in Payments : MarkOverdue(p) => PayoutInv'
<1>1. ASSUME NEW w \in Workers, NEW c \in Calls, NEW p \in Payments, Load(w, c, p)
      PROVE  PayoutInv'
  <2> DEFINE k == [pc |-> "loaded", call |-> c, pay |-> p, mem |-> db[p],
                   cols |-> {}, count |-> 0, due |-> 0, first |-> FALSE,
                   was |-> db[p].status, todo |-> {}, leg |-> NoLeg, paid |-> FALSE, bad |-> FALSE]
  <2>1. /\ req' = [req EXCEPT ![w] = k] /\ req[w].pc = "idle"
        /\ UNCHANGED <<db, split, sent, cut, simulated>>
        /\ Selects(c.kind, db[p])
        /\ overlapped \subseteq overlapped'
    BY <1>1, Zenon DEF Load, store, Active
  <2>2. /\ k.pc = "loaded" /\ k.call = c /\ k.pay = p /\ k.mem = db[p]
        /\ k.bad = FALSE
    BY Zenon
  <2> HIDE DEF k
  <2>3. Alone(w) /\ req'[w] = k
    BY <2>1, AloneSlot
  <2>4. \A q \in Payments : ~Holds(w, q)
    BY <2>1, SMT DEF Holds, Holding
  <2>5. \A q \in Payments : /\ PendingLegs(q)' = PendingLegs(q)
                            /\ HasFailedLeg(q)' = HasFailedLeg(q)
                            /\ Unforced(q)' = Unforced(q)
    BY <2>1 DEF PendingLegs, HasFailedLeg, Unforced
  <2>6. OrderlyHandlers'
    <3> SUFFICES ASSUME NEW q \in Payments, q \notin overlapped', NEW v \in Workers,
                        Holds(v, q)'
                 PROVE  Orderly(req[v], q)'
      BY DEF OrderlyHandlers
    <3>1. CASE v = w
      <4>1. q = p /\ q \notin overlapped
        BY <2>1, <2>2, <2>3, <3>1 DEF Holds
      <4>3. Unforced(p) /\ db[p].status = "PARTIALLY_COMPLETED" => HasFailedLeg(p)
        BY <4>1, Zenon DEF PayoutInv, PartialHasFailedLeg
      <4> QED
        BY <2>2, <2>3, <2>5, <3>1, <4>1, <4>3, SMT DEF Orderly
    <3>2. CASE v # w
      <4>1. req'[v] = req[v] /\ Holds(v, q)
        BY <2>3, <3>2, Zenon DEF Alone, Holds
      <4>2. Orderly(req[v], q)
        BY <2>1, <4>1, Zenon DEF PayoutInv, OrderlyHandlers
      <4>3. db'[q] = db[q] /\ split'[q] = split[q] /\ simulated \subseteq simulated'
        BY <2>1
      <4> QED
        BY <4>1, <4>2, <4>3, OrderlyKept, Zenon
    <3> QED
      BY <3>1, <3>2
  <2>7. PendingUnpaid'
    <3> SUFFICES ASSUME NEW q \in Payments \ (overlapped' \cup cut'),
                        NEW s \in PendingLegs(q)', sent'[q][s] # 0
                 PROVE  \E v \in Workers :
                          (Holds(v, q) /\ req[v].pc = "sent" /\ req[v].leg = s)'
      BY DEF PendingUnpaid
    <3>3. q \in Payments \ (overlapped \cup cut) /\ s \in PendingLegs(q)
          /\ sent[q][s] # 0
      BY <2>1, <2>5
    <3>1. PICK v \in Workers : Holds(v, q) /\ req[v].pc = "sent" /\ req[v].leg = s
      BY <3>3, Zenon DEF PayoutInv, PendingUnpaid
    <3>2. req'[v] = req[v]
      BY <2>3, <2>4, <3>1, Zenon DEF Alone
    <3> QED
      BY <3>1, <3>2, Zenon DEF Holds
  <2>8. LegPaidOnce' /\ PartialHasFailedLeg'
    BY <2>1, <2>5, Zenon DEF PayoutInv, LegPaidOnce, PartialHasFailedLeg
  <2> QED
    BY <2>6, <2>7, <2>8 DEF PayoutInv
<1>2. ASSUME NEW w \in Workers, Cut(w)
      PROVE  PayoutInv'
  <2>1. /\ Finish(w) /\ cut' = cut \cup {req[w].pay}
        /\ UNCHANGED <<db, split, sent, overlapped, simulated>>
    BY <1>2 DEF Cut, store
  <2>2. Alone(w) /\ req'[w] = Idle
    BY <2>1, AloneSlot, Zenon DEF Finish
  <2>3. \A q \in Payments : ~Holds(w, q)'
    BY <2>2, SMT DEF Holds, Holding, Idle
  <2>4. ASSUME NEW q \in Payments, q \notin overlapped, Holds(w, q)
        PROVE  InOrder(w, q)'
    <3>1. InOrder(w, q) /\ q \in cut'
      BY <2>1, <2>4, InOrderHeld DEF Holds
    <3>2. HasFailedLeg(q)' = HasFailedLeg(q) /\ Unforced(q)' = Unforced(q)
      BY <2>1 DEF HasFailedLeg, Unforced
    <3> QED
      BY <2>1, <2>3, <3>1, <3>2, Zenon DEF InOrder
  <2> QED
    BY <2>1, <2>2, <2>3, <2>4, PayoutStep, Zenon
<1>3. ASSUME NEW p \in Payments, MarkOverdue(p)
      PROVE  PayoutInv'
  <2>1. /\ db' = [db EXCEPT ![p].status = "OVERDUE"]
        /\ UNCHANGED <<split, sent, req, cut, simulated>>
        /\ overlapped \subseteq overlapped'
        /\ p \notin overlapped' => \A w \in Workers : ~Holds(w, p)
    BY <1>3, Zenon DEF MarkOverdue
  <2>2. db'[p].status = "OVERDUE" /\ \A q \in Payments : q # p => db'[q] = db[q]
    BY <2>1, Zenon DEF TypeOK, Row
  <2>3. \A q \in Payments : /\ PendingLegs(q)' = PendingLegs(q)
                            /\ HasFailedLeg(q)' = HasFailedLeg(q)
                            /\ Unforced(q)' = Unforced(q)
    BY <2>1 DEF PendingLegs, HasFailedLeg, Unforced
  <2>4. OrderlyHandlers'
    <3> SUFFICES ASSUME NEW q \in Payments, q \notin overlapped', NEW v \in Workers,
                        Holds(v, q)
                 PROVE  Orderly(req[v], q)'
      BY <2>1, Zenon DEF OrderlyHandlers, Holds
    <3>1. Orderly(req[v], q)
      BY <2>1, Zenon DEF PayoutInv, OrderlyHandlers
    <3>2. q # p
      BY <2>1
    <3> QED
      BY <2>1, <2>2, <3>1, <3>2, OrderlyKept, Zenon
  <2>5. PendingUnpaid'
    <3> SUFFICES ASSUME NEW q \in Payments \ (overlapped' \cup cut'),
                        NEW s \in PendingLegs(q)'
                 PROVE  \/ sent'[q][s] = 0
                        \/ \E v \in Workers :
                             (Holds(v, q) /\ req[v].pc = "sent" /\ req[v].leg = s)'
      BY DEF PendingUnpaid
    <3>1. q \in Payments \ (overlapped \cup cut) /\ s \in PendingLegs(q)
      BY <2>1, <2>3
    <3>2. \/ sent[q][s] = 0
          \/ \E v \in Workers : Holds(v, q) /\ req[v].pc = "sent" /\ req[v].leg = s
      BY <3>1, Zenon DEF PayoutInv, PendingUnpaid
    <3> QED
      BY <2>1, <3>2, Zenon DEF Holds
  <2>7. LegPaidOnce'
    BY <2>1, Zenon DEF PayoutInv, LegPaidOnce
  <2>6. PartialHasFailedLeg'
    <3> SUFFICES ASSUME NEW q \in Payments, q \notin overlapped', Unforced(q),
                        db'[q].status = "PARTIALLY_COMPLETED"
                 PROVE  HasFailedLeg(q)
      BY <2>3, Zenon DEF PartialHasFailedLeg
    <3>1. q # p
      BY <2>2
    <3> QED
      BY <2>1, <2>2, <3>1, Zenon DEF PayoutInv, PartialHasFailedLeg
  <2> QED
    BY <2>4, <2>5, <2>6, <2>7 DEF PayoutInv
<1> QED
  BY <1>1, <1>2, <1>3

\* Before anything has happened nobody holds a payment and nothing was paid.
LEMMA InitPayout == Init => PayoutInv /\ LegsAttempted
<1> SUFFICES ASSUME Init PROVE PayoutInv /\ LegsAttempted
  OBVIOUS
<1>1. \A w \in Workers : req[w].pc = "idle"
  BY DEF Init, Idle
<1>2. \A w \in Workers, p \in Payments : ~Holds(w, p)
  BY <1>1, SMT DEF Holds, Holding
<1>3. \A p \in Payments : db[p].status = "PENDING" /\ Legs[p] \subseteq Splits
  BY PaymentsAssumption, SMT DEF Init, PaymentsAssumption
<1>4. \A p \in Payments : \A s \in Legs[p] : sent[p][s] = 0
  BY <1>3 DEF Init
<1>5. \A p \in Payments : PendingLegs(p) \subseteq Legs[p]
  BY DEF PendingLegs
<1>6. OrderlyHandlers
  BY <1>2, Zenon DEF OrderlyHandlers
<1>7. PendingUnpaid
  BY <1>4, <1>5, Zenon DEF PendingUnpaid
<1>8. LegPaidOnce
  BY <1>4, SMT DEF LegPaidOnce
<1>9. PartialHasFailedLeg
  BY <1>3, SMT DEF PartialHasFailedLeg
<1>10. LegsAttempted
  BY <1>1, SMT DEF LegsAttempted
<1> QED
  BY <1>6, <1>7, <1>8, <1>9, <1>10 DEF PayoutInv

\* Every step keeps the invariant of the payouts.
LEMMA PayoutNext ==
    ASSUME TypeOK, RefundsInv, PayoutInv, [Next]_vars
    PROVE  PayoutInv'
<1>1. CASE UNCHANGED vars
  <2>1. \A p \in Payments : /\ PendingLegs(p)' = PendingLegs(p)
                            /\ HasFailedLeg(p)' = HasFailedLeg(p)
                            /\ Unforced(p)' = Unforced(p)
    BY <1>1 DEF vars, store, history, PendingLegs, HasFailedLeg, Unforced
  <2>2. OrderlyHandlers'
    <3> SUFFICES ASSUME NEW p \in Payments \ overlapped, NEW w \in Workers, Holds(w, p)
                 PROVE  Orderly(req[w], p)'
      BY <1>1, Zenon DEF OrderlyHandlers, Holds, vars, history
    <3>1. Orderly(req[w], p)
      BY Zenon DEF PayoutInv, OrderlyHandlers
    <3>2. /\ req'[w] = req[w] /\ db'[p] = db[p] /\ split'[p] = split[p]
          /\ simulated \subseteq simulated'
      BY <1>1 DEF vars, store, history
    <3> QED
      BY <3>1, <3>2, OrderlyKept, Zenon
  <2>3. UNCHANGED <<req, db, split, sent, overlapped, cut, simulated>>
    BY <1>1 DEF vars, store, history
  <2>4. PendingUnpaid' /\ LegPaidOnce' /\ PartialHasFailedLeg'
    <3>1. PendingUnpaid /\ LegPaidOnce /\ PartialHasFailedLeg
      BY DEF PayoutInv
    <3> QED
      BY <2>3, <3>1 DEF PendingUnpaid, LegPaidOnce, PartialHasFailedLeg, Holds,
                        PendingLegs, HasFailedLeg, Unforced
  <2> QED
    BY <2>2, <2>4 DEF PayoutInv
<1>2. ASSUME NEW w \in Workers, Step(w)
      PROVE  PayoutInv'
  BY <1>2, RefundPayout, StatusApplyPayout, CommitPayout, BatchPayout, SendPayout,
     SaveLegPayout, AfterPayout, Zenon DEF Step
<1> QED
  BY <1>1, <1>2, OutsidePayout, Zenon DEF Next

\* The invariant of the payouts holds of every behaviour.
LEMMA PayoutsKept == Spec => []PayoutInv
<1>1. Init => PayoutInv
  BY InitPayout
<1>2. TypeOK /\ RefundsInv /\ PayoutInv /\ [Next]_vars => PayoutInv'
  BY PayoutNext
<1> QED
  BY <1>1, <1>2, TypeCorrect, RefundsKept, PTL DEF Spec

\* Without overlap, and as long as no handler of the payment was cut off, a split leg
\* is paid at most once.
THEOREM LegsPaidOnce == Spec => []LegPaidOnce
<1>1. PayoutInv => LegPaidOnce
  BY DEF PayoutInv
<1> QED
  BY <1>1, PayoutsKept, PTL

\* Without overlap a PARTIALLY_COMPLETED payment has a failed leg on record, unless
\* the provider or the sandbox gave it that status.
THEOREM PartialsHaveFailedLeg == Spec => []PartialHasFailedLeg
<1>1. PayoutInv => PartialHasFailedLeg
  BY DEF PayoutInv
<1> QED
  BY <1>1, PayoutsKept, PTL

----------------------------------------------------------------------------
(* Status: where a handler may take it from what it has read.              *)

\* What a handler has considered stays considered while others move.
LEMMA ConsideredKept ==
    ASSUME NEW v \in Workers, req'[v] = req[v], simulated \subseteq simulated',
           Considered(req[v])
    PROVE  Considered(req[v])'
<1>1. ASSUME NEW p, NEW old, NEW new, Follows(p, old, new)
      PROVE  Follows(p, old, new)'
  BY <1>1, Zenon DEF Follows
<1> QED
  BY <1>1, Zenon DEF Considered

\* A slot given another handler keeps the invariant if that handler's change follows
\* from the status it read, or its other steps do.
LEMMA StatusGiven ==
    ASSUME TypeOK, StatusInv, NEW w \in Workers, NEW k, req' = [req EXCEPT ![w] = k],
           simulated \subseteq simulated',
           \/ k.pc \in Trailing \cup {"idle"}
           \/ k.pc = "loaded" /\ (k.call.kind = "expire" => k.mem.status = "PENDING")
           \/ k.pc = "counted" /\ Refundable(k.mem)
           \/ /\ k.pc \in {"notifying", "splitting", "sent"}
              /\ k.mem.status \in {"COMPLETED", "PARTIALLY_COMPLETED"}
           \/ /\ k.pc \in {"dirty", "redirty"}
              /\ \/ Follows(k.pay, k.was, k.mem.status)
                 \/ k.pay \in simulated' /\ k.was \in {"PENDING", "OVERDUE"}
    PROVE  StatusInv'
<1>1. Alone(w) /\ req'[w] = k
  BY AloneSlot
<1> SUFFICES ASSUME NEW v \in Workers, Active(v)'
             PROVE  Considered(req[v])'
  BY DEF StatusInv
<1>2. CASE v = w
  <2>1. Active(w)' => k.pc # "idle"
    BY <1>1, Zenon DEF Active
  <2>2. Follows(k.pay, k.was, k.mem.status) =>
           \/ k.mem.status = k.was
           \/ k.mem.status \in WebhookStatuses
           \/ k.pay \in simulated' /\ k.was \in {"PENDING", "OVERDUE"}
           \/ Lifecycle(k.was, k.mem.status)
    BY Zenon DEF Follows
  <2>3. Considered(req[w])'
    BY <1>1, <1>2, <2>1, <2>2, SMT DEF Considered, Follows, Trailing
  <2> QED
    BY <1>2, <2>3
<1>3. CASE v # w
  <2>1. req'[v] = req[v]
    BY <1>1, <1>3 DEF Alone
  <2>2. Considered(req[v])
    BY <2>1, Zenon DEF StatusInv, Active
  <2> QED
    BY <2>1, <2>2, ConsideredKept
<1> QED
  BY <1>2, <1>3

\* A handler that ends, or goes on to what follows its last write, keeps the invariant.
LEMMA StatusEnds ==
    ASSUME TypeOK, StatusInv, NEW w \in Workers, Active(w), simulated \subseteq simulated',
           Finish(w) \/ \E pc \in Trailing : req' = [req EXCEPT ![w].pc = pc]
    PROVE  StatusInv'
<1>1. CASE Finish(w)
  <2>1. Idle.pc = "idle"
    BY DEF Idle
  <2> QED
    BY <1>1, <2>1, StatusGiven, Zenon DEF Finish
<1>2. ASSUME NEW pc \in Trailing, req' = [req EXCEPT ![w].pc = pc]
      PROVE  StatusInv'
  <2> DEFINE k == [req[w] EXCEPT !.pc = pc]
  <2>1. k.pc = pc
    BY ActiveHandler, Zenon DEF Handler
  <2>2. req' = [req EXCEPT ![w] = k]
    BY <1>2, Zenon
  <2> HIDE DEF k
  <2> QED
    BY <1>2, <2>1, <2>2, StatusGiven
<1> QED
  BY <1>1, <1>2

\* The SELECT of a save() keeps the invariant if the change follows from the status
\* that was read.
LEMMA StatusSaved ==
    ASSUME TypeOK, StatusInv, NEW w \in Workers, Active(w), NEW entity, NEW first,
           StartSave(w, entity, first), simulated \subseteq simulated',
           \/ Follows(req[w].pay, req[w].mem.status, entity.status)
           \/ req[w].pay \in simulated' /\ req[w].mem.status \in {"PENDING", "OVERDUE"}
    PROVE  StatusInv'
<1> DEFINE h == req[w]
           cols == Diff(entity, db[h.pay])
           k == [h EXCEPT !.pc = "dirty", !.mem = entity, !.cols = cols,
                          !.first = first, !.was = h.mem.status]
<1>1. k.pc = "dirty" /\ k.mem = entity /\ k.pay = h.pay /\ k.was = h.mem.status
  BY ActiveHandler, Zenon DEF Handler
<1>2. req' = [req EXCEPT ![w] = k]
  BY Zenon DEF StartSave
<1> HIDE DEF k
<1> QED
  BY <1>1, <1>2, StatusGiven

\* The handlers that set a status do so from the statuses the lifecycle allows.
LEMMA StatusApplied ==
    ASSUME TypeOK, StatusInv, NEW w \in Workers,
           \/ WebhookApply(w) \/ CancelApply(w) \/ ExpireApply(w)
           \/ HorizonApply(w) \/ SimulateApply(w)
    PROVE  StatusInv'
<1> DEFINE h == req[w]
<1>1. h.pc = "loaded" /\ Active(w)
  BY Zenon DEF WebhookApply, CancelApply, ExpireApply, HorizonApply, SimulateApply,
               At, Active
<1>2. h \in Handler /\ h.mem \in Row /\ h.mem.status \in Status
  BY <1>1, ActiveHandler, HandlerFields, Zenon DEF Row
<1>3. \A s : [h.mem EXCEPT !.status = s].status = s
  BY <1>2, Zenon DEF Row
<1>4. CASE WebhookApply(w)
  <2> DEFINE entity == [h.mem EXCEPT !.status = h.call.status]
  <2>1. h.call.status \in WebhookStatuses
    BY <1>2, <1>4, HandlerFields, SMT DEF WebhookApply, At, Calls, JobKinds
  <2>2. Follows(h.pay, h.mem.status, entity.status)
    BY <1>3, <2>1, Zenon DEF Follows
  <2>3. StartSave(w, entity, h.mem.status # "COMPLETED") /\ UNCHANGED simulated
    BY <1>4 DEF WebhookApply, history
  <2> HIDE DEF entity
  <2> QED
    BY <1>1, <2>2, <2>3, StatusSaved
<1>5. ASSUME NEW s \in {"CANCELLED", "EXPIRED", "COMPLETED"},
             StartSave(w, [h.mem EXCEPT !.status = s], FALSE), UNCHANGED simulated,
             Lifecycle(h.mem.status, s)
      PROVE  StatusInv'
  <2> DEFINE entity == [h.mem EXCEPT !.status = s]
  <2>1. Follows(h.pay, h.mem.status, entity.status)
    BY <1>3, <1>5, Zenon DEF Follows
  <2>2. StartSave(w, entity, FALSE)
    BY <1>5
  <2> HIDE DEF entity
  <2> QED
    BY <1>1, <1>5, <2>1, <2>2, StatusSaved
<1>6. CASE CancelApply(w)
  <2>1. Lifecycle(h.mem.status, "CANCELLED")
    BY <1>6, SMT DEF CancelApply, Lifecycle
  <2> QED
    BY <1>5, <1>6, <2>1, Zenon DEF CancelApply, history
<1>7. CASE ExpireApply(w)
  <2>1. Considered(h)
    BY <1>1 DEF StatusInv
  <2>2. h.mem.status = "PENDING"
    BY <1>7, <2>1, Zenon DEF ExpireApply, At, Considered
  <2>3. Lifecycle(h.mem.status, "EXPIRED")
    BY <2>2 DEF Lifecycle
  <2> QED
    BY <1>5, <1>7, <2>3, Zenon DEF ExpireApply, history
<1>8. CASE HorizonApply(w)
  <2>1. Lifecycle(h.mem.status, "COMPLETED")
    BY SMT DEF Lifecycle
  <2> QED
    BY <1>5, <1>8, <2>1, Zenon DEF HorizonApply, history
<1>9. CASE SimulateApply(w)
  <2> DEFINE amount == IF h.call.amount # NoOverride THEN h.call.amount
                                                     ELSE h.mem.amount
             entity == [h.mem EXCEPT !.status = h.call.status, !.amount = amount]
  <2>1. h.mem.status \in {"PENDING", "OVERDUE"}
    <3>1. h.mem.status \notin Unsimulatable
      BY <1>9, Zenon DEF SimulateApply
    <3> QED
      BY <1>2, <3>1, SMT DEF Status, Unsimulatable, Uncancellable
  <2>2. /\ StartSave(w, entity, h.mem.status # "COMPLETED")
        /\ simulated' = simulated \cup {h.pay}
    BY <1>9, Zenon DEF SimulateApply
  <2> HIDE DEF entity
  <2>3. h.pay \in simulated' /\ simulated \subseteq simulated'
    BY <2>2
  <2> QED
    BY <1>1, <2>1, <2>2, <2>3, StatusSaved
<1> QED
  BY <1>4, <1>6, <1>7, <1>8, <1>9

\* refund() and the second save of a batch with failures change the status as the
\* lifecycle allows; the steps of a payout leave the copy as it is.
LEMMA StatusWorked ==
    ASSUME TypeOK, StatusInv, NEW w \in Workers,
           \/ RefundCount(w) \/ RefundApply(w) \/ CommitCompleting(w) \/ SplitsFind(w)
           \/ SplitSend(w) \/ SplitSave(w) \/ SplitsFailed(w)
    PROVE  StatusInv'
<1> DEFINE h == req[w]
<1>1. Active(w)
  BY Zenon DEF RefundCount, RefundApply, CommitCompleting, SplitsFind, SplitSend, SplitSave,
               SplitsFailed, At, Active
<1>2. h \in Handler /\ h.mem \in Row /\ Considered(h)
  BY <1>1, ActiveHandler, HandlerFields DEF StatusInv
<1>3. UNCHANGED simulated
  BY DEF RefundCount, RefundApply, CommitCompleting, SplitsFind, SplitSend, SplitSave,
         SplitsFailed, history
<1>4. CASE RefundCount(w)
  <2> DEFINE n == ledger[h.pay].count
             k == [h EXCEPT !.pc = "counted", !.count = n]
  <2>1. req' = [req EXCEPT ![w] = k] /\ Refundable(h.mem)
    BY <1>4, Zenon DEF RefundCount
  <2>2. k.pc = "counted" /\ k.mem = h.mem
    BY <1>2, Zenon DEF Handler
  <2> HIDE DEF k
  <2> QED
    BY <1>3, <2>1, <2>2, StatusGiven
<1>5. CASE RefundApply(w)
  <2> DEFINE amount == RefundAmount(h)
             entity == Refunded(h.mem, amount)
             cols == Diff(entity, db[h.pay])
             k == [h EXCEPT !.pc = "dirty", !.mem = entity, !.cols = cols,
                            !.due = amount, !.was = h.mem.status]
  <2>1. req' = [req EXCEPT ![w] = k] /\ h.pc = "counted"
    BY <1>5, Zenon DEF RefundApply, At
  <2>2. k.pc = "dirty" /\ k.mem = entity /\ k.pay = h.pay /\ k.was = h.mem.status
    BY <1>2, Zenon DEF Handler
  <2>3. entity.status \in {"REFUNDED", "PARTIALLY_REFUNDED"}
    BY <1>2, Zenon DEF Refunded, Row
  <2>4. Refundable(h.mem)
    BY <1>2, <2>1, Zenon DEF Considered
  <2> HIDE DEF k, entity
  <2>5. Lifecycle(h.mem.status, entity.status)
    BY <2>3, <2>4, SMT DEF Refundable, Lifecycle
  <2>6. Follows(h.pay, h.mem.status, entity.status)
    BY <2>5, Zenon DEF Follows
  <2> QED
    BY <1>3, <2>1, <2>2, <2>6, StatusGiven
<1>6. ASSUME NEW k, req' = [req EXCEPT ![w] = k], k.mem = h.mem,
             k.pc \in {"notifying", "splitting", "sent"} \cup Trailing,
             h.mem.status \in {"COMPLETED", "PARTIALLY_COMPLETED"}
      PROVE  StatusInv'
  BY <1>3, <1>6, StatusGiven
<1>7. CASE CommitCompleting(w)
  <2> DEFINE k == [h EXCEPT !.pc = "notifying"]
  <2>1. req' = [req EXCEPT ![w] = k] /\ k.pc = "notifying" /\ k.mem = h.mem
    BY <1>2, <1>7, Zenon DEF CommitCompleting, Handler
  <2>2. h.mem.status \in {"COMPLETED", "PARTIALLY_COMPLETED"}
    BY <1>7, SMT DEF CommitCompleting, Completes
  <2> HIDE DEF k
  <2> QED
    BY <1>6, <2>1, <2>2
<1>8. h.pc \in {"notifying", "splitting", "sent"} =>
         h.mem.status \in {"COMPLETED", "PARTIALLY_COMPLETED"}
  BY <1>2, Zenon DEF Considered
<1>9. CASE SplitsFind(w)
  <2> DEFINE todo == PendingLegs(h.pay)
             pc == IF todo = {} THEN "linking" ELSE "splitting"
             k == [h EXCEPT !.todo = todo, !.pc = pc]
  <2>1. req' = [req EXCEPT ![w] = k] /\ h.pc = "notifying"
    BY <1>9, Zenon DEF SplitsFind
  <2>2. k.pc = pc /\ k.mem = h.mem
    BY <1>2, Zenon DEF Handler
  <2>3. pc \in {"splitting"} \cup Trailing
    BY DEF Trailing
  <2> HIDE DEF k, pc
  <2> QED
    BY <1>6, <1>8, <2>1, <2>2, <2>3
<1>10. CASE SplitSend(w)
  <2>1. PICK s \in h.todo, returns \in BOOLEAN :
           req' = [req EXCEPT ![w].pc = "sent", ![w].leg = s, ![w].paid = returns]
    BY <1>10, Zenon DEF SplitSend
  <2> DEFINE k == [h EXCEPT !.pc = "sent", !.leg = s, !.paid = returns]
  <2>2. req' = [req EXCEPT ![w] = k] /\ k.pc = "sent" /\ k.mem = h.mem
    BY <1>2, <2>1, Zenon DEF Handler
  <2>3. h.pc = "splitting"
    BY <1>10 DEF SplitSend
  <2> HIDE DEF k
  <2> QED
    BY <1>6, <1>8, <2>2, <2>3
<1>11. CASE SplitSave(w)
  <2> DEFINE todo == h.todo \ {h.leg}
             bad == h.bad \/ ~h.paid
             k == [h EXCEPT !.pc = "splitting", !.todo = todo, !.leg = NoLeg,
                            !.paid = FALSE, !.bad = bad]
  <2>1. req' = [req EXCEPT ![w] = k] /\ h.pc = "sent"
    BY <1>11, Zenon DEF SplitSave
  <2>2. k.pc = "splitting" /\ k.mem = h.mem
    BY <1>2, Zenon DEF Handler
  <2> HIDE DEF k
  <2> QED
    BY <1>6, <1>8, <2>1, <2>2
<1>12. CASE SplitsFailed(w)
  <2> DEFINE entity == [h.mem EXCEPT !.status = "PARTIALLY_COMPLETED"]
             cols == Diff(entity, db[h.pay])
             k == [h EXCEPT !.pc = "redirty", !.mem = entity, !.cols = cols,
                            !.was = h.mem.status]
  <2>1. req' = [req EXCEPT ![w] = k] /\ h.pc = "splitting"
    BY <1>12, Zenon DEF SplitsFailed
  <2>2. k.pc = "redirty" /\ k.mem = entity /\ k.pay = h.pay /\ k.was = h.mem.status
    BY <1>2, Zenon DEF Handler
  <2>3. entity.status = "PARTIALLY_COMPLETED"
    BY <1>2, Zenon DEF Row
  <2> HIDE DEF k, entity
  <2>4. Follows(h.pay, h.mem.status, entity.status)
    BY <1>8, <2>1, <2>3, SMT DEF Follows, Lifecycle
  <2> QED
    BY <1>3, <2>1, <2>2, <2>4, StatusGiven
<1> QED
  BY <1>4, <1>5, <1>7, <1>9, <1>10, <1>11, <1>12

\* Every step keeps what the handlers have considered.
LEMMA StatusNext ==
    ASSUME TypeOK, StatusInv, [Next]_vars
    PROVE  StatusInv'
<1>1. CASE UNCHANGED vars
  <2> SUFFICES ASSUME NEW w \in Workers, Active(w)
               PROVE  Considered(req[w])'
    BY <1>1 DEF vars, StatusInv, Active
  <2>1. Considered(req[w]) /\ req'[w] = req[w] /\ simulated \subseteq simulated'
    BY <1>1 DEF vars, history, StatusInv
  <2> QED
    BY <2>1, ConsideredKept
<1>2. ASSUME NEW w \in Workers,
             \/ RefundReject(w) \/ RefundFails(w) \/ StatusReject(w) \/ SettleCommit(w)
             \/ RefundCommit(w) \/ Commit(w) \/ SplitsFailedCommit(w)
             \/ SplitsAnnounce(w) \/ LinkCredit(w) \/ Dispatch(w)
      PROVE  StatusInv'
  <2>1. Active(w) /\ UNCHANGED simulated
    BY <1>2, SMT DEF RefundReject, RefundFails, StatusReject, SettleCommit, RefundCommit,
       Commit, SplitsFailedCommit, SplitsAnnounce, LinkCredit, Dispatch, At, Active, history
  <2>2. Finish(w) \/ \E pc \in Trailing : req' = [req EXCEPT ![w].pc = pc]
    <3>1. {"announcing", "splitDone", "linking"} \subseteq Trailing
      BY DEF Trailing
    <3> QED
      BY <1>2, <3>1, Zenon DEF RefundReject, RefundFails, StatusReject, SettleCommit,
         RefundCommit, Commit, SplitsFailedCommit, SplitsAnnounce, LinkCredit, Dispatch
  <2> QED
    BY <2>1, <2>2, StatusEnds
<1>3. ASSUME NEW w \in Workers, Cut(w)
      PROVE  StatusInv'
  BY <1>3, StatusEnds DEF Cut
<1>4. ASSUME NEW w \in Workers, NEW c \in Calls, NEW p \in Payments, Load(w, c, p)
      PROVE  StatusInv'
  <2> DEFINE k == [pc |-> "loaded", call |-> c, pay |-> p, mem |-> db[p],
                   cols |-> {}, count |-> 0, due |-> 0, first |-> FALSE,
                   was |-> db[p].status, todo |-> {}, leg |-> NoLeg, paid |-> FALSE,
                   bad |-> FALSE]
  <2>1. req' = [req EXCEPT ![w] = k] /\ Selects(c.kind, db[p]) /\ UNCHANGED simulated
    BY <1>4, Zenon DEF Load
  <2>2. k.pc = "loaded" /\ k.call = c /\ k.mem = db[p]
    BY Zenon
  <2> HIDE DEF k
  <2>3. c.kind = "expire" => db[p].status = "PENDING"
    BY <2>1, SMT DEF Selects
  <2> QED
    BY <2>1, <2>2, <2>3, StatusGiven
<1>5. ASSUME NEW p \in Payments, MarkOverdue(p)
      PROVE  StatusInv'
  <2> SUFFICES ASSUME NEW w \in Workers, Active(w)
               PROVE  Considered(req[w])'
    BY <1>5 DEF MarkOverdue, StatusInv, Active
  <2>1. Considered(req[w]) /\ req'[w] = req[w] /\ simulated \subseteq simulated'
    BY <1>5 DEF MarkOverdue, StatusInv
  <2> QED
    BY <2>1, ConsideredKept
<1> QED
  BY <1>1, <1>2, <1>3, <1>4, <1>5, StatusApplied, StatusWorked, Zenon DEF Next, Step

\* Every change that a handler is about to write follows from the status it read.
LEMMA StatusKept == Spec => []StatusInv
<1>1. Init => StatusInv
  <2>1. Init => \A w \in Workers : ~Active(w)
    BY DEF Init, Active, Idle
  <2> QED
    BY <2>1 DEF StatusInv
<1>2. TypeOK /\ StatusInv /\ [Next]_vars => StatusInv'
  BY StatusNext
<1> QED
  BY <1>1, <1>2, TypeCorrect, PTL DEF Spec

\* A step moves the status of a payment only where Follows lets it, or over a status
\* that the handler has not seen.
LEMMA StatusFollows ==
    ASSUME TypeOK, StatusInv, Next, NEW p \in Payments
    PROVE  \/ Follows(p, db[p].status, db'[p].status)
           \/ \E w \in Workers : /\ req'[w] # req[w]
                                 /\ Holds(w, p)
                                 /\ req[w].was # db[p].status
<1> DEFINE Good == \/ Follows(p, db[p].status, db'[p].status)
                   \/ \E w \in Workers : /\ req'[w] # req[w]
                                         /\ Holds(w, p)
                                         /\ req[w].was # db[p].status
<1> SUFFICES Good
  OBVIOUS
<1>1. db'[p].status = db[p].status => Good
  BY DEF Follows
<1> HIDE DEF Good
\* Only the UPDATE of a save() changes a status.
<1>2. ASSUME NEW w \in Workers, EndSave(w), req[w].pc \in {"dirty", "redirty"},
             req'[w] # req[w], db'[p].status # db[p].status
      PROVE  Good
  <2>1. Active(w) /\ req[w].pc \in Holding
    BY <1>2, SMT DEF Active, Holding
  <2>2. req[w].pay \in Payments /\ Considered(req[w])
    BY <2>1, ActiveHandler, HandlerFields DEF StatusInv
  <2>3. /\ p # req[w].pay => db'[p] = db[p]
        /\ db'[req[w].pay] = Patch(db[req[w].pay], req[w].mem, req[w].cols)
    BY <1>2, <2>2, Zenon DEF EndSave, TypeOK
  <2>4. p = req[w].pay /\ Holds(w, p)
    BY <1>2, <2>1, <2>3 DEF Holds
  <2>5. db'[p].status = req[w].mem.status
    BY <1>2, <2>3, <2>4, SMT DEF Patch
  <2>6. Follows(p, req[w].was, db'[p].status)
    BY <1>2, <2>2, <2>4, <2>5, Zenon DEF Considered
  <2> QED
    BY <1>2, <2>4, <2>6 DEF Good
<1>3. ASSUME NEW w \in Workers, Step(w)
      PROVE  Good
  <2>1. CASE UNCHANGED db
    BY <1>1, <2>1
  <2>2. CASE SettleCommit(w)
    <3>1. db[p] \in Row
      BY DEF TypeOK
    <3>2. db'[p].status = db[p].status
      BY <2>2, <3>1, Zenon DEF SettleCommit, TypeOK, Row
    <3> QED
      BY <1>1, <3>2
  <2>3. CASE RefundCommit(w) \/ CommitCompleting(w) \/ Commit(w) \/ SplitsFailedCommit(w)
    <3>1. /\ EndSave(w) /\ req[w].pc \in {"dirty", "redirty"}
          /\ \/ \E pc \in {"announcing", "notifying", "splitDone"} :
                   req' = [req EXCEPT ![w].pc = pc]
             \/ Finish(w)
      BY <2>3, Zenon DEF RefundCommit, CommitCompleting, Commit, SplitsFailedCommit, At
    <3>2. req[w] \in Handler
      BY <3>1, ActiveHandler, SMT DEF Active
    <3>3. req'[w].pc \notin {"dirty", "redirty"}
      <4>1. Finish(w) => req'[w].pc = "idle"
        BY SMT DEF Finish, Idle, TypeOK
      <4>2. ASSUME NEW pc, req' = [req EXCEPT ![w].pc = pc]
            PROVE  req'[w].pc = pc
        BY <3>2, <4>2, Zenon DEF TypeOK, Handler
      <4> QED
        BY <3>1, <4>1, <4>2
    <3>4. req'[w] # req[w]
      BY <3>1, <3>3
    <3> QED
      BY <1>1, <1>2, <3>1, <3>4
  <2>4. \/ UNCHANGED db
        \/ SettleCommit(w) \/ RefundCommit(w) \/ CommitCompleting(w)
        \/ Commit(w) \/ SplitsFailedCommit(w)
    BY <1>3 DEF Step, RefundCount, RefundApply, RefundReject, RefundFails, WebhookApply,
                CancelApply, ExpireApply, HorizonApply, SimulateApply, StatusReject,
                SplitsFind, SplitSend, SplitSave, SplitsFailed, SplitsAnnounce,
                LinkCredit, Dispatch, store
  <2> QED
    BY <2>1, <2>2, <2>3, <2>4
<1>4. ASSUME NEW w \in Workers, NEW c \in Calls, NEW q \in Payments, Load(w, c, q)
      PROVE  Good
  BY <1>1, <1>4 DEF Load, store
<1>5. ASSUME NEW w \in Workers, Cut(w)
      PROVE  Good
  BY <1>1, <1>5 DEF Cut, store
<1>6. ASSUME NEW q \in Payments, MarkOverdue(q)
      PROVE  Good
  <2>1. db' = [db EXCEPT ![q].status = "OVERDUE"] /\ db[q].status = "PENDING"
    BY <1>6 DEF MarkOverdue
  <2>2. db'[q].status = "OVERDUE" /\ (p # q => db'[p] = db[p])
    BY <2>1, ZenonT(30) DEF TypeOK, Row
  <2>3. Follows(p, "PENDING", "OVERDUE")
    BY SMT DEF Follows, Lifecycle
  <2>4. CASE p = q
    BY <2>1, <2>2, <2>3, <2>4 DEF Good
  <2> QED
    BY <1>1, <2>2, <2>4
<1> QED
  BY <1>3, <1>4, <1>5, <1>6, Zenon DEF Next

\* However handlers interleave, no step leaves the lifecycle that their conditions make,
\* unless it writes over a status its handler has not seen, or the provider or a
\* sandbox call says so.
THEOREM StatusFollowed == Spec => StatusFollowsLifecycle
<1> DEFINE A == \A p \in Payments :
                  \/ Follows(p, db[p].status, db'[p].status)
                  \/ \E w \in Workers : /\ req'[w] # req[w]
                                        /\ Holds(w, p)
                                        /\ req[w].was # db[p].status
<1>1. TypeOK /\ StatusInv /\ [Next]_vars => [A]_vars
  BY StatusFollows
<1> QED
  BY <1>1, TypeCorrect, StatusKept, PTL DEF Spec, StatusFollowsLifecycle

----------------------------------------------------------------------------
(* Links: whoever credits one has left no leg unattempted.                 *)

\* The program points between the choice of the legs and the credit of the link.
Batch == {"splitting", "sent", "redirty", "splitDone", "linking"}

\* A step of slot w that makes no leg pending keeps the invariant if it keeps it for
\* the handler of w.
LEMMA AttemptStep ==
    ASSUME TypeOK, LegsAttempted, NEW w \in Workers, Alone(w),
           \A p \in Payments : PendingLegs(p)' \subseteq PendingLegs(p),
           req'[w].pc \in Batch =>
              \A s \in PendingLegs(req[w].pay)' :
                 req'[w].pc \in {"splitting", "sent"} /\ s \in req'[w].todo
    PROVE  LegsAttempted'
<1> SUFFICES ASSUME NEW v \in Workers, req'[v].pc \in Batch,
                    NEW s \in PendingLegs(req[v].pay)'
             PROVE  req'[v].pc \in {"splitting", "sent"} /\ s \in req'[v].todo
  BY Zenon DEF LegsAttempted, Batch
<1>1. CASE v = w
  BY <1>1, Zenon
<1>2. CASE v # w
  <2>1. req'[v] = req[v]
    BY <1>2 DEF Alone
  <2>2. s \in PendingLegs(req[v].pay)
    <3>3. req[v].pay \in Payments
      <4>1. Active(v)
        BY <2>1, SMT DEF Batch, Active
      <4> QED
        BY <4>1, ActiveHandler, HandlerFields
    <3>1. PendingLegs(req[v].pay)' = {x \in Legs[req[v].pay] :
                                          split'[req[v].pay][x] = "PENDING"}
      BY <2>1, Zenon DEF PendingLegs
    <3>2. PendingLegs(req[v].pay) = {x \in Legs[req[v].pay] :
                                          split[req[v].pay][x] = "PENDING"}
      BY DEF PendingLegs
    <3> QED
      BY <3>1, <3>2, <3>3, Zenon DEF PendingLegs
  <2> QED
    BY <2>1, <2>2, Zenon DEF LegsAttempted, Batch
<1> QED
  BY <1>1, <1>2

\* Every step of a handler keeps the invariant.
LEMMA AttemptedStep ==
    ASSUME TypeOK, LegsAttempted, NEW w \in Workers, Step(w)
    PROVE  LegsAttempted'
<1> DEFINE h == req[w]
\* Outside the payout a handler ends, or goes where no legs are promised.
<1>1. ASSUME UNCHANGED split, NEW k, req' = [req EXCEPT ![w] = k], k.pc \notin Batch
      PROVE  LegsAttempted'
  <2>1. Alone(w) /\ req'[w].pc \notin Batch
    BY <1>1, AloneSlot
  <2>2. \A p \in Payments : PendingLegs(p)' = PendingLegs(p)
    BY <1>1 DEF PendingLegs
  <2> QED
    BY <2>1, <2>2, AttemptStep, Zenon
<1>2. CASE RefundReject(w) \/ RefundFails(w) \/ StatusReject(w) \/ SettleCommit(w)
           \/ Dispatch(w)
  <2>1. UNCHANGED split /\ req' = [req EXCEPT ![w] = Idle]
    BY <1>2 DEF RefundReject, RefundFails, StatusReject, SettleCommit, Dispatch, store,
                Finish
  <2>2. Idle.pc \notin Batch
    BY DEF Idle, Batch
  <2> QED
    BY <1>1, <2>1, <2>2
<1>3. CASE RefundCount(w) \/ RefundApply(w) \/ WebhookApply(w) \/ CancelApply(w)
           \/ ExpireApply(w) \/ HorizonApply(w) \/ SimulateApply(w)
  <2>1. UNCHANGED split
    BY <1>3 DEF RefundCount, RefundApply, WebhookApply, CancelApply, ExpireApply,
                HorizonApply, SimulateApply, store
  <2>2. h.pc \in {"loaded", "counted"}
    BY <1>3, Zenon DEF RefundCount, RefundApply, WebhookApply, CancelApply, ExpireApply,
                HorizonApply, SimulateApply, At
  <2>3. h \in Handler
    BY <2>2, ActiveHandler, SMT DEF Active
  <2>4. CASE RefundCount(w)
    <3> DEFINE n == ledger[h.pay].count
               k == [h EXCEPT !.pc = "counted", !.count = n]
    <3>1. req' = [req EXCEPT ![w] = k]
      BY <2>4, Zenon DEF RefundCount
    <3>2. k.pc = "counted"
      BY <2>3, Zenon DEF Handler
    <3> HIDE DEF k
    <3>3. k.pc \notin Batch
      BY <3>2 DEF Batch
    <3> QED
      BY <1>1, <2>1, <3>1, <3>3, Zenon
  <2>5. CASE RefundApply(w)
    <3> DEFINE amount == RefundAmount(h)
               entity == Refunded(h.mem, amount)
               cols == Diff(entity, db[h.pay])
               k == [h EXCEPT !.pc = "dirty", !.mem = entity, !.cols = cols,
                              !.due = amount, !.was = h.mem.status]
    <3>1. req' = [req EXCEPT ![w] = k]
      BY <2>5, Zenon DEF RefundApply
    <3>2. k.pc = "dirty"
      BY <2>3, Zenon DEF Handler
    <3> HIDE DEF k
    <3>3. k.pc \notin Batch
      BY <3>2 DEF Batch
    <3> QED
      BY <1>1, <2>1, <3>1, <3>3, Zenon
  <2>6. ASSUME NEW entity, NEW first, StartSave(w, entity, first)
        PROVE  LegsAttempted'
    <3> DEFINE cols == Diff(entity, db[h.pay])
               k == [h EXCEPT !.pc = "dirty", !.mem = entity,
                              !.cols = cols, !.first = first,
                               !.was = req[w].mem.status]
    <3>1. req' = [req EXCEPT ![w] = k]
      BY <2>6, Zenon DEF StartSave
    <3>2. k.pc = "dirty"
      BY <2>3, Zenon DEF Handler
    <3> HIDE DEF k
    <3>3. k.pc \notin Batch
      BY <3>2 DEF Batch
    <3> QED
      BY <1>1, <2>1, <3>1, <3>3, Zenon
  <2> QED
    BY <1>3, <2>4, <2>5, <2>6, Zenon
    DEF WebhookApply, CancelApply, ExpireApply, HorizonApply, SimulateApply
\* A handler that only moves on, with no leg left behind.
<1>4. ASSUME UNCHANGED split, Active(w),
             NEW pc, req' = [req EXCEPT ![w].pc = pc],
             pc \in Batch => PendingLegs(h.pay) = {}
      PROVE  LegsAttempted'
  <2> DEFINE k == [h EXCEPT !.pc = pc]
  <2>1. h \in Handler
    BY <1>4, ActiveHandler
  <2>2. k.pc = pc /\ k.pay = h.pay
    BY <2>1, Zenon DEF Handler
  <2>3. req' = [req EXCEPT ![w] = k]
    BY <1>4, Zenon
  <2> HIDE DEF k
  <2>4. Alone(w) /\ req'[w] = k
    BY <2>3, AloneSlot
  <2>5. PendingLegs(req[w].pay)' = PendingLegs(h.pay)
    BY <1>4, <2>2, <2>4, Zenon DEF PendingLegs
  <2>6. \A p \in Payments : PendingLegs(p)' = PendingLegs(p)
    BY <1>4 DEF PendingLegs
  <2> QED
    BY <1>4, <2>2, <2>4, <2>5, <2>6, AttemptStep, Zenon
<1>5. CASE RefundCommit(w) \/ CommitCompleting(w) \/ Commit(w) \/ SplitsFailedCommit(w)
           \/ SplitsAnnounce(w) \/ LinkCredit(w)
  <2>1. /\ UNCHANGED split
        /\ h.pc \in {"dirty", "redirty", "splitDone", "splitting", "linking"}
    BY <1>5 DEF RefundCommit, CommitCompleting, Commit, SplitsFailedCommit,
                SplitsAnnounce, LinkCredit, At
  <2>2. Active(w)
    BY <2>1, SMT DEF Active
  <2>3. \/ \E pc \in {"announcing", "notifying"} : req' = [req EXCEPT ![w].pc = pc]
        \/ /\ \E pc \in {"splitDone", "linking"} : req' = [req EXCEPT ![w].pc = pc]
           /\ h.pc \in {"redirty", "splitDone", "splitting"}
           /\ h.pc = "splitting" => h.todo = {}
        \/ Finish(w)
    BY <1>5, Zenon DEF RefundCommit, CommitCompleting, Commit, SplitsFailedCommit,
                SplitsAnnounce, LinkCredit
  <2>4. h.pc \in {"redirty", "splitDone", "splitting"}
          /\ (h.pc = "splitting" => h.todo = {}) => PendingLegs(h.pay) = {}
    BY SMT DEF LegsAttempted
  <2>5. "announcing" \notin Batch /\ "notifying" \notin Batch /\ Idle.pc \notin Batch
    BY DEF Batch, Idle
  <2>6. CASE Finish(w)
    BY <1>1, <2>1, <2>5, <2>6, Zenon DEF Finish
  <2> QED
    BY <1>4, <2>1, <2>2, <2>3, <2>4, <2>5, <2>6, Zenon
<1>6. CASE SplitsFind(w)
  <2> DEFINE todo == PendingLegs(h.pay)
             pc == IF todo = {} THEN "linking" ELSE "splitting"
             k == [h EXCEPT !.todo = todo, !.pc = pc]
  <2>1. /\ req' = [req EXCEPT ![w] = k] /\ UNCHANGED split /\ h.pc = "notifying"
    BY <1>6, Zenon DEF SplitsFind, store
  <2>2. h \in Handler
    BY <2>1, ActiveHandler, SMT DEF Active
  <2>3. k.pc = pc /\ k.pay = h.pay /\ k.todo = todo
    BY <2>2, Zenon DEF Handler
  <2> HIDE DEF k
  <2>4. Alone(w) /\ req'[w] = k
    BY <2>1, AloneSlot
  <2>5. PendingLegs(req[w].pay)' = todo
    BY <2>1, <2>3, <2>4, Zenon DEF PendingLegs
  <2>6. \A p \in Payments : PendingLegs(p)' = PendingLegs(p)
    BY <2>1 DEF PendingLegs
  <2>7. \A s \in todo : pc \in {"splitting", "sent"}
    OBVIOUS
  <2> HIDE DEF todo, pc
  <2> QED
    BY <2>3, <2>4, <2>5, <2>6, <2>7, AttemptStep, Zenon
<1>7. CASE SplitSend(w)
  <2>1. PICK leg \in h.todo, returns \in BOOLEAN :
          req' = [req EXCEPT ![w].pc = "sent", ![w].leg = leg, ![w].paid = returns]
    BY <1>7, Zenon DEF SplitSend
  <2> DEFINE k == [h EXCEPT !.pc = "sent", !.leg = leg, !.paid = returns]
  <2>2. UNCHANGED split /\ h.pc = "splitting" /\ req' = [req EXCEPT ![w] = k]
    BY <1>7, <2>1, Zenon DEF SplitSend
  <2>3. h \in Handler
    BY <2>2, ActiveHandler, SMT DEF Active
  <2>4. k.pc = "sent" /\ k.pay = h.pay /\ k.todo = h.todo
    BY <2>3, Zenon DEF Handler
  <2> HIDE DEF k
  <2>5. Alone(w) /\ req'[w] = k
    BY <2>2, AloneSlot
  <2>6. PendingLegs(req[w].pay)' = PendingLegs(h.pay)
    BY <2>2, <2>4, <2>5, Zenon DEF PendingLegs
  <2>7. \A p \in Payments : PendingLegs(p)' = PendingLegs(p)
    BY <2>2 DEF PendingLegs
  <2>8. \A s \in PendingLegs(h.pay) : s \in h.todo
    BY <2>2, SMT DEF LegsAttempted
  <2> QED
    BY <2>4, <2>5, <2>6, <2>7, <2>8, AttemptStep, Zenon
<1>8. CASE SplitSave(w)
  <2> DEFINE todo == h.todo \ {h.leg}
             bad == h.bad \/ ~h.paid
             k == [h EXCEPT !.pc = "splitting", !.todo = todo, !.leg = NoLeg,
                            !.paid = FALSE, !.bad = bad]
  <2>1. /\ req' = [req EXCEPT ![w] = k] /\ h.pc = "sent"
        /\ split' = [split EXCEPT ![h.pay][h.leg] = LegOutcome(h)]
    BY <1>8, Zenon DEF SplitSave
  <2>2. h \in Handler /\ h.pay \in Payments
    BY <2>1, ActiveHandler, HandlerFields, SMT DEF Active
  <2>3. k.pc = "splitting" /\ k.pay = h.pay /\ k.todo = todo
    BY <2>2, Zenon DEF Handler
  <2> HIDE DEF k
  <2>4. Alone(w) /\ req'[w] = k
    BY <2>1, AloneSlot
  <2>5. LegOutcome(h) # "PENDING"
    BY SMT DEF LegOutcome
  <2>6. \A p \in Payments : \A s \in Splits :
           \/ split'[p][s] = split[p][s]
           \/ split'[p][s] # "PENDING"
    <3>1. split \in [Payments -> [Splits -> SplitStatus]]
      BY DEF TypeOK
    <3> QED
      BY <2>1, <2>5, <3>1
  <2>7. \A p \in Payments : Legs[p] \subseteq Splits
    BY PaymentsAssumption, SMT DEF PaymentsAssumption
  <2>8. \A p \in Payments : PendingLegs(p)' \subseteq PendingLegs(p)
    BY <2>6, <2>7, Zenon DEF PendingLegs
  <2>9. PICK p \in Payments : p = h.pay
    BY <2>2
  <2>10. h.leg \notin PendingLegs(p)'
    <3> SUFFICES ASSUME h.leg \in Legs[p]
                 PROVE  split'[p][h.leg] # "PENDING"
      BY DEF PendingLegs
    <3>1. h.leg \in Splits /\ split \in [Payments -> [Splits -> SplitStatus]]
      BY <2>7 DEF TypeOK
    <3> QED
      BY <2>1, <2>5, <2>9, <3>1
  <2>11. \A s \in PendingLegs(p) : s \in h.todo
    BY <2>1, <2>9, SMT DEF LegsAttempted
  <2>12. PendingLegs(req[w].pay)' \subseteq todo
    <3>1. PendingLegs(req[w].pay)' = PendingLegs(p)'
      BY <2>3, <2>4, <2>9, Zenon DEF PendingLegs
    <3> QED
      BY <2>8, <2>10, <2>11, <3>1
  <2> HIDE DEF todo
  <2> QED
    BY <2>3, <2>4, <2>8, <2>12, AttemptStep, Zenon
<1>9. CASE SplitsFailed(w)
  <2> DEFINE entity == [h.mem EXCEPT !.status = "PARTIALLY_COMPLETED"]
             cols == Diff(entity, db[h.pay])
             k == [h EXCEPT !.pc = "redirty", !.mem = entity, !.cols = cols,
                            !.was = h.mem.status]
  <2>1. /\ req' = [req EXCEPT ![w] = k] /\ h.pc = "splitting" /\ h.todo = {}
        /\ UNCHANGED split
    BY <1>9, Zenon DEF SplitsFailed, store
  <2>2. h \in Handler
    BY <2>1, ActiveHandler, SMT DEF Active
  <2>3. k.pc = "redirty" /\ k.pay = h.pay
    BY <2>2, Zenon DEF Handler
  <2> HIDE DEF k
  <2>4. Alone(w) /\ req'[w] = k
    BY <2>1, AloneSlot
  <2>5. PendingLegs(h.pay) = {}
    BY <2>1, SMT DEF LegsAttempted
  <2>6. PendingLegs(req[w].pay)' = {}
    BY <2>1, <2>3, <2>4, <2>5, Zenon DEF PendingLegs
  <2>7. \A p \in Payments : PendingLegs(p)' = PendingLegs(p)
    BY <2>1 DEF PendingLegs
  <2> QED
    BY <2>4, <2>6, <2>7, AttemptStep, Zenon
<1> QED
  BY <1>2, <1>3, <1>5, <1>6, <1>7, <1>8, <1>9 DEF Step

\* The invariant holds of every behaviour.
LEMMA AttemptedKept == Spec => []LegsAttempted
<1>1. Init => LegsAttempted
  BY InitPayout
<1>2. TypeOK /\ LegsAttempted /\ [Next]_vars => LegsAttempted'
  <2> SUFFICES ASSUME TypeOK, LegsAttempted, [Next]_vars PROVE LegsAttempted'
    OBVIOUS
  <2>1. ASSUME UNCHANGED <<req, split>>
        PROVE  LegsAttempted'
    BY <2>1 DEF LegsAttempted, PendingLegs
  <2>2. CASE UNCHANGED vars
    BY <2>1, <2>2 DEF vars, store
  <2>3. ASSUME NEW w \in Workers, NEW k, req' = [req EXCEPT ![w] = k],
               k.pc \notin Batch, UNCHANGED split
        PROVE  LegsAttempted'
    <3>1. Alone(w) /\ req'[w].pc \notin Batch
      BY <2>3, AloneSlot
    <3>2. \A p \in Payments : PendingLegs(p)' = PendingLegs(p)
      BY <2>3 DEF PendingLegs
    <3> QED
      BY <3>1, <3>2, AttemptStep, Zenon
  <2>4. ASSUME NEW w \in Workers, NEW c \in Calls, NEW p \in Payments, Load(w, c, p)
        PROVE  LegsAttempted'
    <3> DEFINE k == [pc |-> "loaded", call |-> c, pay |-> p, mem |-> db[p],
                     cols |-> {}, count |-> 0, due |-> 0, first |-> FALSE,
                     was |-> db[p].status, todo |-> {}, leg |-> NoLeg, paid |-> FALSE, bad |-> FALSE]
    <3>1. req' = [req EXCEPT ![w] = k] /\ UNCHANGED split
      BY <2>4, Zenon DEF Load, store
    <3>2. k.pc = "loaded"
      BY Zenon
    <3> HIDE DEF k
    <3>3. k.pc \notin Batch
      BY <3>2 DEF Batch
    <3> QED
      BY <2>3, <3>1, <3>3, Zenon
  <2>5. ASSUME NEW w \in Workers, Cut(w)
        PROVE  LegsAttempted'
    <3>1. req' = [req EXCEPT ![w] = Idle] /\ UNCHANGED split
      BY <2>5 DEF Cut, Finish, store
    <3>2. Idle.pc \notin Batch
      BY DEF Idle, Batch
    <3> QED
      BY <2>3, <3>1, <3>2
  <2>6. ASSUME NEW p \in Payments, MarkOverdue(p)
        PROVE  LegsAttempted'
    BY <2>1, <2>6 DEF MarkOverdue
  <2> QED
    BY <2>2, <2>4, <2>5, <2>6, AttemptedStep, Zenon DEF Next
<1> QED
  BY <1>1, <1>2, TypeCorrect, PTL DEF Spec

\* However webhooks, simulations and crashes follow each other, a payment counts for
\* its link only when no leg of it is still PENDING.
THEOREM LinksCreditedLast == Spec => LinkCreditedLast
<1> DEFINE A == \A p \in Payments : credits'[p] > credits[p] =>
                  \A s \in Legs[p] : split[p][s] # "PENDING"
<1>1. TypeOK /\ LegsAttempted /\ [Next]_vars => [A]_vars
  <2> SUFFICES ASSUME TypeOK, LegsAttempted, Next, NEW p \in Payments,
                      credits'[p] > credits[p], NEW s \in Legs[p]
               PROVE  split[p][s] # "PENDING"
    OBVIOUS
  <2>1. credits'[p] # credits[p]
    BY SMT DEF TypeOK
  <2>2. PICK w \in Workers : LinkCredit(w)
    <3>1. ASSUME NEW w \in Workers, Step(w) PROVE UNCHANGED credits \/ LinkCredit(w)
      <4>1. RefundCount(w) \/ RefundApply(w) \/ RefundReject(w) => UNCHANGED credits
        BY DEF RefundCount, RefundApply, RefundReject, store
      <4>2. RefundCommit(w) \/ RefundFails(w) => UNCHANGED credits
        BY DEF RefundCommit, RefundFails
      <4>3. WebhookApply(w) \/ CancelApply(w) \/ ExpireApply(w) => UNCHANGED credits
        BY DEF WebhookApply, CancelApply, ExpireApply, store
      <4>4. HorizonApply(w) \/ SimulateApply(w) \/ StatusReject(w) => UNCHANGED credits
        BY DEF HorizonApply, SimulateApply, StatusReject, store
      <4>5. SettleCommit(w) \/ CommitCompleting(w) \/ Commit(w) => UNCHANGED credits
        BY DEF SettleCommit, CommitCompleting, Commit
      <4>6. SplitsFind(w) \/ SplitSend(w) \/ SplitSave(w) => UNCHANGED credits
        BY DEF SplitsFind, SplitSend, SplitSave, store
      <4>7. /\ SplitsFailed(w) \/ SplitsFailedCommit(w) => UNCHANGED credits
            /\ SplitsAnnounce(w) \/ Dispatch(w) => UNCHANGED credits
        BY DEF SplitsFailed, SplitsFailedCommit, SplitsAnnounce, Dispatch, store
      <4> QED
        BY <3>1, <4>1, <4>2, <4>3, <4>4, <4>5, <4>6, <4>7, Zenon DEF Step
    <3>2. /\ \A w \in Workers, c \in Calls, q \in Payments :
                Load(w, c, q) => UNCHANGED credits
          /\ \A w \in Workers : Cut(w) => UNCHANGED credits
          /\ \A q \in Payments : MarkOverdue(q) => UNCHANGED credits
      BY DEF Load, Cut, MarkOverdue, store
    <3> QED
      BY <2>1, <3>1, <3>2, Zenon DEF Next
  <2>3. req[w].pc = "linking" /\ req[w].pay = p
    BY <2>1, <2>2, Zenon DEF LinkCredit, TypeOK
  <2>4. PendingLegs(p) = {}
    BY <2>3, SMT DEF LegsAttempted
  <2> QED
    BY <2>4 DEF PendingLegs
<1> QED
  BY <1>1, TypeCorrect, AttemptedKept, PTL DEF Spec, LinkCreditedLast
=============================================================================
