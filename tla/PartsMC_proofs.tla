----------------------------- MODULE PartsMC_proofs -----------------------------
(***************************************************************************)
(* What is proved of the components that PartsMC puts side by side, as     *)
(* properties of PartsMC, for every value of the constants: each component *)
(* has its inductive invariant, and a step of PartsMC is one of the        *)
(* component or leaves its variables alone.  PartsTypes_proofs has those   *)
(* whose proofs are in modules of their own, settlements and the types.    *)
(***************************************************************************)
EXTENDS PartsMC, FiniteSetTheorems, TLAPS

-----------------------------------------------------------------------------
(* Payment links.                                                          *)

LEMMA NoLinkUntyped == \A r \in PL!Row : r # PL!NoRow
  BY DEF PL!Row, PL!NoRow

\* A link that was there and is not touched but for its counters is still there.
LEMMA HandlersGoOn ==
    ASSUME PL!LinksInv, NEW w \in Workers,
           \A l \in Links : link[l] # PL!NoRow => link'[l] # PL!NoRow,
           plJob'[w] = plJob[w]
    PROVE  PL!Handled(w)'
  BY DEF PL!LinksInv, PL!Handled, PL!At

LEMMA LinksBegin == ASSUME Init PROVE PL!LinksInv
  BY DEF Init, PL!Init, PL!LinksInv, PL!CountersKept, PL!Handled, PL!Tallied, PL!Untouched

\* A handler goes on with a link that is there.
LEMMA LinkLoaded ==
    ASSUME PL!LinksInv, NEW w \in Workers, NEW l \in Links, link[l] \in PL!Row, NEW new,
           plJob' = [plJob EXCEPT ![w] = new], UNCHANGED <<link, pending, seen, PL!sums, plOverwritten>>,
           new.pc \in {"saving", "writing", "counting"}, new.l = l,
           new.pc \in {"saving", "writing"} => /\ new.copy \in PL!Row
                                               /\ new.copy.views = new.read.views
                                               /\ new.copy.completions = new.read.completions,
           new.pc = "writing" => new.cols \subseteq PL!Columns
    PROVE  PL!LinksInv'
  <1>1. /\ DOMAIN plJob' = Workers /\ plJob'[w] = new
        /\ \A v \in Workers : v # w => plJob'[v] = plJob[v]
    BY DEF PL!LinksInv
  <1>2. PL!Handled(w)'
    BY <1>1, NoLinkUntyped DEF PL!Handled, PL!At
  <1>3. \A v \in Workers : PL!Handled(v)'
    BY <1>1, <1>2, HandlersGoOn
  <1> QED
    BY <1>1, <1>3 DEF PL!LinksInv, PL!CountersKept, PL!Counted, PL!Tallied, PL!Untouched, PL!sums

LEMMA LinkStarts ==
    ASSUME PlMaxTime \in Nat, PL!LinksInv, NEW w \in Workers, NEW l \in Links,
           PL!StartDeactivate(w, l) \/ PL!StartUpdate(w, l) \/ PL!Visit(w, l)
    PROVE  PL!LinksInv'
  <1>1. UNCHANGED <<link, pending, seen, PL!sums, plOverwritten>> /\ link[l] \in PL!Row
    BY DEF PL!StartDeactivate, PL!StartUpdate, PL!Visit, PL!Load, PL!LinksInv
  <1>2. CASE PL!StartDeactivate(w, l)
    <2> DEFINE edit == [link[l] EXCEPT !.active = FALSE]
               new == [pc |-> "saving", l |-> l, read |-> link[l], copy |-> edit]
    <2>1. edit \in PL!Row /\ edit.views = link[l].views /\ edit.completions = link[l].completions
      BY <1>1 DEF PL!Row
    <2>2. plJob' = [plJob EXCEPT ![w] = new]
      BY <1>2 DEF PL!StartDeactivate, PL!Load
    <2> HIDE DEF edit
    <2>3. /\ new.pc = "saving" /\ new.l = l /\ new.copy \in PL!Row
          /\ new.copy.views = new.read.views /\ new.copy.completions = new.read.completions
      BY <2>1
    <2> HIDE DEF new
    <2> QED
      BY <1>1, <2>2, <2>3, LinkLoaded
  <1>3. CASE PL!StartUpdate(w, l)
    <2>1. PICK dto \in PL!Edits(link[l]) : PL!Load(w, l, PL!Edited(link[l], dto))
      BY <1>3 DEF PL!StartUpdate
    <2> DEFINE edit == PL!Edited(link[l], dto)
               new == [pc |-> "saving", l |-> l, read |-> link[l], copy |-> edit]
    <2>2. edit.views = link[l].views /\ edit.completions = link[l].completions
      BY <1>1 DEF PL!Edited, PL!Row
    <2>3. dto.active \in BOOLEAN /\ dto.expires \in 0 .. PL!Never
      BY <1>1 DEF PL!Edits, PL!Row, PL!Never
    <2>4. edit \in PL!Row
      BY <1>1, <2>3 DEF PL!Edited, PL!Row
    <2>5. plJob' = [plJob EXCEPT ![w] = new]
      BY <2>1 DEF PL!Load
    <2> HIDE DEF edit
    <2>6. /\ new.pc = "saving" /\ new.l = l /\ new.copy \in PL!Row
          /\ new.copy.views = new.read.views /\ new.copy.completions = new.read.completions
      BY <2>2, <2>4
    <2> HIDE DEF new
    <2> QED
      BY <1>1, <2>5, <2>6, LinkLoaded
  <1>4. CASE PL!Visit(w, l)
    <2> DEFINE new == [pc |-> "counting", l |-> l, read |-> link[l]]
    <2>1. plJob' = [plJob EXCEPT ![w] = new]
      BY <1>4 DEF PL!Visit
    <2>2. new.pc = "counting" /\ new.l = l
      OBVIOUS
    <2> HIDE DEF new
    <2> QED
      BY <1>1, <2>1, <2>2, LinkLoaded
  <1> QED
    BY <1>2, <1>3, <1>4

\* The SELECT of a save changes nothing but what its handler knows.
LEMMA LinkSelected == ASSUME PL!LinksInv, NEW w \in Workers, PL!SelectLink(w) PROVE PL!LinksInv'
  <1> DEFINE l == plJob[w].l
             cols == PL!Diff(plJob[w].copy, link[l])
             new == [pc |-> "writing", l |-> l, read |-> plJob[w].read, copy |-> plJob[w].copy,
                     cols |-> cols]
  <1>1. /\ l \in Links /\ link[l] # PL!NoRow /\ plJob[w].copy \in PL!Row
        /\ plJob[w].copy.views = plJob[w].read.views
        /\ plJob[w].copy.completions = plJob[w].read.completions
    BY DEF PL!SelectLink, PL!LinksInv, PL!Handled, PL!At, PL!Idle
  <1>2. link[l] \in PL!Row
    BY <1>1 DEF PL!LinksInv
  <1>3. plJob' = [plJob EXCEPT ![w] = new] /\ UNCHANGED <<link, pending, seen, PL!sums, plOverwritten>>
    BY DEF PL!SelectLink
  <1>4. cols \subseteq PL!Columns
    BY DEF PL!Diff
  <1> HIDE DEF l, cols
  <1>5. /\ new.pc = "writing" /\ new.l = l /\ new.copy \in PL!Row /\ new.cols \subseteq PL!Columns
        /\ new.copy.views = new.read.views /\ new.copy.completions = new.read.completions
    BY <1>1, <1>4
  <1> HIDE DEF new
  <1> QED
    BY <1>1, <1>2, <1>3, <1>5, LinkLoaded

\* A link that is there gets a new row, and the histories count along.
LEMMA LinkChanges ==
    ASSUME PL!LinksInv, NEW l \in Links, NEW new \in PL!Row, link' = [link EXCEPT ![l] = new],
           \A w \in Workers : plJob'[w] = plJob[w] \/ PL!Handled(w)', DOMAIN plJob' = Workers,
           PL!Tallied',
           \A k \in Links : k # l => /\ pending'[k] = pending[k] /\ seen'[k] = seen[k]
                                     /\ paid'[k] = paid[k] /\ owed'[k] = owed[k]
                                     /\ uncredited'[k] = uncredited[k],
           plOverwritten \subseteq plOverwritten',
           l \notin plOverwritten' => /\ new.views = seen'[l]
                                      /\ new.completions + owed'[l] + uncredited'[l] = paid'[l]
    PROVE  PL!LinksInv'
  <1>1. link' \in [Links -> PL!Row \cup {PL!NoRow}] /\ link'[l] = new
        /\ \A k \in Links : k # l => link'[k] = link[k]
    BY DEF PL!LinksInv
  <1>2. \A k \in Links : link[k] # PL!NoRow => link'[k] # PL!NoRow
    BY <1>1, NoLinkUntyped
  <1>3. \A w \in Workers : PL!Handled(w)'
    BY <1>2, HandlersGoOn
  <1>4. PL!CountersKept'
    BY <1>1 DEF PL!LinksInv, PL!CountersKept, PL!Counted
  <1>5. \A k \in Links : link'[k] = PL!NoRow => PL!Untouched(k)'
    BY <1>1, NoLinkUntyped DEF PL!LinksInv, PL!Untouched
  <1> QED
    BY <1>1, <1>3, <1>4, <1>5 DEF PL!LinksInv

\* An UPDATE of none but the columns its handler changed leaves the counters.
LEMMA LinkSaved == ASSUME PL!LinksInv, NEW w \in Workers, PL!Save(w) PROVE PL!LinksInv'
  <1> DEFINE l == plJob[w].l  copy == plJob[w].copy  cols == plJob[w].cols
             new == PL!Patch(link[l], copy, cols)
  <1>1. /\ l \in Links /\ link[l] # PL!NoRow /\ copy \in PL!Row
        /\ copy.views = plJob[w].read.views /\ copy.completions = plJob[w].read.completions
    BY DEF PL!Save, PL!LinksInv, PL!Handled, PL!At, PL!Idle
  <1>2. link[l] \in PL!Row
    BY <1>1 DEF PL!LinksInv
  <1>3. /\ link' = [link EXCEPT ![l] = new] /\ UNCHANGED <<pending, seen, PL!sums>>
        /\ plOverwritten' = IF PL!WritesBack(w) THEN plOverwritten \cup {l} ELSE plOverwritten
        /\ plJob' = [plJob EXCEPT ![w] = PL!Idle]
    BY DEF PL!Save, PL!Finish
  <1>4. new \in PL!Row
    BY <1>1, <1>2 DEF PL!Patch, PL!Row
  <1>5. ~PL!WritesBack(w) => new.views = link[l].views /\ new.completions = link[l].completions
    <2>1. ~PL!WritesBack(w) => "views" \notin cols /\ "completions" \notin cols
      BY <1>1 DEF PL!WritesBack, PL!Diff
    <2> QED
      BY <1>2, <2>1 DEF PL!Patch
  <1>6. UNCHANGED <<pending, seen, paid, owed, uncredited>>
    BY <1>3 DEF PL!sums
  <1>7. l \notin plOverwritten' => /\ new.views = seen'[l]
                                   /\ new.completions + owed'[l] + uncredited'[l] = paid'[l]
    <2> HIDE DEF new
    <2> QED
      BY <1>1, <1>3, <1>5, <1>6 DEF PL!LinksInv, PL!CountersKept, PL!Counted
  <1>8. DOMAIN plJob' = Workers /\ \A v \in Workers : plJob'[v] = plJob[v] \/ PL!Handled(v)'
    BY <1>3 DEF PL!LinksInv, PL!Handled
  <1>9. PL!Tallied'
    BY <1>6 DEF PL!LinksInv, PL!Tallied
  <1>10. plOverwritten \subseteq plOverwritten'
    BY <1>3
  <1> HIDE DEF l, copy, cols, new
  <1> QED
    BY <1>1, <1>3, <1>4, <1>6, <1>7, <1>8, <1>9, <1>10, LinkChanges

\* A visit counted in the row and in the history.
LEMMA LinkViewed == ASSUME PL!LinksInv, NEW w \in Workers, PL!CountView(w) PROVE PL!LinksInv'
  <1> DEFINE l == plJob[w].l
             new == [link[l] EXCEPT !.views = @ + 1]
  <1>1. l \in Links /\ link[l] # PL!NoRow
    BY DEF PL!CountView, PL!LinksInv, PL!Handled, PL!At, PL!Idle
  <1>2. link[l] \in PL!Row
    BY <1>1 DEF PL!LinksInv
  <1>3. new \in PL!Row /\ new.views = link[l].views + 1 /\ new.completions = link[l].completions
    BY <1>2 DEF PL!Row
  <1>4. /\ link' = [link EXCEPT ![l] = new] /\ seen' = [seen EXCEPT ![l] = seen[l] + 1]
        /\ plJob' = [plJob EXCEPT ![w].pc = "answering"]
        /\ UNCHANGED <<pending, paid, owed, uncredited, plOverwritten>>
    BY DEF PL!CountView, PL!sums
  <1>5. PL!Tallied' /\ seen'[l] = seen[l] + 1 /\ \A k \in Links : k # l => seen'[k] = seen[k]
    BY <1>1, <1>4 DEF PL!LinksInv, PL!Tallied
  <1>6. l \notin plOverwritten' => /\ new.views = seen'[l]
                                   /\ new.completions + owed'[l] + uncredited'[l] = paid'[l]
    BY <1>1, <1>3, <1>4, <1>5 DEF PL!LinksInv, PL!CountersKept, PL!Counted
  <1>7. DOMAIN plJob' = Workers /\ \A v \in Workers : v # w => plJob'[v] = plJob[v]
    BY <1>4 DEF PL!LinksInv
  <1>8. plJob'[w].pc = "answering" /\ plJob'[w].l = l
    BY <1>4 DEF PL!LinksInv
  <1>9. link'[l] # PL!NoRow
    BY <1>1, <1>3, <1>4, NoLinkUntyped DEF PL!LinksInv
  <1> HIDE DEF new, l
  <1>10. PL!Handled(w)'
    BY <1>1, <1>8, <1>9 DEF PL!Handled, PL!At
  <1> QED
    BY <1>1, <1>3, <1>4, <1>5, <1>6, <1>7, <1>10, LinkChanges

\* A payment completes; its credit is made, lost, or was never to come.
LEMMA LinkPaid ==
    ASSUME PL!LinksInv, NEW l \in Links,
           PL!CompletePayment(l) \/ PL!Credit(l) \/ PL!LoseCredit(l) \/ PL!CompleteByStream(l)
    PROVE  PL!LinksInv'
  <1> DEFINE new == IF PL!Credit(l) THEN PL!Credited(link[l]) ELSE link[l]
  <1>1. PL!Tallied /\ (pending[l] > 0 \/ owed[l] > 0)
    BY DEF PL!CompletePayment, PL!Credit, PL!LoseCredit, PL!CompleteByStream, PL!LinksInv
  <1>2. link[l] \in PL!Row
    BY <1>1 DEF PL!LinksInv, PL!Untouched
  <1>3. /\ new \in PL!Row /\ new.views = link[l].views
        /\ new.completions = link[l].completions + (IF PL!Credit(l) THEN 1 ELSE 0)
    BY <1>2 DEF PL!Row, PL!Credited
  <1>4. /\ link' = [link EXCEPT ![l] = new] /\ UNCHANGED <<plJob, seen, plOverwritten>>
    BY DEF PL!CompletePayment, PL!Credit, PL!LoseCredit, PL!CompleteByStream, PL!LinksInv
  <1>5. /\ PL!Tallied'
        /\ paid'[l] - owed'[l] - uncredited'[l]
             = paid[l] - owed[l] - uncredited[l] + (IF PL!Credit(l) THEN 1 ELSE 0)
        /\ \A k \in Links : k # l => /\ pending'[k] = pending[k] /\ seen'[k] = seen[k]
                                     /\ paid'[k] = paid[k] /\ owed'[k] = owed[k]
                                     /\ uncredited'[k] = uncredited[k]
    <2>1. CASE PL!CompletePayment(l)
      <3>1. ~PL!Credit(l)
        BY <1>1, <2>1 DEF PL!CompletePayment, PL!Credit, PL!Tallied
      <3> QED
        BY <1>1, <2>1, <3>1 DEF PL!CompletePayment, PL!Tallied
    <2>2. CASE PL!Credit(l)
      BY <1>1, <2>2 DEF PL!Credit, PL!Tallied
    <2>3. CASE PL!LoseCredit(l)
      <3>1. ~PL!Credit(l)
        BY <1>1, <2>3 DEF PL!LoseCredit, PL!Credit, PL!Tallied
      <3> QED
        BY <1>1, <2>3, <3>1 DEF PL!LoseCredit, PL!Tallied
    <2>4. CASE PL!CompleteByStream(l)
      <3>1. ~PL!Credit(l)
        BY <1>1, <2>4 DEF PL!CompleteByStream, PL!Credit, PL!Tallied
      <3> QED
        BY <1>1, <2>4, <3>1 DEF PL!CompleteByStream, PL!Tallied
    <2> QED
      BY <2>1, <2>2, <2>3, <2>4
  <1>6. link[l].completions \in Nat /\ link[l].views \in Nat
    BY <1>2 DEF PL!Row
  <1>7. l \notin plOverwritten => /\ link[l].views = seen[l]
                                  /\ link[l].completions + owed[l] + uncredited[l] = paid[l]
    BY <1>2, NoLinkUntyped DEF PL!LinksInv, PL!CountersKept, PL!Counted
  <1> HIDE DEF new
  <1>8. /\ owed[l] \in Nat /\ uncredited[l] \in Nat /\ paid[l] \in Nat
        /\ owed'[l] \in Nat /\ uncredited'[l] \in Nat /\ paid'[l] \in Nat
    BY <1>1, <1>5 DEF PL!Tallied
  <1>9. l \notin plOverwritten' => /\ new.views = seen'[l]
                                   /\ new.completions + owed'[l] + uncredited'[l] = paid'[l]
    BY <1>3, <1>4, <1>5, <1>6, <1>7, <1>8
  <1>10. DOMAIN plJob' = Workers
    BY <1>4 DEF PL!LinksInv
  <1> QED
    BY <1>3, <1>4, <1>5, <1>9, <1>10, LinkChanges

LEMMA LinkCreated == ASSUME PlMaxTime \in Nat, PL!LinksInv, NEW l \in Links, PL!Create(l) PROVE PL!LinksInv'
  <1>1. PICK dto \in PL!Dtos : link' = [link EXCEPT ![l] = PL!Created(dto)]
    BY DEF PL!Create
  <1> DEFINE new == PL!Created(dto)
  <1>2. new \in PL!Row /\ new.views = 0 /\ new.completions = 0
    BY DEF PL!Created, PL!Dtos, PL!Row, PL!Never
  <1>3. UNCHANGED <<pending, seen, paid, owed, uncredited, plJob, plOverwritten>> /\ PL!Untouched(l)
    BY DEF PL!Create, PL!LinksInv, PL!sums
  <1>4. PL!Tallied' /\ DOMAIN plJob' = Workers
    BY <1>3 DEF PL!LinksInv, PL!Tallied
  <1> HIDE DEF new
  <1>5. new.views = seen'[l] /\ new.completions + owed'[l] + uncredited'[l] = paid'[l]
    BY <1>2, <1>3 DEF PL!Untouched
  <1> QED
    BY <1>1, <1>2, <1>3, <1>4, <1>5, LinkChanges DEF new

LEMMA LinksStep == ASSUME PlMaxTime \in Nat, PL!LinksInv, [PL!Next]_(PL!vars) PROVE PL!LinksInv'
  <1> USE DEF PL!sums
  <1>1. ASSUME NEW l \in Links, PL!NameLink(l) PROVE PL!LinksInv'
    <2>1. UNCHANGED <<link, seen, paid, owed, uncredited, plJob, plOverwritten>> /\ link[l] # PL!NoRow
      BY <1>1 DEF PL!NameLink
    <2>2. pending' \in [Links -> Nat] /\ \A k \in Links : k # l => pending'[k] = pending[k]
      BY <1>1 DEF PL!NameLink, PL!LinksInv, PL!Tallied
    <2> QED
      BY <2>1, <2>2 DEF PL!LinksInv, PL!Tallied, PL!Untouched, PL!CountersKept, PL!Counted, PL!Handled, PL!At
  <1>2. ASSUME NEW w \in Workers, PL!Answer(w) PROVE PL!LinksInv'
    <2>1. UNCHANGED <<link, seen, paid, owed, uncredited, pending, plOverwritten>>
      BY <1>2 DEF PL!Answer
    <2>2. DOMAIN plJob' = Workers /\ \A v \in Workers : plJob'[v] = plJob[v] \/ plJob'[v] = PL!Idle
      BY <1>2 DEF PL!Answer, PL!Finish, PL!LinksInv
    <2> QED
      BY <2>1, <2>2 DEF PL!LinksInv, PL!Tallied, PL!Untouched, PL!CountersKept, PL!Counted, PL!Handled, PL!At
  <1>3. CASE PL!Tick \/ UNCHANGED PL!vars
    BY <1>3 DEF PL!Tick, PL!vars, PL!LinksInv, PL!Tallied, PL!Untouched, PL!CountersKept, PL!Counted, PL!Handled, PL!At
  <1> QED
    BY <1>1, <1>2, <1>3, LinkStarts, LinkSelected, LinkSaved, LinkViewed, LinkPaid, LinkCreated DEF PL!Next

\* Only a save of the merchant's switches a link on.
LEMMA OffStays == ASSUME PL!LinksInv, [PL!Next]_(PL!vars) PROVE PL!OffKept
  <1> SUFFICES ASSUME NEW l \in Links, link[l] # PL!NoRow, ~link[l].active, link'[l].active
               PROVE  \E w \in Workers : /\ PL!At(w, "writing") /\ plJob[w].l = l /\ ~PL!At(w, "writing")'
                                         /\ plJob[w].copy.active
                                         /\ (~plJob[w].read.active \/ PL!WritesBack(w))
    BY DEF PL!OffKept
  <1>1. link[l] \in PL!Row
    BY DEF PL!LinksInv
  <1>2. ASSUME NEW w \in Workers, PL!Save(w)
        PROVE  /\ PL!At(w, "writing") /\ plJob[w].l = l /\ ~PL!At(w, "writing")'
               /\ plJob[w].copy.active
               /\ (~plJob[w].read.active \/ PL!WritesBack(w))
    <2>1. PL!At(w, "writing") /\ plJob[w].l = l /\ ~PL!At(w, "writing")'
      BY <1>2 DEF PL!Save, PL!Finish, PL!Idle, PL!At, PL!LinksInv
    <2>2. link'[l] = PL!Patch(link[l], plJob[w].copy, plJob[w].cols)
      BY <1>2, <2>1 DEF PL!Save, PL!LinksInv
    <2>3. "active" \in plJob[w].cols /\ plJob[w].copy.active
      BY <2>2 DEF PL!Patch
    <2>4. CASE plJob[w].read.active
      <3>1. plJob[w].copy \in PL!Row
        BY <2>1 DEF PL!LinksInv, PL!Handled, PL!At, PL!Idle
      <3>2. CASE plJob[w].copy.active = plJob[w].read.active
        <4>1. "active" \notin PL!Diff(plJob[w].copy, plJob[w].read)
          BY <3>2 DEF PL!Diff
        <4> QED
          BY <2>1, <2>3, <4>1 DEF PL!WritesBack
      <3> QED
        BY <3>2, <2>3, <2>4
    <2> QED
      BY <2>1, <2>3, <2>4
  <1>3. ASSUME NEW k \in Links, PL!Create(k) PROVE link'[l] = link[l]
    BY <1>3 DEF PL!Create, PL!LinksInv
  <1>4. ASSUME NEW k \in Links, PL!Credit(k) PROVE link'[l].active = link[l].active
    BY <1>1, <1>4 DEF PL!Credit, PL!Credited, PL!LinksInv, PL!Row
  <1>5. ASSUME NEW w \in Workers, PL!CountView(w) PROVE link'[l].active = link[l].active
    BY <1>1, <1>5 DEF PL!CountView, PL!LinksInv, PL!Row
  <1> QED
    BY <1>2, <1>3, <1>4, <1>5 DEF PL!Next, PL!vars, PL!Tick, PL!NameLink, PL!StartDeactivate,
       PL!StartUpdate, PL!Visit, PL!Load, PL!Answer, PL!SelectLink, PL!CompletePayment,
       PL!LoseCredit, PL!CompleteByStream

LEMMA LinksMove == [Next]_vars => [PL!Next]_(PL!vars)
  BY DEF Next, vars, plVars, wdVars, acVars, tkVars, auVars, akVars, diVars, thVars, wnVars,
     raVars, ejVars, msVars, seVars, PL!vars, PL!sums

(* The counters of a link miss no visit, and of its completed payments     *)
(* only those whose credit is still to come, was cut off, or is never made *)
(* because the stream completed them, unless an edit wrote back a counter  *)
(* that had changed since it was read; and a link switched off is revived  *)
(* by nothing but its merchant's save, for any number of links, visits,    *)
(* payments and edits (payment-links.service.ts:156-276,                   *)
(* payments.service.ts:1052-1071).                                         *)
THEOREM LinksStayRight == ASSUME PlMaxTime \in Nat PROVE Spec => LinksKept
  <1>1. Init => PL!LinksInv
    BY LinksBegin
  <1>2. PL!LinksInv /\ [Next]_vars => PL!LinksInv'
    BY LinksMove, LinksStep
  <1>3. PL!LinksInv /\ [Next]_vars => [focus = "PaymentLinks" => PL!CountersKept' /\ PL!OffKept]_vars
    BY <1>2, LinksMove, OffStays DEF PL!LinksInv
  <1> QED
    BY <1>1, <1>2, <1>3, PTL DEF Spec, LinksKept

-----------------------------------------------------------------------------
(* Accounts.                                                               *)

AccountOps == {"login", "verify", "disable", "setup", "regenerate", "unlock", "other"}

LEMMA CardinalitySame == \A S : AU!Cardinality(S) = Cardinality(S)
  BY DEF AU!Cardinality, Cardinality, AU!IsFiniteSet, IsFiniteSet

LEMMA NoCopyUntyped == \A r \in AU!UserRow : r # AU!NoCopy
  BY DEF AU!UserRow, AU!NoCopy

\* What is ahead of a call, one step after the other.
LEMMA AheadSteps ==
    ASSUME NEW op \in AccountOps, NEW todo \in AU!Ahead(op)
    PROVE  /\ todo # <<>> /\ Head(todo) \in AU!Changes \cup {"compare", "factor"}
           /\ Tail(todo) # <<>> => Tail(todo) \in AU!Ahead(op) /\ Head(Tail(todo)) # "fail"
           /\ Tail(todo) # <<>> => Head(Tail(todo)) # "compare"
           /\ Head(todo) = "compare" => op \in {"login", "verify", "disable"}
           /\ Head(todo) = "factor" => op = "login"
           /\ Head(todo) = "enable" => op = "verify" /\ todo = <<"enable">>
           /\ Head(todo) = "disable" => op = "disable"
           /\ Head(todo) = "secret" => op = "setup" /\ Tail(todo) # <<>>
           /\ Head(todo) \in {"codes", "regenerate"} => op \in {"setup", "regenerate"} /\ Tail(todo) = <<>>
           /\ Head(todo) = "fail" => Tail(todo) = <<>>
           /\ op = "verify" /\ Tail(todo) # <<>> => todo = <<"reset", "enable">>
  <1>1. \A a : <<a>> # <<>> /\ Head(<<a>>) = a /\ Tail(<<a>>) = <<>>
    OBVIOUS
  <1>2. \A a, b : <<a, b>> # <<>> /\ Head(<<a, b>>) = a /\ Tail(<<a, b>>) = <<b>>
    OBVIOUS
  <1>3. CASE \E a \in {"compare", "fail", "factor", "consume", "enable", "disable", "codes",
                       "regenerate", "unlock", "other"} : todo = <<a>>
    <2>1. PICK a \in {"compare", "fail", "factor", "consume", "enable", "disable", "codes",
                      "regenerate", "unlock", "other"} : todo = <<a>>
      BY <1>3
    <2>2. \A b : <<a>> = <<b>> => a = b
      OBVIOUS
    <2>3. \A b, c : <<a>> # <<b, c>>
      OBVIOUS
    <2>4. /\ a = "compare" => op \in {"login", "verify", "disable"}
          /\ a = "factor" => op = "login"
          /\ a = "enable" => op = "verify"
          /\ a = "disable" => op = "disable"
          /\ a \in {"codes", "regenerate"} => op \in {"setup", "regenerate"}
      BY <2>1, <2>2, <2>3 DEF AU!Ahead, AccountOps
    <2> QED
      BY <1>1, <2>1, <2>4 DEF AU!Changes
  <1>4. CASE \/ op = "login" /\ todo = <<"reset", "factor">>
             \/ op = "verify" /\ todo = <<"reset", "enable">>
             \/ op = "disable" /\ todo = <<"reset", "disable">>
             \/ op = "setup" /\ todo = <<"secret", "codes">>
    <2>1. PICK a \in {"reset", "secret"}, b \in {"factor", "enable", "disable", "codes"} :
            /\ todo = <<a, b>>
            /\ a = "secret" => op = "setup"
            /\ op = "verify" => a = "reset" /\ b = "enable"
            /\ <<b>> \in AU!Ahead(op)
      BY <1>4 DEF AU!Ahead
    <2> HIDE <1>4
    <2> QED
      BY <1>1, <1>2, <2>1 DEF AU!Changes
  <1> QED
    BY <1>3, <1>4 DEF AU!Ahead, AccountOps

LEMMA PlansAhead ==
    ASSUME NEW op \in AccountOps
    PROVE  /\ AU!Plan(op) \in AU!Ahead(op) /\ AU!Plan(op) # <<>>
           /\ op = "verify" => AU!Plan(op) = <<"compare">>
           /\ op \in {"login", "verify", "disable"} =>
                /\ AU!Accepted(op) \in AU!Ahead(op) /\ AU!Accepted(op) # <<>>
                /\ <<"fail">> \in AU!Ahead(op) /\ Head(AU!Accepted(op)) # "fail"
           /\ <<"consume">> \in AU!Ahead("login")
  BY DEF AU!Ahead, AU!Plan, AU!Accepted, AccountOps

\* The calls about to count a guess.
LEMMA PendingCounted ==
    ASSUME IsFiniteSet(Workers)
    PROVE  /\ AU!Cardinality(AU!Pending) \in Nat /\ AU!Cardinality(AU!Pending)' \in Nat
           /\ \A w \in Workers : AU!Pending \subseteq AU!Pending' \cup {w}
                => AU!Cardinality(AU!Pending) <= AU!Cardinality(AU!Pending)' + 1
           /\ AU!Pending \subseteq AU!Pending'
                => AU!Cardinality(AU!Pending) <= AU!Cardinality(AU!Pending)'
           /\ \A w \in Workers : w \notin AU!Pending /\ AU!Pending \cup {w} \subseteq AU!Pending'
                => AU!Cardinality(AU!Pending) + 1 <= AU!Cardinality(AU!Pending)'
  <1>1. IsFiniteSet(AU!Pending) /\ IsFiniteSet(AU!Pending')
    BY FS_Subset DEF AU!Pending
  <1>2. /\ AU!Cardinality(AU!Pending) = Cardinality(AU!Pending)
        /\ AU!Cardinality(AU!Pending)' = Cardinality(AU!Pending')
    BY CardinalitySame
  <1>3. Cardinality(AU!Pending) \in Nat /\ Cardinality(AU!Pending') \in Nat
    BY <1>1, FS_CardinalityType
  <1>4. AU!Pending \subseteq AU!Pending' => Cardinality(AU!Pending) <= Cardinality(AU!Pending')
    BY <1>1, FS_Subset
  <1>5. ASSUME NEW w \in Workers, AU!Pending \subseteq AU!Pending' \cup {w}
        PROVE  Cardinality(AU!Pending) <= Cardinality(AU!Pending') + 1
    <2>1. /\ IsFiniteSet(AU!Pending' \cup {w})
          /\ \/ Cardinality(AU!Pending' \cup {w}) = Cardinality(AU!Pending')
             \/ Cardinality(AU!Pending' \cup {w}) = Cardinality(AU!Pending') + 1
      BY <1>1, FS_AddElement
    <2>2. Cardinality(AU!Pending) <= Cardinality(AU!Pending' \cup {w})
      BY <1>5, <2>1, FS_Subset
    <2> QED
      BY <1>3, <2>1, <2>2
  <1>6. ASSUME NEW w \in Workers, w \notin AU!Pending, AU!Pending \cup {w} \subseteq AU!Pending'
        PROVE  Cardinality(AU!Pending) + 1 <= Cardinality(AU!Pending')
    <2>1. Cardinality(AU!Pending \cup {w}) = Cardinality(AU!Pending) + 1
      BY <1>1, <1>6, FS_AddElement
    <2>2. Cardinality(AU!Pending \cup {w}) <= Cardinality(AU!Pending')
      BY <1>1, <1>6, FS_Subset
    <2> QED
      BY <2>1, <2>2
  <1> QED
    BY <1>2, <1>3, <1>4, <1>5, <1>6

\* What a number may exceed grows with the saves and with the lost ones.
LEMMA SlackGrows ==
    ASSUME NEW n \in Nat, NEW m \in Nat, NEW saves \in Nat, NEW later \in Nat,
           NEW gone \in Nat, NEW more \in Nat, NEW mine \in Nat,
           n <= gone + (saves - mine), gone <= more, m <= n + (later - saves)
    PROVE  m <= more + (later - mine)
  OBVIOUS

\* A copy falls behind by one save with each save, and what it may be wrong about
\* grows with that.
LEMMA BehindLater ==
    ASSUME AU!AccountInv, NEW u, NEW v, AU!Behind(u, v),
           auVersion' \in Nat, auVersion <= auVersion', auLost' \in Nat, auLost <= auLost',
           uses' \in [AU!Calls -> Nat],
           \A c \in AU!Calls : c \in u.codes => uses'[c] <= uses[c] + (auVersion' - auVersion)
    PROVE  AU!Behind(u, v)'
  <1>1. auVersion \in Nat /\ auLost \in Nat /\ v \in Nat /\ v <= auVersion
    BY DEF AU!AccountInv, AU!Behind
  <1>2. ASSUME NEW c \in AU!Calls, c \in u.codes
        PROVE  uses'[c] <= auLost' + (auVersion' - v)
    <2> DEFINE n == uses[c]  m == uses'[c]
    <2>1. n \in Nat /\ m \in Nat /\ n <= auLost + (auVersion - v) /\ m <= n + (auVersion' - auVersion)
      BY <1>2 DEF AU!AccountInv, AU!Behind
    <2> HIDE DEF n, m
    <2>2. m <= auLost' + (auVersion' - v)
      BY <1>1, <2>1, SlackGrows, Zenon
    <2> QED
      BY <2>2 DEF m
  <1> QED
    BY <1>1, <1>2 DEF AU!Behind

LEMMA CountsLater ==
    ASSUME IsFiniteSet(Workers), AU!AccountInv, NEW u \in AU!UserRow, NEW v \in Nat, v <= auVersion,
           AU!Counts(u, v),
           auVersion' \in Nat, auVersion <= auVersion', auLost' \in Nat, auLost <= auLost',
           guesses' \in Nat,
           \/ guesses' = 0
           \/ guesses' + AU!Cardinality(AU!Pending)
                <= guesses + AU!Cardinality(AU!Pending)' + (auVersion' - auVersion)
    PROVE  AU!Counts(u, v)'
  <1> DEFINE p == AU!Cardinality(AU!Pending)  q == AU!Cardinality(AU!Pending)'  f == u.failed
  <1>1. p \in Nat /\ q \in Nat /\ f \in Nat /\ auVersion \in Nat /\ auLost \in Nat /\ guesses \in Nat
    BY PendingCounted DEF AU!AccountInv, AU!UserRow
  <1>2. guesses <= f + auLost + (auVersion - v) + p
    BY DEF AU!Counts
  <1>3. guesses' = 0 \/ guesses' + p <= guesses + q + (auVersion' - auVersion)
    OBVIOUS
  <1> DEFINE g == guesses  g1 == guesses'  n == auVersion  n1 == auVersion'  l == auLost  l1 == auLost'
  <1>4. /\ g \in Nat /\ g1 \in Nat /\ n \in Nat /\ n1 \in Nat /\ l \in Nat /\ l1 \in Nat
        /\ v <= n /\ n <= n1 /\ l <= l1
        /\ g <= f + l + (n - v) + p /\ (g1 = 0 \/ g1 + p <= g + q + (n1 - n))
    BY <1>1, <1>2, <1>3
  <1> HIDE DEF p, q, f, g, g1, n, n1, l, l1
  <1>5. g1 <= f + l1 + (n1 - v) + q
    BY <1>1, <1>4
  <1> QED
    BY <1>5 DEF f, q, g1, l1, n1, AU!Counts

\* A step of a call that saves nothing.
LEMMA CallMoves ==
    ASSUME IsFiniteSet(Workers), AU!AccountInv, NEW w \in Workers, NEW r,
           auWork[w] # AU!Idle, auWork' = [auWork EXCEPT ![w] = r],
           UNCHANGED <<auRow, auNow, late, auVersion, auLost, uses, crossed, auCalls>>,
           guesses' \in Nat,
           guesses' + AU!Cardinality(AU!Pending) <= guesses + AU!Cardinality(AU!Pending)',
           \/ r = AU!Idle
           \/ /\ r.op = auWork[w].op /\ r.call = auWork[w].call /\ r.todo \in AU!Ahead(r.op)
              /\ \/ r.copy = AU!NoCopy
                 \/ r.copy = auRow /\ r.version = auVersion
                    /\ (Head(r.todo) = "consume" => auRow.codes # {}),
           auLost = 0 /\ ~crossed => AU!Proven'
    PROVE  AU!AccountInv'
  <1>1. /\ auVersion \in Nat /\ auLost \in Nat /\ AU!Behind(auRow, auVersion)
        /\ AU!Counts(auRow, auVersion) /\ uses \in [AU!Calls -> Nat] /\ auRow \in AU!UserRow
    BY DEF AU!AccountInv, AU!Behind
  <1>2. /\ DOMAIN auWork' = Workers /\ auWork'[w] = r
        /\ \A v \in Workers : v # w => auWork'[v] = auWork[v]
    BY DEF AU!AccountInv
  <1>3. AU!Served(w) /\ auWork[w].op \in AccountOps
    BY DEF AU!AccountInv, AU!Served, AccountOps
  <1>4. \A u, v : AU!Behind(u, v) => AU!Behind(u, v)'
    BY DEF AU!Behind
  <1>5. ASSUME NEW u, NEW v, AU!Behind(u, v), AU!Counts(u, v) PROVE AU!Counts(u, v)'
    <2>1. u \in AU!UserRow /\ v \in Nat /\ v <= auVersion
      BY <1>5 DEF AU!Behind
    <2>2. guesses' + AU!Cardinality(AU!Pending)
            <= guesses + AU!Cardinality(AU!Pending)' + (auVersion' - auVersion)
      <3> DEFINE p == AU!Cardinality(AU!Pending)  q == AU!Cardinality(AU!Pending)'
      <3>1. p \in Nat /\ q \in Nat /\ guesses \in Nat /\ auVersion \in Nat /\ auVersion' = auVersion
            /\ guesses' \in Nat /\ guesses' + p <= guesses + q
        BY PendingCounted DEF AU!AccountInv
      <3> HIDE DEF p, q
      <3>2. guesses' + p <= guesses + q + (auVersion' - auVersion)
        BY <3>1
      <3> QED
        BY <3>2 DEF p, q
    <2>3. auVersion' \in Nat /\ auVersion <= auVersion' /\ auLost' \in Nat /\ auLost <= auLost'
      BY <1>1
    <2> QED
      BY <1>5, <2>1, <2>2, <2>3, CountsLater
  <1>6. AU!Behind(auRow, auVersion)' /\ AU!Counts(auRow, auVersion)'
    BY <1>1, <1>4, <1>5
  <1>7. ASSUME NEW v \in Workers, v # w, AU!Served(v) PROVE AU!Served(v)'
    <2>1. auWork'[v] = auWork[v]
      BY <1>2, <1>7
    <2> QED
      BY <1>4, <1>5, <1>7, <2>1 DEF AU!Served, AU!Next1
  <1>8. r # AU!Idle => AU!Served(w)'
    <2> SUFFICES ASSUME r # AU!Idle PROVE AU!Served(w)'
      OBVIOUS
    <2>1. r.op \in AccountOps /\ r.call \in 1 .. auCalls /\ r.todo \in AU!Ahead(r.op)
      BY <1>3 DEF AU!Served
    <2>2. r.todo # <<>>
      BY <2>1, AheadSteps
    <2>3. r.copy # AU!NoCopy => AU!Behind(r.copy, r.version)' /\ AU!Counts(r.copy, r.version)'
      BY <1>1, <1>4, <1>5
    <2> QED
      BY <1>2, <2>1, <2>2, <2>3 DEF AU!Served, AU!Next1, AccountOps
  <1>9. \A v \in Workers : (auWork[v] = AU!Idle \/ AU!Served(v))'
    BY <1>2, <1>7, <1>8 DEF AU!AccountInv
  <1>10. \A x, v \in Workers : auWork'[x].call = auWork'[v].call /\ auWork'[x] # AU!Idle => x = v
    <2>1. \A v \in Workers : auWork[v] # AU!Idle => auWork[v].call \in 1 .. auCalls
      BY DEF AU!AccountInv, AU!Served
    <2>2. AU!Idle.call = 0
      BY DEF AU!Idle
    <2>3. \A v \in Workers : v # w => auWork[v].call # auWork[w].call
      BY DEF AU!AccountInv
    <2>4. auCalls \in Nat
      BY DEF AU!AccountInv
    <2> QED
      BY <1>2, <2>1, <2>2, <2>3, <2>4 DEF AU!AccountInv
  <1>11. \A c \in AU!Calls : AU!Unmade(c) => AU!Unmade(c)'
    <2> SUFFICES ASSUME NEW c, AU!Unmade(c) PROVE AU!Unmade(c)'
      OBVIOUS
    <2>1. auWork'[w].copy # AU!NoCopy => c \notin auWork'[w].copy.codes
      BY <1>2 DEF AU!Unmade, AU!Idle
    <2> QED
      BY <1>2, <2>1 DEF AU!Unmade
  <1>12. \A v \in Workers, c \in AU!Calls :
            auWork'[v].op \in {"setup", "regenerate"} /\ auWork'[v].call = c => AU!Unmade(c)'
    BY <1>2, <1>11 DEF AU!AccountInv, AU!Idle
  <1>13. \A s \in late : AU!Behind(s.copy, s.version)'
    BY <1>4 DEF AU!AccountInv
  <1> QED
    BY <1>2, <1>6, <1>9, <1>10, <1>11, <1>12, <1>13 DEF AU!AccountInv

\* The work of a call with other steps ahead, as Then leaves it.
Left(w, todo) == [auWork[w] EXCEPT !.todo = todo, !.copy = AU!NoCopy, !.version = 0]

LEMMA LeftFields ==
    ASSUME NEW w, NEW todo
    PROVE  /\ Left(w, todo).op = auWork[w].op /\ Left(w, todo).call = auWork[w].call
           /\ Left(w, todo).user = auWork[w].user /\ Left(w, todo).todo = todo
           /\ Left(w, todo).copy = AU!NoCopy
  BY DEF Left

\* What changes among the calls about to count a guess when one call moves.
LEMMA PendingMoves ==
    ASSUME AU!AccountInv, NEW w \in Workers, NEW r, auWork' = [auWork EXCEPT ![w] = r]
    PROVE  /\ AU!Pending \subseteq AU!Pending' \cup {w}
           /\ AU!Next1(w) # "fail" => AU!Pending \subseteq AU!Pending' /\ w \notin AU!Pending
           /\ r.todo # <<>> /\ Head(r.todo) = "fail" => AU!Pending \cup {w} \subseteq AU!Pending'
  <1>1. auWork'[w] = r /\ \A v \in Workers : v # w => auWork'[v] = auWork[v]
    BY DEF AU!AccountInv
  <1> QED
    BY <1>1 DEF AU!Pending, AU!Next1

LEMMA ProvenMoves ==
    ASSUME AU!AccountInv, AU!Proven, NEW w \in Workers, NEW r, auWork' = [auWork EXCEPT ![w] = r],
           auRow' = auRow, verified \subseteq verified',
           \/ r = AU!Idle
           \/ /\ r.op = auWork[w].op /\ r.user = auWork[w].user
              /\ r.op = "verify" /\ r.todo \in {<<"reset", "enable">>, <<"enable">>}
                   => \/ auWork[w].todo \in {<<"reset", "enable">>, <<"enable">>}
                      \/ auWork[w].user.secret \in verified'
    PROVE  AU!Proven'
  <1>1. auWork'[w] = r /\ \A v \in Workers : v # w => auWork'[v] = auWork[v]
    BY DEF AU!AccountInv
  <1>2. AU!Idle.op = "idle"
    BY DEF AU!Idle
  <1>3. /\ AU!Busy("setup")' => AU!Busy("setup")
        /\ AU!Busy("disable")' => AU!Busy("disable")
    BY <1>1, <1>2 DEF AU!Busy
  <1>4. ASSUME NEW v \in Workers, auWork'[v].op = "verify"
        PROVE  /\ auWork'[v].user.secret = auRow'.secret
               /\ auWork'[v].todo \in {<<"reset", "enable">>, <<"enable">>} => auRow'.secret \in verified'
    <2>1. CASE v = w
      BY <1>1, <1>2, <1>4, <2>1 DEF AU!Proven
    <2>2. CASE v # w
      BY <1>1, <1>4, <2>2 DEF AU!Proven
    <2> QED
      BY <2>1, <2>2
  <1>5. \A v \in Workers : auWork'[v].op = "verify" => ~AU!Busy("setup")' /\ ~AU!Busy("disable")'
    BY <1>1, <1>2, <1>3 DEF AU!Proven
  <1>6. \A v \in Workers : auWork'[v].op = "setup" => ~auRow'.enabled
    BY <1>1, <1>2 DEF AU!Proven
  <1>7. auRow'.enabled => auRow'.secret \in verified'
    BY DEF AU!Proven
  <1> QED
    BY <1>4, <1>5, <1>6, <1>7 DEF AU!Proven

LEMMA CompareKeeps ==
    ASSUME IsFiniteSet(Workers), AU!AccountInv, NEW w \in Workers, AU!Compare(w)
    PROVE  AU!AccountInv'
  <1> DEFINE op == auWork[w].op
  <1>1. auWork[w] # AU!Idle /\ AU!Next1(w) = "compare"
    BY DEF AU!Compare, AU!Next1, AU!Idle
  <1>2. /\ op \in AccountOps /\ auWork[w].todo \in AU!Ahead(op)
        /\ auWork[w].todo # <<>> /\ Head(auWork[w].todo) = "compare"
    BY <1>1 DEF AU!AccountInv, AU!Served, AccountOps, AU!Next1
  <1>3. op \in {"login", "verify", "disable"}
    BY <1>2, AheadSteps
  <1>4. guesses \in Nat /\ AU!Cardinality(AU!Pending) \in Nat /\ AU!Cardinality(AU!Pending)' \in Nat
    BY PendingCounted DEF AU!AccountInv
  <1>5. UNCHANGED <<auRow, auNow, late, auVersion, auLost, uses, crossed, auCalls>>
    BY DEF AU!Compare
  <1>6. CASE /\ AU!Then(w, AU!Accepted(op)) /\ guesses' = guesses
             /\ verified' = IF op = "verify" THEN verified \cup {auWork[w].user.secret} ELSE verified
    <2> DEFINE r == Left(w, AU!Accepted(op))
    <2>1. /\ AU!Accepted(op) # <<>> /\ AU!Accepted(op) \in AU!Ahead(op)
          /\ Head(AU!Accepted(op)) # "fail"
      BY <1>2, <1>3, PlansAhead
    <2>2. auWork' = [auWork EXCEPT ![w] = r]
      BY <1>6, <2>1 DEF AU!Then, AU!Goto, Left
    <2>3. /\ r.op = op /\ r.call = auWork[w].call /\ r.todo \in AU!Ahead(op)
          /\ r.copy = AU!NoCopy /\ r.user = auWork[w].user
      BY <2>1, LeftFields
    <2>4. AU!Pending \subseteq AU!Pending'
      BY <1>1, <2>2, PendingMoves
    <2>5. AU!Cardinality(AU!Pending) <= AU!Cardinality(AU!Pending)'
      BY <2>4, PendingCounted
    <2>6. guesses' + AU!Cardinality(AU!Pending) <= guesses + AU!Cardinality(AU!Pending)'
      BY <1>4, <1>6, <2>5
    <2>7. verified \subseteq verified' /\ (op = "verify" => auWork[w].user.secret \in verified')
      BY <1>6
    <2> HIDE DEF r
    <2>8. auLost = 0 /\ ~crossed => AU!Proven'
      BY <1>5, <2>2, <2>3, <2>7, ProvenMoves DEF AU!AccountInv
    <2> QED
      BY <1>1, <1>4, <1>5, <1>6, <2>2, <2>3, <2>6, <2>8, CallMoves
  <1>7. CASE AU!Then(w, <<"fail">>) /\ guesses' = guesses + 1 /\ UNCHANGED verified
    <2> DEFINE r == Left(w, <<"fail">>)
    <2>1. <<"fail">> \in AU!Ahead(op)
      BY <1>2, <1>3, PlansAhead
    <2>2. auWork' = [auWork EXCEPT ![w] = r]
      BY <1>7 DEF AU!Then, AU!Goto, Left
    <2>3. /\ r.op = op /\ r.call = auWork[w].call /\ r.todo = <<"fail">>
          /\ r.copy = AU!NoCopy /\ r.user = auWork[w].user
      BY LeftFields
    <2> HIDE DEF r
    <2>4. r.todo # <<>> /\ Head(r.todo) = "fail"
      <3>1. <<"fail">> # <<>> /\ Head(<<"fail">>) = "fail"
        OBVIOUS
      <3> QED
        BY <2>3, <3>1
    <2>5. AU!Pending \cup {w} \subseteq AU!Pending' /\ w \notin AU!Pending
      BY <1>1, <2>2, <2>4, PendingMoves
    <2>6. AU!Cardinality(AU!Pending) + 1 <= AU!Cardinality(AU!Pending)'
      BY <2>5, PendingCounted
    <2>7. /\ guesses' \in Nat
          /\ guesses' + AU!Cardinality(AU!Pending) <= guesses + AU!Cardinality(AU!Pending)'
      BY <1>4, <1>7, <2>6
    <2>8. r.todo \notin {<<"reset", "enable">>, <<"enable">>}
      BY <2>3
    <2>9. auLost = 0 /\ ~crossed => AU!Proven'
      BY <1>5, <1>7, <2>2, <2>3, <2>8, ProvenMoves DEF AU!AccountInv
    <2> QED
      BY <1>1, <1>5, <2>1, <2>2, <2>3, <2>7, <2>9, CallMoves
  <1> QED
    BY <1>6, <1>7 DEF AU!Compare

\* Steps that neither save nor count.
LEMMA QuietKeeps ==
    ASSUME IsFiniteSet(Workers), AU!AccountInv, NEW w \in Workers, AU!Next1(w) # "done",
           UNCHANGED <<auRow, auNow, late, auVersion, auLost, guesses, uses, verified, crossed, auCalls>>,
           NEW r, auWork' = [auWork EXCEPT ![w] = r], AU!Pending \subseteq AU!Pending',
           \/ r = AU!Idle
           \/ /\ r.op = auWork[w].op /\ r.call = auWork[w].call /\ r.user = auWork[w].user
              /\ r.todo \in AU!Ahead(r.op)
              /\ \/ r.copy = AU!NoCopy
                 \/ r.copy = auRow /\ r.version = auVersion
                    /\ (Head(r.todo) = "consume" => auRow.codes # {})
              /\ r.op = "verify" => auWork[w].todo \in {r.todo, <<"reset", "enable">>}
    PROVE  AU!AccountInv'
  <1>1. auWork[w] # AU!Idle
    BY DEF AU!Next1, AU!Idle
  <1>2. AU!Cardinality(AU!Pending) <= AU!Cardinality(AU!Pending)'
    BY PendingCounted
  <1>3. /\ guesses' \in Nat
        /\ guesses' + AU!Cardinality(AU!Pending) <= guesses + AU!Cardinality(AU!Pending)'
    BY <1>2, PendingCounted DEF AU!AccountInv
  <1>4. auLost = 0 /\ ~crossed => AU!Proven'
    BY ProvenMoves DEF AU!AccountInv
  <1> QED
    BY <1>1, <1>3, <1>4, CallMoves

LEMMA FactorKeeps ==
    ASSUME IsFiniteSet(Workers), AU!AccountInv, NEW w \in Workers, AU!Factor(w)
    PROVE  AU!AccountInv'
  <1>1. AU!Next1(w) = "factor"
    BY DEF AU!Factor
  <1>2. auWork[w].op = "login"
    <2>1. /\ auWork[w] # AU!Idle /\ auWork[w].todo # <<>> /\ Head(auWork[w].todo) = "factor"
      BY <1>1 DEF AU!Next1, AU!Idle
    <2>2. auWork[w].op \in AccountOps /\ auWork[w].todo \in AU!Ahead(auWork[w].op)
      BY <2>1 DEF AU!AccountInv, AU!Served, AccountOps
    <2> QED
      BY <2>1, <2>2, AheadSteps
  <1>3. UNCHANGED <<auRow, auNow, late, auVersion, auLost, guesses, uses, verified, crossed, auCalls>>
    BY DEF AU!Factor
  <1>4. CASE AU!Then(w, <<>>)
    <2>1. auWork' = [auWork EXCEPT ![w] = AU!Idle]
      BY <1>4 DEF AU!Then, AU!Goto
    <2>2. AU!Pending \subseteq AU!Pending'
      BY <1>1, <2>1, PendingMoves
    <2> QED
      BY <1>1, <1>3, <2>1, <2>2, QuietKeeps
  <1>5. CASE AU!Then(w, <<"consume">>)
    <2> DEFINE r == Left(w, <<"consume">>)
    <2>1. auWork' = [auWork EXCEPT ![w] = r]
      BY <1>5 DEF AU!Then, AU!Goto, Left
    <2>2. AU!Pending \subseteq AU!Pending'
      BY <1>1, <2>1, PendingMoves
    <2>3. /\ r.op = "login" /\ r.op = auWork[w].op /\ r.call = auWork[w].call
          /\ r.user = auWork[w].user /\ r.todo \in AU!Ahead(r.op) /\ r.copy = AU!NoCopy
      BY <1>2, LeftFields, PlansAhead DEF AccountOps
    <2> HIDE DEF r
    <2> QED
      BY <1>1, <1>3, <2>1, <2>2, <2>3, QuietKeeps
  <1> QED
    BY <1>4, <1>5 DEF AU!Factor

LEMMA FindKeeps ==
    ASSUME IsFiniteSet(Workers), AU!AccountInv, NEW w \in Workers, AU!Find(w)
    PROVE  AU!AccountInv'
  <1> DEFINE todo == auWork[w].todo
  <1>1. AU!Next1(w) \in AU!Changes /\ AU!Next1(w) # "done"
    BY DEF AU!Find, AU!Changes
  <1>2. auWork[w] # AU!Idle /\ todo # <<>> /\ AU!Next1(w) = Head(todo)
    BY <1>1 DEF AU!Next1, AU!Idle
  <1>3. auWork[w].op \in AccountOps /\ todo \in AU!Ahead(auWork[w].op)
    BY <1>2 DEF AU!AccountInv, AU!Served, AccountOps
  <1>4. UNCHANGED <<auRow, auNow, late, auVersion, auLost, guesses, uses, verified, crossed, auCalls>>
    BY DEF AU!Find
  <1>5. CASE AU!Then(w, Tail(todo)) /\ AU!Next1(w) \in {"reset", "consume"}
    <2>1. AU!Next1(w) # "fail"
      BY <1>5
    <2>2. CASE Tail(todo) = <<>>
      <3>1. auWork' = [auWork EXCEPT ![w] = AU!Idle]
        BY <1>5, <2>2 DEF AU!Then, AU!Goto
      <3>2. AU!Pending \subseteq AU!Pending'
        BY <2>1, <3>1, PendingMoves
      <3> QED
        BY <1>1, <1>4, <3>1, <3>2, QuietKeeps
    <2>3. CASE Tail(todo) # <<>>
      <3> DEFINE r == Left(w, Tail(todo))
      <3>1. auWork' = [auWork EXCEPT ![w] = r]
        BY <1>5, <2>3 DEF AU!Then, AU!Goto, Left
      <3>2. AU!Pending \subseteq AU!Pending'
        BY <2>1, <3>1, PendingMoves
      <3>3. /\ Tail(todo) \in AU!Ahead(auWork[w].op)
            /\ auWork[w].op = "verify" => todo = <<"reset", "enable">>
        BY <1>3, <2>3, AheadSteps
      <3>4. /\ r.op = auWork[w].op /\ r.call = auWork[w].call /\ r.user = auWork[w].user
            /\ r.todo \in AU!Ahead(r.op) /\ r.copy = AU!NoCopy
        BY <3>3, LeftFields
      <3> HIDE DEF r
      <3> QED
        BY <1>1, <1>4, <3>1, <3>2, <3>3, <3>4, QuietKeeps
    <2> QED
      BY <2>2, <2>3
  <1>6. CASE /\ AU!Goto(w, [auWork[w] EXCEPT !.copy = auRow, !.version = auVersion])
             /\ ~(AU!Next1(w) = "consume" /\ auRow.codes = {})
    <2> DEFINE r == [auWork[w] EXCEPT !.copy = auRow, !.version = auVersion]
    <2>1. auWork' = [auWork EXCEPT ![w] = r]
      BY <1>6 DEF AU!Goto
    <2>2. /\ r.op = auWork[w].op /\ r.call = auWork[w].call /\ r.user = auWork[w].user
          /\ r.todo = todo /\ r.copy = auRow /\ r.version = auVersion
      OBVIOUS
    <2>3. Head(r.todo) = "consume" => auRow.codes # {}
      BY <1>2, <1>6, <2>2
    <2> HIDE DEF r
    <2>4. AU!Pending \subseteq AU!Pending'
      BY <1>2, <2>1, <2>2, PendingMoves DEF AU!Pending
    <2> QED
      BY <1>1, <1>3, <1>4, <2>1, <2>2, <2>3, <2>4, QuietKeeps
  <1> QED
    BY <1>5, <1>6 DEF AU!Find

LEMMA ClearedUser ==
    ASSUME AU!AccountInv, Threshold \in Nat \ {0}
    PROVE  /\ AU!Behind(AU!Cleared(auRow), auVersion)
           /\ AU!Cleared(auRow).enabled = auRow.enabled /\ AU!Cleared(auRow).secret = auRow.secret
           /\ AU!Cleared(auRow).codes = auRow.codes
  <1> DEFINE u == [auRow EXCEPT !.lockedUntil = 0, !.failed = 0]
  <1>1. auRow \in AU!UserRow /\ AU!Behind(auRow, auVersion)
    BY DEF AU!AccountInv, AU!Behind
  <1>2. /\ u.enabled = auRow.enabled /\ u.secret = auRow.secret /\ u.codes = auRow.codes
        /\ u.failed = 0 /\ u \in AU!UserRow
    BY <1>1 DEF AU!UserRow
  <1>3. AU!Cleared(auRow) \in {auRow, u}
    BY DEF AU!Cleared
  <1> HIDE DEF u
  <1>4. AU!Behind(u, auVersion)
    BY <1>1, <1>2 DEF AU!Behind
  <1> QED
    BY <1>1, <1>2, <1>3, <1>4

\* A call comes in.
LEMMA BeginKeeps ==
    ASSUME IsFiniteSet(Workers), Threshold \in Nat \ {0}, AuMaxCalls \in Nat, AU!AccountInv,
           NEW w \in Workers, NEW op \in AccountOps, AU!Begin(w, op)
    PROVE  AU!AccountInv'
  <1>1. /\ auWork[w] = AU!Idle /\ auCalls \in Nat /\ auCalls + 1 \in AU!Calls
        /\ auCalls' = auCalls + 1 /\ auCalls' \in 0 .. AuMaxCalls
        /\ UNCHANGED <<auRow, auNow, auVersion, auLost, guesses, uses, verified>>
    BY DEF AU!Begin, AU!AccountInv, AU!Calls
  <1>2. PICK r : /\ auWork' = [auWork EXCEPT ![w] = r]
                 /\ r.op = op /\ r.call = auCalls + 1 /\ r.todo = AU!Plan(op) /\ r.copy = AU!NoCopy
                 /\ op = "verify" => r.user.secret = auRow.secret
    <2> DEFINE b == AU!Begun(op)
               u == AU!Cleared(auRow)
               c == [b EXCEPT !.user = u]
    <2>1. /\ b.op = op /\ b.call = auCalls + 1 /\ b.todo = AU!Plan(op) /\ b.copy = AU!NoCopy
          /\ c.op = op /\ c.call = auCalls + 1 /\ c.todo = AU!Plan(op) /\ c.copy = AU!NoCopy
          /\ c.user = u
      BY DEF AU!Begun, AU!Idle
    <2>2. u.secret = auRow.secret
      BY ClearedUser
    <2>3. CASE op \in {"login", "verify", "disable"}
      <3>1. auWork' = [auWork EXCEPT ![w] = c]
        BY <2>3 DEF AU!Begin, AU!Goto
      <3> HIDE DEF b, c, u
      <3> QED
        BY <2>1, <2>2, <3>1
    <2>4. CASE op \notin {"login", "verify", "disable"}
      <3>1. auWork' = [auWork EXCEPT ![w] = b]
        BY <2>4 DEF AU!Begin, AU!Goto
      <3> HIDE DEF b, c, u
      <3> QED
        BY <2>1, <2>4, <3>1
    <2> QED
      BY <2>3, <2>4
  <1>3. \A s \in late' : s \in late \/ (s.copy = AU!Cleared(auRow) /\ s.version = auVersion)
    BY DEF AU!Begin
  <1>4. /\ DOMAIN auWork' = Workers /\ auWork'[w] = r
        /\ \A v \in Workers : v # w => auWork'[v] = auWork[v]
    BY <1>2 DEF AU!AccountInv
  <1>5. /\ AU!Plan(op) \in AU!Ahead(op) /\ AU!Plan(op) # <<>>
        /\ op = "verify" => AU!Plan(op) = <<"compare">>
    BY PlansAhead
  <1>6. \A u, v : AU!Behind(u, v) => AU!Behind(u, v)'
    BY <1>1 DEF AU!Behind
  <1>7. AU!Pending \subseteq AU!Pending'
    <2>1. AU!Next1(w) = "done"
      BY <1>1 DEF AU!Next1, AU!Idle
    <2> QED
      BY <1>2, <2>1, PendingMoves
  <1>8. AU!Cardinality(AU!Pending) <= AU!Cardinality(AU!Pending)'
    BY <1>7, PendingCounted
  <1>9. ASSUME NEW u, NEW v, AU!Behind(u, v), AU!Counts(u, v) PROVE AU!Counts(u, v)'
    <2>1. u \in AU!UserRow /\ v \in Nat /\ v <= auVersion
      BY <1>9 DEF AU!Behind
    <2>2. /\ auVersion' \in Nat /\ auVersion <= auVersion' /\ auLost' \in Nat /\ auLost <= auLost'
          /\ guesses' \in Nat
      BY <1>1 DEF AU!AccountInv
    <2>3. guesses' + AU!Cardinality(AU!Pending)
            <= guesses + AU!Cardinality(AU!Pending)' + (auVersion' - auVersion)
      <3> DEFINE p == AU!Cardinality(AU!Pending)  q == AU!Cardinality(AU!Pending)'
      <3>1. p \in Nat /\ q \in Nat /\ guesses \in Nat /\ auVersion \in Nat /\ auVersion' = auVersion
            /\ guesses' = guesses /\ p <= q
        BY <1>1, <1>8, PendingCounted DEF AU!AccountInv
      <3> HIDE DEF p, q
      <3>2. guesses' + p <= guesses + q + (auVersion' - auVersion)
        BY <3>1
      <3> QED
        BY <3>2 DEF p, q
    <2> QED
      BY <1>9, <2>1, <2>2, <2>3, CountsLater
  <1>10. AU!Behind(auRow, auVersion)' /\ AU!Counts(auRow, auVersion)'
    BY <1>1, <1>6, <1>9 DEF AU!AccountInv
  <1>11. \A s \in late' : /\ AU!Behind(s.copy, s.version)'
                          /\ s.version = auVersion => /\ s.copy.enabled = auRow.enabled
                                                      /\ s.copy.secret = auRow.secret
    BY <1>3, <1>6, ClearedUser DEF AU!AccountInv
  <1>12. AU!Served(w)'
    BY <1>1, <1>2, <1>4, <1>5 DEF AU!Served, AccountOps
  <1>13. ASSUME NEW v \in Workers, v # w, AU!Served(v) PROVE AU!Served(v)'
    <2>1. auWork'[v] = auWork[v] /\ (auWork[v].call \in 1 .. auCalls => auWork[v].call \in 1 .. auCalls')
      BY <1>1, <1>4, <1>13
    <2> QED
      BY <1>1, <1>6, <1>9, <1>13, <2>1 DEF AU!Served, AU!Next1
  <1>14. \A v \in Workers : (auWork[v] = AU!Idle \/ AU!Served(v))'
    BY <1>4, <1>12, <1>13 DEF AU!AccountInv
  <1>15. \A x, v \in Workers : auWork'[x].call = auWork'[v].call /\ auWork'[x] # AU!Idle => x = v
    <2>1. \A v \in Workers : auWork[v].call # auCalls + 1
      BY <1>1 DEF AU!AccountInv, AU!Served, AU!Idle
    <2> QED
      BY <1>2, <1>4, <2>1 DEF AU!AccountInv
  <1>16. ASSUME NEW c, AU!Unmade(c) PROVE AU!Unmade(c)'
    <2>1. \A s \in late' : c \notin s.copy.codes
      BY <1>3, <1>16, ClearedUser DEF AU!Unmade
    <2>2. \A v \in Workers : auWork'[v].copy # AU!NoCopy => c \notin auWork'[v].copy.codes
      BY <1>2, <1>4, <1>16 DEF AU!Unmade
    <2> QED
      BY <1>1, <1>16, <2>1, <2>2 DEF AU!Unmade
  <1>17. \A c \in AU!Calls : c > auCalls' => AU!Unmade(c)'
    <2>1. \A c \in AU!Calls : c > auCalls' => c > auCalls
      BY <1>1 DEF AU!Calls
    <2> QED
      BY <1>16, <2>1 DEF AU!AccountInv
  <1>18. AU!Unmade(auCalls + 1)
    BY <1>1 DEF AU!AccountInv
  <1>19. \A v \in Workers, c \in AU!Calls :
            auWork'[v].op \in {"setup", "regenerate"} /\ auWork'[v].call = c => AU!Unmade(c)'
    BY <1>2, <1>4, <1>16, <1>18 DEF AU!AccountInv
  <1>20. auLost' = 0 /\ ~crossed' => AU!Proven'
    <2> SUFFICES ASSUME auLost' = 0, ~crossed' PROVE AU!Proven'
      OBVIOUS
    <2>1. /\ ~crossed /\ ~(op = "setup" /\ auRow.enabled)
          /\ op \in {"setup", "disable"} => ~AU!Busy("verify")
          /\ op = "verify" => ~AU!Busy("setup") /\ ~AU!Busy("disable")
      BY DEF AU!Begin
    <2>2. AU!Proven
      BY <1>1, <2>1 DEF AU!AccountInv
    <2>3. /\ AU!Busy("setup")' => AU!Busy("setup") \/ op = "setup"
          /\ AU!Busy("disable")' => AU!Busy("disable") \/ op = "disable"
          /\ \A v \in Workers : auWork'[v].op = "verify" => op = "verify" \/ AU!Busy("verify")
      BY <1>2, <1>4 DEF AU!Busy
    <2>4. \A v \in Workers : auWork'[v].op = "setup" => ~auRow'.enabled
      BY <1>1, <1>2, <1>4, <2>1, <2>2 DEF AU!Proven
    <2>5. \A v \in Workers : auWork'[v].op = "verify" => ~AU!Busy("setup")' /\ ~AU!Busy("disable")'
      BY <1>2, <1>4, <2>1, <2>2, <2>3 DEF AU!Proven
    <2>6. ASSUME NEW v \in Workers, auWork'[v].op = "verify"
          PROVE  /\ auWork'[v].user.secret = auRow'.secret
                 /\ auWork'[v].todo \in {<<"reset", "enable">>, <<"enable">>}
                      => auRow'.secret \in verified'
      <3>1. CASE v = w
        <4>1. auWork'[v].user.secret = auRow'.secret /\ auWork'[v].todo = <<"compare">>
          BY <1>1, <1>2, <1>4, <1>5, <2>6, <3>1
        <4> QED
          BY <4>1
      <3>2. CASE v # w
        BY <1>1, <1>4, <2>2, <2>6, <3>2 DEF AU!Proven
      <3> QED
        BY <3>1, <3>2
    <2>7. auRow'.enabled => auRow'.secret \in verified'
      BY <1>1, <2>2 DEF AU!Proven
    <2> QED
      BY <2>4, <2>5, <2>6, <2>7 DEF AU!Proven
  <1>21. /\ auVersion' \in Nat /\ auLost' \in Nat /\ guesses' \in Nat /\ auNow' \in Nat
         /\ auCalls' \in 0 .. AuMaxCalls
         /\ uses' \in [AU!Calls -> Nat] /\ \A c \in AU!Calls : uses'[c] <= 1 + auLost'
    BY <1>1 DEF AU!AccountInv
  <1> QED
    BY <1>1, <1>4, <1>10, <1>11, <1>14, <1>15, <1>17, <1>19, <1>20, <1>21 DEF AU!AccountInv

\* A save: the row falls back to the copy, and what was saved since is lost.
LEMMA Overwritten ==
    ASSUME AU!AccountInv, NEW u, NEW v, AU!Behind(u, v), NEW new \in AU!UserRow,
           auRow' = new, auVersion' = auVersion + 1, auLost' = auLost + (auVersion - v),
           new.failed >= Threshold => new.lockedUntil # 0,
           uses' \in [AU!Calls -> Nat],
           \A c \in AU!Calls : \/ uses'[c] = uses[c]
                               \/ uses'[c] = uses[c] + 1 /\ c \in u.codes /\ c \notin new.codes,
           \A c \in AU!Calls : c \in new.codes => c \in u.codes \/ uses[c] = 0
    PROVE  /\ auVersion' \in Nat /\ auVersion <= auVersion' /\ auLost' \in Nat /\ auLost <= auLost'
           /\ auLost' = 0 => auLost = 0 /\ v = auVersion
           /\ AU!Behind(auRow, auVersion)'
           /\ \A c \in AU!Calls : uses'[c] <= 1 + auLost'
           /\ \A x, y : AU!Behind(x, y) => AU!Behind(x, y)' /\ y # auVersion'
  <1>1. /\ auVersion \in Nat /\ auLost \in Nat /\ v \in Nat /\ v <= auVersion
        /\ uses \in [AU!Calls -> Nat]
    BY DEF AU!AccountInv, AU!Behind
  <1>2. /\ auVersion' \in Nat /\ auVersion <= auVersion' /\ auLost' \in Nat /\ auLost <= auLost'
        /\ auLost' = 0 => auLost = 0 /\ v = auVersion
    <2> DEFINE n == auVersion  l == auLost  l1 == auLost'
    <2>1. n \in Nat /\ l \in Nat /\ v \in Nat /\ v <= n /\ l1 = l + (n - v)
      BY <1>1
    <2> HIDE DEF n, l, l1
    <2>2. /\ n + 1 \in Nat /\ n <= n + 1 /\ l1 \in Nat /\ l <= l1
          /\ l1 = 0 => l = 0 /\ v = n
      BY <2>1
    <2> QED
      BY <2>2 DEF n, l, l1
  <1>3. ASSUME NEW c \in AU!Calls
        PROVE  /\ uses'[c] <= 1 + auLost'
               /\ c \in new.codes => uses'[c] <= auLost'
               /\ uses'[c] <= uses[c] + (auVersion' - auVersion)
    <2> DEFINE n == uses[c]  m == uses'[c]
    <2>1. /\ n \in Nat /\ m \in Nat /\ n <= 1 + auLost
          /\ m = n \/ (m = n + 1 /\ c \in u.codes /\ c \notin new.codes)
          /\ c \in u.codes => n <= auLost + (auVersion - v)
          /\ c \in new.codes => c \in u.codes \/ n = 0
      BY <1>1 DEF AU!AccountInv, AU!Behind
    <2> HIDE DEF n, m
    <2>2. /\ m <= 1 + auLost' /\ (c \in new.codes => m <= auLost')
          /\ m <= n + (auVersion' - auVersion)
      BY <1>1, <1>2, <2>1
    <2> QED
      BY <2>2 DEF n, m
  <1>4. AU!Behind(auRow, auVersion)'
    <2>1. auLost' + (auVersion' - auVersion') = auLost'
      BY <1>2
    <2> QED
      BY <1>2, <1>3, <2>1 DEF AU!Behind
  <1>5. \A x, y : AU!Behind(x, y) => AU!Behind(x, y)'
    BY <1>2, <1>3, BehindLater
  <1>6. \A x, y : AU!Behind(x, y) => y # auVersion'
    BY <1>1 DEF AU!Behind
  <1> QED
    BY <1>2, <1>3, <1>4, <1>5, <1>6

\* What the changes do to a copy.
ChangesTo(new, change, u, n) ==
    LET code == CHOOSE c \in u.codes : TRUE
    IN  /\ new \in AU!UserRow
        /\ new.failed >= Threshold => new.lockedUntil # 0
        /\ change = "fail" => new.failed = u.failed + 1
        /\ change \notin {"fail", "reset", "unlock"} => new.failed = u.failed
        /\ change = "consume" => code \in u.codes /\ new.codes = u.codes \ {code}
        /\ change \in {"codes", "regenerate"} => new.codes = {n}
        /\ change \notin {"codes", "regenerate"} => new.codes \subseteq u.codes
        /\ change \in {"codes", "regenerate"} => new.enabled = u.enabled
        /\ change = "disable" => new.enabled = FALSE
        /\ change \notin {"enable", "disable"} => new.enabled = u.enabled
        /\ change \notin {"secret", "disable"} => new.secret = u.secret
        /\ change \in {"reset", "unlock"} => new.failed = 0
        /\ new.secret \in {0, n, u.secret}
        /\ new.lockedUntil \in {0, auNow + 1, u.lockedUntil}

LEMMA ChangedFields ==
    ASSUME NEW u \in AU!UserRow, NEW n \in Nat, NEW change \in AU!Changes, auNow \in Nat,
           Threshold \in Nat \ {0},
           u.failed >= Threshold => u.lockedUntil # 0,
           change = "consume" => u.codes # {}
    PROVE  ChangesTo(AU!Changed(change, u, n), change, u, n)
  <1> USE DEF ChangesTo
  <1> DEFINE code == CHOOSE c \in u.codes : TRUE
  <1>1. /\ u.failed \in Nat /\ u.lockedUntil \in Nat /\ u.enabled \in BOOLEAN /\ u.secret \in Nat
        /\ u.codes \in SUBSET Nat
    BY DEF AU!UserRow
  <1>2. CASE change = "fail"
    <2> DEFINE lock == IF u.failed + 1 >= Threshold /\ ~AU!Locked(u) THEN auNow + 1 ELSE u.lockedUntil
               count == u.failed + 1
               new == [u EXCEPT !.failed = count, !.lockedUntil = lock]
    <2>1. AU!Changed(change, u, n) = new
      BY <1>2 DEF AU!Changed, AU!Failed
    <2>2. /\ lock \in Nat /\ count \in Nat /\ (count >= Threshold => lock # 0)
          /\ lock \in {auNow + 1, u.lockedUntil}
      BY <1>1 DEF AU!Locked
    <2> HIDE DEF lock, count
    <2>3. /\ new \in AU!UserRow /\ new.failed = count /\ new.enabled = u.enabled
          /\ new.secret = u.secret /\ new.codes = u.codes /\ new.lockedUntil = lock
      BY <1>1, <2>2 DEF AU!UserRow
    <2>4. count = u.failed + 1
      BY DEF count
    <2> HIDE DEF new
    <2> QED
      BY <1>2, <2>1, <2>2, <2>3, <2>4
  <1>3. CASE change \in {"reset", "unlock"}
    <2> DEFINE new == [u EXCEPT !.failed = 0, !.lockedUntil = 0]
    <2>1. AU!Changed(change, u, n) = new
      BY <1>3 DEF AU!Changed
    <2>2. /\ new \in AU!UserRow /\ new.failed = 0 /\ new.enabled = u.enabled
          /\ new.secret = u.secret /\ new.codes = u.codes /\ new.lockedUntil = 0
      BY <1>1 DEF AU!UserRow
    <2> HIDE DEF new
    <2> QED
      BY <1>3, <2>1, <2>2
  <1>4. CASE change = "consume"
    <2> DEFINE new == [u EXCEPT !.codes = u.codes \ {code}]
    <2>1. AU!Changed(change, u, n) = new
      BY <1>4 DEF AU!Changed, AU!Consume
    <2>2. /\ new \in AU!UserRow /\ new.failed = u.failed /\ new.enabled = u.enabled
          /\ new.secret = u.secret /\ new.codes = u.codes \ {code}
          /\ new.lockedUntil = u.lockedUntil
      BY <1>1 DEF AU!UserRow
    <2>3. code \in u.codes
      BY <1>4
    <2> HIDE DEF new, code
    <2>4. new.codes \subseteq u.codes
      BY <2>2
    <2> QED
      BY <1>4, <2>1, <2>2, <2>3, <2>4 DEF code
  <1>5. CASE change = "secret"
    <2> DEFINE new == [u EXCEPT !.secret = n]
    <2>1. AU!Changed(change, u, n) = new
      BY <1>5 DEF AU!Changed
    <2>2. /\ new \in AU!UserRow /\ new.failed = u.failed /\ new.enabled = u.enabled
          /\ new.codes = u.codes /\ new.lockedUntil = u.lockedUntil /\ new.secret = n
      BY <1>1 DEF AU!UserRow
    <2> HIDE DEF new
    <2> QED
      BY <1>5, <2>1, <2>2
  <1>6. CASE change \in {"codes", "regenerate"}
    <2> DEFINE new == [u EXCEPT !.codes = {n}]
    <2>1. AU!Changed(change, u, n) = new
      BY <1>6 DEF AU!Changed
    <2>2. /\ new \in AU!UserRow /\ new.failed = u.failed /\ new.enabled = u.enabled
          /\ new.secret = u.secret /\ new.codes = {n} /\ new.lockedUntil = u.lockedUntil
      BY <1>1 DEF AU!UserRow
    <2> HIDE DEF new
    <2> QED
      BY <1>6, <2>1, <2>2
  <1>7. CASE change = "enable"
    <2> DEFINE new == [u EXCEPT !.enabled = TRUE]
    <2>1. AU!Changed(change, u, n) = new
      BY <1>7 DEF AU!Changed
    <2>2. /\ new \in AU!UserRow /\ new.failed = u.failed /\ new.secret = u.secret
          /\ new.codes = u.codes /\ new.lockedUntil = u.lockedUntil
      BY <1>1 DEF AU!UserRow
    <2> HIDE DEF new
    <2> QED
      BY <1>7, <2>1, <2>2
  <1>8. CASE change = "disable"
    <2> DEFINE new == [u EXCEPT !.enabled = FALSE, !.secret = 0, !.codes = {}]
    <2>1. AU!Changed(change, u, n) = new
      BY <1>8 DEF AU!Changed
    <2>2. /\ new \in AU!UserRow /\ new.failed = u.failed /\ new.enabled = FALSE
          /\ new.codes = {} /\ new.lockedUntil = u.lockedUntil /\ new.secret = 0
      BY <1>1 DEF AU!UserRow
    <2> HIDE DEF new
    <2>3. new.codes \subseteq u.codes
      BY <2>2
    <2> QED
      BY <1>8, <2>1, <2>2, <2>3
  <1>9. CASE change = "other"
    <2>1. AU!Changed(change, u, n) = u
      BY <1>9 DEF AU!Changed
    <2> QED
      BY <1>9, <2>1
  <1> QED
    BY <1>2, <1>3, <1>4, <1>5, <1>6, <1>7, <1>8, <1>9 DEF AU!Changes

\* The save of a call, in the words of its copy.
LEMMA SaveFacts ==
    ASSUME AuMaxCalls \in Nat, AU!AccountInv, NEW w \in Workers, AU!Save(w)
    PROVE  LET u == auWork[w].copy  v == auWork[w].version  n == auWork[w].call
               op == auWork[w].op  todo == auWork[w].todo  change == Head(todo)
               new == AU!Changed(change, u, n)  code == CHOOSE c \in u.codes : TRUE
           IN  /\ auWork[w] # AU!Idle /\ u # AU!NoCopy /\ AU!Served(w)
               /\ AU!Next1(w) = change /\ change \in AU!Changes
               /\ op \in AccountOps /\ todo \in AU!Ahead(op)
               /\ AU!Behind(u, v) /\ AU!Counts(u, v) /\ (v = auVersion => u = auRow)
               /\ change = "consume" => u.codes # {}
               /\ n \in 1 .. auCalls /\ n \in AU!Calls
               /\ change \in {"codes", "regenerate"} => AU!Unmade(n)
               /\ auRow' = new /\ auVersion' = auVersion + 1 /\ auLost' = auLost + (auVersion - v)
               /\ guesses' = IF change \in {"reset", "unlock"} THEN 0 ELSE guesses
               /\ uses' = IF change = "consume" THEN [uses EXCEPT ![code] = @ + 1] ELSE uses
               /\ auWork' = [auWork EXCEPT ![w] = IF Tail(todo) = <<>> THEN AU!Idle
                                                  ELSE Left(w, Tail(todo))]
               /\ UNCHANGED <<auNow, late, verified, crossed, auCalls>>
  <1> DEFINE todo == auWork[w].todo  op == auWork[w].op  n == auWork[w].call
  <1>1. AU!Next1(w) \in AU!Changes /\ auWork[w].copy # AU!NoCopy
    BY DEF AU!Save
  <1>2. auWork[w] # AU!Idle /\ todo # <<>> /\ AU!Next1(w) = Head(todo)
    BY <1>1 DEF AU!Next1, AU!Idle, AU!Changes
  <1>3. AU!Served(w)
    BY <1>2 DEF AU!AccountInv
  <1>4. op \in AccountOps /\ todo \in AU!Ahead(op) /\ n \in 1 .. auCalls
    BY <1>3 DEF AU!Served, AccountOps
  <1>5. n \in AU!Calls
    BY <1>4 DEF AU!AccountInv, AU!Calls
  <1>6. Head(todo) \in {"codes", "regenerate"} => AU!Unmade(n)
    <2>1. Head(todo) \in {"codes", "regenerate"} => op \in {"setup", "regenerate"}
      BY <1>4, AheadSteps
    <2> QED
      BY <1>5, <2>1 DEF AU!AccountInv
  <1>7. /\ AU!Behind(auWork[w].copy, auWork[w].version) /\ AU!Counts(auWork[w].copy, auWork[w].version)
        /\ auWork[w].version = auVersion => auWork[w].copy = auRow
        /\ Head(todo) = "consume" => auWork[w].copy.codes # {}
    BY <1>1, <1>2, <1>3 DEF AU!Served
  <1>8. auWork' = [auWork EXCEPT ![w] = IF Tail(todo) = <<>> THEN AU!Idle ELSE Left(w, Tail(todo))]
    BY DEF AU!Save, AU!Then, AU!Goto, Left
  <1>9. /\ auRow' = AU!Changed(Head(todo), auWork[w].copy, n)
        /\ auVersion' = auVersion + 1 /\ auLost' = auLost + (auVersion - auWork[w].version)
        /\ guesses' = IF Head(todo) \in {"reset", "unlock"} THEN 0 ELSE guesses
        /\ UNCHANGED <<auNow, late, verified, crossed, auCalls>>
    BY <1>2 DEF AU!Save, AU!Overwrite
  <1>10. uses' = IF Head(todo) = "consume"
                 THEN [uses EXCEPT ![CHOOSE c \in auWork[w].copy.codes : TRUE] = @ + 1] ELSE uses
    BY <1>2 DEF AU!Save
  <1> QED
    BY <1>1, <1>2, <1>3, <1>4, <1>5, <1>6, <1>7, <1>8, <1>9, <1>10

LEMMA SaveKeeps ==
    ASSUME IsFiniteSet(Workers), Threshold \in Nat \ {0}, AuMaxCalls \in Nat, AU!AccountInv,
           NEW w \in Workers, AU!Save(w)
    PROVE  AU!AccountInv'
  <1> DEFINE u == auWork[w].copy
             v == auWork[w].version
             n == auWork[w].call
             op == auWork[w].op
             todo == auWork[w].todo
             change == Head(todo)
             code == CHOOSE c \in u.codes : TRUE
             new == AU!Changed(change, u, n)
             r == IF Tail(todo) = <<>> THEN AU!Idle ELSE Left(w, Tail(todo))
  <1>1. /\ auWork[w] # AU!Idle /\ u # AU!NoCopy /\ AU!Served(w)
        /\ AU!Next1(w) = change /\ change \in AU!Changes
        /\ op \in AccountOps /\ todo \in AU!Ahead(op)
        /\ AU!Behind(u, v) /\ AU!Counts(u, v) /\ (v = auVersion => u = auRow)
        /\ change = "consume" => u.codes # {}
        /\ n \in 1 .. auCalls /\ n \in AU!Calls
        /\ change \in {"codes", "regenerate"} => AU!Unmade(n)
    BY SaveFacts
  <1>2. /\ auRow' = new /\ auVersion' = auVersion + 1 /\ auLost' = auLost + (auVersion - v)
        /\ guesses' = IF change \in {"reset", "unlock"} THEN 0 ELSE guesses
        /\ uses' = IF change = "consume" THEN [uses EXCEPT ![code] = @ + 1] ELSE uses
        /\ auWork' = [auWork EXCEPT ![w] = r]
        /\ UNCHANGED <<auNow, late, verified, crossed, auCalls>>
    BY SaveFacts
  <1>3. /\ Tail(todo) # <<>> => Tail(todo) \in AU!Ahead(op) /\ Head(Tail(todo)) # "fail"
        /\ change = "enable" => op = "verify" /\ todo = <<"enable">>
        /\ change = "disable" => op = "disable"
        /\ change = "secret" => op = "setup"
        /\ change \in {"codes", "regenerate"} => op \in {"setup", "regenerate"} /\ Tail(todo) = <<>>
        /\ op = "verify" /\ Tail(todo) # <<>> => todo = <<"reset", "enable">>
    BY <1>1, AheadSteps
  <1>4. /\ u \in AU!UserRow /\ v \in Nat /\ v <= auVersion /\ n \in Nat
        /\ u.failed >= Threshold => u.lockedUntil # 0
        /\ auVersion \in Nat /\ auLost \in Nat /\ guesses \in Nat /\ auNow \in Nat /\ auCalls \in Nat
        /\ uses \in [AU!Calls -> Nat]
    BY <1>1 DEF AU!Behind, AU!AccountInv
  <1>5. /\ new \in AU!UserRow
        /\ new.failed >= Threshold => new.lockedUntil # 0
        /\ change = "fail" => new.failed = u.failed + 1
        /\ change \notin {"fail", "reset", "unlock"} => new.failed = u.failed
        /\ change = "consume" => code \in u.codes /\ new.codes = u.codes \ {code}
        /\ change \in {"codes", "regenerate"} => new.codes = {n}
        /\ change \notin {"codes", "regenerate"} => new.codes \subseteq u.codes
        /\ change \in {"codes", "regenerate"} => new.enabled = u.enabled
        /\ change = "disable" => new.enabled = FALSE
        /\ change \notin {"enable", "disable"} => new.enabled = u.enabled
        /\ change \notin {"secret", "disable"} => new.secret = u.secret
        /\ change \in {"reset", "unlock"} => new.failed = 0
        /\ new.secret \in {0, n, u.secret}
        /\ new.lockedUntil \in {0, auNow + 1, u.lockedUntil}
    <2>1. ChangesTo(new, change, u, n)
      BY <1>1, <1>4, ChangedFields
    <2> HIDE DEF new, u, n, change
    <2> QED
      BY <2>1 DEF ChangesTo
  <1>6. /\ r.copy = AU!NoCopy
        /\ \/ r = AU!Idle /\ Tail(todo) = <<>>
           \/ /\ Tail(todo) # <<>> /\ r.op = op /\ r.call = n /\ r.user = auWork[w].user
              /\ r.todo = Tail(todo) /\ r.todo \in AU!Ahead(op) /\ Head(r.todo) # "fail"
              /\ r.todo # <<>> /\ change \notin {"codes", "regenerate"}
    BY ZenonT(30), <1>3, LeftFields DEF AU!Idle
  <1> HIDE DEF u, v, n, change, new, r, code
  <1>7. /\ DOMAIN auWork' = Workers /\ auWork'[w] = r
        /\ \A x \in Workers : x # w => auWork'[x] = auWork[x]
    BY <1>2 DEF AU!AccountInv
  \* the backup codes
  <1>8. /\ uses' \in [AU!Calls -> Nat]
        /\ \A c \in AU!Calls : \/ uses'[c] = uses[c]
                               \/ uses'[c] = uses[c] + 1 /\ c \in u.codes /\ c \notin new.codes
    <2>1. CASE change = "consume"
      <3>1. uses' = [uses EXCEPT ![code] = uses[code] + 1]
        BY <1>2, <2>1
      <3>2. \A c \in AU!Calls : uses[c] \in Nat /\ uses[c] + 1 \in Nat
        BY <1>4
      <3>3. \A c \in AU!Calls : uses'[c] = IF c = code THEN uses[c] + 1 ELSE uses[c]
        BY <1>4, <3>1
      <3>4. uses' \in [AU!Calls -> Nat]
        BY <1>4, <3>1, <3>2, <3>3
      <3> QED
        BY <1>5, <2>1, <3>3, <3>4
    <2>2. CASE change # "consume"
      BY <1>2, <1>4, <2>2
    <2> QED
      BY <2>1, <2>2
  <1>9. \A c \in AU!Calls : c \in new.codes => c \in u.codes \/ uses[c] = 0
    BY <1>1, <1>5 DEF AU!Unmade
  <1>10. /\ auVersion' \in Nat /\ auVersion <= auVersion' /\ auLost' \in Nat /\ auLost <= auLost'
         /\ auLost' = 0 => auLost = 0 /\ v = auVersion
         /\ AU!Behind(auRow, auVersion)'
         /\ \A c \in AU!Calls : uses'[c] <= 1 + auLost'
         /\ \A x, y : AU!Behind(x, y) => AU!Behind(x, y)' /\ y # auVersion'
    BY <1>1, <1>2, <1>5, <1>8, <1>9, Overwritten
  \* the guesses
  <1>11. guesses' \in Nat /\ guesses' \in {0, guesses}
    BY <1>2, <1>4
  <1>12. /\ AU!Pending \subseteq AU!Pending' \cup {w}
         /\ change # "fail" => AU!Pending \subseteq AU!Pending'
    BY <1>1, <1>2, PendingMoves
  <1>13. /\ AU!Cardinality(AU!Pending) \in Nat /\ AU!Cardinality(AU!Pending)' \in Nat
         /\ AU!Cardinality(AU!Pending) <= AU!Cardinality(AU!Pending)' + 1
         /\ change # "fail" => AU!Cardinality(AU!Pending) <= AU!Cardinality(AU!Pending)'
    BY <1>12, PendingCounted
  <1>14. \/ guesses' = 0
         \/ guesses' + AU!Cardinality(AU!Pending)
              <= guesses + AU!Cardinality(AU!Pending)' + (auVersion' - auVersion)
    <2> DEFINE p == AU!Cardinality(AU!Pending)  q == AU!Cardinality(AU!Pending)'
               i == auVersion  j == auVersion'  g == guesses  h == guesses'
    <2>1. p \in Nat /\ q \in Nat /\ p <= q + 1 /\ i \in Nat /\ j = i + 1 /\ g \in Nat /\ h \in {0, g}
      BY <1>2, <1>4, <1>11, <1>13
    <2> HIDE DEF p, q, i, j, g, h
    <2>2. h = 0 \/ h + p <= g + q + (j - i)
      BY <2>1
    <2> QED
      BY <2>2 DEF p, q, i, j, g, h
  <1>15. ASSUME NEW x, NEW y, AU!Behind(x, y), AU!Counts(x, y) PROVE AU!Counts(x, y)'
    <2>1. x \in AU!UserRow /\ y \in Nat /\ y <= auVersion
      BY <1>15 DEF AU!Behind
    <2> QED
      BY <1>10, <1>11, <1>14, <1>15, <2>1, CountsLater
  <1>16. AU!Counts(auRow, auVersion)'
    <2> DEFINE p == AU!Cardinality(AU!Pending)  q == AU!Cardinality(AU!Pending)'
               i == auVersion  j == auVersion'  g == guesses  h == guesses'
               k == auLost  m == auLost'  f == u.failed  e == new.failed
    <2>1. /\ p \in Nat /\ q \in Nat /\ i \in Nat /\ j \in Nat /\ g \in Nat /\ h \in {0, g} /\ k \in Nat
          /\ m \in Nat /\ f \in Nat /\ e \in Nat
      BY <1>4, <1>5, <1>10, <1>11, <1>13 DEF AU!UserRow
    <2>2. /\ p <= q + 1 /\ v \in Nat /\ v <= i /\ m = k + (i - v) /\ g <= f + k + (i - v) + p
          /\ h = 0 \/ (e = f /\ p <= q) \/ e = f + 1
      BY <1>1, <1>2, <1>4, <1>5, <1>13 DEF AU!Counts
    <2>3. new = auRow'
      BY <1>2
    <2> HIDE DEF p, q, i, j, g, h, k, m, f, e
    <2>4. h <= e + m + (j - j) + q
      BY <2>1, <2>2
    <2> QED
      BY <2>3, <2>4 DEF p, q, i, j, g, h, k, m, f, e, AU!Counts
  \* the calls
  <1>17. ASSUME NEW x \in Workers, x # w, AU!Served(x) PROVE AU!Served(x)'
    <2>1. auWork'[x] = auWork[x] /\ auCalls' = auCalls
      BY <1>2, <1>7, <1>17
    <2>2. auWork[x].copy # AU!NoCopy =>
            /\ AU!Behind(auWork[x].copy, auWork[x].version)'
            /\ AU!Counts(auWork[x].copy, auWork[x].version)'
            /\ auWork[x].version # auVersion'
      BY <1>10, <1>15, <1>17, <2>1 DEF AU!Served
    <2> QED
      BY <1>17, <2>1, <2>2 DEF AU!Served, AU!Next1
  <1>18. r # AU!Idle => AU!Served(w)'
    BY <1>1, <1>2, <1>6, <1>7 DEF AU!Served, AccountOps
  <1>19. \A x \in Workers : (auWork[x] = AU!Idle \/ AU!Served(x))'
    BY <1>7, <1>17, <1>18 DEF AU!AccountInv
  <1>20. r # AU!Idle => r.call = n /\ r.op = op
    BY <1>6
  <1>21. AU!Idle.call = 0 /\ AU!Idle.op = "idle"
    BY DEF AU!Idle
  <1>22. \A x, y \in Workers : auWork'[x].call = auWork'[y].call /\ auWork'[x] # AU!Idle => x = y
    <2>1. \A x \in Workers : auWork[x] # AU!Idle => auWork[x].call # 0
      BY <1>4 DEF AU!AccountInv, AU!Served
    <2>2. \A x \in Workers : x # w => auWork[x].call # n
      BY <1>1 DEF AU!AccountInv, n
    <2>3. n # 0
      BY <1>1, <1>4
    <2> QED
      BY <1>7, <1>20, <1>21, <2>1, <2>2, <2>3 DEF AU!AccountInv
  \* the codes not made yet
  <1>23. ASSUME NEW c \in AU!Calls, AU!Unmade(c), c = n => change \notin {"codes", "regenerate"}
         PROVE  AU!Unmade(c)'
    <2>1. c \notin u.codes
      BY <1>1, <1>23 DEF AU!Unmade, u
    <2>2. c \notin new.codes
      BY <1>5, <1>23, <2>1
    <2>3. uses'[c] = 0
      BY <1>8, <1>23, <2>1 DEF AU!Unmade
    <2>4. \A x \in Workers : auWork'[x].copy # AU!NoCopy => c \notin auWork'[x].copy.codes
      BY <1>6, <1>7, <1>23 DEF AU!Unmade
    <2> QED
      BY <1>2, <1>23, <2>2, <2>3, <2>4 DEF AU!Unmade
  <1>24. \A c \in AU!Calls : c > auCalls' => AU!Unmade(c)'
    <2> SUFFICES ASSUME NEW c \in AU!Calls, c > auCalls' PROVE AU!Unmade(c)'
      OBVIOUS
    <2>1. c > auCalls /\ c # n
      BY <1>1, <1>2, <1>4
    <2>2. AU!Unmade(c)
      BY <2>1 DEF AU!AccountInv
    <2> QED
      BY <1>23, <2>1, <2>2
  <1>25. \A x \in Workers, c \in AU!Calls :
            auWork'[x].op \in {"setup", "regenerate"} /\ auWork'[x].call = c => AU!Unmade(c)'
    <2> SUFFICES ASSUME NEW x \in Workers, NEW c \in AU!Calls,
                        auWork'[x].op \in {"setup", "regenerate"}, auWork'[x].call = c
                 PROVE  AU!Unmade(c)'
      OBVIOUS
    <2>1. CASE x = w
      <3>1. c = n /\ op \in {"setup", "regenerate"} /\ change \notin {"codes", "regenerate"}
        BY <1>6, <1>7, <1>21, <2>1
      <3>2. AU!Unmade(c)
        BY <3>1 DEF AU!AccountInv, n
      <3> QED
        BY <1>23, <3>1, <3>2
    <2>2. CASE x # w
      <3>1. auWork[x].op \in {"setup", "regenerate"} /\ auWork[x].call = c
        BY <1>7, <2>2
      <3>2. AU!Unmade(c)
        BY <3>1 DEF AU!AccountInv
      <3>3. c # n
        BY <1>1, <2>2, <3>1 DEF AU!AccountInv, n
      <3> QED
        BY <1>23, <3>2, <3>3
    <2> QED
      BY <2>1, <2>2
  <1>26. \A s \in late' : /\ AU!Behind(s.copy, s.version)'
                          /\ s.version # auVersion'
    BY <1>2, <1>10 DEF AU!AccountInv
  \* the secret
  <1>27. auLost' = 0 /\ ~crossed' => AU!Proven'
    <2> SUFFICES ASSUME auLost' = 0, ~crossed' PROVE AU!Proven'
      OBVIOUS
    <2>1. AU!Proven /\ u = auRow
      BY <1>1, <1>2, <1>10 DEF AU!AccountInv
    <2>2. /\ AU!Busy("setup")' => AU!Busy("setup")
          /\ AU!Busy("disable")' => AU!Busy("disable")
      BY <1>7, <1>20, <1>21 DEF AU!Busy, op
    <2>3. \A x \in Workers : auWork'[x].op = auWork[x].op \/ auWork'[x].op = "idle"
      BY <1>7, <1>20, <1>21
    <2>4. /\ op = "setup" => AU!Busy("setup") /\ ~auRow.enabled
          /\ op = "disable" => AU!Busy("disable")
      BY <2>1 DEF AU!Busy, AU!Proven
    <2>5. change = "enable" => auRow.secret \in verified /\ ~AU!Busy("setup")
      BY <1>3, <2>1 DEF AU!Proven
    <2>6. /\ change \notin {"enable", "disable"} => auRow'.enabled = auRow.enabled
          /\ change = "disable" => auRow'.enabled = FALSE
          /\ change \notin {"secret", "disable"} => auRow'.secret = auRow.secret
      BY <1>2, <1>5, <2>1
    <2>7. auRow'.enabled => auRow'.secret \in verified'
      BY <1>2, <1>3, <2>1, <2>4, <2>5, <2>6 DEF AU!Proven
    <2>8. ASSUME NEW x \in Workers, auWork'[x].op = "setup" PROVE ~auRow'.enabled
      <3>1. auWork[x].op = "setup"
        BY <2>3, <2>8
      <3>2. ~auRow.enabled /\ AU!Busy("setup")
        BY <2>1, <3>1 DEF AU!Proven, AU!Busy
      <3> QED
        BY <2>5, <2>6, <3>2
    <2>9. ASSUME NEW x \in Workers, auWork'[x].op = "verify"
          PROVE  /\ auWork'[x].user.secret = auRow'.secret
                 /\ ~AU!Busy("setup")' /\ ~AU!Busy("disable")'
                 /\ auWork'[x].todo \in {<<"reset", "enable">>, <<"enable">>} => auRow'.secret \in verified'
      <3>1. auWork[x].op = "verify"
        BY <2>3, <2>9
      <3>2. /\ auWork[x].user.secret = auRow.secret /\ ~AU!Busy("setup") /\ ~AU!Busy("disable")
            /\ auWork[x].todo \in {<<"reset", "enable">>, <<"enable">>} => auRow.secret \in verified
        BY <2>1, <3>1 DEF AU!Proven
      <3>3. auRow'.secret = auRow.secret
        BY <1>3, <2>4, <2>6, <3>2
      <3>4. /\ auWork'[x].user = auWork[x].user
            /\ auWork'[x].todo \in {<<"reset", "enable">>, <<"enable">>}
                 => auWork[x].todo \in {<<"reset", "enable">>, <<"enable">>}
        <4>1. CASE x = w
          <5>1. r # AU!Idle /\ op = "verify"
            BY <1>7, <1>21, <2>9, <3>1, <4>1
          <5>2. r.user = auWork[w].user /\ todo = <<"reset", "enable">>
            BY <1>3, <1>6, <5>1
          <5> QED
            BY <1>7, <4>1, <5>2
        <4>2. CASE x # w
          BY <1>7, <4>2
        <4> QED
          BY <4>1, <4>2
      <3> QED
        BY <1>2, <2>2, <3>2, <3>3, <3>4
    <2> QED
      BY <2>7, <2>8, <2>9 DEF AU!Proven
  <1>28. auNow' \in Nat /\ auCalls' \in 0 .. AuMaxCalls
    BY <1>2 DEF AU!AccountInv
  <1> QED
    BY <1>7, <1>8, <1>10, <1>11, <1>16, <1>19, <1>22, <1>24, <1>25, <1>26, <1>27, <1>28
    DEF AU!AccountInv

\* The save nobody awaits.
LEMMA LateSaveKeeps ==
    ASSUME IsFiniteSet(Workers), AU!AccountInv, AU!LateSave
    PROVE  AU!AccountInv'
  <1>1. PICK s \in late : /\ auRow' = s.copy /\ auVersion' = auVersion + 1
                          /\ auLost' = auLost + (auVersion - s.version) /\ late' = late \ {s}
    BY DEF AU!LateSave, AU!Overwrite
  <1>2. guesses' = 0 /\ UNCHANGED <<auNow, auWork, uses, verified, crossed, auCalls>>
    BY DEF AU!LateSave
  <1> DEFINE u == s.copy  v == s.version
  <1>3. /\ AU!Behind(u, v) /\ u \in AU!UserRow /\ (u.failed >= Threshold => u.lockedUntil # 0)
        /\ v = auVersion => u.enabled = auRow.enabled /\ u.secret = auRow.secret
        /\ uses \in [AU!Calls -> Nat]
    BY DEF AU!AccountInv, AU!Behind
  <1> HIDE DEF u, v
  <1>4. auRow' = u /\ auLost' = auLost + (auVersion - v)
    BY <1>1 DEF u, v
  <1>5. /\ auVersion' \in Nat /\ auVersion <= auVersion' /\ auLost' \in Nat /\ auLost <= auLost'
        /\ auLost' = 0 => auLost = 0 /\ v = auVersion
        /\ AU!Behind(auRow, auVersion)'
        /\ \A c \in AU!Calls : uses'[c] <= 1 + auLost'
        /\ \A x, y : AU!Behind(x, y) => AU!Behind(x, y)' /\ y # auVersion'
    BY <1>1, <1>2, <1>3, <1>4, Overwritten
  <1>6. ASSUME NEW x, NEW y, AU!Behind(x, y) PROVE AU!Counts(x, y)'
    <2> DEFINE q == AU!Cardinality(AU!Pending)'  f == x.failed  j == auVersion'  m == auLost'
    <2>1. q \in Nat /\ f \in Nat /\ y \in Nat /\ y <= auVersion /\ j \in Nat /\ auVersion <= j /\ m \in Nat
      BY <1>5, <1>6, PendingCounted DEF AU!Behind, AU!UserRow
    <2>2. auVersion \in Nat /\ guesses' = 0
      BY <1>2 DEF AU!AccountInv
    <2> HIDE DEF q, f, j, m
    <2>3. 0 <= f + m + (j - y) + q
      BY <2>1, <2>2
    <2> QED
      BY <2>2, <2>3 DEF q, f, j, m, AU!Counts
  <1>7. AU!Counts(auRow, auVersion)'
    <2> DEFINE q == AU!Cardinality(AU!Pending)'  f == u.failed  j == auVersion'  m == auLost'
    <2>1. q \in Nat /\ f \in Nat /\ j \in Nat /\ m \in Nat
      BY <1>3, <1>5, PendingCounted DEF AU!UserRow
    <2> HIDE DEF q, f, j, m
    <2>2. 0 <= f + m + (j - j) + q
      BY <2>1
    <2> QED
      BY <1>2, <1>4, <2>2 DEF q, f, j, m, AU!Counts
  <1>8. ASSUME NEW x \in Workers, AU!Served(x) PROVE AU!Served(x)'
    <2>1. auWork'[x].copy # AU!NoCopy =>
            /\ AU!Behind(auWork[x].copy, auWork[x].version)'
            /\ AU!Counts(auWork[x].copy, auWork[x].version)'
            /\ auWork[x].version # auVersion'
      BY <1>2, <1>5, <1>6, <1>8 DEF AU!Served
    <2> QED
      BY <1>2, <1>8, <2>1 DEF AU!Served, AU!Next1
  <1>9. ASSUME NEW c, AU!Unmade(c) PROVE AU!Unmade(c)'
    BY <1>1, <1>2, <1>9 DEF AU!Unmade
  <1>10. auLost' = 0 /\ ~crossed' => AU!Proven'
    <2>1. auLost' = 0 /\ ~crossed' => AU!Proven /\ auRow'.enabled = auRow.enabled
                                      /\ auRow'.secret = auRow.secret
      BY <1>2, <1>3, <1>4, <1>5 DEF AU!AccountInv
    <2> QED
      BY <1>2, <2>1 DEF AU!Proven, AU!Busy
  <1>11. \A x \in late' : AU!Behind(x.copy, x.version)' /\ x.version # auVersion'
    BY <1>1, <1>5 DEF AU!AccountInv
  <1>12. \A x \in Workers : (auWork[x] = AU!Idle \/ AU!Served(x))'
    BY <1>2, <1>8 DEF AU!AccountInv
  <1>13. \A c \in AU!Calls : c > auCalls' => AU!Unmade(c)'
    BY <1>2, <1>9 DEF AU!AccountInv
  <1>14. \A x \in Workers, c \in AU!Calls :
            auWork'[x].op \in {"setup", "regenerate"} /\ auWork'[x].call = c => AU!Unmade(c)'
    BY <1>2, <1>9 DEF AU!AccountInv
  <1>15. /\ guesses' \in Nat /\ auNow' \in Nat /\ auCalls' \in 0 .. AuMaxCalls
         /\ uses' \in [AU!Calls -> Nat] /\ DOMAIN auWork' = Workers
         /\ \A x, y \in Workers : auWork'[x].call = auWork'[y].call /\ auWork'[x] # AU!Idle => x = y
    BY <1>2 DEF AU!AccountInv
  <1> QED
    BY <1>5, <1>7, <1>10, <1>11, <1>12, <1>13, <1>14, <1>15 DEF AU!AccountInv

LEMMA TickKeeps ==
    ASSUME AU!AccountInv, AU!Tick \/ UNCHANGED AU!vars
    PROVE  AU!AccountInv'
  <1>1. /\ UNCHANGED <<auRow, auWork, late, auVersion, auLost, guesses, uses, verified, crossed, auCalls>>
        /\ auNow' \in Nat
    BY DEF AU!Tick, AU!vars, AU!AccountInv
  <1>2. \A u, v : AU!Behind(u, v) => AU!Behind(u, v)'
    BY <1>1 DEF AU!Behind
  <1>3. AU!Pending' = AU!Pending
    BY <1>1 DEF AU!Pending, AU!Next1
  <1>4. \A u, v : AU!Counts(u, v) => AU!Counts(u, v)'
    BY <1>1, <1>3, CardinalitySame DEF AU!Counts
  <1>5. \A x \in Workers : AU!Served(x) => AU!Served(x)'
    BY <1>1, <1>2, <1>4 DEF AU!Served, AU!Next1
  <1>6. \A c : AU!Unmade(c) => AU!Unmade(c)'
    BY <1>1 DEF AU!Unmade
  <1>7. AU!Proven => AU!Proven'
    BY <1>1 DEF AU!Proven, AU!Busy
  <1>8. AU!Behind(auRow, auVersion)' /\ AU!Counts(auRow, auVersion)'
    BY <1>1, <1>2, <1>4 DEF AU!AccountInv
  <1> QED
    BY <1>1, <1>2, <1>5, <1>6, <1>7, <1>8 DEF AU!AccountInv

LEMMA AccountStep ==
    ASSUME IsFiniteSet(Workers), Threshold \in Nat \ {0}, AuMaxCalls \in Nat, AU!AccountInv,
           [AU!Next]_(AU!vars)
    PROVE  AU!AccountInv'
  BY BeginKeeps, CompareKeeps, FactorKeeps, FindKeeps, SaveKeeps, LateSaveKeeps, TickKeeps
  DEF AU!Next, AccountOps

LEMMA AccountBegins ==
    ASSUME IsFiniteSet(Workers), Threshold \in Nat \ {0}, AuMaxCalls \in Nat \ {0}, Init
    PROVE  AU!AccountInv
  <1>1. /\ auRow \in {AU!Plain, AU!Enrolled}
        /\ auNow = 0 /\ auWork = [w \in Workers |-> AU!Idle] /\ late = {}
        /\ auVersion = 0 /\ auLost = 0 /\ guesses = 0 /\ uses = [c \in AU!Calls |-> 0]
        /\ verified = {auRow.secret} \ {0} /\ auCalls = auRow.secret
    BY DEF Init, AU!Init
  <1>2. /\ auRow \in AU!UserRow /\ auRow.failed = 0 /\ auRow.secret \in {0, 1}
        /\ auRow.enabled <=> auRow.secret = 1
        /\ \A c \in auRow.codes : c = auRow.secret
    <2>1. /\ AU!Plain.failed = 0 /\ AU!Plain.lockedUntil = 0 /\ AU!Plain.enabled = FALSE
          /\ AU!Plain.secret = 0 /\ AU!Plain.codes = {} /\ AU!Plain \in AU!UserRow
      BY DEF AU!Plain, AU!UserRow
    <2>2. /\ AU!Enrolled.failed = 0 /\ AU!Enrolled.lockedUntil = 0 /\ AU!Enrolled.enabled = TRUE
          /\ AU!Enrolled.secret = 1 /\ AU!Enrolled.codes = {1} /\ AU!Enrolled \in AU!UserRow
      <3> DEFINE p == AU!Plain  c == {1}
      <3>1. AU!Enrolled = [p EXCEPT !.enabled = TRUE, !.secret = 1, !.codes = c]
        BY DEF AU!Enrolled
      <3>2. p \in AU!UserRow /\ p.failed = 0 /\ p.lockedUntil = 0 /\ c \in SUBSET Nat
        BY <2>1
      <3> HIDE DEF p, c
      <3>3. /\ AU!Enrolled.failed = 0 /\ AU!Enrolled.lockedUntil = 0 /\ AU!Enrolled.enabled = TRUE
            /\ AU!Enrolled.secret = 1 /\ AU!Enrolled.codes = c /\ AU!Enrolled \in AU!UserRow
        BY <3>1, <3>2 DEF AU!UserRow
      <3> QED
        BY <3>3 DEF c
    <2> QED
      BY <1>1, <2>1, <2>2
  <1>3. \A w \in Workers : auWork[w] = AU!Idle /\ AU!Idle.op = "idle" /\ AU!Idle.copy = AU!NoCopy
    BY <1>1 DEF AU!Idle
  <1>4. AU!Behind(auRow, auVersion)
    BY <1>1, <1>2 DEF AU!Behind
  <1>5. AU!Counts(auRow, auVersion)
    BY <1>1, <1>2, PendingCounted DEF AU!Counts
  <1>6. \A c \in AU!Calls : c > auCalls => AU!Unmade(c)
    BY <1>1, <1>2, <1>3 DEF AU!Unmade, AU!Calls
  <1>7. AU!Proven
    BY <1>1, <1>2, <1>3 DEF AU!Proven
  <1>8. auCalls \in 0 .. AuMaxCalls
    BY <1>1, <1>2
  <1> QED
    BY <1>1, <1>3, <1>4, <1>5, <1>6, <1>7, <1>8 DEF AU!AccountInv

LEMMA AccountsMove == [Next]_vars => [AU!Next]_(AU!vars)
  BY DEF Next, vars, plVars, wdVars, acVars, tkVars, auVars, akVars, diVars, thVars, wnVars,
     raVars, ejVars, msVars, seVars, AU!vars

(* No wrong password or code is forgotten, the account is locked from the  *)
(* threshold on, a backup code lets in once, but for as many as there were *)
(* saves that overwrote another, and two-factor is on only with a secret   *)
(* of which a code was shown, for any number of requests and wherever the  *)
(* threshold is (users.service.ts:332-526, auth.service.ts:271-432).       *)
THEOREM FactorsStayKept ==
    ASSUME IsFiniteSet(Workers), Threshold \in Nat \ {0}, AuMaxCalls \in Nat \ {0}
    PROVE  Spec => []FactorsKept
  <1>1. Init => AU!AccountInv
    BY AccountBegins
  <1>2. AU!AccountInv /\ [Next]_vars => AU!AccountInv'
    BY AccountsMove, AccountStep
  <1>3. AU!AccountInv => FactorsKept
    <2> SUFFICES ASSUME AU!AccountInv
                 PROVE  AU!GuessesCounted /\ AU!CodesRunOut /\ AU!EnabledSecretVerified
      BY DEF FactorsKept
    <2>1. AU!GuessesCounted
      <3>1. /\ auVersion \in Nat /\ auLost \in Nat /\ auRow.failed \in Nat
            /\ AU!Cardinality(AU!Pending) \in Nat
            /\ guesses <= auRow.failed + auLost + (auVersion - auVersion) + AU!Cardinality(AU!Pending)
            /\ auRow.failed >= Threshold => auRow.lockedUntil # 0
        BY PendingCounted DEF AU!AccountInv, AU!Behind, AU!Counts, AU!UserRow
      <3> QED
        BY <3>1 DEF AU!GuessesCounted
    <2>2. AU!CodesRunOut
      BY DEF AU!CodesRunOut, AU!AccountInv
    <2>3. AU!EnabledSecretVerified
      BY DEF AU!EnabledSecretVerified, AU!AccountInv, AU!Proven
    <2> QED
      BY <2>1, <2>2, <2>3
  <1> QED
    BY <1>1, <1>2, <1>3, PTL DEF Spec

-----------------------------------------------------------------------------
(* Webhook nonces.                                                         *)

LEMMA NoncesBegin == ASSUME Init PROVE WN!NoncesInv
  BY DEF Init, WN!Init, WN!NoncesInv, WN!Absent

LEMMA NoncesStep ==
    ASSUME Tolerance \in Nat, WnMaxTime \in Nat, WN!NoncesInv, [WN!Next]_(WN!vars)
    PROVE  WN!NoncesInv'
  <1>1. CASE UNCHANGED WN!vars
    BY <1>1 DEF WN!vars, WN!NoncesInv
  <1>2. CASE WN!Tick
    BY <1>2 DEF WN!Tick, WN!NoncesInv
  <1>3. CASE WN!Restart
    BY <1>3 DEF WN!Restart, WN!NoncesInv, WN!Absent
  <1>4. ASSUME NEW n \in Nonces \cup {WN!NoNonce}, NEW t \in 1 .. WnMaxTime + Tolerance,
               NEW signed \in BOOLEAN, WN!Verify(n, t, signed)
        PROVE  WN!NoncesInv'
    <2> DEFINE remembered == IF WN!Cached(n) THEN WN!Pruned ELSE usedNonces
               keeps == WN!Cached(n) /\ signed /\ remembered[n] = 0
    <2>1. /\ clock \in Nat /\ t \in Nat /\ t # 0 /\ clock <= t + Tolerance /\ clock' = clock
          /\ usedNonces' = IF keeps THEN [remembered EXCEPT ![n] = t] ELSE remembered
          /\ repeated' = (repeated \/ (keeps /\ t <= lastTaken[n]))
          /\ lastTaken' = IF keeps THEN [lastTaken EXCEPT ![n] = t] ELSE lastTaken
      BY <1>4 DEF WN!Verify, WN!InTime, WN!NoncesInv, WN!Absent
    <2>2. /\ remembered \in [Nonces -> Nat] /\ lastTaken \in [Nonces -> Nat]
          /\ \A m \in Nonces : remembered[m] # lastTaken[m]
                               => remembered[m] = 0 /\ lastTaken[m] + Tolerance < clock
      BY <2>1 DEF WN!NoncesInv, WN!Pruned, WN!Absent
    <2>3. keeps => n \in Nonces
      BY DEF WN!Cached
    <2> HIDE DEF remembered
    <2>4. CASE keeps
      <3>1. remembered[n] = 0
        BY <2>4
      <3>2. ~(t <= lastTaken[n])
        BY <2>1, <2>2, <2>3, <2>4, <3>1
      <3>3. ~repeated'
        BY <2>1, <3>2 DEF WN!NoncesInv
      <3>4. /\ usedNonces' = [remembered EXCEPT ![n] = t]
            /\ lastTaken' = [lastTaken EXCEPT ![n] = t]
        BY <2>1, <2>4
      <3>5. \A m \in Nonces : usedNonces'[m] # lastTaken'[m]
                              => usedNonces'[m] = 0 /\ lastTaken'[m] + Tolerance < clock'
        BY <2>1, <2>2, <3>4
      <3> QED
        BY <2>1, <2>2, <3>3, <3>4, <3>5 DEF WN!NoncesInv, WN!Absent
    <2>5. CASE ~keeps
      BY <2>1, <2>2, <2>5 DEF WN!NoncesInv, WN!Absent
    <2> QED
      BY <2>4, <2>5
  <1> QED
    BY <1>1, <1>2, <1>3, <1>4 DEF WN!Next

-----------------------------------------------------------------------------
(* Throttling.                                                             *)

LEMMA ThrottlingSame ==
    /\ \A S : TH!Cardinality(S) = Cardinality(S)
    /\ \A S : TH!IsFiniteSet(S) <=> IsFiniteSet(S)
  BY DEF TH!Cardinality, Cardinality, TH!IsFiniteSet, IsFiniteSet

\* The parameters of the throttlers, as throttler.config.module.ts has them.
ThrottlersOn ==
    /\ DefaultLimit \in Nat \ {0} /\ AuthLimit \in Nat \ {0}
    /\ BulkLimit \in Nat \ {0} /\ WebhookLimit \in Nat \ {0} /\ QrLimit \in Nat \ {0}
    /\ DefaultTtl \in Nat \ {0} /\ AuthTtl \in Nat \ {0}

LEMMA BucketNames == TH!Buckets = {"default", "bulk", "webhook", "qr", "auth"}
  <1>1. /\ TH!Order[1] = "default" /\ TH!Order[2] = "bulk" /\ TH!Order[3] = "webhook"
        /\ TH!Order[4] = "qr" /\ TH!Order[5] = "auth"
    BY DEF TH!Order
  <1>2. 1 .. 5 = {1, 2, 3, 4, 5}
    OBVIOUS
  <1> QED
    BY <1>1, <1>2 DEF TH!Buckets

LEMMA BucketLimits ==
    ASSUME ThrottlersOn, NEW b \in TH!Buckets
    PROVE  /\ TH!Effective(b) = TH!Limits[b]
           /\ TH!Limits[b].limit \in Nat \ {0} /\ TH!Limits[b].ttl \in Nat \ {0}
  BY BucketNames
  DEF ThrottlersOn, TH!Effective, TH!Known, TH!Decorated, TH!Limits, TH!Throttler

LEMMA WindowFinite ==
    ASSUME TH!WindowsInv, NEW s \in SUBSET sent, NEW ttl
    PROVE  /\ IsFiniteSet(TH!InWindow(s, ttl))
           /\ Cardinality(TH!InWindow(s, ttl)) \in Nat
  BY ThrottlingSame, FS_Subset, FS_CardinalityType DEF TH!WindowsInv, TH!InWindow

LEMMA WindowsBegin == ASSUME ThrottlersOn, Init PROVE TH!WindowsInv
  <1>1. /\ thNow = 1 /\ hits = [b \in TH!Buckets |-> {}] /\ blocked = [b \in TH!Buckets |-> 0]
        /\ sent = {} /\ passed = {}
    BY DEF Init, TH!Init
  <1>2. ASSUME NEW b \in TH!Buckets PROVE TH!CountsAll(b)
    <2>1. TH!InWindow(passed, TH!Limits[b].ttl) = {} /\ Cardinality({}) = 0
      BY <1>1, FS_EmptySet DEF TH!InWindow
    <2>2. TH!Cardinality(TH!InWindow(passed, TH!Limits[b].ttl)) <= TH!Limits[b].limit
      BY <2>1, BucketLimits, ThrottlingSame
    <2>3. blocked[b] = 0
      BY <1>1
    <2> QED
      BY <2>1, <2>2, <2>3 DEF TH!CountsAll
  <1> QED
    BY <1>1, <1>2, ThrottlingSame, FS_EmptySet DEF TH!WindowsInv

\* The clock goes on: windows lose requests, none is let through.
LEMMA WindowsTick == ASSUME ThrottlersOn, TH!WindowsInv, TH!Tick PROVE TH!WindowsInv'
  <1>1. /\ thNow \in Nat /\ thNow' = thNow + 1 /\ sent' \subseteq sent /\ passed' \subseteq passed
        /\ hits' = hits /\ blocked' = blocked /\ passed' \subseteq sent'
    BY DEF TH!Tick, TH!WindowsInv, TH!Recent
  <1>2. ASSUME NEW b \in TH!Buckets PROVE TH!CountsAll(b)'
    <2> DEFINE ttl == TH!Limits[b].ttl
               before == TH!InWindow(passed, ttl)
               after == {r \in passed' : r.at + ttl > thNow'}
    <2>1. ttl \in Nat /\ TH!Limits[b].limit \in Nat
      BY BucketLimits
    <2>2. after \subseteq before
      BY <1>1, <2>1 DEF TH!InWindow, TH!WindowsInv
    <2>3. /\ IsFiniteSet(before) /\ Cardinality(before) \in Nat
      BY WindowFinite DEF TH!WindowsInv
    <2>4. Cardinality(after) <= Cardinality(before) /\ Cardinality(after) \in Nat
      BY <2>2, <2>3, FS_Subset, FS_CardinalityType
    <2>5. /\ Cardinality(before) <= TH!Limits[b].limit
          /\ IF blocked[b] = 0 THEN before \subseteq hits[b]
             ELSE \A r \in passed : r.at + ttl <= blocked[b]
      BY ThrottlingSame DEF TH!WindowsInv, TH!CountsAll
    <2>6. TH!InWindow(passed, ttl)' = after
      BY DEF TH!InWindow, TH!Limits
    <2> HIDE DEF before, after
    <2>7. Cardinality(after) <= TH!Limits[b].limit
      BY <2>1, <2>3, <2>4, <2>5
    <2>8. IF blocked'[b] = 0 THEN after \subseteq hits'[b]
          ELSE \A r \in passed' : r.at + ttl <= blocked'[b]
      BY <1>1, <2>2, <2>5
    <2> QED
      BY <2>6, <2>7, <2>8, ThrottlingSame DEF TH!CountsAll, TH!Limits
  <1>3. IsFiniteSet(sent')
    BY <1>1, FS_Subset, ThrottlingSame DEF TH!WindowsInv
  <1>4. \A r \in sent' : r.at \in Nat /\ r.nth \in Nat /\ r.at <= thNow' /\ r.at # thNow'
    BY <1>1 DEF TH!WindowsInv
  <1> QED
    BY <1>1, <1>2, <1>3, <1>4, ThrottlingSame DEF TH!WindowsInv

\* What the storage makes of a request, in one bucket: a block outlasts what was
\* let through before, and without one the hits have the window.
LEMMA HitCounted ==
    ASSUME ThrottlersOn, TH!WindowsInv, NEW b \in TH!Buckets,
           NEW through, through = passed \/ through = passed \cup {TH!This}
    PROVE  LET ttl == TH!Limits[b].ttl
               window == {r \in through : r.at + ttl > thNow}
           IN  /\ IsFiniteSet(TH!Counted(b)) /\ \A r \in TH!Counted(b) : r.at \in Nat
               /\ TH!Blocks(b) \in Nat
               /\ TH!Blocks(b) = 0 => /\ Cardinality(window) <= TH!Limits[b].limit
                                      /\ window \subseteq TH!Counted(b)
               /\ TH!Blocks(b) # 0 => \A r \in passed : r.at + ttl <= TH!Blocks(b)
  <1> DEFINE ttl == TH!Limits[b].ttl
             limit == TH!Limits[b].limit
             window == {r \in through : r.at + ttl > thNow}
             before == {r \in passed : r.at + ttl > thNow}
             count == TH!Counted(b)
             blocks == TH!Blocks(b)
             this == TH!This
  <1>1. ttl \in Nat \ {0} /\ limit \in Nat \ {0} /\ TH!Effective(b) = TH!Limits[b]
    BY BucketLimits
  <1>2. /\ thNow \in Nat /\ blocked[b] \in Nat /\ this.at = thNow
        /\ \A r \in passed : r.at \in Nat /\ r.at <= thNow
        /\ IsFiniteSet(hits[b]) /\ \A r \in hits[b] : r.at \in Nat
    BY ThrottlingSame DEF TH!WindowsInv, TH!This
  <1>3. IF blocked[b] = 0 THEN before \subseteq hits[b] ELSE \A r \in passed : r.at + ttl <= blocked[b]
    BY DEF TH!WindowsInv, TH!CountsAll, TH!InWindow
  <1>4. TH!BlockOver(b) <=> blocked[b] # 0 /\ blocked[b] <= thNow
    BY DEF TH!BlockOver
  <1>5. TH!Fresh(b) = {r \in hits[b] : r.at + ttl > thNow}
    BY <1>1 DEF TH!Fresh
  <1>6. count = IF TH!BlockOver(b) THEN {this}
                ELSE IF blocked[b] # 0 THEN TH!Fresh(b) ELSE TH!Fresh(b) \cup {this}
    BY DEF TH!Counted
  <1>7. blocks = IF TH!BlockOver(b) THEN 0
                 ELSE IF blocked[b] = 0 /\ Cardinality(count) > limit THEN thNow + ttl
                 ELSE blocked[b]
    BY <1>1, ThrottlingSame DEF TH!Blocks
  <1>8. window \subseteq before \cup {this}
    OBVIOUS
  <1> HIDE DEF ttl, limit, count, blocks, this
  <1>9. IsFiniteSet(TH!Fresh(b))
    BY <1>2, <1>5, FS_Subset
  <1>10. IsFiniteSet(count) /\ Cardinality(count) \in Nat
    BY <1>6, <1>9, FS_AddElement, FS_Singleton, FS_CardinalityType
  <1>11. \A r \in count : r.at \in Nat
    BY <1>2, <1>5, <1>6
  <1>12. blocks \in Nat
    BY <1>1, <1>2, <1>7
  <1>13. blocks # 0 => \A r \in passed : r.at + ttl <= blocks
    BY <1>1, <1>2, <1>3, <1>4, <1>7
  <1>14. blocks = 0 => window \subseteq count
    <2>1. CASE TH!BlockOver(b)
      <3>1. before = {}
        BY <1>1, <1>2, <1>3, <1>4, <2>1
      <3> QED
        BY <1>6, <1>8, <2>1, <3>1
    <2>2. CASE ~TH!BlockOver(b)
      <3>1. SUFFICES ASSUME blocked[b] = 0 PROVE window \subseteq count
        BY <1>1, <1>2, <1>7, <2>2
      <3>2. before \subseteq TH!Fresh(b)
        BY <1>3, <1>5, <3>1
      <3> QED
        BY <1>6, <1>8, <2>2, <3>1, <3>2
    <2> QED
      BY <2>1, <2>2
  <1>15. blocks = 0 => Cardinality(count) <= limit
    <2>1. CASE TH!BlockOver(b)
      BY <1>1, <1>6, <2>1, FS_Singleton
    <2>2. CASE ~TH!BlockOver(b)
      BY <1>1, <1>2, <1>7, <1>10, <2>2
    <2> QED
      BY <2>1, <2>2
  <1>16. blocks = 0 => Cardinality(window) <= limit
    <2> SUFFICES ASSUME blocks = 0 PROVE Cardinality(window) <= limit
      OBVIOUS
    <2> HIDE DEF window
    <2>1. /\ IsFiniteSet(window) /\ Cardinality(window) <= Cardinality(count)
      BY <1>10, <1>14, FS_Subset
    <2>2. Cardinality(window) \in Nat
      BY <2>1, FS_CardinalityType
    <2> QED
      BY <1>1, <1>10, <1>15, <2>1, <2>2
  <1> QED
    BY <1>10, <1>11, <1>12, <1>13, <1>14, <1>16 DEF ttl, limit, count, blocks, window, this

\* A bucket after a request, when its hits were counted.
LEMMA CountsAfter ==
    ASSUME ThrottlersOn, TH!WindowsInv, NEW b \in TH!Buckets,
           thNow' = thNow, passed' = passed \/ passed' = passed \cup {TH!This},
           hits'[b] = TH!Counted(b), blocked'[b] = TH!Blocks(b),
           TH!Blocks(b) # 0 => passed' = passed
    PROVE  TH!CountsAll(b)'
  <1> DEFINE ttl == TH!Limits[b].ttl
             window == {r \in passed' : r.at + ttl > thNow}
  <1>1. /\ TH!Blocks(b) = 0 => /\ Cardinality(window) <= TH!Limits[b].limit
                               /\ window \subseteq TH!Counted(b)
        /\ TH!Blocks(b) # 0 => \A r \in passed : r.at + ttl <= TH!Blocks(b)
    BY HitCounted
  <1>2. TH!InWindow(passed, ttl)' = window
    BY DEF TH!InWindow, TH!Limits
  <1>3. Cardinality(window) <= TH!Limits[b].limit
    <2> SUFFICES ASSUME TH!Blocks(b) # 0 PROVE Cardinality(window) <= TH!Limits[b].limit
      BY <1>1
    <2>1. window = TH!InWindow(passed, ttl)
      BY DEF TH!InWindow
    <2> QED
      BY <2>1, ThrottlingSame DEF TH!WindowsInv, TH!CountsAll
  <1> HIDE DEF window
  <1>4. IF blocked'[b] = 0 THEN window \subseteq hits'[b]
        ELSE \A r \in passed' : r.at + ttl <= blocked'[b]
    BY <1>1
  <1> QED
    BY <1>2, <1>3, <1>4, ThrottlingSame DEF TH!CountsAll, TH!Limits

LEMMA WindowsRequest == ASSUME ThrottlersOn, TH!WindowsInv, TH!Request PROVE TH!WindowsInv'
  <1> DEFINE this == TH!This
  <1>1. /\ thNow \in Nat /\ thNow' = thNow /\ sent' = sent \cup {this}
        /\ this.at = thNow /\ this.nth = Cardinality(sent)
        /\ passed' = passed \/ passed' = passed \cup {this}
        /\ DOMAIN blocked = TH!Buckets
        /\ IsFiniteSet(sent) /\ passed \subseteq sent
    BY ThrottlingSame DEF TH!Request, TH!WindowsInv, TH!This
  <1>2. ASSUME NEW b \in TH!Buckets
        PROVE  /\ IsFiniteSet(TH!Counted(b)) /\ \A r \in TH!Counted(b) : r.at \in Nat
               /\ TH!Blocks(b) \in Nat
    BY HitCounted
  <1> HIDE DEF this
  <1>3. /\ blocked' \in [TH!Buckets -> Nat] /\ DOMAIN hits' = TH!Buckets
        /\ \A b \in TH!Buckets : /\ TH!CountsAll(b)'
                                 /\ IsFiniteSet(hits'[b]) /\ \A r \in hits'[b] : r.at \in Nat
    <2>1. /\ hits' = [b \in TH!Buckets |-> IF b \in TH!Reached THEN TH!Counted(b) ELSE hits[b]]
          /\ blocked' = [b \in TH!Buckets |-> IF b \in TH!Reached THEN TH!Blocks(b) ELSE blocked[b]]
          /\ passed' = IF \A b \in TH!Buckets : TH!Blocks(b) = 0
                       THEN passed \cup {TH!This} ELSE passed
      BY DEF TH!Request
    <2>2. /\ \A b \in TH!Buckets : IsFiniteSet(hits[b]) /\ \A r \in hits[b] : r.at \in Nat
          /\ blocked \in [TH!Buckets -> Nat]
      BY ThrottlingSame DEF TH!WindowsInv
    <2>3. blocked' \in [TH!Buckets -> Nat] /\ DOMAIN hits' = TH!Buckets
      BY <1>2, <2>1, <2>2
    <2>4. ASSUME NEW b \in TH!Buckets, b \in TH!Reached PROVE TH!CountsAll(b)'
      <3>1. hits'[b] = TH!Counted(b) /\ blocked'[b] = TH!Blocks(b)
        BY <2>1, <2>4
      <3>2. /\ TH!Blocks(b) # 0 => passed' = passed
            /\ passed' = passed \/ passed' = passed \cup {TH!This}
        BY <2>1
      <3> QED
        BY <1>1, <3>1, <3>2, CountsAfter
    <2>5. ASSUME NEW b \in TH!Buckets, b \notin TH!Reached PROVE TH!CountsAll(b)'
      <3>1. \E c \in TH!Buckets : TH!Blocks(c) # 0
        <4>1. PICK i \in 1 .. 5 : b = TH!Order[i]
          BY DEF TH!Buckets
        <4>2. PICK k \in 1 .. i - 1 : TH!Blocks(TH!Order[k]) # 0
          BY <2>5, <4>1 DEF TH!Reached
        <4>3. TH!Order[k] \in TH!Buckets
          BY <4>2 DEF TH!Buckets
        <4> QED
          BY <4>2, <4>3
      <3>2. passed' = passed /\ hits'[b] = hits[b] /\ blocked'[b] = blocked[b]
        BY <2>1, <2>5, <3>1
      <3> QED
        BY <1>1, <3>2 DEF TH!WindowsInv, TH!CountsAll, TH!InWindow, TH!Limits
    <2>6. ASSUME NEW b \in TH!Buckets
          PROVE  IsFiniteSet(hits'[b]) /\ \A r \in hits'[b] : r.at \in Nat
      BY <1>2, <2>1, <2>2
    <2> QED
      BY <2>3, <2>4, <2>5, <2>6
  <1>4. Cardinality(sent) \in Nat /\ IsFiniteSet(sent')
    BY <1>1, FS_AddElement, FS_CardinalityType
  <1>5. \A r \in sent' : r.at \in Nat /\ r.nth \in Nat /\ r.at <= thNow'
    BY <1>1, <1>4 DEF TH!WindowsInv
  <1>6. this \notin sent
    BY <1>1, <1>4, ThrottlingSame DEF TH!WindowsInv
  <1>7. Cardinality(sent') = Cardinality(sent) + 1
    BY <1>1, <1>6, FS_AddElement
  <1>8. \A r \in sent' : r.at = thNow' => r.nth < Cardinality(sent')
    BY <1>1, <1>4, <1>7, ThrottlingSame DEF TH!WindowsInv
  <1> QED
    BY <1>1, <1>3, <1>5, <1>4, <1>8, ThrottlingSame DEF TH!WindowsInv

LEMMA WindowsStep == ASSUME ThrottlersOn, TH!WindowsInv, [TH!Next]_(TH!vars) PROVE TH!WindowsInv'
  <1>1. CASE UNCHANGED TH!vars
    BY <1>1 DEF TH!vars, TH!WindowsInv, TH!CountsAll, TH!InWindow, TH!Limits
  <1> QED
    BY <1>1, WindowsTick, WindowsRequest DEF TH!Next

-----------------------------------------------------------------------------
(* Rates.                                                                  *)

LEMMA RatesBegin == ASSUME Ttl \in Nat, Init PROVE RA!RatesInv
  <1>1. /\ raNow = 1 /\ cache = [rate |-> 0, until |-> 0] /\ fallback = 0 /\ latest = 0 /\ ~backwards
        /\ raWork = [w \in Workers |-> RA!Idle]
    BY DEF Init, RA!Init, RA!None
  <1>2. \A w \in Workers : raWork[w] = RA!Idle /\ raWork[w].pc = "idle"
    BY <1>1 DEF RA!Idle
  <1>3. RA!InTurn
    BY <1>1, <1>2 DEF RA!InTurn, RA!Busy
  <1> QED
    BY <1>1, <1>2, <1>3 DEF RA!RatesInv

\* A worker goes from one call or await to the next; what is not in its hands
\* stays, and the two keys go on as they should.
LEMMA WorkerMoves ==
    ASSUME RA!RatesInv, NEW w \in Workers, NEW new, raWork' = [raWork EXCEPT ![w] = new],
           new = RA!Idle \/ RA!Timely(w)', raNow' = raNow,
           latest' \in Nat, fallback' \in Nat, cache' \in [rate : Nat, until : Nat],
           cache'.rate <= raNow, cache'.until <= cache'.rate + Ttl + 2,
           raMixed' \/ RA!InTurn'
    PROVE  RA!RatesInv'
  <1>1. /\ DOMAIN raWork' = Workers /\ raWork'[w] = new
        /\ \A v \in Workers : v # w => raWork'[v] = raWork[v]
    BY DEF RA!RatesInv
  <1>2. ASSUME NEW v \in Workers, v # w PROVE raWork'[v] = RA!Idle \/ RA!Timely(v)'
    BY <1>1, <1>2 DEF RA!RatesInv, RA!Timely
  <1>3. \A v \in Workers : raWork'[v] = RA!Idle \/ RA!Timely(v)'
    BY <1>1, <1>2
  <1> QED
    BY <1>1, <1>3 DEF RA!RatesInv

\* Where fetches come in turn, a worker's own await is all there is to look at.
LEMMA TurnMoves ==
    ASSUME RA!RatesInv, NEW w \in Workers, NEW new, raWork' = [raWork EXCEPT ![w] = new],
           ~raMixed, ~backwards', \A v \in Workers : RA!Busy(v) => v = w,
           latest' <= cache'.rate,
           fallback' = cache'.rate \/ new.pc = "keeping",
           /\ new.pc = "fetching" => cache'.rate <= new.since
           /\ new.pc = "caching" => cache'.rate <= new.rate
           /\ new.pc = "keeping" => cache'.rate = new.rate
    PROVE  RA!InTurn'
  <1>1. /\ raWork'[w] = new /\ \A v \in Workers : v # w => raWork'[v] = raWork[v]
    BY DEF RA!RatesInv
  <1>2. \A v \in Workers : v # w => raWork'[v].pc = "idle"
    BY <1>1 DEF RA!Busy
  <1>3. \A u, v \in Workers : RA!Busy(u)' /\ RA!Busy(v)' => u = v
    BY <1>2 DEF RA!Busy
  <1>4. \A v \in Workers :
            /\ raWork'[v].pc = "fetching" => cache'.rate <= raWork'[v].since
            /\ raWork'[v].pc = "caching" => cache'.rate <= raWork'[v].rate
            /\ raWork'[v].pc = "keeping" => cache'.rate = raWork'[v].rate
    BY <1>1, <1>2
  <1>5. fallback' = cache'.rate \/ \E v \in Workers : raWork'[v].pc = "keeping"
    BY <1>1
  <1> QED
    BY <1>3, <1>4, <1>5 DEF RA!InTurn

\* What a worker at an await has, and that it is alone if fetches come in turn.
LEMMA TimePasses == \A n \in Nat : n <= n /\ n <= n + 1
  OBVIOUS

LEMMA StaysTimely ==
    ASSUME RA!RatesInv, NEW w \in Workers, NEW new, raWork'[w] = new, raNow' = raNow,
           new.pc \in {"fetching", "caching", "keeping", "falling back"}, new.client \in BOOLEAN,
           new.since = raNow,
           new.pc \in {"caching", "keeping"} => new.rate \in Nat /\ new.rate <= raNow,
           new.pc = "caching" => raNow <= new.rate + 1
    PROVE  RA!Timely(w)'
  <1>1. raNow \in Nat
    BY DEF RA!RatesInv
  <1>2. /\ new.since \in Nat /\ new.since <= raNow' /\ raNow' <= new.since + 1
        /\ new.pc \in {"caching", "keeping"} => new.rate \in Nat /\ new.rate <= raNow'
        /\ new.pc = "caching" => new.since <= new.rate + 1
    BY <1>1, TimePasses, Zenon
  <1> QED
    BY <1>2, Zenon DEF RA!Timely

LEMMA AtAwait ==
    ASSUME RA!RatesInv, NEW w \in Workers, raWork[w].pc # "idle"
    PROVE  /\ RA!Timely(w)
           /\ ~raMixed => RA!InTurn /\ \A v \in Workers : RA!Busy(v) => v = w
  BY DEF RA!RatesInv, RA!InTurn, RA!Busy, RA!Idle

LEMMA RateServed ==
    ASSUME RA!RatesInv, NEW rate \in Nat, RA!Serve(rate)
    PROVE  /\ latest' \in Nat
           /\ ~raMixed /\ rate = cache.rate => latest' = cache.rate /\ ~backwards'
  <1>1. latest \in Nat /\ latest' = IF latest > rate THEN latest ELSE rate
    BY DEF RA!RatesInv, RA!Serve, RA!Greater
  <1>2. latest' \in Nat
    BY <1>1
  <1>3. ASSUME ~raMixed, rate = cache.rate PROVE latest' = cache.rate /\ ~backwards'
    <2>1. ~backwards /\ latest <= rate
      BY <1>3 DEF RA!RatesInv, RA!InTurn
    <2>2. latest' = rate /\ ~(rate < latest)
      BY <1>1, <2>1
    <2>3. ~backwards'
      BY <2>1, <2>2 DEF RA!Serve
    <2> QED
      BY <1>3, <2>2, <2>3
  <1> QED
    BY <1>2, <1>3

LEMMA FetchBegins ==
    ASSUME RA!RatesInv, NEW w \in Workers, NEW client \in BOOLEAN, raWork[w] = RA!Idle,
           RA!Fetch(w, client), UNCHANGED <<raNow, cache, fallback, latest, backwards>>
    PROVE  RA!RatesInv'
  <1> DEFINE new == [pc |-> "fetching", client |-> client, since |-> raNow]
  <1>1. /\ raWork' = [raWork EXCEPT ![w] = new] /\ raWork'[w] = new
        /\ raMixed' = (raMixed \/ \E v \in Workers : RA!Busy(v))
    BY DEF RA!Fetch, RA!RatesInv
  <1>2. /\ new.pc = "fetching" /\ new.since = raNow /\ new.client \in BOOLEAN
    OBVIOUS
  <1> HIDE DEF new
  <1>3. RA!Timely(w)'
    BY <1>1, <1>2, StaysTimely
  <1>4. raMixed' \/ RA!InTurn'
    <2> SUFFICES ASSUME ~raMixed' PROVE RA!InTurn'
      OBVIOUS
    <2>1. ~raMixed /\ \A v \in Workers : ~RA!Busy(v)
      BY <1>1
    <2>2. RA!InTurn /\ fallback = cache.rate
      BY <2>1 DEF RA!RatesInv, RA!InTurn, RA!Busy
    <2> QED
      BY <1>1, <1>2, <2>1, <2>2, TurnMoves DEF RA!InTurn, RA!RatesInv
  <1> QED
    BY <1>1, <1>3, <1>4, WorkerMoves DEF RA!RatesInv

LEMMA RateAsked == ASSUME RA!RatesInv, NEW w \in Workers, RA!GetRate(w) PROVE RA!RatesInv'
  <1>1. CASE RA!Cached
    <2>1. UNCHANGED <<raNow, cache, fallback, raWork, raMixed>> /\ RA!Serve(cache.rate)
      BY <1>1 DEF RA!GetRate
    <2>2. cache.rate \in Nat
      BY DEF RA!RatesInv
    <2>3. latest' \in Nat /\ (~raMixed => latest' = cache.rate /\ ~backwards')
      BY <2>1, <2>2, RateServed
    <2>4. \A v \in Workers : raWork'[v] = RA!Idle \/ RA!Timely(v)'
      BY <2>1 DEF RA!RatesInv, RA!Timely
    <2>5. raMixed' \/ RA!InTurn'
      BY <2>1, <2>2, <2>3 DEF RA!RatesInv, RA!InTurn, RA!Busy
    <2> QED
      BY <2>1, <2>3, <2>4, <2>5 DEF RA!RatesInv
  <1>2. CASE ~RA!Cached
    BY <1>2, FetchBegins DEF RA!GetRate
  <1> QED
    BY <1>1, <1>2

LEMMA RateRefreshed == ASSUME RA!RatesInv, NEW w \in Workers, RA!Refresh(w) PROVE RA!RatesInv'
  BY FetchBegins DEF RA!Refresh

LEMMA RateQuoted == ASSUME RA!RatesInv, NEW w \in Workers, RA!Quote(w) PROVE RA!RatesInv'
  <1>1. /\ raWork[w].pc = "fetching"
        /\ UNCHANGED <<raNow, cache, fallback, latest, backwards, raMixed>>
    BY DEF RA!Quote
  <1>2. PICK rate \in {raWork[w].since, raNow} :
          raWork' = [raWork EXCEPT ![w] = [pc |-> "caching", client |-> raWork[w].client,
                                           since |-> raNow, rate |-> rate]]
    BY DEF RA!Quote
  <1> DEFINE new == [pc |-> "caching", client |-> raWork[w].client, since |-> raNow, rate |-> rate]
  <1>3. /\ RA!Timely(w)
        /\ ~raMixed => RA!InTurn /\ \A v \in Workers : RA!Busy(v) => v = w
    BY <1>1, AtAwait
  <1>4. /\ raNow \in Nat /\ raWork[w].since \in Nat /\ raWork[w].since <= raNow
        /\ raNow <= raWork[w].since + 1 /\ raWork[w].client \in BOOLEAN
    BY <1>3 DEF RA!Timely, RA!RatesInv
  <1>5. rate \in Nat /\ rate <= raNow /\ raNow <= rate + 1 /\ raWork[w].since <= rate
    <2>1. CASE rate = raNow
      BY <1>4, <2>1
    <2>2. CASE rate = raWork[w].since
      BY <1>4, <2>2
    <2> QED
      BY <2>1, <2>2
  <1>6. raWork'[w] = new /\ raWork' = [raWork EXCEPT ![w] = new]
    BY <1>2 DEF RA!RatesInv
  <1>7. new.pc = "caching" /\ new.rate = rate /\ new.since = raNow /\ new.client \in BOOLEAN
    BY <1>4
  <1> HIDE DEF new
  <1>8. RA!Timely(w)'
    BY <1>1, <1>6, <1>7, <1>5, StaysTimely
  <1>9. raMixed' \/ RA!InTurn'
    <2> SUFFICES ASSUME ~raMixed PROVE RA!InTurn'
      BY <1>1
    <2>1. RA!InTurn /\ fallback = cache.rate /\ cache.rate <= raWork[w].since /\ cache.rate \in Nat
      BY <1>1, <1>3 DEF RA!InTurn, RA!Busy, RA!RatesInv
    <2>2. cache.rate <= rate
      BY <1>4, <1>5, <2>1
    <2> QED
      BY <1>1, <1>3, <1>6, <1>7, <2>1, <2>2, TurnMoves DEF RA!InTurn
  <1> QED
    BY <1>1, <1>6, <1>8, <1>9, WorkerMoves DEF RA!RatesInv

\* An exception at an await: the caller falls back, the refresh gives up.
LEMMA RateCaught ==
    ASSUME RA!RatesInv, NEW w \in Workers, RA!Caught(w), raWork[w].pc # "idle",
           UNCHANGED <<raNow, cache, fallback, latest, backwards>>,
           raMixed' \/ (raMixed' = raMixed /\ raWork[w].pc = "fetching")
    PROVE  RA!RatesInv'
  <1> DEFINE new == IF raWork[w].client THEN [pc |-> "falling back", client |-> TRUE, since |-> raNow]
                    ELSE RA!Idle
  <1>1. raWork' = [raWork EXCEPT ![w] = new] /\ raWork'[w] = new
    BY DEF RA!Caught, RA!RatesInv
  <1>2. \/ new = RA!Idle /\ new.pc = "idle"
        \/ new.pc = "falling back" /\ new.client = TRUE /\ new.since = raNow
    BY DEF RA!Idle
  <1> HIDE DEF new
  <1>3. new = RA!Idle \/ RA!Timely(w)'
    BY <1>1, <1>2, StaysTimely
  <1>4. raMixed' \/ RA!InTurn'
    <2> SUFFICES ASSUME ~raMixed, raWork[w].pc = "fetching" PROVE RA!InTurn'
      OBVIOUS
    <2>1. RA!InTurn /\ fallback = cache.rate /\ \A v \in Workers : RA!Busy(v) => v = w
      BY AtAwait DEF RA!InTurn, RA!Busy, RA!RatesInv
    <2> QED
      BY <1>1, <1>2, <2>1, TurnMoves DEF RA!InTurn
  <1> QED
    BY <1>1, <1>3, <1>4, WorkerMoves DEF RA!RatesInv

LEMMA RateCached ==
    ASSUME Ttl \in Nat, RA!RatesInv, NEW w \in Workers, RA!SetCache(w) PROVE RA!RatesInv'
  <1> DEFINE rate == raWork[w].rate
             new == [pc |-> "keeping", client |-> raWork[w].client, since |-> raNow, rate |-> rate]
             stored == [rate |-> rate, until |-> raNow + Ttl]
  <1>1. /\ raWork[w].pc = "caching" /\ cache' = stored
        /\ UNCHANGED <<raNow, fallback, latest, backwards, raMixed>>
    BY DEF RA!SetCache, RA!KeptFor
  <1>2. raWork' = [raWork EXCEPT ![w] = new] /\ raWork'[w] = new
    BY DEF RA!SetCache, RA!RatesInv
  <1>3. /\ RA!Timely(w)
        /\ ~raMixed => RA!InTurn /\ \A v \in Workers : RA!Busy(v) => v = w
    BY <1>1, AtAwait
  <1>4. raNow \in Nat /\ latest \in Nat /\ fallback \in Nat
    BY DEF RA!RatesInv
  <1>5. /\ rate \in Nat /\ rate <= raNow /\ raWork[w].since \in Nat
        /\ raWork[w].since <= rate + 1 /\ raNow <= raWork[w].since + 1 /\ raWork[w].client \in BOOLEAN
    BY <1>1, <1>3 DEF RA!Timely
  <1>6. /\ new.pc = "keeping" /\ new.client \in BOOLEAN /\ new.since = raNow /\ new.rate = rate
    BY <1>5
  <1> HIDE DEF new
  <1>7. raNow <= rate + 2 /\ raNow + Ttl <= rate + Ttl + 2 /\ raNow + Ttl \in Nat
    BY <1>4, <1>5
  <1>8. /\ stored.rate = rate /\ stored.until = raNow + Ttl /\ stored \in [rate : Nat, until : Nat]
    BY <1>5, <1>7
  <1> HIDE DEF stored
  <1>9. ~raMixed => latest <= rate
    <2> SUFFICES ASSUME ~raMixed PROVE latest <= rate
      OBVIOUS
    <2>1. latest <= cache.rate /\ cache.rate <= rate /\ cache.rate \in Nat
      BY <1>1, <1>3 DEF RA!InTurn, RA!RatesInv
    <2> QED
      BY <1>4, <1>5, <2>1
  <1> HIDE DEF rate
  <1>10. RA!Timely(w)'
    BY <1>1, <1>2, <1>5, <1>6, StaysTimely
  <1>11. raMixed' \/ RA!InTurn'
    <2> SUFFICES ASSUME ~raMixed PROVE RA!InTurn'
      BY <1>1
    <2>1. ~backwards'
      BY <1>1, <1>3 DEF RA!InTurn
    <2> QED
      BY <1>1, <1>2, <1>3, <1>6, <1>8, <1>9, <2>1, TurnMoves
  <1> QED
    BY <1>1, <1>2, <1>4, <1>5, <1>7, <1>8, <1>10, <1>11, WorkerMoves

LEMMA RateKept == ASSUME RA!RatesInv, NEW w \in Workers, RA!SetFallback(w) PROVE RA!RatesInv'
  <1>1. /\ raWork[w].pc = "keeping" /\ fallback' = raWork[w].rate
        /\ raWork' = [raWork EXCEPT ![w] = RA!Idle] /\ UNCHANGED <<raNow, cache, raMixed>>
        /\ IF raWork[w].client THEN RA!Serve(raWork[w].rate) ELSE UNCHANGED <<latest, backwards>>
    BY DEF RA!SetFallback
  <1>2. /\ RA!Timely(w)
        /\ ~raMixed => RA!InTurn /\ \A v \in Workers : RA!Busy(v) => v = w
    BY <1>1, AtAwait
  <1>3. /\ raWork[w].rate \in Nat /\ latest \in Nat /\ cache \in [rate : Nat, until : Nat]
        /\ cache.rate <= raNow /\ cache.until <= cache.rate + Ttl + 2
    BY <1>1, <1>2 DEF RA!Timely, RA!RatesInv
  <1>4. latest' \in Nat
    BY <1>1, <1>3, RateServed
  <1>5. ASSUME ~raMixed PROVE RA!InTurn'
    <2>1. RA!InTurn /\ cache.rate = raWork[w].rate /\ latest <= cache.rate /\ ~backwards
      BY <1>1, <1>2, <1>5 DEF RA!InTurn
    <2>2. ~backwards' /\ latest' <= cache'.rate
      <3>1. CASE raWork[w].client
        BY <1>1, <1>3, <1>5, <2>1, <3>1, RateServed
      <3>2. CASE ~raWork[w].client
        BY <1>1, <2>1, <3>2
      <3> QED
        BY <3>1, <3>2
    <2>3. RA!Idle.pc = "idle"
      BY DEF RA!Idle
    <2> QED
      BY <1>1, <1>2, <1>5, <2>1, <2>2, <2>3, TurnMoves
  <1> QED
    BY <1>1, <1>3, <1>4, <1>5, WorkerMoves

LEMMA RateRefused == ASSUME RA!RatesInv, NEW w \in Workers, RA!Refused(w) PROVE RA!RatesInv'
  BY RateCaught DEF RA!Refused

LEMMA RateUnquoted == ASSUME RA!RatesInv, NEW w \in Workers, RA!NoQuote(w) PROVE RA!RatesInv'
  BY RateCaught DEF RA!NoQuote

LEMMA RateFallsBack == ASSUME RA!RatesInv, NEW w \in Workers, RA!FallBack(w) PROVE RA!RatesInv'
  <1>1. /\ raWork[w].pc = "falling back" /\ UNCHANGED <<raNow, cache, fallback, raMixed>>
        /\ raWork' = [raWork EXCEPT ![w] = RA!Idle]
        /\ RA!Serve(fallback) \/ UNCHANGED <<latest, backwards>>
    BY DEF RA!FallBack
  <1>2. /\ RA!Timely(w)
        /\ ~raMixed => RA!InTurn /\ \A v \in Workers : RA!Busy(v) => v = w
    BY <1>1, AtAwait
  <1>3. /\ fallback \in Nat /\ latest \in Nat /\ cache \in [rate : Nat, until : Nat]
        /\ cache.rate <= raNow /\ cache.until <= cache.rate + Ttl + 2
    BY DEF RA!RatesInv
  <1>4. latest' \in Nat
    BY <1>1, <1>3, RateServed
  <1>5. ASSUME ~raMixed PROVE RA!InTurn'
    <2>1. RA!InTurn /\ cache.rate = fallback /\ latest <= cache.rate /\ ~backwards
      BY <1>1, <1>2, <1>5 DEF RA!InTurn, RA!Busy
    <2>2. ~backwards' /\ latest' <= cache'.rate
      <3>1. CASE RA!Serve(fallback)
        <4>1. latest' = cache.rate /\ ~backwards'
          BY <1>3, <1>5, <2>1, <3>1, RateServed
        <4>2. cache.rate \in Nat
          BY <1>3
        <4> QED
          BY <1>1, <4>1, <4>2, TimePasses, Zenon
      <3>2. CASE UNCHANGED <<latest, backwards>>
        BY <1>1, <2>1, <3>2
      <3> QED
        BY <1>1, <3>1, <3>2
    <2>3. RA!Idle.pc = "idle"
      BY DEF RA!Idle
    <2> QED
      BY <1>1, <1>2, <1>5, <2>1, <2>2, <2>3, TurnMoves
  <1> QED
    BY <1>1, <1>3, <1>4, <1>5, WorkerMoves

\* No await outlasts a tick.
LEMMA RatesTick == ASSUME RA!RatesInv, RA!Tick PROVE RA!RatesInv'
  <1>1. /\ raNow \in Nat /\ raNow' = raNow + 1
        /\ UNCHANGED <<cache, fallback, raWork, latest, backwards, raMixed>>
        /\ \A w \in Workers : raWork[w] # RA!Idle => raWork[w].since = raNow
    BY DEF RA!Tick, RA!RatesInv
  <1>2. ASSUME NEW w \in Workers, raWork[w] # RA!Idle PROVE RA!Timely(w)'
    <2>1. RA!Timely(w) /\ raWork[w].since = raNow
      BY <1>1, <1>2 DEF RA!RatesInv
    <2>2. /\ raNow <= raNow + 1 /\ raNow + 1 \in Nat
          /\ \A n \in Nat : n <= raNow => n <= raNow + 1
      BY <1>1
    <2> QED
      BY <1>1, <2>1, <2>2, TimePasses, Zenon DEF RA!Timely
  <1>3. cache.rate <= raNow'
    BY <1>1 DEF RA!RatesInv
  <1> QED
    BY <1>1, <1>2, <1>3 DEF RA!RatesInv, RA!InTurn, RA!Busy

LEMMA RatesRestart == ASSUME RA!RatesInv, RA!Restart PROVE RA!RatesInv'
  <1>1. /\ UNCHANGED <<raNow, cache, fallback, latest, backwards>>
        /\ raWork' = [w \in Workers |-> RA!Idle]
        /\ raMixed' = (raMixed \/ \E w \in Workers : RA!Busy(w))
    BY DEF RA!Restart
  <1>2. \A w \in Workers : raWork'[w] = RA!Idle /\ raWork'[w].pc = "idle"
    BY <1>1 DEF RA!Idle
  <1>3. ASSUME ~raMixed' PROVE RA!InTurn'
    <2>1. RA!InTurn /\ \A w \in Workers : raWork[w].pc = "idle"
      BY <1>1, <1>3 DEF RA!Busy, RA!RatesInv
    <2> QED
      BY <1>1, <1>2, <2>1 DEF RA!InTurn, RA!Busy
  <1> QED
    BY <1>1, <1>2, <1>3 DEF RA!RatesInv

LEMMA RatesStep == ASSUME Ttl \in Nat, RA!RatesInv, [RA!Next]_(RA!vars) PROVE RA!RatesInv'
  <1>1. CASE UNCHANGED RA!vars
    BY <1>1 DEF RA!vars, RA!RatesInv, RA!InTurn, RA!Busy, RA!Timely
  <1> QED
    BY <1>1, RatesTick, RatesRestart, RateAsked, RateRefreshed, RateQuoted, RateUnquoted, RateCached,
       RateKept, RateRefused, RateFallsBack DEF RA!Next

LEMMA RatesHold == ASSUME Ttl \in Nat, RA!RatesInv PROVE RA!RatesFresh
  <1>1. RA!Cached => raNow - cache.rate < Ttl + 2
    BY DEF RA!RatesInv, RA!Cached
  <1>2. backwards => raMixed
    BY DEF RA!RatesInv, RA!InTurn
  <1> QED
    BY <1>1, <1>2 DEF RA!RatesFresh

LEMMA PeriodsMove ==
    /\ [Next]_vars => [TH!Next]_(TH!vars)
    /\ [Next]_vars => [WN!Next]_(WN!vars)
    /\ [Next]_vars => [RA!Next]_(RA!vars)
  BY DEF Next, vars, plVars, wdVars, acVars, tkVars, auVars, akVars, diVars, thVars, wnVars,
     raVars, ejVars, msVars, seVars, TH!vars, WN!vars, RA!vars

(* No window of a throttler lets more requests through than its limit, a   *)
(* signed webhook is taken once, and a rate is no older than its time to   *)
(* live and the awaits that stored it, and goes back only where fetches    *)
(* overlapped or were cut off, for any limits, periods, nonces and workers *)
(* (throttler.config.module.ts:13-23, webhook-signature.service.ts:50-140, *)
(* rates.service.ts:34-113).                                               *)
THEOREM WindowsStayKept ==
    ASSUME ThrottlersOn, Tolerance \in Nat, WnMaxTime \in Nat, Ttl \in Nat
    PROVE  Spec => []WindowsKept
  <1>1. Init => TH!WindowsInv /\ WN!NoncesInv /\ RA!RatesInv
    BY WindowsBegin, NoncesBegin, RatesBegin
  <1>2. TH!WindowsInv /\ [Next]_vars => TH!WindowsInv'
    BY PeriodsMove, WindowsStep
  <1>3. WN!NoncesInv /\ [Next]_vars => WN!NoncesInv'
    BY PeriodsMove, NoncesStep
  <1>4. RA!RatesInv /\ [Next]_vars => RA!RatesInv'
    BY PeriodsMove, RatesStep
  <1>5. TH!WindowsInv => TH!LimitKept
    BY BucketNames DEF TH!WindowsInv, TH!LimitKept, TH!CountsAll, TH!Limits, TH!Throttler
  <1>6. WN!NoncesInv => WN!NonceTakenOnce
    BY DEF WN!NoncesInv, WN!NonceTakenOnce
  <1>7. RA!RatesInv => RA!RatesFresh
    BY RatesHold
  <1> QED
    BY <1>1, <1>2, <1>3, <1>4, <1>5, <1>6, <1>7, PTL DEF Spec, WindowsKept

-----------------------------------------------------------------------------
(* Access.                                                                 *)

\* What AdminServedToAdmins says of one caller.
Rightly(w) ==
    AC!Admitted(w) /\ call[w].request.admin =>
        \/ "ADMIN" \in ever[w].roles
        \/ \E g \in ever[w].granted : g[1] \in ever[w].roleIds

LEMMA CallsTyped ==
    /\ AC!Idle \notin AC!Calls
    /\ \A c \in AC!Calls : /\ c.stage \in AC!Stages /\ c.request \in Sandbox /\ c.work \in AC!Works
                           /\ c.by \in Users /\ c.user \in Users /\ c.role \in AC!RoleIds
                           /\ c.grant \subseteq AC!Permissions /\ c.seen \in AC!RoleIds
                           /\ c # AC!Idle
  BY DEF AC!Idle, AC!Calls, AC!Stages

\* What a caller has had goes with its call; what it has now is added.
LEMMA EverGrows ==
    ASSUME NEW us, NEW rs, AC!Rows(us, rs), NEW v \in Workers, call[v] # AC!Idle,
           call[v].request.admin
    PROVE  /\ ever[v].roles \subseteq ever'[v].roles
           /\ ever[v].roleIds \subseteq ever'[v].roleIds
           /\ ever[v].granted \subseteq ever'[v].granted
           /\ us[call[v].by].roles \subseteq ever'[v].roles
           /\ us[call[v].by].roleId \in ever'[v].roleIds
           /\ \A r \in Roles, p \in AC!Permissions :
                 rs[r].state = "stored" /\ p \in rs[r].permissions => <<r, p>> \in ever'[v].granted
  <1> DEFINE now == AC!Has(call[v].by, us, rs)
             new == [roles |-> ever[v].roles \cup now.roles,
                     roleIds |-> ever[v].roleIds \cup now.roleIds,
                     granted |-> ever[v].granted \cup now.granted]
  <1>1. ever'[v] = new
    BY DEF AC!Rows
  <1>2. /\ now.roles = us[call[v].by].roles /\ now.roleIds = {us[call[v].by].roleId}
        /\ now.granted = {g \in Roles \X AC!Permissions :
                             rs[g[1]].state = "stored" /\ g[2] \in rs[g[1]].permissions}
    BY DEF AC!Has
  <1>3. \A r \in Roles, p \in AC!Permissions :
            rs[r].state = "stored" /\ p \in rs[r].permissions => <<r, p>> \in now.granted
    BY <1>2
  <1> HIDE DEF now
  <1>4. /\ new.roles = ever[v].roles \cup now.roles /\ new.roleIds = ever[v].roleIds \cup now.roleIds
        /\ new.granted = ever[v].granted \cup now.granted
    OBVIOUS
  <1> HIDE DEF new
  <1> QED
    BY <1>1, <1>2, <1>3, <1>4

\* A call that is not the one that moves goes on, if the accounts with the role
\* that it is about to remove were given it around then.
LEMMA OthersGoOn ==
    ASSUME AC!AccessInv, NEW us, NEW rs, AC!Rows(us, rs), NEW v \in Workers, call'[v] = call[v],
           call[v] # AC!Idle /\ call[v].stage = "save" /\ call[v].work = "deleteRole"
             => \A u \in Users : us[u].roleId = call[v].role => raced'[u]
    PROVE  (call[v] = AC!Idle \/ AC!InCall(v)') /\ Rightly(v)'
  <1>1. CASE call[v] = AC!Idle
    BY <1>1 DEF Rightly, AC!Admitted
  <1>2. CASE call[v] # AC!Idle
    <2>1. AC!InCall(v) /\ Rightly(v) /\ users' = us
      BY <1>2 DEF AC!AccessInv, AC!AdminServedToAdmins, Rightly, AC!Rows
    <2>2. AC!InCall(v)'
      BY <1>2, <2>1, EverGrows DEF AC!InCall
    <2>3. Rightly(v)'
      BY <1>2, <2>1, EverGrows DEF Rightly, AC!Admitted
    <2> QED
      BY <2>2, <2>3
  <1> QED
    BY <1>1, <1>2

\* A step of one call that leaves users and roles alone.
LEMMA CallSteps ==
    ASSUME AC!AccessInv, AC!Rows(users, roles), UNCHANGED raced, NEW w \in Workers, NEW new,
           call' = [call EXCEPT ![w] = new],
           new = AC!Idle \/ (AC!InCall(w)' /\ Rightly(w)')
    PROVE  AC!AccessInv'
  <1>1. /\ DOMAIN call' = Workers /\ call'[w] = new /\ \A v \in Workers : v # w => call'[v] = call[v]
        /\ users' = users /\ roles' = roles /\ DOMAIN ever' = Workers
    BY DEF AC!AccessInv, AC!Rows
  <1>2. ASSUME NEW v \in Workers PROVE (call'[v] = AC!Idle \/ AC!InCall(v)') /\ Rightly(v)'
    <2>1. CASE v = w
      BY <1>1, <2>1 DEF Rightly, AC!Admitted
    <2>2. CASE v # w
      <3>1. call[v] # AC!Idle /\ call[v].stage = "save" /\ call[v].work = "deleteRole"
             => \A u \in Users : users[u].roleId = call[v].role => raced'[u]
        BY DEF AC!AccessInv, AC!InCall
      <3> QED
        BY <1>1, <2>2, <3>1, OthersGoOn
    <2> QED
      BY <2>1, <2>2
  <1>3. AC!AdminServedToAdmins'
    BY <1>2 DEF Rightly, AC!AdminServedToAdmins
  <1>4. AC!RolesInUseStay'
    BY <1>1 DEF AC!AccessInv, AC!RolesInUseStay
  <1> QED
    BY <1>1, <1>2, <1>3, <1>4 DEF AC!AccessInv

LEMMA AccessBegins ==
    ASSUME AdminRole \in Roles, AC!NoRole \notin Roles, Init PROVE AC!AccessInv
  <1>1. /\ users = [u \in Users |-> IF u = Admin
                       THEN [roles |-> {"ADMIN"}, roleId |-> AdminRole, deleted |-> FALSE]
                       ELSE [roles |-> {"USER"}, roleId |-> AC!NoRole, deleted |-> FALSE]]
        /\ roles = [x \in Roles |-> IF x = AdminRole
                       THEN [state |-> "stored", permissions |-> AC!Permissions]
                       ELSE [state |-> "unborn", permissions |-> {}]]
        /\ call = [w \in Workers |-> AC!Idle] /\ ever = [w \in Workers |-> AC!Nothing]
        /\ raced = [u \in Users |-> FALSE]
    BY DEF Init, AC!Init
  <1>2. users \in [Users -> AC!UserRows]
    BY <1>1 DEF AC!UserRows, AC!RoleIds
  <1>3. roles \in [Roles -> AC!RoleRows]
    BY <1>1 DEF AC!RoleRows
  <1>4. \A u \in Users : users[u].roleId \in Roles => users[u].roleId = AdminRole
    BY <1>1
  <1>5. roles[AdminRole].state = "stored"
    BY <1>1
  <1>6. AC!RolesInUseStay
    BY <1>4, <1>5 DEF AC!RolesInUseStay
  <1>7. \A w \in Workers : call[w] = AC!Idle
    BY <1>1
  <1>8. AC!AdminServedToAdmins
    BY <1>7 DEF AC!AdminServedToAdmins, AC!Admitted
  <1> QED
    BY <1>1, <1>2, <1>3, <1>6, <1>7, <1>8 DEF AC!AccessInv

\* A call that has come as far as a handler, or gone to its next await.
LEMMA Arrived ==
    ASSUME AC!AccessInv, NEW w \in Workers, AC!Arrive(w) PROVE AC!AccessInv'
  <1>1. PICK u \in Users, q \in Sandbox :
          \E user \in AC!Targets(q, u), role \in AC!RolesNamed(q), grant \in AC!Grants(q) :
             call' = [call EXCEPT ![w] =
                [stage |-> "authenticate", request |-> q, work |-> q.work, by |-> u,
                 user |-> user, role |-> role, grant |-> grant, seen |-> AC!NoRole, copy |-> AC!NoCopy]]
    BY DEF AC!Arrive
  <1>2. PICK user \in AC!Targets(q, u), role \in AC!RolesNamed(q), grant \in AC!Grants(q) :
             call' = [call EXCEPT ![w] =
                [stage |-> "authenticate", request |-> q, work |-> q.work, by |-> u,
                 user |-> user, role |-> role, grant |-> grant, seen |-> AC!NoRole, copy |-> AC!NoCopy]]
    BY <1>1
  <1> DEFINE new == [stage |-> "authenticate", request |-> q, work |-> q.work, by |-> u,
                     user |-> user, role |-> role, grant |-> grant, seen |-> AC!NoRole,
                     copy |-> AC!NoCopy]
  <1>3. user \in Users /\ role \in AC!RoleIds /\ grant \subseteq AC!Permissions
    BY DEF AC!Targets, AC!RolesNamed, AC!Grants, AC!RoleIds
  <1>4. q.work \in AC!RoleWorks \cup {"assignRole"} => role \in Roles
    BY DEF AC!RolesNamed
  <1>5. q.work \in AC!Works /\ AC!NoRole \in AC!RoleIds /\ "authenticate" \in AC!Stages
    BY SandboxAssumption DEF AC!RequestsGuarded, AC!RoleIds, AC!Stages
  <1>6. new \in AC!Calls
    BY <1>3, <1>5 DEF AC!Calls
  <1>7. /\ new.stage = "authenticate" /\ new.work = new.request.work /\ new.role = role
        /\ new.work = q.work
    OBVIOUS
  <1> HIDE DEF new
  <1>8. /\ DOMAIN call' = Workers /\ call'[w] = new /\ \A v \in Workers : v # w => call'[v] = call[v]
        /\ UNCHANGED <<users, roles, raced>>
        /\ DOMAIN ever' = Workers /\ \A v \in Workers : v # w => ever'[v] = ever[v]
    BY <1>2 DEF AC!Arrive, AC!AccessInv, new
  <1>9. AC!InCall(w)' /\ Rightly(w)'
    BY <1>4, <1>6, <1>7, <1>8 DEF AC!InCall, Rightly, AC!Admitted
  <1>10. ASSUME NEW v \in Workers, v # w PROVE (call'[v] = AC!Idle \/ AC!InCall(v)') /\ Rightly(v)'
    <2>1. (call[v] = AC!Idle \/ AC!InCall(v)) /\ Rightly(v) /\ ever'[v] = ever[v] /\ call'[v] = call[v]
      BY <1>8, <1>10 DEF AC!AccessInv, AC!AdminServedToAdmins, Rightly
    <2> QED
      BY <1>8, <2>1 DEF AC!InCall, Rightly, AC!Admitted
  <1>11. \A v \in Workers : (call'[v] = AC!Idle \/ AC!InCall(v)') /\ Rightly(v)'
    BY <1>9, <1>10
  <1>12. AC!AdminServedToAdmins'
    BY <1>11 DEF Rightly, AC!AdminServedToAdmins
  <1>13. AC!RolesInUseStay'
    BY <1>8 DEF AC!AccessInv, AC!RolesInUseStay
  <1> QED
    BY <1>8, <1>11, <1>12, <1>13 DEF AC!AccessInv

\* A call whose stage changes, and the role it had or the copy with it.
Became(new, c, stage, had, copy) ==
    /\ new \in AC!Calls /\ new.stage = stage /\ new.seen = had /\ new.copy = copy
    /\ new.request = c.request /\ new.work = c.work /\ new.role = c.role /\ new.by = c.by
    /\ new.user = c.user /\ new.grant = c.grant

LEMMA StageChanged ==
    ASSUME NEW c \in AC!Calls, NEW stage \in AC!Stages
    PROVE  Became([c EXCEPT !.stage = stage], c, stage, c.seen, c.copy)
  BY DEF AC!Calls, Became

LEMMA SeenChanged ==
    ASSUME NEW c \in AC!Calls, NEW stage \in AC!Stages, NEW had \in AC!RoleIds
    PROVE  Became([c EXCEPT !.stage = stage, !.seen = had], c, stage, had, c.copy)
  BY DEF AC!Calls, Became

LEMMA CopyChanged ==
    ASSUME NEW c \in AC!Calls, NEW stage \in AC!Stages, NEW copy \in AC!UserRows \cup AC!RoleRows
    PROVE  Became([c EXCEPT !.copy = copy, !.stage = stage], c, stage, c.seen, copy)
  BY DEF AC!Calls, Became

LEMMA Authenticated ==
    ASSUME AC!AccessInv, NEW w \in Workers, AC!Authenticate(w) PROVE AC!AccessInv'
  <1> DEFINE c == call[w]
             q == call[w].request
             row == users[call[w].by]
             stage == IF q.permissions = {} THEN "find" ELSE "permit"
             had == IF q.permissions = {} THEN AC!NoRole ELSE row.roleId
             new == [c EXCEPT !.stage = stage, !.seen = had]
  <1>1. c.stage = "authenticate" /\ AC!Rows(users, roles) /\ UNCHANGED raced /\ AC!InCall(w)
        /\ call[w] # AC!Idle
    BY DEF AC!Authenticate, AC!AccessInv, AC!Idle
  <1>2. CASE ~AC!Admits(q.roles, row)
    <2>1. call' = [call EXCEPT ![w] = AC!Idle]
      BY <1>2 DEF AC!Authenticate, AC!Finish
    <2> QED
      BY <1>1, <2>1, CallSteps
  <1>3. CASE AC!Admits(q.roles, row)
    <2>1. call' = [call EXCEPT ![w] = new]
      BY <1>3 DEF AC!Authenticate, AC!AccessInv
    <2>2. c \in AC!Calls /\ q \in Sandbox /\ row \in AC!UserRows
      BY <1>1, CallsTyped DEF AC!InCall, AC!AccessInv
    <2>3. stage \in AC!Stages /\ had \in AC!RoleIds
      BY <2>2 DEF AC!Stages, AC!RoleIds, AC!UserRows
    <2> HIDE DEF stage, had
    <2>4. Became(new, c, stage, had, c.copy)
      BY <2>2, <2>3, SeenChanged
    <2> HIDE DEF new
    <2>5. /\ new \in AC!Calls /\ new.stage = stage /\ new.seen = had
          /\ new.request = q /\ new.work = c.work /\ new.role = c.role
      BY <2>4 DEF Became
    <2> USE DEF stage, had
    <2>6. call'[w] = new /\ users' = users
      BY <1>1, <2>1 DEF AC!AccessInv, AC!Rows
    <2>7. q.admin => row.roleId \in ever'[w].roleIds /\ row.roles \subseteq ever'[w].roles
      BY <1>1, EverGrows
    <2>8. stage \in {"find", "permit"} /\ (stage = "permit" => q.permissions # {} /\ had = row.roleId)
      OBVIOUS
    <2>9. AC!InCall(w)'
      BY <1>1, <2>5, <2>6, <2>7, <2>8 DEF AC!InCall
    <2>10. ASSUME q.admin, stage = "find" PROVE "ADMIN" \in ever'[w].roles
      <3>1. q.roles = {"ADMIN"}
        BY <2>2, <2>10, SandboxAssumption DEF AC!RequestsGuarded
      <3> QED
        BY <1>3, <2>7, <2>10, <3>1 DEF AC!Admits
    <2>11. Rightly(w)'
      BY <2>5, <2>6, <2>8, <2>10 DEF Rightly, AC!Admitted
    <2> QED
      BY <1>1, <2>1, <2>9, <2>11, CallSteps
  <1> QED
    BY <1>2, <1>3

LEMMA PermitPassed ==
    ASSUME AC!AccessInv, NEW w \in Workers, AC!Permit(w) PROVE AC!AccessInv'
  <1> DEFINE c == call[w]
             q == call[w].request
             r == call[w].seen
             new == [c EXCEPT !.stage = "find", !.seen = AC!NoRole]
  <1>1. c.stage = "permit" /\ AC!Rows(users, roles) /\ UNCHANGED raced /\ AC!InCall(w)
        /\ call[w] # AC!Idle
    BY DEF AC!Permit, AC!AccessInv, AC!Idle
  <1>2. CASE call' = [call EXCEPT ![w] = AC!Idle]
    BY <1>1, <1>2, CallSteps
  <1>3. CASE call' # [call EXCEPT ![w] = AC!Idle]
    <2>1. /\ call' = [call EXCEPT ![w] = new]
          /\ r \in Roles /\ roles[r].state = "stored" /\ q.permissions \subseteq roles[r].permissions
      BY <1>3 DEF AC!Permit, AC!Finish, AC!AccessInv
    <2>2. c \in AC!Calls /\ q \in Sandbox /\ c.copy \in AC!UserRows \cup AC!RoleRows \cup {AC!NoCopy}
      BY <1>1, CallsTyped DEF AC!InCall, AC!Calls
    <2>3. "find" \in AC!Stages /\ AC!NoRole \in AC!RoleIds
      BY DEF AC!Stages, AC!RoleIds
    <2>4. Became(new, c, "find", AC!NoRole, c.copy)
      BY <2>2, <2>3, SeenChanged
    <2>5. /\ new \in AC!Calls /\ new.stage = "find"
          /\ new.request = q /\ new.work = c.work /\ new.role = c.role
      BY <2>4 DEF Became
    <2>6. call'[w] = new /\ users' = users
      BY <1>1, <2>1 DEF AC!AccessInv, AC!Rows
    <2> HIDE DEF new
    <2>7. AC!InCall(w)'
      BY <1>1, <2>5, <2>6 DEF AC!InCall
    <2>8. ASSUME q.admin PROVE \E g \in ever'[w].granted : g[1] \in ever'[w].roleIds
      <3>1. PICK p \in q.permissions : p \in AC!Permissions
        BY <1>1, <2>2, <2>8, SandboxAssumption DEF AC!RequestsGuarded, AC!InCall
      <3>2. <<r, p>> \in ever'[w].granted
        BY <1>1, <2>1, <2>8, <3>1, EverGrows
      <3>3. r \in ever'[w].roleIds
        BY <1>1, <2>8, EverGrows DEF AC!InCall
      <3> QED
        BY <3>2, <3>3
    <2>9. Rightly(w)'
      BY <2>5, <2>6, <2>8 DEF Rightly, AC!Admitted
    <2> QED
      BY <1>1, <2>1, <2>7, <2>9, CallSteps
  <1> QED
    BY <1>2, <1>3

\* A handler's steps: whoever was admitted stays so.
LEMMA HandlerAt ==
    ASSUME AC!AccessInv, NEW w \in Workers, call[w].stage \in {"find", "check", "save"},
           NEW us, NEW rs, AC!Rows(us, rs)
    PROVE  /\ call[w] # AC!Idle /\ AC!InCall(w) /\ call[w] \in AC!Calls
           /\ call'[w] # AC!Idle /\ call'[w].request = call[w].request => Rightly(w)'
  <1>1. /\ call[w] # AC!Idle /\ AC!InCall(w) /\ Rightly(w) /\ AC!Admitted(w)
    BY DEF AC!AccessInv, AC!Idle, AC!AdminServedToAdmins, Rightly, AC!Admitted
  <1>2. ASSUME call'[w].request = call[w].request PROVE Rightly(w)'
    BY <1>1, <1>2, EverGrows DEF Rightly, AC!Admitted
  <1> QED
    BY <1>1, <1>2 DEF AC!InCall

LEMMA HandlerMoves ==
    ASSUME AC!AccessInv, NEW w \in Workers, call[w].stage \in {"find", "check", "save"},
           AC!Rows(users, roles), UNCHANGED raced, NEW new, call' = [call EXCEPT ![w] = new],
           new = AC!Idle \/ (new.request = call[w].request /\ AC!InCall(w)')
    PROVE  AC!AccessInv'
  <1>1. call'[w] = new
    BY DEF AC!AccessInv
  <1>2. new = AC!Idle \/ (AC!InCall(w)' /\ Rightly(w)')
    BY <1>1, HandlerAt
  <1> QED
    BY <1>2, CallSteps

LEMMA HandlerEnds ==
    ASSUME AC!AccessInv, NEW w \in Workers, call[w].stage \in {"find", "check", "save"},
           AC!Rows(users, roles), UNCHANGED raced, AC!Finish(w)
    PROVE  AC!AccessInv'
  BY HandlerMoves DEF AC!Finish

LEMMA UserFound == ASSUME AC!AccessInv, NEW w \in Workers, AC!FindUser(w) PROVE AC!AccessInv'
  <1> DEFINE c == call[w]
             copy == users[call[w].user]
             stage == IF call[w].work = "assignRole" THEN "check" ELSE "save"
             new == [c EXCEPT !.copy = copy, !.stage = stage]
  <1>1. /\ c.stage = "find" /\ c.work \in AC!UserWorks /\ AC!Rows(users, roles) /\ UNCHANGED raced
        /\ call' = [call EXCEPT ![w] = new]
    BY DEF AC!FindUser, AC!AccessInv
  <1>2. AC!InCall(w) /\ c \in AC!Calls
    BY <1>1, HandlerAt
  <1>3. copy \in AC!UserRows /\ stage \in AC!Stages /\ stage \in {"check", "save"}
    BY <1>2, CallsTyped DEF AC!AccessInv, AC!Stages
  <1> HIDE DEF copy, stage
  <1>4. Became(new, c, stage, c.seen, copy)
    BY <1>2, <1>3, CopyChanged
  <1> HIDE DEF new
  <1>5. call'[w] = new
    BY <1>1 DEF AC!AccessInv
  <1>6. c.work \notin AC!RoleWorks
    BY <1>1 DEF AC!UserWorks, AC!RoleWorks
  <1>7. AC!InCall(w)'
    BY <1>1, <1>2, <1>3, <1>4, <1>5, <1>6 DEF AC!InCall, Became, AC!RoleWorks
  <1>8. new.request = c.request
    BY <1>4 DEF Became
  <1> QED
    BY <1>1, <1>7, <1>8, HandlerMoves

\* assignRole's look at the role, and deleteRole's count of the accounts
LEMMA CallChecked ==
    ASSUME AC!AccessInv, NEW w \in Workers, AC!FindRole(w) \/ AC!CountUsers(w) PROVE AC!AccessInv'
  <1> DEFINE c == call[w]
             new == [c EXCEPT !.stage = "save"]
  <1>1. /\ c.stage = "check" /\ c.work \in {"assignRole", "deleteRole"}
        /\ AC!Rows(users, roles) /\ UNCHANGED raced
    BY DEF AC!FindRole, AC!CountUsers
  <1>2. CASE AC!Finish(w)
    BY <1>1, <1>2, HandlerEnds
  <1>3. CASE AC!Goto(w, "save") /\ (c.work = "deleteRole" => AC!Unassigned(c.role))
    <2>1. call' = [call EXCEPT ![w] = new]
      BY <1>3 DEF AC!Goto, AC!AccessInv
    <2>2. AC!InCall(w) /\ c \in AC!Calls /\ "save" \in AC!Stages
      BY <1>1, HandlerAt DEF AC!Stages
    <2>3. Became(new, c, "save", c.seen, c.copy)
      BY <2>2, StageChanged
    <2> HIDE DEF new
    <2>4. call'[w] = new /\ users' = users
      BY <1>1, <2>1 DEF AC!AccessInv, AC!Rows
    <2>5. AC!InCall(w)'
      BY <1>1, <1>3, <2>2, <2>3, <2>4 DEF AC!InCall, Became, AC!Unassigned
    <2>6. new.request = c.request
      BY <2>3 DEF Became
    <2> QED
      BY <1>1, <2>1, <2>5, <2>6, HandlerMoves
  <1>4. AC!Finish(w) \/ (AC!Goto(w, "save") /\ (c.work = "deleteRole" => AC!Unassigned(c.role)))
    BY DEF AC!FindRole, AC!CountUsers
  <1> QED
    BY <1>2, <1>3, <1>4

LEMMA RoleFound == ASSUME AC!AccessInv, NEW w \in Workers, AC!FindRoleRow(w) PROVE AC!AccessInv'
  <1> DEFINE c == call[w]
             copy == roles[call[w].role]
             stage == IF call[w].work = "updateRole" THEN "save" ELSE "check"
             new == [c EXCEPT !.copy = copy, !.stage = stage]
  <1>1. /\ c.stage = "find" /\ c.work \in {"updateRole", "deleteRole"}
        /\ AC!Rows(users, roles) /\ UNCHANGED raced
    BY DEF AC!FindRoleRow
  <1>2. CASE AC!Finish(w)
    BY <1>1, <1>2, HandlerEnds
  <1>3. CASE ~AC!Finish(w)
    <2>1. call' = [call EXCEPT ![w] = new] /\ copy.state = "stored"
      BY <1>3 DEF AC!FindRoleRow, AC!AccessInv
    <2>2. AC!InCall(w) /\ c \in AC!Calls
      BY <1>1, HandlerAt
    <2>3. c.role \in Roles /\ copy \in AC!RoleRows /\ stage \in AC!Stages
      BY <1>1, <2>2 DEF AC!InCall, AC!RoleWorks, AC!AccessInv, AC!Stages
    <2>4. /\ stage \in {"save", "check"} /\ (stage = "save" => c.work = "updateRole")
      BY <1>1
    <2> HIDE DEF copy, stage
    <2>5. Became(new, c, stage, c.seen, copy)
      BY <2>2, <2>3, CopyChanged
    <2> HIDE DEF new
    <2>6. call'[w] = new
      BY <1>1, <2>1 DEF AC!AccessInv
    <2>7. AC!InCall(w)'
      BY <1>1, <2>1, <2>2, <2>3, <2>4, <2>5, <2>6 DEF AC!InCall, Became, AC!UserWorks
    <2>8. new.request = c.request
      BY <2>5 DEF Became
    <2> QED
      BY <1>1, <2>1, <2>7, <2>8, HandlerMoves
  <1> QED
    BY <1>2, <1>3

\* A handler that writes a row and is done: the roles stay, or the accounts do.
LEMMA HandlerWrites ==
    ASSUME AC!AccessInv, NEW w \in Workers, call[w].stage \in {"find", "check", "save"}, AC!Finish(w),
           NEW us \in [Users -> AC!UserRows], NEW rs \in [Roles -> AC!RoleRows], AC!Rows(us, rs),
           raced' \in [Users -> BOOLEAN],
           \A u \in Users : us[u].roleId \in Roles /\ rs[us[u].roleId].state # "stored" => raced'[u],
           \A v \in Workers : v # w /\ call[v] # AC!Idle /\ call[v].stage = "save" /\ call[v].work = "deleteRole"
             => \A u \in Users : us[u].roleId = call[v].role => raced'[u]
    PROVE  AC!AccessInv'
  <1>1. /\ DOMAIN call' = Workers /\ call'[w] = AC!Idle
        /\ \A v \in Workers : v # w => call'[v] = call[v]
        /\ users' = us /\ roles' = rs /\ DOMAIN ever' = Workers
    BY DEF AC!AccessInv, AC!Rows, AC!Finish
  <1>2. \A v \in Workers : (call'[v] = AC!Idle \/ AC!InCall(v)') /\ Rightly(v)'
    <2> TAKE v \in Workers
    <2>1. CASE v = w
      BY <1>1, <2>1 DEF Rightly, AC!Admitted
    <2>2. CASE v # w
      BY <1>1, <2>2, OthersGoOn
    <2> QED
      BY <2>1, <2>2
  <1>3. AC!AdminServedToAdmins'
    BY <1>2 DEF Rightly, AC!AdminServedToAdmins
  <1>4. AC!RolesInUseStay'
    BY <1>1 DEF AC!RolesInUseStay
  <1> QED
    BY <1>1, <1>2, <1>3, <1>4 DEF AC!AccessInv

LEMMA UserSaved == ASSUME AC!AccessInv, NEW w \in Workers, AC!SaveUser(w) PROVE AC!AccessInv'
  <1> DEFINE c == call[w]
             row == AC!Changed(call[w].work, call[w].copy, call[w].role)
             us == [users EXCEPT ![call[w].user] = row]
  <1>1. /\ c.stage = "save" /\ c.work \in AC!UserWorks /\ AC!Rows(us, roles) /\ AC!Finish(w)
        /\ raced' = [raced EXCEPT ![c.user] = row.roleId \in Roles /\ AC!Going(row.roleId)]
    BY DEF AC!SaveUser
  <1>2. AC!InCall(w) /\ c \in AC!Calls /\ c.user \in Users /\ c.role \in AC!RoleIds
    BY <1>1, HandlerAt, CallsTyped
  <1>3. c.copy \in AC!UserRows
    BY <1>1, <1>2 DEF AC!InCall
  <1>4. row \in AC!UserRows
    BY <1>2, <1>3 DEF AC!Changed, AC!UserRows
  <1> HIDE DEF row
  <1>5. /\ us \in [Users -> AC!UserRows] /\ us[c.user] = row
        /\ \A u \in Users : u # c.user => us[u] = users[u]
    BY <1>2, <1>4 DEF AC!AccessInv
  <1> HIDE DEF us
  <1>6. /\ raced' \in [Users -> BOOLEAN]
        /\ raced'[c.user] <=> row.roleId \in Roles /\ AC!Going(row.roleId)
        /\ \A u \in Users : u # c.user => raced'[u] = raced[u]
    BY <1>1, <1>2 DEF AC!AccessInv
  <1>7. ASSUME NEW u \in Users, us[u].roleId \in Roles, roles[us[u].roleId].state # "stored"
        PROVE  raced'[u]
    <2>1. CASE u = c.user
      BY <1>5, <1>6, <1>7, <2>1 DEF AC!Going
    <2>2. CASE u # c.user
      BY <1>5, <1>6, <1>7, <2>2 DEF AC!AccessInv, AC!RolesInUseStay
    <2> QED
      BY <2>1, <2>2
  <1>8. ASSUME NEW v \in Workers, v # w, call[v] # AC!Idle, call[v].stage = "save",
               call[v].work = "deleteRole", NEW u \in Users, us[u].roleId = call[v].role
        PROVE  raced'[u]
    <2>1. AC!InCall(v) /\ call[v].role \in Roles
      BY <1>8 DEF AC!AccessInv, AC!InCall, AC!RoleWorks
    <2>2. CASE u = c.user
      BY <1>5, <1>6, <1>8, <2>1, <2>2 DEF AC!Going
    <2>3. CASE u # c.user
      BY <1>5, <1>6, <1>8, <2>1, <2>3 DEF AC!InCall
    <2> QED
      BY <2>2, <2>3
  <1>9. roles \in [Roles -> AC!RoleRows]
    BY DEF AC!AccessInv
  <1> QED
    BY <1>1, <1>5, <1>6, <1>7, <1>8, <1>9, HandlerWrites

\* A role's row is written: stored, or removed when only the accounts that were
\* given it around the deletion have it.
LEMMA RoleWritten ==
    ASSUME AC!AccessInv, NEW w \in Workers, call[w].stage \in {"find", "check", "save"}, AC!Finish(w),
           UNCHANGED raced, NEW r \in Roles, NEW row \in AC!RoleRows,
           AC!Rows(users, [roles EXCEPT ![r] = row]),
           row.state # "stored" => \A u \in Users : users[u].roleId = r => raced[u]
    PROVE  AC!AccessInv'
  <1> DEFINE rs == [roles EXCEPT ![r] = row]
  <1>1. /\ rs \in [Roles -> AC!RoleRows] /\ rs[r] = row
        /\ \A x \in Roles : x # r => rs[x] = roles[x]
    BY DEF AC!AccessInv
  <1> HIDE DEF rs
  <1>2. \A u \in Users : users[u].roleId \in Roles /\ rs[users[u].roleId].state # "stored" => raced'[u]
    BY <1>1 DEF AC!AccessInv, AC!RolesInUseStay
  <1>3. users \in [Users -> AC!UserRows] /\ raced' \in [Users -> BOOLEAN]
    BY DEF AC!AccessInv
  <1>4. \A v \in Workers : v # w /\ call[v] # AC!Idle /\ call[v].stage = "save" /\ call[v].work = "deleteRole"
             => \A u \in Users : users[u].roleId = call[v].role => raced'[u]
    BY DEF AC!AccessInv, AC!InCall
  <1>5. AC!Rows(users, rs)
    BY DEF rs
  <1> QED
    BY <1>1, <1>2, <1>3, <1>4, <1>5, HandlerWrites

LEMMA RoleCreated == ASSUME AC!AccessInv, NEW w \in Workers, AC!CreateRole(w) PROVE AC!AccessInv'
  <1> DEFINE row == [state |-> "stored", permissions |-> call[w].grant]
             r == call[w].role
  <1>1. /\ call[w].stage = "find" /\ call[w].work = "createRole" /\ AC!Finish(w) /\ UNCHANGED raced
        /\ AC!Rows(users, [roles EXCEPT ![r] = row])
    BY DEF AC!CreateRole
  <1>2. AC!InCall(w) /\ call[w] \in AC!Calls /\ call[w].grant \subseteq AC!Permissions
    BY <1>1, HandlerAt, CallsTyped
  <1>3. r \in Roles /\ row \in AC!RoleRows /\ row.state = "stored"
    BY <1>1, <1>2 DEF AC!InCall, AC!RoleWorks, AC!RoleRows
  <1> HIDE DEF row, r
  <1> QED
    BY <1>1, <1>3, RoleWritten

LEMMA RoleSaved == ASSUME AC!AccessInv, NEW w \in Workers, AC!SaveRole(w) PROVE AC!AccessInv'
  <1> DEFINE row == [call[w].copy EXCEPT !.permissions = call[w].grant]
             r == call[w].role
  <1>1. /\ call[w].stage = "save" /\ call[w].work = "updateRole" /\ AC!Finish(w) /\ UNCHANGED raced
        /\ AC!Rows(users, [roles EXCEPT ![r] = row])
    BY DEF AC!SaveRole
  <1>2. AC!InCall(w) /\ call[w] \in AC!Calls /\ call[w].grant \subseteq AC!Permissions
    BY <1>1, HandlerAt, CallsTyped
  <1>3. r \in Roles /\ row \in AC!RoleRows /\ row.state = "stored"
    BY <1>1, <1>2 DEF AC!InCall, AC!RoleWorks, AC!RoleRows
  <1> HIDE DEF row, r
  <1> QED
    BY <1>1, <1>3, RoleWritten

LEMMA RoleRemoved == ASSUME AC!AccessInv, NEW w \in Workers, AC!RemoveRole(w) PROVE AC!AccessInv'
  <1> DEFINE row == [state |-> "removed", permissions |-> {}]
             r == call[w].role
  <1>1. /\ call[w].stage = "save" /\ call[w].work = "deleteRole" /\ AC!Finish(w) /\ UNCHANGED raced
        /\ AC!Rows(users, [roles EXCEPT ![r] = row])
    BY DEF AC!RemoveRole
  <1>2. AC!InCall(w)
    BY <1>1, HandlerAt
  <1>3. r \in Roles /\ row \in AC!RoleRows
    BY <1>1, <1>2 DEF AC!InCall, AC!RoleWorks, AC!RoleRows
  <1>4. \A u \in Users : users[u].roleId = r => raced[u]
    BY <1>1, <1>2 DEF AC!InCall
  <1> HIDE DEF row, r
  <1> QED
    BY <1>1, <1>3, <1>4, RoleWritten

LEMMA Served == ASSUME AC!AccessInv, NEW w \in Workers, AC!Serve(w) PROVE AC!AccessInv'
  BY HandlerEnds DEF AC!Serve

LEMMA AccessStep == ASSUME AC!AccessInv, [AC!Next]_(AC!vars) PROVE AC!AccessInv'
  <1>1. CASE UNCHANGED AC!vars
    BY <1>1 DEF AC!vars, AC!AccessInv, AC!InCall, AC!AdminServedToAdmins, AC!Admitted, AC!RolesInUseStay
  <1> QED
    BY <1>1, Arrived, Authenticated, PermitPassed, Served, UserFound, CallChecked, UserSaved, RoleCreated,
       RoleFound, RoleSaved, RoleRemoved DEF AC!Next

LEMMA AccessMoves == [Next]_vars => [AC!Next]_(AC!vars)
  BY DEF Next, vars, plVars, wdVars, acVars, tkVars, auVars, akVars, diVars, thVars, wnVars,
     raVars, ejVars, msVars, seVars, AC!vars

(* Whoever is served under an "admin" path has been an administrator, or   *)
(* has had a role with a permission, since the request came in; requests   *)
(* are answered by the handler meant for them but the one that goes        *)
(* astray; and a role in use is removed only around an assignment of it,   *)
(* for any accounts, roles and requests served at a time                   *)
(* (roles.guard.ts, permissions.guard.ts, auth.service.ts:1062-1100).      *)
THEOREM AccessStaysKept ==
    ASSUME AdminRole \in Roles, AC!NoRole \notin Roles PROVE Spec => []AccessKept
  <1>1. Init => AC!AccessInv
    BY AccessBegins
  <1>2. AC!AccessInv /\ [Next]_vars => AC!AccessInv'
    BY AccessMoves, AccessStep
  <1>3. AC!AccessInv => AccessKept
    <2> SUFFICES ASSUME AC!AccessInv PROVE AC!AnsweredAsWritten
      BY DEF AccessKept, AC!AccessInv
    <2> SUFFICES ASSUME NEW w \in Workers, call[w] # AC!Idle, call[w].request.astray
                 PROVE  call[w].work = "softDelete"
      BY DEF AC!AnsweredAsWritten
    <2>1. AC!InCall(w)
      BY DEF AC!AccessInv
    <2>2. call[w].request \in Sandbox /\ call[w].work = call[w].request.work
      BY <2>1, CallsTyped DEF AC!InCall
    <2> QED
      BY <2>2, SandboxAssumption DEF AC!RequestsGuarded
  <1> QED
    BY <1>1, <1>2, <1>3, PTL DEF Spec

-----------------------------------------------------------------------------
(* Transactions of several signers.                                        *)

\* The parameters of the platform's account.
AccountWeighed == Weight \in [Signers -> Nat] /\ OwnWeight \in Nat /\ MedThreshold \in Nat

LEMMA WeightsSame ==
    /\ \A S : MS!Cardinality(S) = Cardinality(S)
    /\ \A S : MS!IsFiniteSet(S) <=> IsFiniteSet(S)
  BY DEF MS!Cardinality, Cardinality, MS!IsFiniteSet, IsFiniteSet

LEMMA NoWeight == MS!IsFiniteSet(MS!Units({})) /\ MS!WeightOf({}) = 0
  <1>1. MS!Units({}) = {}
    BY DEF MS!Units
  <1> QED
    BY <1>1, WeightsSame, FS_EmptySet DEF MS!WeightOf

\* One more key adds its weight.
LEMMA WeightAdds ==
    ASSUME AccountWeighed, NEW S \in SUBSET Signers, NEW s \in Signers \ S, MS!IsFiniteSet(MS!Units(S))
    PROVE  /\ MS!IsFiniteSet(MS!Units(S \cup {s}))
           /\ MS!WeightOf(S \cup {s}) = MS!WeightOf(S) + Weight[s]
           /\ MS!WeightOf(S) \in Nat
  <1> DEFINE more == {s} \X (1 .. Weight[s])
  <1>1. Weight[s] \in Nat
    BY DEF AccountWeighed
  <1>2. IsFiniteSet(more) /\ Cardinality(more) = Weight[s]
    <2>1. IsFiniteSet(1 .. Weight[s]) /\ Cardinality(1 .. Weight[s]) = Weight[s]
      BY <1>1, FS_Interval
    <2>2. IsFiniteSet({s}) /\ Cardinality({s}) = 1
      BY FS_Singleton
    <2>3. IsFiniteSet(more) /\ Cardinality(more) = 1 * Weight[s]
      BY <2>1, <2>2, FS_Product
    <2> QED
      BY <1>1, <2>3
  <1>3. MS!Units(S \cup {s}) = MS!Units(S) \cup more
    BY DEF MS!Units
  <1>4. MS!Units(S) \cap more = {}
    BY DEF MS!Units
  <1> HIDE DEF more
  <1>5. IsFiniteSet(MS!Units(S)) /\ Cardinality(MS!Units(S)) \in Nat
    BY WeightsSame, FS_CardinalityType
  <1>6. /\ IsFiniteSet(MS!Units(S) \cup more)
        /\ Cardinality(MS!Units(S) \cup more) = Cardinality(MS!Units(S)) + Cardinality(more) - Cardinality({})
    BY <1>2, <1>4, <1>5, FS_Union
  <1>7. /\ IsFiniteSet(MS!Units(S \cup {s}))
        /\ Cardinality(MS!Units(S \cup {s})) = Cardinality(MS!Units(S)) + Weight[s]
    <2>1. Cardinality({}) = 0
      BY FS_EmptySet
    <2> DEFINE many == Cardinality(MS!Units(S))  few == Cardinality(more)  none == Cardinality({})
    <2>2. many \in Nat /\ few \in Nat /\ few = Weight[s] /\ none = 0
      BY <1>1, <1>2, <1>5, <2>1
    <2>3. Cardinality(MS!Units(S) \cup more) = many + few - none
      BY <1>6
    <2> HIDE DEF many, few, none
    <2>4. Cardinality(MS!Units(S) \cup more) = many + Weight[s]
      BY <2>2, <2>3
    <2> QED
      BY <1>3, <1>6, <2>4 DEF many
  <1>8. /\ MS!WeightOf(S) = Cardinality(MS!Units(S))
        /\ MS!WeightOf(S \cup {s}) = Cardinality(MS!Units(S \cup {s}))
    BY WeightsSame DEF MS!WeightOf
  <1> QED
    BY <1>5, <1>7, <1>8, WeightsSame

\* What a worker may be at.
Works(w) ==
    \/ msWork[w] = MS!Idle
    \/ /\ msWork[w] \in [op : {"store", "pay"}, sequence : Nat]
       /\ msWork[w].op = "store" => OwnWeight < MedThreshold
    \/ msWork[w] \in MS!Signings /\ MS!Signing(w)

LEMMA WorkersWork == MS!WeightsInv => \A w \in Workers : Works(w)
  BY DEF MS!WeightsInv, Works

LEMMA UnbornIsNone == MS!Unborn \notin MS!Transaction
  BY DEF MS!Unborn, MS!Transaction

LEMMA WeightsBegin == Init => MS!WeightsInv
  BY DEF Init, MS!Init, MS!WeightsInv

\* Saves leave the other signers as they were, with a copy that is older.
LEMMA OthersSign ==
    ASSUME MS!WeightsInv, NEW v \in Workers, msWork'[v] = msWork[v],
           \A t \in Txs :
             /\ msRow[t] # MS!Unborn => msRow'[t] # MS!Unborn
             /\ msVersion'[t] \in Nat /\ msVersion[t] <= msVersion'[t]
             /\ msVersion'[t] = msVersion[t] /\ msRow[t] # MS!Unborn => msRow'[t] = msRow[t],
           ledger \subseteq ledger'
    PROVE  Works(v)'
  <1>1. Works(v)
    BY WorkersWork
  <1>2. CASE msWork[v] \in MS!Signings /\ MS!Signing(v)
    <2> DEFINE r == msWork[v]
    <2>1. /\ r.tx \in Txs /\ r.version \in Nat /\ msVersion[r.tx] \in Nat /\ msVersion'[r.tx] \in Nat
          /\ r.version <= msVersion[r.tx] /\ msVersion[r.tx] <= msVersion'[r.tx]
      BY <1>2 DEF MS!Signings, MS!Signing, MS!WeightsInv
    <2>2. r.version <= msVersion'[r.tx]
      BY <2>1
    <2>3. r.version = msVersion'[r.tx] => r.version = msVersion[r.tx] /\ msVersion'[r.tx] = msVersion[r.tx]
      BY <2>1
    <2>4. r \in MS!Signings /\ msRow[r.tx] # MS!Unborn
      BY <1>2 DEF MS!Signing
    <2>5. MS!Weighed(r.copy)' <=> MS!Weighed(r.copy)
      BY DEF MS!Weighed
    <2>6. MS!Stands(r.tx, r.copy) => MS!Stands(r.tx, r.copy)'
      BY <2>5 DEF MS!Stands
    <2>7. MS!Signing(v)'
      BY <1>2, <2>1, <2>2, <2>3, <2>4, <2>5, <2>6 DEF MS!Signing
    <2> QED
      BY <2>4, <2>7 DEF Works
  <1> QED
    BY <1>1, <1>2 DEF Works

\* What the network newly has, the one who is about to save knows of.
Marks(r, more) ==
    \A t \in more : msRow[t] # MS!Unborn /\ r.op = "save" /\ r.tx = t /\ r.copy.status = "submitted"

\* A request does something else and saves nothing.
LEMMA SignerMoves ==
    ASSUME MS!WeightsInv, NEW w \in Workers, NEW new,
           msWork' = [msWork EXCEPT ![w] = new], UNCHANGED <<msRow, msVersion, msLost>>,
           sequence' \in Nat, msFaults' \in Nat, msFaults <= msFaults',
           ledger' \subseteq Txs, ledger \subseteq ledger', Marks(new, ledger' \ ledger),
           msFaults' # msFaults \/ msWork[w].op # "save",
           Works(w)'
    PROVE  MS!WeightsInv'
  <1>1. DOMAIN msWork' = Workers /\ msWork'[w] = new /\ \A v \in Workers : v # w => msWork'[v] = msWork[v]
    BY DEF MS!WeightsInv
  <1>2. \A v \in Workers : Works(v)'
    <2> TAKE v \in Workers
    <2>1. CASE v # w
      BY <1>1, <2>1, OthersSign DEF MS!WeightsInv
    <2> QED
      BY <2>1
  <1>3. \A t \in Txs : MS!Stands(t, msRow[t]) => MS!Stands(t, msRow[t])'
    BY DEF MS!Stands, MS!Weighed
  <1>4. ASSUME NEW t \in ledger' PROVE msRow'[t] # MS!Unborn /\ (msFaults' = 0 /\ msLost'[t] = 0 => MS!Told(t)')
    <2>1. CASE t \in ledger
      <3>1. msRow[t] # MS!Unborn /\ (msFaults = 0 /\ msLost[t] = 0 => MS!Told(t))
        BY <2>1 DEF MS!WeightsInv
      <3>2. msFaults' = 0 => msFaults = 0 /\ msFaults' = msFaults
        BY DEF MS!WeightsInv
      <3>3. msFaults' = msFaults /\ MS!Told(t) => MS!Told(t)'
        BY <1>1 DEF MS!Told
      <3> QED
        BY <3>1, <3>2, <3>3
    <2>2. CASE t \notin ledger
      BY <1>1, <2>2 DEF MS!Told, Marks
    <2> QED
      BY <2>1, <2>2
  <1> QED
    BY <1>1, <1>2, <1>3, <1>4 DEF MS!WeightsInv, Works

LEMMA PaymentSent == ASSUME MS!WeightsInv, AccountWeighed, NEW w \in Workers, MS!Send(w) PROVE MS!WeightsInv'
  <1> DEFINE new == [op |-> IF MedThreshold > OwnWeight THEN "store" ELSE "pay", sequence |-> sequence + 1]
  <1>1. /\ msWork[w] = MS!Idle /\ msWork' = [msWork EXCEPT ![w] = new]
        /\ UNCHANGED <<msRow, sequence, ledger, timely, msVersion, msLost, msFaults>>
    BY DEF MS!Send, MS!Goto
  <1>2. new \in [op : {"store", "pay"}, sequence : Nat] /\ (new.op = "store" => OwnWeight < MedThreshold)
    BY DEF MS!WeightsInv, AccountWeighed
  <1> HIDE DEF new
  <1>3. msWork'[w] = new
    BY <1>1 DEF MS!WeightsInv
  <1>4. Works(w)'
    BY <1>2, <1>3 DEF Works
  <1>5. /\ sequence' \in Nat /\ msFaults' \in Nat /\ msFaults <= msFaults'
        /\ ledger' \subseteq Txs /\ ledger \subseteq ledger'
    BY <1>1 DEF MS!WeightsInv
  <1>6. Marks(new, ledger' \ ledger) /\ msWork[w].op # "save"
    BY <1>1 DEF Marks, MS!Idle
  <1> QED
    BY <1>1, <1>4, <1>5, <1>6, SignerMoves

LEMMA PaymentPaid == ASSUME MS!WeightsInv, NEW w \in Workers, MS!Pay(w) PROVE MS!WeightsInv'
  <1>1. /\ msWork[w].op = "pay" /\ msWork' = [msWork EXCEPT ![w] = MS!Idle]
        /\ sequence' \in {sequence, sequence + 1}
        /\ UNCHANGED <<msRow, ledger, timely, msVersion, msLost, msFaults>>
    BY DEF MS!Pay, MS!Goto
  <1>2. Works(w)'
    BY <1>1 DEF MS!WeightsInv, Works
  <1>3. /\ sequence' \in Nat /\ msFaults' \in Nat /\ msFaults <= msFaults'
        /\ ledger' \subseteq Txs /\ ledger \subseteq ledger'
    BY <1>1 DEF MS!WeightsInv
  <1>4. Marks(MS!Idle, ledger' \ ledger) /\ (msFaults' # msFaults \/ msWork[w].op # "save")
    BY <1>1, <1>3 DEF Marks
  <1> QED
    BY <1>1, <1>2, <1>3, <1>4, SignerMoves

LEMMA SignerDies == ASSUME MS!WeightsInv, NEW w \in Workers, MS!Die(w) PROVE MS!WeightsInv'
  <1>1. /\ msWork' = [msWork EXCEPT ![w] = MS!Idle] /\ msFaults' = msFaults + 1
        /\ UNCHANGED <<msRow, sequence, ledger, timely, msVersion, msLost>>
    BY DEF MS!Die, MS!Goto
  <1>2. Works(w)'
    BY <1>1 DEF MS!WeightsInv, Works
  <1>3. /\ sequence' \in Nat /\ msFaults' \in Nat /\ msFaults <= msFaults' /\ msFaults' # msFaults
        /\ ledger' \subseteq Txs /\ ledger \subseteq ledger'
    BY <1>1 DEF MS!WeightsInv
  <1>4. Marks(MS!Idle, ledger' \ ledger) /\ (msFaults' # msFaults \/ msWork[w].op # "save")
    BY <1>1, <1>3 DEF Marks
  <1> QED
    BY <1>1, <1>2, <1>3, <1>4, SignerMoves

\* A signer has read a row that waits.
LEMMA SignatureAsked ==
    ASSUME MS!WeightsInv, NEW w \in Workers, NEW t \in Txs, NEW s \in Signers, NEW valid \in BOOLEAN,
           MS!Find(w, t, s, valid)
    PROVE  MS!WeightsInv'
  <1> DEFINE new == [op |-> "sign", tx |-> t, signer |-> s, valid |-> valid,
                     copy |-> msRow[t], version |-> msVersion[t]]
  <1>1. /\ msWork[w] = MS!Idle /\ msWork' = [msWork EXCEPT ![w] = new]
        /\ msRow[t].status = "pending_signatures" /\ s \notin msRow[t].signers
        /\ UNCHANGED <<msRow, sequence, ledger, timely, msVersion, msLost, msFaults>>
    BY DEF MS!Find, MS!Goto, MS!Signable
  <1>2. msRow[t] \in MS!Transaction /\ MS!Stands(t, msRow[t]) /\ msRow[t] # MS!Unborn
    BY <1>1, UnbornIsNone DEF MS!WeightsInv, MS!Unborn
  <1>3. msVersion[t] \in Nat
    BY DEF MS!WeightsInv
  <1>4. new \in MS!Signings
    BY <1>2, <1>3 DEF MS!Signings
  <1>5. /\ new.op = "sign" /\ new.tx = t /\ new.signer = s /\ new.copy = msRow[t]
        /\ new.version = msVersion[t]
    OBVIOUS
  <1> HIDE DEF new
  <1>6. msWork'[w] = new
    BY <1>1 DEF MS!WeightsInv
  <1>7. MS!Weighed(msRow[t])
    BY <1>2 DEF MS!Stands
  <1>8. MS!Signing(w)'
    <2>1. MS!Weighed(new.copy)
      BY <1>5, <1>7
    <2>2. MS!Weighed(msWork[w].copy)'
      BY <1>6, <2>1 DEF MS!Weighed
    <2>3. msRow'[t] # MS!Unborn /\ msRow'[t].status = "pending_signatures" /\ msVersion'[t] = msVersion[t]
      BY <1>1, <1>2
    <2> QED
      BY <1>1, <1>3, <1>5, <1>6, <2>2, <2>3 DEF MS!Signing
  <1>9. Works(w)'
    BY <1>4, <1>6, <1>8 DEF Works
  <1>10. /\ sequence' \in Nat /\ msFaults' \in Nat /\ msFaults <= msFaults'
         /\ ledger' \subseteq Txs /\ ledger \subseteq ledger'
    BY <1>1 DEF MS!WeightsInv
  <1>11. Marks(new, ledger' \ ledger) /\ msWork[w].op # "save"
    BY <1>1 DEF Marks, MS!Idle
  <1> QED
    BY <1>1, <1>9, <1>10, <1>11, SignerMoves

\* The one who adds a signature has not signed, so the copy's weight grows by the key's.
LEMMA SignatureAdded == ASSUME MS!WeightsInv, AccountWeighed, NEW w \in Workers, MS!Add(w) PROVE MS!WeightsInv'
  <1> DEFINE r == msWork[w]  t == r.tx  k == r.copy  c == MS!Signed(r)
             more == [r EXCEPT !.copy = c, !.op = IF c.collected >= MedThreshold THEN "submit" ELSE "save"]
             new == IF Weight[r.signer] = 0 THEN MS!Idle ELSE more
  <1>1. /\ r.op = "sign" /\ msWork' = [msWork EXCEPT ![w] = new]
        /\ UNCHANGED <<msRow, sequence, ledger, timely, msVersion, msLost, msFaults>>
    BY DEF MS!Add, MS!Goto
  <1>2. r \in MS!Signings /\ MS!Signing(w)
    BY <1>1, WorkersWork DEF Works, MS!Idle
  <1>3. /\ t \in Txs /\ r.signer \in Signers \ k.signers /\ k \in MS!Transaction /\ r.version \in Nat
        /\ k.status = "pending_signatures" /\ MS!Weighed(k)
        /\ msRow[t] # MS!Unborn /\ r.version <= msVersion[t]
        /\ r.version = msVersion[t] => msRow[t].status = "pending_signatures"
    BY <1>1, <1>2 DEF MS!Signings, MS!Signing
  <1>4. /\ c.status = k.status /\ c.signers = k.signers \cup {r.signer}
        /\ c.collected = k.collected + Weight[r.signer] /\ c \in MS!Transaction
    <2>1. Weight[r.signer] \in Nat
      BY <1>3 DEF AccountWeighed
    <2> DEFINE faulty == IF r.valid THEN k.bad ELSE k.bad \cup {r.signer}
    <2>2. c = [k EXCEPT !.signers = k.signers \cup {r.signer}, !.collected = k.collected + Weight[r.signer],
                        !.bad = faulty]
      BY DEF MS!Signed
    <2>3. /\ k.signers \cup {r.signer} \in SUBSET Signers /\ k.collected + Weight[r.signer] \in Nat
          /\ faulty \in SUBSET Signers
      BY <1>3, <2>1 DEF MS!Transaction
    <2> HIDE DEF c, faulty, r, t, k
    <2> QED
      BY <1>3, <2>2, <2>3 DEF MS!Transaction
  <1>5. MS!Weighed(c) /\ c.collected \in Nat
    <2>1. k.signers \in SUBSET Signers /\ k.collected \in Nat /\ Weight[r.signer] \in Nat
      BY <1>3 DEF MS!Transaction, AccountWeighed
    <2>2. MS!IsFiniteSet(MS!Units(k.signers)) /\ k.collected = OwnWeight + MS!WeightOf(k.signers)
      BY <1>3 DEF MS!Weighed
    <2>3. /\ MS!IsFiniteSet(MS!Units(k.signers \cup {r.signer}))
          /\ MS!WeightOf(k.signers \cup {r.signer}) = MS!WeightOf(k.signers) + Weight[r.signer]
          /\ MS!WeightOf(k.signers) \in Nat
      BY <1>3, <2>1, <2>2, WeightAdds
    <2> DEFINE had == MS!WeightOf(k.signers)  has == MS!WeightOf(k.signers \cup {r.signer})
    <2>4. had \in Nat /\ has = had + Weight[r.signer] /\ k.collected = OwnWeight + had /\ OwnWeight \in Nat
      BY <2>2, <2>3 DEF AccountWeighed
    <2>5. c.signers = k.signers \cup {r.signer} /\ c.collected = k.collected + Weight[r.signer]
      BY <1>4
    <2> HIDE DEF had, has, c
    <2>6. c.collected = OwnWeight + has
      BY <2>1, <2>4, <2>5
    <2> QED
      BY <2>1, <2>3, <2>5, <2>6 DEF MS!Weighed, has
  <1> HIDE DEF c
  <1>6. ASSUME Weight[r.signer] # 0 PROVE Works(w)'
    <2>1. /\ more \in MS!Signings /\ more.op \in {"submit", "save"} /\ more.tx = t /\ more.copy = c
          /\ more.version = r.version /\ (more.op = "save" => ~(c.collected >= MedThreshold))
      BY <1>2, <1>4 DEF MS!Signings
    <2>2. msWork'[w] = more
      BY <1>1, <1>6 DEF MS!WeightsInv
    <2> HIDE DEF more
    <2>3. more.op = "save" => MS!Stands(t, c)
      BY <1>3, <1>4, <1>5, <2>1 DEF MS!Stands, AccountWeighed
    <2>4. MS!Weighed(msWork[w].copy)' /\ (more.op = "save" => MS!Stands(msWork[w].tx, msWork[w].copy)')
      BY <1>1, <1>5, <2>1, <2>2, <2>3 DEF MS!Weighed, MS!Stands
    <2>5. MS!Signing(w)'
      BY <1>1, <1>3, <2>1, <2>2, <2>4 DEF MS!Signing
    <2> QED
      BY <2>1, <2>2, <2>5 DEF Works
  <1>7. ASSUME Weight[r.signer] = 0 PROVE Works(w)'
    <2>1. msWork'[w] = MS!Idle
      BY <1>1, <1>7 DEF MS!WeightsInv
    <2> QED
      BY <2>1 DEF Works
  <1>8. /\ sequence' \in Nat /\ msFaults' \in Nat /\ msFaults <= msFaults'
        /\ ledger' \subseteq Txs /\ ledger \subseteq ledger'
    BY <1>1 DEF MS!WeightsInv
  <1>9. Marks(new, ledger' \ ledger) /\ msWork[w].op # "save"
    BY <1>1 DEF Marks
  <1> HIDE DEF new
  <1>10. Works(w)'
    BY <1>6, <1>7
  <1> QED
    BY <1>1, <1>8, <1>9, <1>10, SignerMoves

\* What the network accepts is on the ledger, and the one who submitted it knows.
LEMMA Submitted == ASSUME MS!WeightsInv, NEW w \in Workers, MS!Submit(w) PROVE MS!WeightsInv'
  <1> DEFINE r == msWork[w]  t == r.tx  k == r.copy  more == [r EXCEPT !.op = "save", !.copy.status = "submitted"]
             new == IF MS!Accepted(t, k) THEN more ELSE MS!Idle
  <1>1. /\ r.op = "submit" /\ msWork' = [msWork EXCEPT ![w] = new]
        /\ IF MS!Accepted(t, k) /\ t \notin ledger
           THEN ledger' = ledger \cup {t} /\ sequence' = sequence + 1
           ELSE ledger' = ledger /\ sequence' = sequence
        /\ UNCHANGED <<msRow, msVersion, msLost, msFaults>>
    BY DEF MS!Submit, MS!Goto, MS!Marked
  <1>2. r \in MS!Signings /\ MS!Signing(w)
    BY <1>1, WorkersWork DEF Works, MS!Idle
  <1>3. /\ t \in Txs /\ k \in MS!Transaction /\ MS!Weighed(k)
        /\ msRow[t] # MS!Unborn /\ r.version <= msVersion[t]
        /\ r.version = msVersion[t] => msRow[t].status = "pending_signatures"
    BY <1>1, <1>2 DEF MS!Signings, MS!Signing
  <1>4. /\ more \in MS!Signings /\ more.op = "save" /\ more.tx = t /\ more.version = r.version
        /\ more.copy.status = "submitted" /\ more.copy.signers = k.signers /\ more.copy.collected = k.collected
    BY <1>2, <1>3 DEF MS!Signings, MS!Transaction, MS!Status
  <1>5. MS!Weighed(more.copy)
    BY <1>3, <1>4 DEF MS!Weighed
  <1>6. MS!Accepted(t, k) => t \in ledger' /\ ledger' \subseteq ledger \cup {t}
    BY <1>1
  <1> HIDE DEF more
  <1>7. ASSUME MS!Accepted(t, k) PROVE Works(w)' /\ Marks(new, ledger' \ ledger)
    <2>1. msWork'[w] = more
      BY <1>1, <1>7 DEF MS!WeightsInv
    <2>2. MS!Weighed(msWork[w].copy)' /\ MS!Stands(msWork[w].tx, msWork[w].copy)'
      BY <1>4, <1>5, <1>6, <1>7, <2>1 DEF MS!Weighed, MS!Stands
    <2>3. MS!Signing(w)'
      BY <1>1, <1>3, <1>4, <2>1, <2>2 DEF MS!Signing
    <2>4. Works(w)'
      BY <1>4, <2>1, <2>3 DEF Works
    <2>5. Marks(new, ledger' \ ledger)
      BY <1>3, <1>4, <1>6, <1>7 DEF Marks
    <2> QED
      BY <2>4, <2>5
  <1>8. ASSUME ~MS!Accepted(t, k) PROVE Works(w)' /\ Marks(new, ledger' \ ledger)
    <2>1. msWork'[w] = MS!Idle
      BY <1>1, <1>8 DEF MS!WeightsInv
    <2> QED
      BY <1>1, <1>8, <2>1 DEF Works, Marks
  <1> HIDE DEF new
  <1>9. /\ sequence' \in Nat /\ msFaults' \in Nat /\ msFaults <= msFaults'
        /\ ledger' \subseteq Txs /\ ledger \subseteq ledger' /\ msWork[w].op # "save"
    BY <1>1, <1>3 DEF MS!WeightsInv
  <1>10. Works(w)' /\ Marks(new, ledger' \ ledger)
    BY <1>7, <1>8
  <1> QED
    BY <1>1, <1>9, <1>10, SignerMoves

\* Rows that change and no ledger: each is as it should, and what is on the ledger is told.
LEMMA RowsMove ==
    ASSUME MS!WeightsInv, NEW w \in Workers, msWork' = [msWork EXCEPT ![w] = MS!Idle],
           UNCHANGED <<sequence, ledger, msFaults>>,
           NEW t \in Txs, NEW new, msRow' = [msRow EXCEPT ![t] = new],
           new \in MS!Transaction, MS!Stands(t, new),
           msVersion' \in [Txs -> Nat], msLost' \in [Txs -> Nat],
           \A x \in Txs \ {t} : msVersion'[x] = msVersion[x] /\ msLost'[x] = msLost[x],
           msRow[t] = MS!Unborn \/ msVersion[t] < msVersion'[t], msVersion[t] <= msVersion'[t],
           \A x \in ledger \ {t} : MS!Told(x) => MS!Told(x)',
           t \in ledger /\ msFaults = 0 /\ msLost'[t] = 0 => MS!Told(t)'
    PROVE  MS!WeightsInv'
  <1>1. /\ DOMAIN msWork' = Workers /\ msWork'[w] = MS!Idle /\ \A v \in Workers \ {w} : msWork'[v] = msWork[v]
        /\ DOMAIN msRow' = Txs /\ msRow'[t] = new /\ \A x \in Txs \ {t} : msRow'[x] = msRow[x]
    BY DEF MS!WeightsInv
  <1>2. msVersion \in [Txs -> Nat] /\ new # MS!Unborn
    BY UnbornIsNone DEF MS!WeightsInv
  <1>3. ASSUME NEW x \in Txs
        PROVE  /\ msRow[x] # MS!Unborn => msRow'[x] # MS!Unborn
               /\ msVersion'[x] \in Nat /\ msVersion[x] <= msVersion'[x]
               /\ msVersion'[x] = msVersion[x] /\ msRow[x] # MS!Unborn => msRow'[x] = msRow[x]
    <2>1. msVersion[x] \in Nat /\ msVersion'[x] \in Nat
      BY <1>2
    <2> QED
      BY <1>1, <1>2, <2>1
  <1>4. \A v \in Workers : Works(v)'
    <2> TAKE v \in Workers
    <2>1. CASE v = w
      BY <1>1, <2>1 DEF Works
    <2>2. CASE v # w
      <3>1. msWork'[v] = msWork[v]
        BY <1>1, <2>2
      <3> QED
        BY <1>3, <3>1, OthersSign
    <2> QED
      BY <2>1, <2>2
  <1>5. ASSUME NEW x \in Txs PROVE msRow'[x] = MS!Unborn \/ (msRow'[x] \in MS!Transaction /\ MS!Stands(x, msRow[x])')
    <2>1. CASE x = t
      BY <1>1, <2>1 DEF MS!Stands, MS!Weighed
    <2>2. CASE x # t
      <3>1. msRow[x] = MS!Unborn \/ (msRow[x] \in MS!Transaction /\ MS!Stands(x, msRow[x]))
        BY DEF MS!WeightsInv
      <3>2. msRow'[x] = msRow[x] /\ ledger' = ledger
        BY <1>1, <2>2
      <3> QED
        BY <3>1, <3>2 DEF MS!Stands, MS!Weighed
    <2> QED
      BY <2>1, <2>2
  <1>6. ASSUME NEW x \in ledger PROVE msRow'[x] # MS!Unborn /\ (msFaults' = 0 /\ msLost'[x] = 0 => MS!Told(x)')
    <2>1. x \in Txs /\ msRow[x] # MS!Unborn /\ (msFaults = 0 /\ msLost[x] = 0 => MS!Told(x))
      BY DEF MS!WeightsInv
    <2> QED
      BY <1>3, <2>1
  <1>7. DOMAIN msWork' = Workers /\ DOMAIN msRow' = Txs
    BY <1>1
  <1> QED
    BY <1>4, <1>5, <1>6, <1>7 DEF MS!WeightsInv, Works

LEMMA Stored == ASSUME MS!WeightsInv, AccountWeighed, NEW w \in Workers, MS!Store(w) PROVE MS!WeightsInv'
  <1>1. PICK t \in Txs :
          /\ msRow[t] = MS!Unborn
          /\ msRow' = [msRow EXCEPT ![t] =
               [status |-> "pending_signatures", signers |-> {}, collected |-> OwnWeight,
                bad |-> {}, sequence |-> msWork[w].sequence]]
    BY DEF MS!Store
  <1>2. /\ msWork[w].op = "store" /\ msWork' = [msWork EXCEPT ![w] = MS!Idle]
        /\ UNCHANGED <<sequence, ledger, msVersion, msLost, msCalls, msFaults>>
    BY DEF MS!Store, MS!Goto
  <1> DEFINE new == [status |-> "pending_signatures", signers |-> {}, collected |-> OwnWeight,
                     bad |-> {}, sequence |-> msWork[w].sequence]
  <1>3. msWork[w].sequence \in Nat /\ OwnWeight < MedThreshold
    BY <1>2, WorkersWork DEF Works, MS!Idle, MS!Signings
  <1>4. /\ new \in MS!Transaction /\ new.status = "pending_signatures" /\ new.signers = {}
        /\ new.collected = OwnWeight
    BY <1>3 DEF AccountWeighed, MS!Transaction, MS!Status
  <1> HIDE DEF new
  <1>5. MS!Stands(t, new)
    <2>1. MS!Weighed(new)
      BY <1>4, NoWeight DEF MS!Weighed, AccountWeighed
    <2> QED
      BY <1>3, <1>4, <2>1 DEF MS!Stands
  <1>6. t \notin ledger
    BY <1>1 DEF MS!WeightsInv
  <1>7. ASSUME NEW x \in ledger \ {t}, MS!Told(x) PROVE MS!Told(x)'
    <2>1. msWork[w].op # "save" /\ \A v \in Workers \ {w} : msWork'[v] = msWork[v]
      BY <1>2 DEF MS!WeightsInv
    <2>2. msRow'[x] = msRow[x]
      BY <1>1 DEF MS!WeightsInv
    <2> QED
      BY <1>7, <2>1, <2>2 DEF MS!Told
  <1>8. /\ msVersion \in [Txs -> Nat] /\ msLost \in [Txs -> Nat] /\ msVersion' = msVersion /\ msLost' = msLost
        /\ msVersion[t] <= msVersion'[t]
    BY <1>2 DEF MS!WeightsInv
  <1>9. msRow' = [msRow EXCEPT ![t] = new]
    BY <1>1 DEF new
  <1> QED
    BY <1>1, <1>2, <1>4, <1>5, <1>6, <1>7, <1>8, <1>9, RowsMove

\* The row takes the copy.  If nobody saved since the copy was read, whoever told still will.
LEMMA Saved == ASSUME MS!WeightsInv, NEW w \in Workers, MS!Save(w) PROVE MS!WeightsInv'
  <1> DEFINE r == msWork[w]
  <1>1. r \in MS!Signings /\ MS!Signing(w)
    BY WorkersWork DEF Works, MS!Idle, MS!Save
  <1>2. PICK t \in Txs, k \in MS!Transaction : t = r.tx /\ k = r.copy
    BY <1>1 DEF MS!Signings
  <1>3. /\ r.op = "save" /\ msRow' = [msRow EXCEPT ![t] = k]
        /\ msVersion' = [msVersion EXCEPT ![t] = msVersion[t] + 1]
        /\ msLost' = [msLost EXCEPT ![t] = msLost[t] + (msVersion[t] - r.version)]
        /\ msWork' = [msWork EXCEPT ![w] = MS!Idle] /\ UNCHANGED <<sequence, ledger, msFaults>>
    BY <1>2 DEF MS!Save, MS!Goto
  <1>4. /\ t \in Txs /\ k \in MS!Transaction /\ MS!Stands(t, k) /\ r.version \in Nat
        /\ r.version <= msVersion[t]
        /\ r.version = msVersion[t] => msRow[t].status = "pending_signatures"
    BY <1>1, <1>3, <1>2 DEF MS!Signings, MS!Signing
  <1>5. /\ msVersion \in [Txs -> Nat] /\ msLost \in [Txs -> Nat] /\ DOMAIN msWork = Workers /\ DOMAIN msRow = Txs
        /\ msVersion[t] \in Nat /\ msLost[t] \in Nat
    BY <1>4 DEF MS!WeightsInv
  <1> HIDE DEF r
  <1>6. /\ msVersion' \in [Txs -> Nat] /\ msVersion'[t] = msVersion[t] + 1
        /\ \A x \in Txs \ {t} : msVersion'[x] = msVersion[x]
        /\ msVersion[t] < msVersion'[t] /\ msVersion[t] <= msVersion'[t]
    BY <1>3, <1>4, <1>5
  <1>7. /\ msLost' \in [Txs -> Nat] /\ \A x \in Txs \ {t} : msLost'[x] = msLost[x]
        /\ msLost'[t] = 0 => msLost[t] = 0 /\ r.version = msVersion[t]
    <2> DEFINE over == msVersion[t] - r.version
    <2>1. over \in Nat /\ (over = 0 => r.version = msVersion[t])
      BY <1>4, <1>5
    <2>2. msLost' = [msLost EXCEPT ![t] = msLost[t] + over]
      BY <1>3
    <2> HIDE DEF over
    <2>3. msLost[t] + over \in Nat /\ (msLost[t] + over = 0 => msLost[t] = 0 /\ over = 0)
      BY <1>5, <2>1
    <2> QED
      BY <1>4, <1>5, <2>1, <2>2, <2>3
  <1>8. /\ msRow'[t] = k /\ \A x \in Txs \ {t} : msRow'[x] = msRow[x]
        /\ \A v \in Workers \ {w} : msWork'[v] = msWork[v]
    BY <1>3, <1>4, <1>5
  <1>9. ASSUME NEW x \in ledger \ {t}, MS!Told(x) PROVE MS!Told(x)'
    <2>1. x \in Txs /\ msRow'[x] = msRow[x]
      BY <1>8 DEF MS!WeightsInv
    <2>2. CASE msRow[x].status = "submitted"
      BY <2>1, <2>2 DEF MS!Told
    <2>3. CASE \E v \in Workers : msWork[v].op = "save" /\ msWork[v].tx = x /\ msWork[v].copy.status = "submitted"
      <3>1. PICK v \in Workers : msWork[v].op = "save" /\ msWork[v].tx = x /\ msWork[v].copy.status = "submitted"
        BY <2>3
      <3>2. v # w
        BY <1>2, <3>1 DEF r
      <3> QED
        BY <1>8, <3>1, <3>2 DEF MS!Told
    <2> QED
      BY <1>9, <2>2, <2>3 DEF MS!Told
  <1>10. ASSUME t \in ledger, msFaults = 0, msLost'[t] = 0 PROVE MS!Told(t)'
    <2>1. CASE k.status = "submitted"
      BY <1>8, <2>1 DEF MS!Told
    <2>2. CASE k.status # "submitted"
      <3>1. msRow[t].status # "submitted" /\ MS!Told(t)
        BY <1>4, <1>7, <1>10 DEF MS!WeightsInv
      <3>2. PICK v \in Workers : msWork[v].op = "save" /\ msWork[v].tx = t /\ msWork[v].copy.status = "submitted"
        BY <3>1 DEF MS!Told
      <3>3. v # w
        BY <1>2, <2>2, <3>2 DEF r
      <3> QED
        BY <1>8, <3>2, <3>3 DEF MS!Told
    <2> QED
      BY <2>1, <2>2
  <1> QED
    BY <1>3, <1>4, <1>6, <1>7, <1>9, <1>10, RowsMove

LEMMA WeightsSleep ==
    ASSUME MS!WeightsInv, UNCHANGED <<msRow, msWork, sequence, ledger, msVersion, msLost, msFaults>>
    PROVE  MS!WeightsInv'
  <1>1. \A w \in Workers : Works(w)'
    BY WorkersWork, OthersSign DEF MS!WeightsInv
  <1>2. \A t \in Txs : /\ MS!Stands(t, msRow[t]) => MS!Stands(t, msRow[t])'
                       /\ MS!Told(t) => MS!Told(t)'
    BY DEF MS!Stands, MS!Weighed, MS!Told
  <1> QED
    BY <1>1, <1>2 DEF MS!WeightsInv, Works

LEMMA WeightsStep == AccountWeighed /\ MS!WeightsInv /\ [MS!Next]_(MS!vars) => MS!WeightsInv'
  <1> SUFFICES ASSUME AccountWeighed, MS!WeightsInv, [MS!Next]_(MS!vars) PROVE MS!WeightsInv'
    OBVIOUS
  <1>1. CASE \E w \in Workers : \/ MS!Send(w) \/ MS!Store(w) \/ MS!Pay(w) \/ MS!Add(w) \/ MS!Submit(w)
                                \/ MS!Save(w) \/ MS!Die(w)
    BY <1>1, PaymentSent, Stored, PaymentPaid, SignatureAdded, Submitted, Saved, SignerDies
  <1>2. CASE \E w \in Workers, t \in Txs, s \in Signers, valid \in BOOLEAN : MS!Find(w, t, s, valid)
    BY <1>2, SignatureAsked
  <1>3. CASE (\E t \in Txs : MS!TooLate(t)) \/ UNCHANGED MS!vars
    BY <1>3, WeightsSleep DEF MS!TooLate, MS!vars
  <1> QED
    BY <1>1, <1>2, <1>3 DEF MS!Next

LEMMA WeightsHold == MS!WeightsInv => SignaturesAddUp
  <1> SUFFICES ASSUME MS!WeightsInv, NEW t \in Txs
               PROVE  /\ msRow[t] # MS!Unborn => msRow[t].collected = OwnWeight + MS!WeightOf(msRow[t].signers)
                      /\ msRow[t].status = "pending_signatures" => msRow[t].collected < MedThreshold
                      /\ msRow[t].status = "submitted" => t \in ledger
                      /\ t \in ledger => \/ msRow[t].status = "submitted" \/ MS!InFlight(t)
                                         \/ msFaults > 0 \/ msLost[t] > 0
    BY DEF SignaturesAddUp, MS!SignaturesAddUp
  <1>1. CASE msRow[t] = MS!Unborn
    <2>1. msRow[t].status = "unborn"
      BY <1>1 DEF MS!Unborn
    <2>2. t \notin ledger
      BY <1>1 DEF MS!WeightsInv
    <2> QED
      BY <1>1, <2>1, <2>2
  <1>2. CASE msRow[t] # MS!Unborn
    <2>1. MS!Stands(t, msRow[t])
      BY <1>2 DEF MS!WeightsInv
    <2>2. msFaults \in Nat /\ msLost[t] \in Nat /\ (t \in ledger /\ msFaults = 0 /\ msLost[t] = 0 => MS!Told(t))
      BY DEF MS!WeightsInv
    <2>3. MS!Told(t) => msRow[t].status = "submitted" \/ MS!InFlight(t)
      BY DEF MS!Told, MS!InFlight
    <2> QED
      BY <2>1, <2>2, <2>3 DEF MS!Stands, MS!Weighed
  <1> QED
    BY <1>1, <1>2

LEMMA SignaturesMove == [Next]_vars => [MS!Next]_(MS!vars)
  BY DEF Next, vars, plVars, wdVars, acVars, tkVars, auVars, akVars, diVars, thVars, wnVars,
     raVars, ejVars, msVars, seVars, MS!vars

(* A stored transaction counts each signer's weight once and no stranger's, *)
(* waits only while that is too little, and is marked as submitted just    *)
(* when it is on the ledger, but for a save that never came or was lost    *)
(* (stellar.service.ts:151-206).                                           *)
THEOREM SignaturesStayRight == ASSUME AccountWeighed PROVE Spec => []SignaturesAddUp
  <1>1. Init => MS!WeightsInv
    BY WeightsBegin
  <1>2. MS!WeightsInv /\ [Next]_vars => MS!WeightsInv'
    BY SignaturesMove, WeightsStep
  <1>3. MS!WeightsInv => SignaturesAddUp
    BY WeightsHold
  <1> QED
    BY <1>1, <1>2, <1>3, PTL DEF Spec

-----------------------------------------------------------------------------
(* Mails.                                                                  *)

LEMMA MailsBegin == ASSUME EjAttempts \in Nat \ {0}, Init PROVE EJ!MailsInv
  BY DEF Init, EJ!Init, EJ!MailsInv, EJ!SentOnce, EJ!Logging, EJ!Serving, EJ!Sendings, EJ!Idle

\* The record of a mail's counters says which the others are.
LEMMA MailTyped ==
    ASSUME EJ!MailsInv, NEW m \in Mails
    PROVE  /\ ejJob[m] \in [state : {"none", "waiting", "active", "completed", "failed"}, tries : Nat]
           /\ log[m] \in [sent : Nat, failed : Nat]
           /\ delivered[m] \in Nat /\ doubts[m] \in Nat
           /\ EJ!SentOnce(m)
  BY DEF EJ!MailsInv

LEMMA WorkerMail ==
    ASSUME EJ!MailsInv, NEW w \in Workers, ejSlot[w].pc \in {"sending", "logging", "failing"}
    PROVE  /\ ejSlot[w] \in EJ!Sendings /\ ejSlot[w].mail \in Mails
           /\ ejJob[ejSlot[w].mail].state = "active"
           /\ \A v \in Workers : EJ!Serving(v, ejSlot[w].mail) => v = w
  BY DEF EJ!MailsInv, EJ!Idle, EJ!Sendings, EJ!Serving

\* Worker w goes on to new, and the mail m it serves becomes what the arguments say.
MailWrites(w, m, new, j, l, n, d) ==
    /\ ejSlot' = [ejSlot EXCEPT ![w] = new] /\ ejJob' = [ejJob EXCEPT ![m] = j]
    /\ log' = [log EXCEPT ![m] = l] /\ delivered' = [delivered EXCEPT ![m] = n]
    /\ doubts' = [doubts EXCEPT ![m] = d]

MailFits(m, new, j, l, n, d) ==
    /\ new # EJ!Idle => new \in EJ!Sendings /\ new.mail = m /\ j.state = "active"
    /\ j \in [state : {"none", "waiting", "active", "completed", "failed"}, tries : Nat]
    /\ l \in [sent : Nat, failed : Nat] /\ n \in Nat /\ d \in Nat
    /\ n <= 1 + d
    /\ IF (new # EJ!Idle /\ new.pc = "logging") \/ j.state = "completed" THEN n > 0 ELSE n <= d
    /\ l.sent = IF j.state = "completed" THEN 1 ELSE 0
    /\ IF j.state = "failed" THEN j.tries = EjAttempts
       ELSE j.state # "completed" => j.tries < EjAttempts

\* The worker serves m, or is about to, and nobody else does.
Alone(w, m) ==
    /\ \A v \in Workers : EJ!Serving(v, m) => v = w
    /\ \A k \in Mails : EJ!Serving(w, k) => k = m

\* What a worker does touches its own mail: the others are as they were.
LEMMA MailMoves ==
    ASSUME EJ!MailsInv, NEW w \in Workers, NEW m \in Mails, NEW new, NEW j, NEW l, NEW n, NEW d,
           Alone(w, m), MailWrites(w, m, new, j, l, n, d), MailFits(m, new, j, l, n, d)
    PROVE  EJ!MailsInv'
  <1> USE DEF Alone, MailWrites, MailFits
  <1>1. /\ ejJob' \in [Mails -> [state : {"none", "waiting", "active", "completed", "failed"}, tries : Nat]]
        /\ log' \in [Mails -> [sent : Nat, failed : Nat]]
        /\ delivered' \in [Mails -> Nat] /\ doubts' \in [Mails -> Nat]
        /\ DOMAIN ejSlot' = Workers
    BY DEF EJ!MailsInv
  <1>2. /\ ejSlot'[w] = new /\ \A v \in Workers : v # w => ejSlot'[v] = ejSlot[v]
        /\ ejJob'[m] = j /\ log'[m] = l /\ delivered'[m] = n /\ doubts'[m] = d
        /\ \A k \in Mails : k # m => /\ ejJob'[k] = ejJob[k] /\ log'[k] = log[k]
                                     /\ delivered'[k] = delivered[k] /\ doubts'[k] = doubts[k]
    BY DEF EJ!MailsInv
  <1>3. \A k \in Mails : \A v \in Workers :
          EJ!Serving(v, k)' => IF v = w THEN k = m ELSE k # m /\ EJ!Serving(v, k)
    BY <1>2 DEF EJ!Serving, EJ!Idle, EJ!Sendings
  <1>4. \A v \in Workers : \/ ejSlot'[v] = EJ!Idle
                           \/ ejSlot'[v] \in EJ!Sendings /\ ejJob'[ejSlot'[v].mail].state = "active"
    <2> TAKE v \in Workers
    <2>1. CASE v = w
      BY <1>2, <2>1
    <2>2. CASE v # w /\ ejSlot[v] # EJ!Idle
      <3>1. ejSlot[v] \in EJ!Sendings /\ ejSlot[v].mail \in Mails /\ ejJob[ejSlot[v].mail].state = "active"
        BY <2>2 DEF EJ!MailsInv, EJ!Sendings
      <3>2. ejSlot[v].mail # m
        BY <2>2, <3>1 DEF EJ!Serving
      <3> QED
        BY <1>2, <2>2, <3>1, <3>2
    <2> QED
      BY <1>2, <2>1, <2>2
  <1>5. \A k \in Mails : \A u, v \in Workers : EJ!Serving(u, k)' /\ EJ!Serving(v, k)' => u = v
    BY <1>3 DEF EJ!MailsInv
  <1>6. EJ!SentOnce(m)'
    <2>1. EJ!Logging(m)' => new # EJ!Idle /\ new.pc = "logging"
      <3> SUFFICES ASSUME NEW v \in Workers, ejSlot'[v].pc = "logging", ejSlot'[v].mail = m
                   PROVE  new # EJ!Idle /\ new.pc = "logging"
        BY DEF EJ!Logging
      <3>1. EJ!Serving(v, m)'
        BY <1>4 DEF EJ!Serving, EJ!Idle
      <3>2. v = w
        BY <1>3, <3>1
      <3> QED
        BY <1>2, <3>2 DEF EJ!Idle
    <2>2. new # EJ!Idle /\ new.pc = "logging" => EJ!Logging(m)'
      BY <1>2 DEF EJ!Logging
    <2> QED
      BY <1>2, <2>1, <2>2 DEF EJ!SentOnce
  <1>7. ASSUME NEW k \in Mails, k # m PROVE EJ!SentOnce(k)'
    <2>1. EJ!Logging(k)' <=> EJ!Logging(k)
      <3>1. ~(ejSlot'[w].pc = "logging" /\ ejSlot'[w].mail = k)
        BY <1>2, <1>7 DEF EJ!Idle, EJ!Sendings
      <3>2. ~(ejSlot[w].pc = "logging" /\ ejSlot[w].mail = k)
        BY <1>7 DEF EJ!Serving, EJ!MailsInv, EJ!Idle
      <3> QED
        BY <1>2, <3>1, <3>2 DEF EJ!Logging
    <2> QED
      BY <1>2, <1>7, <2>1, MailTyped DEF EJ!SentOnce
  <1> QED
    BY <1>1, <1>4, <1>5, <1>6, <1>7 DEF EJ!MailsInv

LEMMA MailAsked == ASSUME EjAttempts \in Nat \ {0}, EJ!MailsInv, NEW m \in Mails, EJ!Enqueue(m) PROVE EJ!MailsInv'
  <1> DEFINE new == [ejJob[m] EXCEPT !.state = "waiting"]
  <1>1. /\ ejJob' = [ejJob EXCEPT ![m] = new] /\ ejJob[m].state = "none"
        /\ UNCHANGED <<ejSlot, log, delivered, doubts>>
    BY DEF EJ!Enqueue
  <1>2. new.state = "waiting" /\ new.tries = ejJob[m].tries
        /\ new \in [state : {"none", "waiting", "active", "completed", "failed"}, tries : Nat]
    BY MailTyped
  <1> HIDE DEF new
  <1>3. /\ ejJob' \in [Mails -> [state : {"none", "waiting", "active", "completed", "failed"}, tries : Nat]]
        /\ ejJob'[m] = new /\ \A k \in Mails : k # m => ejJob'[k] = ejJob[k]
    BY <1>1, <1>2 DEF EJ!MailsInv
  <1>4. \A w \in Workers : ejSlot[w] \in EJ!Sendings /\ ejJob[ejSlot[w].mail].state = "active" =>
          ejJob'[ejSlot[w].mail].state = "active"
    BY <1>1, <1>3 DEF EJ!Sendings
  <1>5. \A k \in Mails : EJ!SentOnce(k)'
    BY <1>1, <1>2, <1>3, MailTyped DEF EJ!SentOnce, EJ!Logging
  <1> QED
    BY <1>1, <1>3, <1>4, <1>5 DEF EJ!MailsInv, EJ!Serving

\* A worker without a job takes one that no other has.
LEMMA MailTaken ==
    ASSUME EJ!MailsInv, NEW w \in Workers, NEW m \in Mails, EJ!Process(w, m) PROVE EJ!MailsInv'
  <1> DEFINE new == [pc |-> "sending", mail |-> m]
  <1> DEFINE j == [ejJob[m] EXCEPT !.state = "active"]
  <1>1. /\ ejSlot[w] = EJ!Idle /\ ejJob[m].state = "waiting"
        /\ ejSlot' = [ejSlot EXCEPT ![w] = new] /\ ejJob' = [ejJob EXCEPT ![m] = j]
        /\ UNCHANGED <<log, delivered, doubts>>
    BY DEF EJ!Process
  <1>2. /\ j \in [state : {"none", "waiting", "active", "completed", "failed"}, tries : Nat]
        /\ j.state = "active" /\ j.tries = ejJob[m].tries
    BY MailTyped
  <1>3. new \in EJ!Sendings /\ new.mail = m /\ new # EJ!Idle /\ new.pc = "sending"
    BY DEF EJ!Sendings, EJ!Idle
  <1>4. \A v \in Workers, k \in Mails : EJ!Serving(v, k) => k # m /\ v # w
    BY <1>1 DEF EJ!Serving, EJ!MailsInv, EJ!Sendings, EJ!Idle
  <1>5. /\ log' = [log EXCEPT ![m] = log[m]] /\ delivered' = [delivered EXCEPT ![m] = delivered[m]]
        /\ doubts' = [doubts EXCEPT ![m] = doubts[m]]
    BY <1>1 DEF EJ!MailsInv
  <1>6. ~EJ!Logging(m)
    BY <1>4 DEF EJ!Logging, EJ!Serving, EJ!MailsInv, EJ!Idle
  <1>7. /\ delivered[m] <= doubts[m] /\ log[m].sent = 0 /\ j.tries < EjAttempts
        /\ delivered[m] <= 1 + doubts[m]
    BY <1>1, <1>2, <1>6, MailTyped DEF EJ!SentOnce
  <1> HIDE DEF new, j
  <1>8. MailWrites(w, m, new, j, log[m], delivered[m], doubts[m])
    BY <1>1, <1>5 DEF MailWrites
  <1>9. MailFits(m, new, j, log[m], delivered[m], doubts[m])
    BY <1>2, <1>3, <1>7, MailTyped DEF MailFits
  <1>10. Alone(w, m)
    BY <1>4 DEF Alone
  <1> QED
    BY <1>8, <1>9, <1>10, MailMoves

\* What is known of the mail a worker has.
LEMMA MailServed ==
    ASSUME EJ!MailsInv, NEW w \in Workers, ejSlot[w].pc \in {"sending", "logging", "failing"}
    PROVE  LET m == ejSlot[w].mail
           IN  /\ m \in Mails /\ ejSlot[w] \in EJ!Sendings
               /\ \A v \in Workers : EJ!Serving(v, m) => v = w
               /\ \A k \in Mails : EJ!Serving(w, k) => k = m
               /\ ejJob[m].state = "active" /\ ejJob[m].tries < EjAttempts /\ log[m].sent = 0
               /\ IF ejSlot[w].pc = "logging" THEN delivered[m] > 0 ELSE delivered[m] <= doubts[m]
               /\ delivered[m] <= 1 + doubts[m]
  <1> DEFINE m == ejSlot[w].mail
  <1>1. /\ m \in Mails /\ ejJob[m].state = "active" /\ ejSlot[w] \in EJ!Sendings
        /\ \A v \in Workers : EJ!Serving(v, m) => v = w
    BY WorkerMail
  <1>2. \A k \in Mails : EJ!Serving(w, k) => k = m
    BY DEF EJ!Serving
  <1>3. EJ!Logging(m) <=> ejSlot[w].pc = "logging"
    <2>1. \A v \in Workers : ejSlot[v].pc = "logging" /\ ejSlot[v].mail = m => v = w
      BY <1>1 DEF EJ!Serving, EJ!MailsInv, EJ!Idle
    <2> QED
      BY <2>1 DEF EJ!Logging
  <1>4. EJ!SentOnce(m)
    BY <1>1, MailTyped
  <1> HIDE DEF m
  <1>5. /\ ejJob[m].tries < EjAttempts /\ log[m].sent = 0
        /\ IF ejSlot[w].pc = "logging" THEN delivered[m] > 0 ELSE delivered[m] <= doubts[m]
        /\ delivered[m] <= 1 + doubts[m]
    BY <1>1, <1>3, <1>4 DEF EJ!SentOnce
  <1> QED
    BY <1>1, <1>2, <1>5 DEF m

\* A worker goes on to log, or to fail; the mail server may have taken the mail.
LEMMA MailTried ==
    ASSUME EJ!MailsInv, NEW w \in Workers,
           EJ!Delivered(w) \/ EJ!NotDelivered(w) \/ EJ!AnswerLost(w) \/ EJ!LogSentFails(w)
    PROVE  EJ!MailsInv'
  <1> DEFINE m == ejSlot[w].mail
  <1> DEFINE new(pc) == [pc |-> pc, mail |-> m]
  <1>1. ejSlot[w].pc \in {"sending", "logging", "failing"}
    BY DEF EJ!Delivered, EJ!NotDelivered, EJ!AnswerLost, EJ!LogSentFails
  <1>2. /\ m \in Mails
        /\ Alone(w, m)
        /\ ejJob[m].state = "active" /\ ejJob[m].tries < EjAttempts /\ log[m].sent = 0
        /\ IF ejSlot[w].pc = "logging" THEN delivered[m] > 0 ELSE delivered[m] <= doubts[m]
        /\ delivered[m] <= 1 + doubts[m]
        /\ ejSlot[w] \in EJ!Sendings
    BY <1>1, MailServed DEF Alone
  <1>3. /\ ejJob[m] \in [state : {"none", "waiting", "active", "completed", "failed"}, tries : Nat]
        /\ log[m] \in [sent : Nat, failed : Nat]
        /\ delivered[m] \in Nat /\ doubts[m] \in Nat
    BY <1>2, MailTyped
  <1>4. /\ ejJob' = [ejJob EXCEPT ![m] = ejJob[m]] /\ log' = [log EXCEPT ![m] = log[m]]
    BY <1>2 DEF EJ!Delivered, EJ!NotDelivered, EJ!AnswerLost, EJ!LogSentFails, EJ!MailsInv
  <1>5. ASSUME NEW pc \in {"logging", "failing"}, ejSlot' = [ejSlot EXCEPT ![w].pc = pc],
               NEW n \in {delivered[m], delivered[m] + 1}, NEW d \in {doubts[m], doubts[m] + 1},
               delivered' = [delivered EXCEPT ![m] = n], doubts' = [doubts EXCEPT ![m] = d],
               IF pc = "logging" THEN n > 0 ELSE n <= d, n <= 1 + d
        PROVE  EJ!MailsInv'
    <2>1. ejSlot' = [ejSlot EXCEPT ![w] = new(pc)]
      <3>1. [ejSlot[w] EXCEPT !.pc = pc] = new(pc)
        BY <1>2 DEF EJ!Sendings
      <3> HIDE DEF new
      <3> QED
        BY <1>5, <3>1
    <2>2. /\ new(pc) \in EJ!Sendings /\ new(pc).mail = m /\ new(pc).pc = pc /\ new(pc) # EJ!Idle
      BY <1>2, <1>5 DEF EJ!Sendings, EJ!Idle
    <2>3. n \in Nat /\ d \in Nat
      BY <1>3, <1>5
    <2> HIDE DEF new, m
    <2>4. MailWrites(w, m, new(pc), ejJob[m], log[m], n, d)
      BY <1>4, <1>5, <2>1 DEF MailWrites
    <2>5. MailFits(m, new(pc), ejJob[m], log[m], n, d)
      BY <1>2, <1>3, <1>5, <2>2, <2>3 DEF MailFits
    <2> QED
      BY <1>2, <2>4, <2>5, MailMoves
  <1>6. CASE EJ!Delivered(w)
    <2>1. /\ ejSlot' = [ejSlot EXCEPT ![w].pc = "logging"]
          /\ delivered' = [delivered EXCEPT ![m] = delivered[m] + 1]
          /\ doubts' = [doubts EXCEPT ![m] = doubts[m]] /\ ejSlot[w].pc = "sending"
      BY <1>6 DEF EJ!Delivered, EJ!Goto, EJ!MailsInv
    <2> QED
      BY <1>2, <1>3, <1>5, <2>1
  <1>7. CASE EJ!NotDelivered(w)
    <2>1. /\ ejSlot' = [ejSlot EXCEPT ![w].pc = "failing"]
          /\ delivered' = [delivered EXCEPT ![m] = delivered[m]]
          /\ doubts' = [doubts EXCEPT ![m] = doubts[m]] /\ ejSlot[w].pc = "sending"
      BY <1>7 DEF EJ!NotDelivered, EJ!Goto, EJ!MailsInv
    <2> QED
      BY <1>2, <1>3, <1>5, <2>1
  <1>8. CASE EJ!AnswerLost(w)
    <2>1. /\ ejSlot' = [ejSlot EXCEPT ![w].pc = "failing"]
          /\ delivered' = [delivered EXCEPT ![m] = delivered[m] + 1]
          /\ doubts' = [doubts EXCEPT ![m] = doubts[m] + 1] /\ ejSlot[w].pc = "sending"
      BY <1>8 DEF EJ!AnswerLost, EJ!Goto, EJ!MailsInv
    <2> QED
      BY <1>2, <1>3, <1>5, <2>1
  <1>9. CASE EJ!LogSentFails(w)
    <2>1. /\ ejSlot' = [ejSlot EXCEPT ![w].pc = "failing"]
          /\ delivered' = [delivered EXCEPT ![m] = delivered[m]]
          /\ doubts' = [doubts EXCEPT ![m] = doubts[m] + 1] /\ ejSlot[w].pc = "logging"
      BY <1>9 DEF EJ!LogSentFails, EJ!Goto, EJ!MailsInv
    <2> QED
      BY <1>2, <1>3, <1>5, <2>1
  <1> QED
    BY <1>6, <1>7, <1>8, <1>9

\* A worker is done with its mail: it was logged, it failed, or the worker died.
LEMMA MailLeft ==
    ASSUME EjAttempts \in Nat \ {0}, EJ!MailsInv, NEW w \in Workers,
           EJ!LogSent(w) \/ EJ!LogFailed(w) \/ EJ!Die(w)
    PROVE  EJ!MailsInv'
  <1> DEFINE m == ejSlot[w].mail
  <1>1. ejSlot[w].pc \in {"sending", "logging", "failing"}
    BY DEF EJ!LogSent, EJ!LogFailed, EJ!Die, EJ!MailsInv, EJ!Sendings
  <1>2. /\ m \in Mails
        /\ Alone(w, m)
        /\ ejJob[m].state = "active" /\ ejJob[m].tries < EjAttempts /\ log[m].sent = 0
        /\ IF ejSlot[w].pc = "logging" THEN delivered[m] > 0 ELSE delivered[m] <= doubts[m]
        /\ delivered[m] <= 1 + doubts[m]
    BY <1>1, MailServed DEF Alone
  <1>3. /\ ejJob[m] \in [state : {"none", "waiting", "active", "completed", "failed"}, tries : Nat]
        /\ log[m] \in [sent : Nat, failed : Nat]
        /\ delivered[m] \in Nat /\ doubts[m] \in Nat
    BY <1>2, MailTyped
  <1>4. ejSlot' = [ejSlot EXCEPT ![w] = EJ!Idle] /\ delivered' = [delivered EXCEPT ![m] = delivered[m]]
    BY DEF EJ!LogSent, EJ!LogFailed, EJ!Die, EJ!MailsInv
  <1>5. CASE EJ!LogSent(w)
    <2> DEFINE j == [ejJob[m] EXCEPT !.state = "completed"]
    <2> DEFINE l == [log[m] EXCEPT !.sent = log[m].sent + 1]
    <2>1. /\ ejJob' = [ejJob EXCEPT ![m] = j] /\ log' = [log EXCEPT ![m] = l]
          /\ doubts' = [doubts EXCEPT ![m] = doubts[m]] /\ ejSlot[w].pc = "logging"
      BY <1>5 DEF EJ!LogSent, EJ!MailsInv
    <2>2. /\ j \in [state : {"none", "waiting", "active", "completed", "failed"}, tries : Nat]
          /\ l \in [sent : Nat, failed : Nat] /\ j.state = "completed" /\ l.sent = 1
      BY <1>2, <1>3
    <2> HIDE DEF j, l, m
    <2>3. MailWrites(w, m, EJ!Idle, j, l, delivered[m], doubts[m])
      BY <1>4, <2>1 DEF MailWrites
    <2>4. MailFits(m, EJ!Idle, j, l, delivered[m], doubts[m])
      BY <1>2, <1>3, <2>1, <2>2 DEF MailFits
    <2> QED
      BY <1>2, <2>3, <2>4, MailMoves
  <1>6. CASE EJ!LogFailed(w)
    <2> DEFINE j == EJ!Thrown(ejJob[m])
    <2>1. /\ ejJob' = [ejJob EXCEPT ![m] = j]
          /\ doubts' = [doubts EXCEPT ![m] = doubts[m]] /\ ejSlot[w].pc = "failing"
          /\ \/ log' = [log EXCEPT ![m] = log[m]]
             \/ log' = [log EXCEPT ![m] = [log[m] EXCEPT !.failed = log[m].failed + 1]]
      BY <1>6 DEF EJ!LogFailed, EJ!MailsInv
    <2>2. PICK l : /\ log' = [log EXCEPT ![m] = l]
                   /\ l = log[m] \/ l = [log[m] EXCEPT !.failed = log[m].failed + 1]
      BY <2>1
    <2>3. l \in [sent : Nat, failed : Nat] /\ l.sent = 0
      BY <1>2, <1>3, <2>2
    <2>4. /\ j \in [state : {"none", "waiting", "active", "completed", "failed"}, tries : Nat]
          /\ j.state \in {"waiting", "failed"}
          /\ IF j.state = "failed" THEN j.tries = EjAttempts ELSE j.tries < EjAttempts
      BY <1>2, <1>3 DEF EJ!Thrown
    <2> HIDE DEF j, m
    <2>5. MailWrites(w, m, EJ!Idle, j, l, delivered[m], doubts[m])
      BY <1>4, <2>1, <2>2 DEF MailWrites
    <2>6. MailFits(m, EJ!Idle, j, l, delivered[m], doubts[m])
      BY <1>2, <1>3, <2>1, <2>3, <2>4 DEF MailFits
    <2> QED
      BY <1>2, <2>5, <2>6, MailMoves
  <1>7. CASE EJ!Die(w)
    <2> DEFINE j == [ejJob[m] EXCEPT !.state = "waiting"]
    <2> DEFINE d == IF ejSlot[w].pc = "logging" THEN doubts[m] + 1 ELSE doubts[m]
    <2>1. /\ ejJob' = [ejJob EXCEPT ![m] = j] /\ log' = [log EXCEPT ![m] = log[m]]
          /\ doubts' = [doubts EXCEPT ![m] = d]
      BY <1>7 DEF EJ!Die, EJ!MailsInv
    <2>2. /\ j \in [state : {"none", "waiting", "active", "completed", "failed"}, tries : Nat]
          /\ j.state = "waiting" /\ j.tries = ejJob[m].tries
      BY <1>3
    <2>3. d \in Nat /\ delivered[m] <= d /\ delivered[m] <= 1 + d
      BY <1>2, <1>3
    <2> HIDE DEF j, d, m
    <2>4. MailWrites(w, m, EJ!Idle, j, log[m], delivered[m], d)
      BY <1>4, <2>1 DEF MailWrites
    <2>5. MailFits(m, EJ!Idle, j, log[m], delivered[m], d)
      BY <1>2, <1>3, <2>2, <2>3 DEF MailFits
    <2> QED
      BY <1>2, <2>4, <2>5, MailMoves
  <1> QED
    BY <1>5, <1>6, <1>7

LEMMA MailsStep ==
    ASSUME EjAttempts \in Nat \ {0}, EJ!MailsInv, [EJ!Next]_(EJ!vars) PROVE EJ!MailsInv'
  <1>1. CASE UNCHANGED EJ!vars
    BY <1>1 DEF EJ!vars, EJ!MailsInv, EJ!Serving, EJ!SentOnce, EJ!Logging
  <1> QED
    BY <1>1, MailAsked, MailTaken, MailTried, MailLeft DEF EJ!Next

LEMMA MailsHold == ASSUME EJ!MailsInv PROVE EJ!MailedOnce
  <1> SUFFICES ASSUME NEW m \in Mails
               PROVE  /\ delivered[m] <= 1 + doubts[m]
                      /\ log[m].sent <= delivered[m]
                      /\ ejJob[m].state = "completed" <=> log[m].sent = 1
                      /\ ejJob[m].state = "failed" =>
                           ejJob[m].tries = EjAttempts /\ delivered[m] <= doubts[m]
    BY DEF EJ!MailedOnce
  <1>1. ejJob[m].state = "failed" => ~EJ!Logging(m)
    BY DEF EJ!Logging, EJ!MailsInv, EJ!Idle
  <1> QED
    BY <1>1, MailTyped DEF EJ!SentOnce

-----------------------------------------------------------------------------
(* Webhooks.                                                               *)

LEMMA ReasonsSame ==
    /\ \A S : WD!Cardinality(S) = Cardinality(S)
    /\ \A S : WD!IsFiniteSet(S) <=> IsFiniteSet(S)
  BY DEF WD!Cardinality, Cardinality, WD!IsFiniteSet, IsFiniteSet

\* T is finite, and has at most n members more than S.
Within(T, S, n) == IsFiniteSet(T) /\ Cardinality(T) <= Cardinality(S) + n

LEMMA NoMore == ASSUME NEW S, IsFiniteSet(S), NEW T \in SUBSET S PROVE Within(T, S, 0)
  <1>1. IsFiniteSet(T) /\ Cardinality(T) <= Cardinality(S) /\ Cardinality(S) \in Nat /\ Cardinality(T) \in Nat
    BY FS_Subset, FS_CardinalityType
  <1> QED
    BY <1>1 DEF Within

LEMMA OneMore == ASSUME NEW S, IsFiniteSet(S), NEW x, NEW T \in SUBSET (S \cup {x}) PROVE Within(T, S, 1)
  <1>1. IsFiniteSet(S \cup {x}) /\ Cardinality(S \cup {x}) <= Cardinality(S) + 1
    <2>1. /\ IsFiniteSet(S \cup {x})
          /\ Cardinality(S \cup {x}) = IF x \in S THEN Cardinality(S) ELSE Cardinality(S) + 1
      BY FS_AddElement
    <2>2. Cardinality(S) \in Nat
      BY FS_CardinalityType
    <2> QED
      BY <2>1, <2>2
  <1>2. IsFiniteSet(T) /\ Cardinality(T) <= Cardinality(S \cup {x})
    BY <1>1, FS_Subset
  <1>3. Cardinality(S) \in Nat /\ Cardinality(T) \in Nat /\ Cardinality(S \cup {x}) \in Nat
    BY <1>1, <1>2, FS_CardinalityType
  <1> QED
    BY <1>1, <1>2, <1>3 DEF Within

LEMMA OneLess == ASSUME NEW S, IsFiniteSet(S), NEW x \in S, NEW T \in SUBSET (S \ {x}) PROVE Within(T, S, -1)
  <1>1. IsFiniteSet(S \ {x}) /\ Cardinality(S \ {x}) = Cardinality(S) - 1
    BY FS_RemoveElement
  <1>2. IsFiniteSet(T) /\ Cardinality(T) <= Cardinality(S \ {x})
    BY <1>1, FS_Subset
  <1>3. Cardinality(S) \in Nat /\ Cardinality(T) \in Nat /\ Cardinality(S \ {x}) \in Nat
    BY <1>1, <1>2, FS_CardinalityType
  <1> QED
    BY <1>1, <1>2, <1>3 DEF Within

\* The reasons of d still cover its surplus when what comes and goes does.
LEMMA ReasonsCover ==
    ASSUME NEW d \in Deliveries, WD!ReasonsLeft(d), surplus[d] \in Int, surplus'[d] \in Int,
           NEW o \in -1 .. 1, NEW a \in -1 .. 1,
           Within(WD!Open(d)', WD!Open(d), o), Within(WD!Adding(d)', WD!Adding(d), a),
           \/ surplus'[d] + o + a <= surplus[d] /\ (delivery[d] # WD!NoRow => delivery'[d] # WD!NoRow)
           \/ surplus'[d] + o + a <= surplus[d] + 1 /\ delivery[d] = WD!NoRow /\ delivery'[d] # WD!NoRow
    PROVE  WD!ReasonsLeft(d)'
  <1>1. /\ IsFiniteSet(WD!Open(d)) /\ IsFiniteSet(WD!Adding(d))
        /\ surplus[d] + Cardinality(WD!Open(d)) + Cardinality(WD!Adding(d))
             <= IF delivery[d] = WD!NoRow THEN 0 ELSE 1
    BY ReasonsSame DEF WD!ReasonsLeft
  <1> DEFINE o1 == Cardinality(WD!Open(d))  a1 == Cardinality(WD!Adding(d))
             o2 == Cardinality(WD!Open(d)')  a2 == Cardinality(WD!Adding(d)')
  <1>2. o1 \in Nat /\ a1 \in Nat /\ o2 \in Nat /\ a2 \in Nat
    BY <1>1, FS_CardinalityType DEF Within
  <1>3. o2 <= o1 + o /\ a2 <= a1 + a /\ IsFiniteSet(WD!Open(d)') /\ IsFiniteSet(WD!Adding(d)')
    BY DEF Within
  <1>4. surplus[d] + o1 + a1 <= IF delivery[d] = WD!NoRow THEN 0 ELSE 1
    BY <1>1
  <1> HIDE DEF o1, a1, o2, a2
  <1>5. surplus'[d] + o2 + a2 <= IF delivery'[d] = WD!NoRow THEN 0 ELSE 1
    BY <1>2, <1>3, <1>4
  <1>6. WD!Cardinality(WD!Open(d)') = o2 /\ WD!Cardinality(WD!Adding(d)') = a2
    BY ReasonsSame DEF o2, a2
  <1> QED
    BY <1>3, <1>5, <1>6, ReasonsSame DEF WD!ReasonsLeft

-----------------------------------------------------------------------------
\* What a slot may be at, and whether that is a job, and one whose POST was answered.
Slotted == WD!Enqueuings \cup WD!Retryings \cup WD!Runs \cup WD!Edits \cup WD!Records \cup {WD!Idle}
Runner(r) == r # WD!Idle /\ "j" \in DOMAIN r
Done(r) == r.pc \in {"delivered", "resetting", "ending"} \/ (r.pc = "saving" /\ r.then = "ending")
JobRows == [state : {"waiting", "active"}, d : Deliveries, made : Nat]

LEMMA Kinds ==
    /\ \A r \in WD!Runs \cup WD!Records : Runner(r) /\ r.j \in WdJobs
    /\ \A r \in WD!Enqueuings \cup WD!Retryings \cup WD!Edits \cup {WD!Idle} : ~Runner(r)
  BY DEF WD!Runs, WD!Records, WD!Enqueuings, WD!Retryings, WD!Edits, WD!Idle, Runner

LEMMA WorkingRuns ==
    /\ \A w : WD!Working(w) <=> Runner(wdSlot[w])
    /\ \A w : WD!Answered(w) <=> Done(wdSlot[w])
    /\ \A w : WD!Working(w)' <=> Runner(wdSlot'[w])
    /\ \A w : WD!Answered(w)' <=> Done(wdSlot'[w])
  BY DEF WD!Working, WD!Answered, Runner, Done, WD!At

LEMMA DeliveryTyped ==
    ASSUME WD!DeliveryInv
    PROVE  /\ wdSlot \in [Workers -> Slotted] /\ queue \in [WdJobs -> JobRows \cup {WD!NoJob}]
           /\ delivery \in [Deliveries -> WD!Delivery \cup {WD!NoRow, WD!Deleted}]
           /\ surplus \in [Deliveries -> Int] /\ streak \in Nat /\ endpoint \in WD!Endpoint \cup {WD!Gone}
           /\ \A d \in Deliveries : surplus[d] \in Int /\ WD!ReasonsLeft(d)
           /\ WD!RowsMade /\ WD!OneWorker /\ WD!CountsTrue
  BY DEF WD!DeliveryInv, Slotted, JobRows

\* No other worker runs one of the jobs J.
Mine(w, J) == \A v \in Workers \ {w} : Runner(wdSlot[v]) => wdSlot[v].j \notin J

\* Slot w goes on to new and jobs of J change, which no other slot is at.
JobsMove(w, new, J) ==
    /\ wdSlot' = [wdSlot EXCEPT ![w] = new] /\ new \in Slotted
    /\ queue' \in [WdJobs -> JobRows \cup {WD!NoJob}] /\ \A k \in WdJobs \ J : queue'[k] = queue[k]
    /\ Mine(w, J)
    /\ Runner(wdSlot[w]) => wdSlot[w].j \in J
    /\ Runner(new) => new.j \in J /\ queue'[new.j] # WD!NoJob /\ queue'[new.j].state = "active"

\* What is at work has a row.
RowsFit(new, J) ==
    /\ \A d \in Deliveries : delivery[d] # WD!NoRow => delivery'[d] # WD!NoRow
    /\ \A k \in J : queue'[k] # WD!NoJob => delivery'[queue'[k].d] # WD!NoRow
    /\ new \in WD!Enqueuings \cup WD!Retryings => delivery'[new.d] # WD!NoRow
    /\ new \in WD!Retryings => new.copy.status # "success"

LEMMA SlotsMove ==
    ASSUME WD!DeliveryInv, NEW w \in Workers, NEW new, NEW J \in SUBSET WdJobs, JobsMove(w, new, J)
    PROVE  /\ wdSlot' \in [Workers -> Slotted] /\ wdSlot'[w] = new
           /\ \A v \in Workers \ {w} : wdSlot'[v] = wdSlot[v]
  BY DeliveryTyped DEF JobsMove

LEMMA WorkersMove ==
    ASSUME WD!DeliveryInv, NEW w \in Workers, NEW new, NEW J \in SUBSET WdJobs, JobsMove(w, new, J)
    PROVE  WD!OneWorker'
  <1>1. /\ wdSlot'[w] = new /\ \A v \in Workers \ {w} : wdSlot'[v] = wdSlot[v]
    BY SlotsMove
  <1>2. /\ \A v \in Workers : Runner(wdSlot[v]) =>
             wdSlot[v].j \in WdJobs /\ queue[wdSlot[v].j] # WD!NoJob /\ queue[wdSlot[v].j].state = "active"
        /\ \A v, u \in Workers : Runner(wdSlot[v]) /\ Runner(wdSlot[u]) /\ wdSlot[v].j = wdSlot[u].j => v = u
    BY DeliveryTyped, Kinds, WorkingRuns DEF WD!OneWorker, Slotted
  <1>3. ASSUME NEW v \in Workers, Runner(wdSlot'[v])
        PROVE  queue'[wdSlot'[v].j] # WD!NoJob /\ queue'[wdSlot'[v].j].state = "active"
    <2>1. CASE v = w
      BY <1>1, <1>3, <2>1 DEF JobsMove
    <2>2. CASE v # w
      BY <1>1, <1>2, <1>3, <2>2 DEF JobsMove, Mine
    <2> QED
      BY <2>1, <2>2
  <1>4. ASSUME NEW v \in Workers, NEW u \in Workers, Runner(wdSlot'[v]), Runner(wdSlot'[u]),
               wdSlot'[v].j = wdSlot'[u].j
        PROVE  v = u
    BY <1>1, <1>2, <1>4 DEF JobsMove, Mine
  <1> QED
    BY <1>3, <1>4, WorkingRuns DEF WD!OneWorker

LEMMA RowsStay ==
    ASSUME WD!DeliveryInv, NEW w \in Workers, NEW new, NEW J \in SUBSET WdJobs, JobsMove(w, new, J), RowsFit(new, J)
    PROVE  WD!RowsMade'
  <1>1. /\ wdSlot'[w] = new /\ \A v \in Workers \ {w} : wdSlot'[v] = wdSlot[v]
    BY SlotsMove
  <1>2. ASSUME NEW k \in WdJobs, queue'[k] # WD!NoJob PROVE delivery'[queue'[k].d] # WD!NoRow
    <2>1. CASE k \in J
      BY <1>2, <2>1 DEF RowsFit
    <2>2. CASE k \notin J
      <3>1. queue'[k] = queue[k] /\ queue[k] \in JobRows /\ delivery[queue[k].d] # WD!NoRow
        BY <1>2, <2>2, DeliveryTyped DEF JobsMove, WD!RowsMade
      <3> QED
        BY <3>1 DEF RowsFit, JobRows
    <2> QED
      BY <2>1, <2>2
  <1>3. ASSUME NEW v \in Workers
        PROVE  /\ wdSlot'[v] \in WD!Enqueuings \cup WD!Retryings => delivery'[wdSlot'[v].d] # WD!NoRow
               /\ wdSlot'[v] \in WD!Retryings => wdSlot'[v].copy.status # "success"
    <2>1. CASE v = w
      BY <1>1, <2>1 DEF RowsFit
    <2>2. CASE v # w
      <3>1. /\ wdSlot[v] \in WD!Enqueuings \cup WD!Retryings =>
                 wdSlot[v].d \in Deliveries /\ delivery[wdSlot[v].d] # WD!NoRow
            /\ wdSlot[v] \in WD!Retryings => wdSlot[v].copy.status # "success"
        BY DeliveryTyped DEF WD!RowsMade, WD!Enqueuings, WD!Retryings
      <3> QED
        BY <1>1, <2>2, <3>1 DEF RowsFit
    <2> QED
      BY <2>1, <2>2
  <1> QED
    BY <1>2, <1>3 DEF WD!RowsMade

\* The jobs of J, and the slot w, are all that opens or closes.
LEMMA OpenMoves ==
    ASSUME WD!DeliveryInv, NEW w \in Workers, NEW new, NEW J \in SUBSET WdJobs, JobsMove(w, new, J)
    PROVE  /\ \A d \in Deliveries : WD!Open(d)' \subseteq WD!Open(d) \cup J
           /\ \A d \in Deliveries, k \in J :
                /\ k \in WD!Open(d) <=>
                     queue[k] # WD!NoJob /\ queue[k].d = d /\ (Runner(wdSlot[w]) /\ wdSlot[w].j = k => ~Done(wdSlot[w]))
                /\ k \in WD!Open(d)' <=>
                     queue'[k] # WD!NoJob /\ queue'[k].d = d /\ (Runner(new) /\ new.j = k => ~Done(new))
  <1>1. /\ wdSlot'[w] = new /\ \A v \in Workers \ {w} : wdSlot'[v] = wdSlot[v]
    BY SlotsMove
  <1>2. ASSUME NEW d \in Deliveries, NEW k \in WdJobs
        PROVE  /\ k \in WD!Open(d) <=>
                    /\ queue[k] # WD!NoJob /\ queue[k].d = d
                    /\ \A v \in Workers : Runner(wdSlot[v]) /\ wdSlot[v].j = k => ~Done(wdSlot[v])
               /\ k \in WD!Open(d)' <=>
                    /\ queue'[k] # WD!NoJob /\ queue'[k].d = d
                    /\ \A v \in Workers : Runner(wdSlot'[v]) /\ wdSlot'[v].j = k => ~Done(wdSlot'[v])
    BY WorkingRuns DEF WD!Open
  <1>3. \A d \in Deliveries, k \in WdJobs \ J : k \in WD!Open(d)' => k \in WD!Open(d)
    BY <1>1, <1>2 DEF JobsMove
  <1>4. \A d \in Deliveries : WD!Open(d)' \subseteq WdJobs
    BY DEF WD!Open
  <1>5. ASSUME NEW d \in Deliveries, NEW k \in J
        PROVE  /\ k \in WD!Open(d) <=>
                     queue[k] # WD!NoJob /\ queue[k].d = d /\ (Runner(wdSlot[w]) /\ wdSlot[w].j = k => ~Done(wdSlot[w]))
               /\ k \in WD!Open(d)' <=>
                     queue'[k] # WD!NoJob /\ queue'[k].d = d /\ (Runner(new) /\ new.j = k => ~Done(new))
    BY <1>1, <1>2 DEF JobsMove, Mine
  <1> QED
    BY <1>3, <1>4, <1>5

LEMMA AddingMoves ==
    ASSUME WD!DeliveryInv, NEW w \in Workers, NEW new, NEW J \in SUBSET WdJobs, JobsMove(w, new, J)
    PROVE  \A d \in Deliveries :
             /\ WD!Adding(d)' \subseteq WD!Adding(d) \cup {w}
             /\ w \in WD!Adding(d) <=> wdSlot[w].pc = "enqueuing" /\ wdSlot[w].d = d
             /\ w \in WD!Adding(d)' <=> new.pc = "enqueuing" /\ new.d = d
  <1>1. /\ wdSlot'[w] = new /\ \A v \in Workers \ {w} : wdSlot'[v] = wdSlot[v]
    BY SlotsMove
  <1> QED
    BY <1>1 DEF WD!Adding, WD!At

\* How many jobs are open, and calls adding, after one job or none.
LEMMA OpenWithin ==
    ASSUME WD!DeliveryInv, NEW w \in Workers, NEW new, NEW j \in WdJobs, JobsMove(w, new, {j}),
           NEW d \in Deliveries
    PROVE  /\ (j \in WD!Open(d)' => j \in WD!Open(d)) => Within(WD!Open(d)', WD!Open(d), 0)
           /\ Within(WD!Open(d)', WD!Open(d), 1)
           /\ j \in WD!Open(d) /\ j \notin WD!Open(d)' => Within(WD!Open(d)', WD!Open(d), -1)
  <1>1. WD!Open(d)' \subseteq WD!Open(d) \cup {j}
    BY OpenMoves
  <1>2. IsFiniteSet(WD!Open(d))
    BY DeliveryTyped, ReasonsSame DEF WD!ReasonsLeft
  <1> DEFINE before == WD!Open(d)  after == WD!Open(d)'
  <1>3. after \subseteq before \cup {j} /\ IsFiniteSet(before)
    BY <1>1, <1>2
  <1> HIDE DEF before, after
  <1>4. /\ (j \in after => j \in before) => Within(after, before, 0)
        /\ Within(after, before, 1)
        /\ j \in before /\ j \notin after => Within(after, before, -1)
    <2>1. (j \in after => j \in before) => after \in SUBSET before
      BY <1>3
    <2>2. after \in SUBSET (before \cup {j}) /\ (j \notin after => after \in SUBSET (before \ {j}))
      BY <1>3
    <2> QED
      BY <1>3, <2>1, <2>2, NoMore, OneMore, OneLess
  <1> QED
    BY <1>4 DEF before, after

LEMMA OpenStays ==
    ASSUME WD!DeliveryInv, NEW w \in Workers, NEW new, JobsMove(w, new, {}), NEW d \in Deliveries
    PROVE  Within(WD!Open(d)', WD!Open(d), 0)
  <1>1. WD!Open(d)' \in SUBSET WD!Open(d)
    BY OpenMoves
  <1>2. IsFiniteSet(WD!Open(d))
    BY DeliveryTyped, ReasonsSame DEF WD!ReasonsLeft
  <1> QED
    BY <1>1, <1>2, NoMore

LEMMA AddingWithin ==
    ASSUME WD!DeliveryInv, NEW w \in Workers, NEW new, NEW J \in SUBSET WdJobs, JobsMove(w, new, J),
           NEW d \in Deliveries
    PROVE  /\ ~(new.pc = "enqueuing" /\ new.d = d) => Within(WD!Adding(d)', WD!Adding(d), 0)
           /\ Within(WD!Adding(d)', WD!Adding(d), 1)
           /\ wdSlot[w].pc = "enqueuing" /\ wdSlot[w].d = d /\ new.pc # "enqueuing" =>
                Within(WD!Adding(d)', WD!Adding(d), -1)
  <1>1. /\ WD!Adding(d)' \subseteq WD!Adding(d) \cup {w}
        /\ w \in WD!Adding(d) <=> wdSlot[w].pc = "enqueuing" /\ wdSlot[w].d = d
        /\ w \in WD!Adding(d)' <=> new.pc = "enqueuing" /\ new.d = d
    BY AddingMoves
  <1>2. IsFiniteSet(WD!Adding(d))
    BY DeliveryTyped, ReasonsSame DEF WD!ReasonsLeft
  <1> DEFINE before == WD!Adding(d)  after == WD!Adding(d)'
  <1>3. /\ after \subseteq before \cup {w} /\ IsFiniteSet(before)
        /\ ~(new.pc = "enqueuing" /\ new.d = d) => w \notin after
        /\ wdSlot[w].pc = "enqueuing" /\ wdSlot[w].d = d => w \in before
    BY <1>1, <1>2
  <1> HIDE DEF before, after
  <1>4. /\ w \notin after => Within(after, before, 0)
        /\ Within(after, before, 1)
        /\ w \in before /\ w \notin after => Within(after, before, -1)
    <2>1. after \in SUBSET (before \cup {w})
      BY <1>3
    <2>2. w \notin after => after \in SUBSET before /\ after \in SUBSET (before \ {w})
      BY <1>3
    <2> QED
      BY <1>3, <2>1, <2>2, NoMore, OneMore, OneLess
  <1> QED
    BY <1>3, <1>4 DEF before, after

\* A copy counts from the row it was read from, and the count is of failures in a row.
Counts(new) ==
    /\ new.pc = "saving" => WD!CopyTrue(new)
    /\ endpoint'.gone \/ wdOverwritten' \/ endpoint'.failures <= streak'

LEMMA CountsMove ==
    ASSUME WD!DeliveryInv, NEW w \in Workers, NEW new, NEW J \in SUBSET WdJobs, JobsMove(w, new, J), Counts(new)
    PROVE  WD!CountsTrue'
  <1>1. /\ wdSlot'[w] = new /\ \A v \in Workers \ {w} : wdSlot'[v] = wdSlot[v]
    BY SlotsMove
  <1>2. ASSUME NEW v \in Workers, wdSlot'[v].pc = "saving" PROVE WD!CopyTrue(wdSlot[v])'
    <2>1. CASE v = w
      BY <1>1, <1>2, <2>1 DEF Counts, WD!CopyTrue, WD!Counted, WD!Disables, WD!CountFrom
    <2>2. CASE v # w
      BY <1>1, <1>2, <2>2, DeliveryTyped DEF WD!CountsTrue, WD!At, WD!CopyTrue, WD!Counted, WD!Disables, WD!CountFrom
    <2> QED
      BY <2>1, <2>2
  <1> QED
    BY <1>2 DEF Counts, WD!CountsTrue, WD!At

LEMMA DeliveryMoves ==
    ASSUME WD!DeliveryInv, NEW w \in Workers, NEW new, NEW J \in SUBSET WdJobs,
           JobsMove(w, new, J), RowsFit(new, J), Counts(new),
           endpoint' \in WD!Endpoint \cup {WD!Gone}, streak' \in Nat,
           delivery' \in [Deliveries -> WD!Delivery \cup {WD!NoRow, WD!Deleted}],
           surplus' \in [Deliveries -> Int], \A d \in Deliveries : WD!ReasonsLeft(d)'
    PROVE  WD!DeliveryInv'
  <1>1. wdSlot' \in [Workers -> Slotted] /\ queue' \in [WdJobs -> JobRows \cup {WD!NoJob}]
    BY SlotsMove DEF JobsMove
  <1>2. WD!OneWorker' /\ WD!RowsMade' /\ WD!CountsTrue'
    BY WorkersMove, RowsStay, CountsMove
  <1> QED
    BY <1>1, <1>2 DEF WD!DeliveryInv, Slotted, JobRows

LEMMA StepKinds ==
    ASSUME WD!DeliveryInv, NEW w \in Workers
    PROVE  /\ wdSlot[w].pc = "idle" => wdSlot[w] = WD!Idle
           /\ wdSlot[w].pc = "enqueuing" => wdSlot[w] \in WD!Enqueuings
           /\ wdSlot[w].pc = "retrying" => wdSlot[w] \in WD!Retryings
           /\ wdSlot[w].pc \in {"posting", "delivered", "resetting", "failing", "marking", "ending"} =>
                wdSlot[w] \in WD!Runs
           /\ wdSlot[w].pc = "saving" =>
                IF wdSlot[w].then = "idle" THEN wdSlot[w] \in WD!Edits ELSE wdSlot[w] \in WD!Records
  <1>1. wdSlot[w] \in Slotted
    BY DeliveryTyped
  <1> QED
    BY <1>1 DEF Slotted, WD!Enqueuings, WD!Retryings, WD!Runs, WD!Edits, WD!Records, WD!Idle

\* The job a worker is at is its own.
LEMMA JobIsMine ==
    ASSUME WD!DeliveryInv, NEW w \in Workers, Runner(wdSlot[w])
    PROVE  /\ wdSlot[w].j \in WdJobs /\ Mine(w, {wdSlot[w].j})
           /\ queue[wdSlot[w].j] \in JobRows /\ queue[wdSlot[w].j] # WD!NoJob
           /\ queue[wdSlot[w].j].state = "active"
           /\ delivery[queue[wdSlot[w].j].d] # WD!NoRow
  <1>1. wdSlot[w] \in Slotted
    BY DeliveryTyped
  <1>2. wdSlot[w].j \in WdJobs
    BY <1>1, Kinds DEF Slotted
  <1>3. /\ Mine(w, {wdSlot[w].j}) /\ queue[wdSlot[w].j] # WD!NoJob
        /\ queue[wdSlot[w].j].state = "active"
    BY DeliveryTyped, WorkingRuns DEF WD!OneWorker, Mine
  <1> QED
    BY <1>2, <1>3, DeliveryTyped DEF WD!RowsMade

LEMMA EndpointEdits ==
    ASSUME NEW e \in WD!Endpoint
    PROVE  /\ WD!Reset(e) \in WD!Endpoint /\ WD!Reset(e).failures = 0
           /\ WD!Counted(e) \in WD!Endpoint
           /\ WD!Counted(e).failures = WD!CountFrom(e) /\ WD!CountFrom(e) \in Nat
           /\ WD!CountFrom(e) <= e.failures + 1
           /\ e.active /\ ~WD!Counted(e).active => WD!Disables(e)
  <1>1. /\ e.failures \in Nat /\ e.active \in BOOLEAN /\ WD!CountFrom(e) \in Nat
        /\ WD!CountFrom(e) <= e.failures + 1
    BY DEF WD!Endpoint, WD!CountFrom
  <1>2. WD!Reset(e) \in WD!Endpoint /\ WD!Reset(e).failures = 0
    BY DEF WD!Endpoint, WD!Reset
  <1> DEFINE n == WD!CountFrom(e)  on == e.active /\ ~WD!Disables(e)
  <1>3. WD!Counted(e) = [e EXCEPT !.failures = n, !.last = "recent", !.active = on]
    BY DEF WD!Counted
  <1>4. n \in Nat /\ on \in BOOLEAN
    BY <1>1
  <1>5. e.active /\ ~on => WD!Disables(e)
    OBVIOUS
  <1>6. n = WD!CountFrom(e)
    OBVIOUS
  <1> HIDE DEF n, on
  <1>7. /\ WD!Counted(e) \in WD!Endpoint /\ WD!Counted(e).failures = n /\ WD!Counted(e).active = on
    BY <1>3, <1>4 DEF WD!Endpoint
  <1> QED
    BY <1>1, <1>2, <1>5, <1>6, <1>7

\* The rows keep their type, and no delivery has more to answer for.
RowsHeld ==
    /\ endpoint' \in WD!Endpoint \cup {WD!Gone} /\ streak' \in Nat
    /\ delivery' \in [Deliveries -> WD!Delivery \cup {WD!NoRow, WD!Deleted}]
    /\ \A d \in Deliveries : delivery[d] # WD!NoRow => delivery'[d] # WD!NoRow
    /\ surplus' \in [Deliveries -> Int] /\ \A d \in Deliveries : surplus'[d] <= surplus[d]

LEMMA RowsUnchanged ==
    ASSUME WD!DeliveryInv, UNCHANGED <<endpoint, delivery, surplus, streak>> PROVE RowsHeld
  <1>1. \A d \in Deliveries : surplus[d] \in Int
    BY DeliveryTyped
  <1> QED
    BY <1>1, DeliveryTyped DEF RowsHeld

\* A request that touches no job and adds none.
LEMMA CallsMove ==
    ASSUME WD!DeliveryInv, NEW w \in Workers, NEW new,
           wdSlot' = [wdSlot EXCEPT ![w] = new], new \in Slotted,
           ~Runner(wdSlot[w]), ~Runner(new), new.pc # "enqueuing",
           new \in WD!Retryings => delivery[new.d] # WD!NoRow /\ new.copy.status # "success",
           Counts(new), queue' = queue, RowsHeld
    PROVE  WD!DeliveryInv'
  <1>1. JobsMove(w, new, {})
    BY DeliveryTyped DEF JobsMove, Mine
  <1>2. RowsFit(new, {})
    BY DEF RowsFit, RowsHeld, WD!Enqueuings, WD!Retryings
  <1>3. ASSUME NEW d \in Deliveries PROVE WD!ReasonsLeft(d)'
    <2>1. Within(WD!Open(d)', WD!Open(d), 0) /\ Within(WD!Adding(d)', WD!Adding(d), 0)
      BY <1>1, OpenStays, AddingWithin
    <2>2. surplus[d] \in Int /\ surplus'[d] \in Int /\ surplus'[d] + 0 + 0 <= surplus[d] /\ 0 \in -1 .. 1
      BY DeliveryTyped DEF RowsHeld
    <2>3. WD!ReasonsLeft(d) /\ (delivery[d] # WD!NoRow => delivery'[d] # WD!NoRow)
      BY DeliveryTyped DEF RowsHeld
    <2> QED
      BY <2>1, <2>2, <2>3, ReasonsCover
  <1> QED
    BY <1>1, <1>2, <1>3, DeliveryMoves DEF RowsHeld

LEMMA Registered == Init => WD!DeliveryInv
  <1> SUFFICES ASSUME WD!Init PROVE WD!DeliveryInv
    BY DEF Init
  <1>1. /\ endpoint \in WD!Endpoint \cup {WD!Gone} /\ endpoint.failures = 0 /\ streak = 0
        /\ delivery \in [Deliveries -> WD!Delivery \cup {WD!NoRow, WD!Deleted}]
        /\ queue \in [WdJobs -> JobRows \cup {WD!NoJob}] /\ wdSlot \in [Workers -> Slotted]
        /\ surplus \in [Deliveries -> Int]
    BY DEF WD!Init, WD!Endpoint, Slotted
  <1>2. /\ \A w \in Workers : wdSlot[w] = WD!Idle
        /\ \A j \in WdJobs : queue[j] = WD!NoJob
        /\ \A d \in Deliveries : delivery[d] = WD!NoRow /\ surplus[d] = 0
    BY DEF WD!Init
  <1>3. \A w \in Workers : ~WD!Working(w) /\ wdSlot[w].pc = "idle"
    BY <1>2 DEF WD!Working, WD!Idle
  <1>4. \A w \in Workers : wdSlot[w] \notin WD!Enqueuings \cup WD!Retryings
    BY <1>3 DEF WD!Enqueuings, WD!Retryings
  <1>5. WD!RowsMade /\ WD!OneWorker /\ WD!CountsTrue
    <2>1. WD!RowsMade
      BY <1>2, <1>4 DEF WD!RowsMade
    <2>2. WD!OneWorker
      BY <1>3 DEF WD!OneWorker
    <2>3. WD!CountsTrue
      BY <1>1, <1>3 DEF WD!CountsTrue, WD!At
    <2> QED
      BY <2>1, <2>2, <2>3
  <1>6. ASSUME NEW d \in Deliveries PROVE WD!ReasonsLeft(d)
    <2>1. WD!Open(d) = {} /\ WD!Adding(d) = {}
      <3>1. WD!Open(d) = {}
        BY <1>2 DEF WD!Open
      <3>2. WD!Adding(d) = {}
        BY <1>3 DEF WD!Adding, WD!At
      <3> QED
        BY <3>1, <3>2
    <2>2. WD!IsFiniteSet({}) /\ WD!Cardinality({}) = 0
      BY ReasonsSame, FS_EmptySet
    <2> QED
      BY <1>2, <2>1, <2>2 DEF WD!ReasonsLeft
  <1> QED
    BY <1>1, <1>5, <1>6 DEF WD!DeliveryInv, Slotted, JobRows

\* A call or a worker begins to edit the endpoint it has read.
LEMMA Edited ==
    ASSUME WD!DeliveryInv, NEW w \in Workers, wdSlot[w].pc = "idle", NEW copy \in WD!Endpoint,
           NEW why \in {"rotation", "reset", "update"}, endpoint \in WD!Endpoint,
           copy.failures = IF why = "reset" THEN 0 ELSE endpoint.failures,
           WD!StartEdit(w, copy, why)
    PROVE  WD!DeliveryInv'
  <1> DEFINE new == [pc |-> "saving", read |-> endpoint, copy |-> copy, why |-> why, then |-> "idle"]
  <1>1. /\ wdSlot' = [wdSlot EXCEPT ![w] = new]
        /\ UNCHANGED <<endpoint, delivery, queue, surplus, streak, wdOverwritten>>
    BY DEF WD!StartEdit, WD!Edit
  <1>2. /\ new \in WD!Edits /\ new.pc = "saving" /\ new.copy = copy /\ new.read = endpoint /\ new.why = why
    BY DEF WD!Edits
  <1> HIDE DEF new
  <1>3. new \in Slotted /\ ~Runner(new) /\ ~Runner(wdSlot[w]) /\ new \notin WD!Retryings
    BY <1>2, Kinds, StepKinds DEF Slotted, WD!Retryings
  <1>4. Counts(new)
    BY <1>1, <1>2, DeliveryTyped DEF Counts, WD!CopyTrue, WD!CountsTrue
  <1>5. RowsHeld
    BY <1>1, RowsUnchanged
  <1> QED
    BY <1>1, <1>2, <1>3, <1>4, <1>5, CallsMove

LEMMA EndpointEdited ==
    ASSUME WD!DeliveryInv, NEW w \in Workers,
           WD!RotateSecret(w) \/ WD!ReenableEndpoint(w) \/ WD!UpdateEndpoint(w)
    PROVE  WD!DeliveryInv'
  <1>1. wdSlot[w].pc = "idle" /\ ~endpoint.gone
    BY DEF WD!RotateSecret, WD!ReenableEndpoint, WD!UpdateEndpoint, WD!StartEdit, WD!Call, WD!At
  <1>2. endpoint \in WD!Endpoint
    BY <1>1, DeliveryTyped DEF WD!Gone
  <1>3. CASE WD!RotateSecret(w)
    <2> DEFINE next == endpoint.secret + 1  copy == [endpoint EXCEPT !.secret = next]
    <2>0. next \in Nat
      BY <1>2 DEF WD!Endpoint
    <2> HIDE DEF next
    <2>1. copy \in WD!Endpoint /\ copy.failures = endpoint.failures
      BY <1>2, <2>0 DEF WD!Endpoint
    <2>2. WD!StartEdit(w, copy, "rotation")
      BY <1>3 DEF WD!RotateSecret, next
    <2> HIDE DEF copy
    <2> QED
      BY <1>1, <1>2, <2>1, <2>2, Edited
  <1>4. CASE WD!ReenableEndpoint(w)
    <2> DEFINE e == WD!Reset(endpoint)  copy == [e EXCEPT !.active = TRUE]
    <2>1. e \in WD!Endpoint /\ e.failures = 0
      BY <1>2, EndpointEdits
    <2> HIDE DEF e
    <2>2. copy \in WD!Endpoint /\ copy.failures = 0
      BY <2>1 DEF WD!Endpoint
    <2>3. WD!StartEdit(w, copy, "reset")
      BY <1>4 DEF WD!ReenableEndpoint, e
    <2> HIDE DEF copy
    <2> QED
      BY <1>1, <1>2, <2>2, <2>3, Edited
  <1>5. CASE WD!UpdateEndpoint(w)
    <2> DEFINE copy == [endpoint EXCEPT !.active = ~endpoint.active]
    <2>1. copy \in WD!Endpoint /\ copy.failures = endpoint.failures
      BY <1>2 DEF WD!Endpoint
    <2>2. WD!StartEdit(w, copy, "update")
      BY <1>5 DEF WD!UpdateEndpoint
    <2> HIDE DEF copy
    <2> QED
      BY <1>1, <1>2, <2>1, <2>2, Edited
  <1> QED
    BY <1>3, <1>4, <1>5

\* A retry is of a delivery that failed.
LEMMA Retried ==
    ASSUME WD!DeliveryInv, NEW w \in Workers, NEW d \in Deliveries, WD!Retry(w, d) PROVE WD!DeliveryInv'
  <1> DEFINE new == [pc |-> "retrying", d |-> d, copy |-> delivery[d]]
  <1>1. /\ wdSlot[w].pc = "idle" /\ wdSlot' = [wdSlot EXCEPT ![w] = new]
        /\ delivery[d].status \in {"failed", "dead-letter"}
        /\ UNCHANGED <<endpoint, delivery, queue, surplus, streak, wdOverwritten>>
    BY DEF WD!Retry, WD!Call, WD!At, WD!Retryable
  <1>2. delivery[d] \in WD!Delivery /\ delivery[d] # WD!NoRow
    BY <1>1, DeliveryTyped DEF WD!NoRow, WD!Deleted
  <1>3. /\ new \in WD!Retryings /\ new.pc = "retrying" /\ new.d = d /\ new.copy = delivery[d]
    BY <1>2 DEF WD!Retryings
  <1> HIDE DEF new
  <1>4. new \in Slotted /\ ~Runner(new) /\ ~Runner(wdSlot[w])
    BY <1>1, <1>3, Kinds, StepKinds DEF Slotted
  <1>5. Counts(new)
    BY <1>1, <1>3, DeliveryTyped DEF Counts, WD!CountsTrue
  <1>6. RowsHeld
    BY <1>1, RowsUnchanged
  <1> QED
    BY <1>1, <1>2, <1>3, <1>4, <1>5, <1>6, CallsMove

\* A new row has no job yet, and its caller owes it one.
LEMMA RowAdded ==
    ASSUME WD!DeliveryInv, NEW w \in Workers, NEW d \in Deliveries, NEW b \in BOOLEAN,
           wdSlot[w].pc = "idle", delivery[d] = WD!NoRow,
           delivery' = [delivery EXCEPT ![d] = [status |-> "pending", attempts |-> 0, replay |-> b]],
           wdSlot' = [wdSlot EXCEPT ![w] = [pc |-> "enqueuing", d |-> d]],
           UNCHANGED <<endpoint, queue, surplus, streak, wdOverwritten>>
    PROVE  WD!DeliveryInv'
  <1> DEFINE new == [pc |-> "enqueuing", d |-> d]  row == [status |-> "pending", attempts |-> 0, replay |-> b]
  <1>1. /\ new \in WD!Enqueuings /\ new.pc = "enqueuing" /\ new.d = d
        /\ row \in WD!Delivery /\ row # WD!NoRow
    BY DEF WD!Enqueuings, WD!Delivery, WD!WebhookDeliveryStatus, WD!NoRow
  <1>2. wdSlot' = [wdSlot EXCEPT ![w] = new] /\ delivery' = [delivery EXCEPT ![d] = row]
    OBVIOUS
  <1> HIDE DEF new, row
  <1>3. /\ delivery' \in [Deliveries -> WD!Delivery \cup {WD!NoRow, WD!Deleted}]
        /\ delivery'[d] = row /\ \A x \in Deliveries \ {d} : delivery'[x] = delivery[x]
    BY <1>1, <1>2, DeliveryTyped
  <1>4. ~Runner(wdSlot[w]) /\ ~Runner(new) /\ new \in Slotted
    BY <1>1, Kinds, StepKinds DEF Slotted
  <1>5. JobsMove(w, new, {})
    BY <1>2, <1>4, DeliveryTyped DEF JobsMove, Mine
  <1>6. RowsFit(new, {})
    BY <1>1, <1>3 DEF RowsFit, WD!Retryings
  <1>7. Counts(new)
    BY <1>1, DeliveryTyped DEF Counts, WD!CountsTrue
  <1>8. ASSUME NEW x \in Deliveries PROVE WD!ReasonsLeft(x)'
    <2>1. /\ surplus[x] \in Int /\ surplus'[x] = surplus[x] /\ WD!ReasonsLeft(x)
          /\ Within(WD!Open(x)', WD!Open(x), 0)
      BY <1>5, OpenStays, DeliveryTyped
    <2>2. CASE x = d
      <3>1. Within(WD!Adding(x)', WD!Adding(x), 1)
        BY <1>5, AddingWithin
      <3>2. surplus'[x] \in Int /\ surplus'[x] + 0 + 1 <= surplus[x] + 1 /\ 0 \in -1 .. 1 /\ 1 \in -1 .. 1
        BY <2>1
      <3>3. delivery[x] = WD!NoRow /\ delivery'[x] # WD!NoRow
        BY <1>1, <1>3, <2>2
      <3> QED
        BY <2>1, <3>1, <3>2, <3>3, ReasonsCover
    <2>3. CASE x # d
      <3>1. Within(WD!Adding(x)', WD!Adding(x), 0)
        BY <1>1, <1>5, <2>3, AddingWithin
      <3>2. surplus'[x] \in Int /\ surplus'[x] + 0 + 0 <= surplus[x] /\ 0 \in -1 .. 1
        BY <2>1
      <3>3. delivery[x] # WD!NoRow => delivery'[x] # WD!NoRow
        BY <1>3, <2>3
      <3> QED
        BY <2>1, <3>1, <3>2, <3>3, ReasonsCover
    <2> QED
      BY <2>2, <2>3
  <1> QED
    BY <1>3, <1>5, <1>6, <1>7, <1>8, DeliveryMoves, DeliveryTyped

LEMMA Dispatched ==
    ASSUME WD!DeliveryInv, NEW w \in Workers, NEW d \in Deliveries, WD!Dispatch(w, d) \/ WD!Replay(w, d)
    PROVE  WD!DeliveryInv'
  <1>1. PICK b \in BOOLEAN :
          /\ wdSlot[w].pc = "idle" /\ delivery[d] = WD!NoRow
          /\ delivery' = [delivery EXCEPT ![d] = [status |-> "pending", attempts |-> 0, replay |-> b]]
          /\ wdSlot' = [wdSlot EXCEPT ![w] = [pc |-> "enqueuing", d |-> d]]
          /\ UNCHANGED <<endpoint, queue, surplus, streak, wdOverwritten>>
    BY DEF WD!Dispatch, WD!Replay, WD!Call, WD!At, WD!New
  <1> QED
    BY <1>1, RowAdded

\* The retried row is pending: one reason for one more job.
LEMMA MarkedPending == ASSUME WD!DeliveryInv, NEW w \in Workers, WD!MarkPending(w) PROVE WD!DeliveryInv'
  <1>1. wdSlot[w].pc = "retrying" /\ wdSlot[w] \in WD!Retryings
    BY StepKinds DEF WD!MarkPending, WD!At
  <1>2. PICK d \in Deliveries, copy \in WD!Delivery : d = wdSlot[w].d /\ copy = wdSlot[w].copy
    BY <1>1 DEF WD!Retryings
  <1>3. delivery[d] # WD!NoRow /\ copy.status # "success"
    BY <1>1, <1>2, DeliveryTyped DEF WD!RowsMade
  <1> DEFINE row == [copy EXCEPT !.status = "pending"]
             new == IF endpoint.gone THEN WD!Idle ELSE [pc |-> "enqueuing", d |-> d]
  <1>4. /\ wdSlot' = [wdSlot EXCEPT ![w] = new]
        /\ delivery' = IF endpoint.gone THEN delivery ELSE [delivery EXCEPT ![d] = row]
        /\ surplus' = [surplus EXCEPT ![d] = surplus[d] - 1]
        /\ UNCHANGED <<endpoint, queue, streak, wdOverwritten>>
    BY <1>2, <1>3 DEF WD!MarkPending, WD!OneReason
  <1>5. /\ new \in WD!Enqueuings \cup {WD!Idle} /\ (new.pc = "enqueuing" => new.d = d)
        /\ new.pc \in {"idle", "enqueuing"}
        /\ row \in WD!Delivery /\ row # WD!NoRow
    BY DEF WD!Enqueuings, WD!Delivery, WD!WebhookDeliveryStatus, WD!NoRow, WD!Idle
  <1>6. new \in Slotted /\ ~Runner(new) /\ ~Runner(wdSlot[w]) /\ new \notin WD!Retryings
        /\ (new \in WD!Enqueuings => new.d = d)
    BY <1>1, <1>5, Kinds DEF Slotted, WD!Retryings, WD!Enqueuings
  <1> HIDE DEF new, row
  <1>7. /\ delivery' \in [Deliveries -> WD!Delivery \cup {WD!NoRow, WD!Deleted}]
        /\ \A x \in Deliveries : delivery[x] # WD!NoRow => delivery'[x] # WD!NoRow
    BY <1>4, <1>5, DeliveryTyped
  <1>8. /\ surplus' \in [Deliveries -> Int] /\ surplus[d] \in Int /\ surplus'[d] = surplus[d] - 1
        /\ \A x \in Deliveries \ {d} : surplus'[x] = surplus[x]
    BY <1>4, DeliveryTyped
  <1>9. JobsMove(w, new, {})
    BY <1>4, <1>6, DeliveryTyped DEF JobsMove, Mine
  <1>10. RowsFit(new, {})
    BY <1>3, <1>6, <1>7 DEF RowsFit
  <1>11. Counts(new)
    BY <1>4, <1>5, DeliveryTyped DEF Counts, WD!CountsTrue
  <1>12. ASSUME NEW x \in Deliveries PROVE WD!ReasonsLeft(x)'
    <2>1. /\ surplus[x] \in Int /\ surplus'[x] \in Int /\ WD!ReasonsLeft(x)
          /\ Within(WD!Open(x)', WD!Open(x), 0) /\ 0 \in -1 .. 1 /\ 1 \in -1 .. 1
      BY <1>8, <1>9, OpenStays, DeliveryTyped
    <2>2. CASE x = d
      <3>1. Within(WD!Adding(x)', WD!Adding(x), 1)
        BY <1>9, AddingWithin
      <3>2. surplus'[x] + 0 + 1 <= surplus[x]
        BY <1>8, <2>1, <2>2
      <3> QED
        BY <1>7, <2>1, <3>1, <3>2, ReasonsCover
    <2>3. CASE x # d
      <3>1. Within(WD!Adding(x)', WD!Adding(x), 0)
        BY <1>5, <1>9, <2>3, AddingWithin
      <3>2. surplus'[x] + 0 + 0 <= surplus[x]
        BY <1>8, <2>1, <2>3
      <3> QED
        BY <1>7, <2>1, <3>1, <3>2, ReasonsCover
    <2> QED
      BY <2>2, <2>3
  <1> QED
    BY <1>4, <1>7, <1>8, <1>9, <1>10, <1>11, <1>12, DeliveryMoves, DeliveryTyped

\* Whether job j, as q says it is, may still bring a delivery when its worker is at r.
Opens(r, q, j) == q # WD!NoJob /\ (Runner(r) /\ r.j = j => ~Done(r))

\* A worker goes on with a job: its delivery's surplus changes by n, as the job opens or closes.
RunGoes(w, new, j, d, n) ==
    /\ JobsMove(w, new, {j})
    /\ queue[j] # WD!NoJob => queue[j].d = d
    /\ queue'[j] # WD!NoJob => queue'[j].d = d
    /\ new \notin WD!Enqueuings \cup WD!Retryings /\ new.pc # "enqueuing"
    /\ surplus' = [surplus EXCEPT ![d] = surplus[d] + n]
    /\ \/ n = 0 /\ (Opens(new, queue'[j], j) => Opens(wdSlot[w], queue[j], j))
       \/ n = -1
       \/ n = 1 /\ Opens(wdSlot[w], queue[j], j) /\ ~Opens(new, queue'[j], j)

LEMMA RunsMove ==
    ASSUME WD!DeliveryInv, NEW w \in Workers, NEW new, NEW j \in WdJobs, NEW d \in Deliveries, NEW n \in -1 .. 1,
           RunGoes(w, new, j, d, n), Counts(new), delivery[d] # WD!NoRow,
           endpoint' \in WD!Endpoint \cup {WD!Gone}, streak' \in Nat,
           delivery' \in [Deliveries -> WD!Delivery \cup {WD!NoRow, WD!Deleted}],
           \A x \in Deliveries : delivery[x] # WD!NoRow => delivery'[x] # WD!NoRow
    PROVE  WD!DeliveryInv'
  <1>1. JobsMove(w, new, {j}) /\ new.pc # "enqueuing" /\ surplus' = [surplus EXCEPT ![d] = surplus[d] + n]
    BY DEF RunGoes
  <1>2. RowsFit(new, {j})
    BY DEF RunGoes, RowsFit
  <1>3. /\ surplus[d] \in Int /\ surplus' \in [Deliveries -> Int] /\ surplus'[d] = surplus[d] + n
        /\ \A x \in Deliveries \ {d} : surplus'[x] = surplus[x]
    BY <1>1, DeliveryTyped
  <1>4. ASSUME NEW x \in Deliveries
        PROVE  /\ j \in WD!Open(x) <=> Opens(wdSlot[w], queue[j], j) /\ queue[j].d = x
               /\ j \in WD!Open(x)' <=> Opens(new, queue'[j], j) /\ queue'[j].d = x
    BY <1>1, OpenMoves DEF Opens
  <1>5. ASSUME NEW x \in Deliveries PROVE WD!ReasonsLeft(x)'
    <2>1. /\ surplus[x] \in Int /\ surplus'[x] \in Int /\ WD!ReasonsLeft(x)
          /\ Within(WD!Adding(x)', WD!Adding(x), 0) /\ 0 \in -1 .. 1 /\ 1 \in -1 .. 1 /\ -1 \in -1 .. 1
          /\ delivery[x] # WD!NoRow => delivery'[x] # WD!NoRow
      BY <1>1, <1>3, AddingWithin, DeliveryTyped
    <2>2. CASE x # d \/ (n = 0 /\ (Opens(new, queue'[j], j) => Opens(wdSlot[w], queue[j], j)))
      <3>1. j \in WD!Open(x)' => j \in WD!Open(x)
        BY <1>4, <2>2 DEF RunGoes, Opens
      <3>2. Within(WD!Open(x)', WD!Open(x), 0)
        BY <1>1, <3>1, OpenWithin
      <3>3. surplus'[x] + 0 + 0 <= surplus[x]
        BY <1>3, <2>1, <2>2
      <3> QED
        BY <2>1, <3>2, <3>3, ReasonsCover
    <2>3. CASE x = d /\ n = -1
      <3>1. Within(WD!Open(x)', WD!Open(x), 1)
        BY <1>1, OpenWithin
      <3>2. surplus'[x] + 1 + 0 <= surplus[x]
        BY <1>3, <2>1, <2>3
      <3> QED
        BY <2>1, <3>1, <3>2, ReasonsCover
    <2>4. CASE x = d /\ n = 1 /\ Opens(wdSlot[w], queue[j], j) /\ ~Opens(new, queue'[j], j)
      <3>1. j \in WD!Open(x) /\ j \notin WD!Open(x)'
        BY <1>4, <2>4 DEF RunGoes, Opens
      <3>2. Within(WD!Open(x)', WD!Open(x), -1)
        BY <1>1, <3>1, OpenWithin
      <3>3. surplus'[x] + (-1) + 0 <= surplus[x]
        BY <1>3, <2>1, <2>4
      <3> QED
        BY <2>1, <3>2, <3>3, ReasonsCover
    <2> QED
      BY <2>2, <2>3, <2>4 DEF RunGoes
  <1> QED
    BY <1>1, <1>2, <1>3, <1>5, DeliveryMoves

\* The job is in the queue, and the call that added it is over.
LEMMA Enqueued == ASSUME WD!DeliveryInv, NEW w \in Workers, WD!Enqueue(w) PROVE WD!DeliveryInv'
  <1>1. wdSlot[w].pc = "enqueuing" /\ wdSlot[w] \in WD!Enqueuings
    BY StepKinds DEF WD!Enqueue, WD!At
  <1>2. PICK d \in Deliveries : d = wdSlot[w].d
    BY <1>1 DEF WD!Enqueuings
  <1>3. PICK j \in WdJobs : /\ queue[j] = WD!NoJob
                         /\ queue' = [queue EXCEPT ![j] = [state |-> "waiting", d |-> d, made |-> 0]]
    BY <1>2 DEF WD!Enqueue
  <1> DEFINE q == [state |-> "waiting", d |-> d, made |-> 0]
  <1>4. q \in JobRows /\ q.d = d /\ q # WD!NoJob
    BY DEF JobRows, WD!NoJob
  <1>5. wdSlot' = [wdSlot EXCEPT ![w] = WD!Idle] /\ queue' = [queue EXCEPT ![j] = q]
        /\ UNCHANGED <<endpoint, delivery, surplus, streak, wdOverwritten>>
    BY <1>3 DEF WD!Enqueue
  <1> HIDE DEF q
  <1>6. /\ queue' \in [WdJobs -> JobRows \cup {WD!NoJob}] /\ queue'[j] = q
        /\ \A k \in WdJobs \ {j} : queue'[k] = queue[k]
    BY <1>4, <1>5, DeliveryTyped
  <1>7. ~Runner(wdSlot[w]) /\ ~Runner(WD!Idle) /\ WD!Idle \in Slotted
    BY <1>1, Kinds DEF Slotted
  <1>8. Mine(w, {j})
    BY <1>3, JobIsMine DEF Mine
  <1>9. JobsMove(w, WD!Idle, {j})
    BY <1>5, <1>6, <1>7, <1>8 DEF JobsMove
  <1>10. WD!Idle \notin WD!Enqueuings \cup WD!Retryings /\ WD!Idle.pc = "idle"
    BY DEF WD!Idle, WD!Enqueuings, WD!Retryings
  <1>11. delivery[d] # WD!NoRow
    BY <1>1, <1>2, DeliveryTyped DEF WD!RowsMade
  <1>12. RowsFit(WD!Idle, {j})
    BY <1>4, <1>5, <1>6, <1>10, <1>11 DEF RowsFit
  <1>13. Counts(WD!Idle)
    BY <1>5, <1>10, DeliveryTyped DEF Counts, WD!CountsTrue
  <1>14. ASSUME NEW x \in Deliveries PROVE WD!ReasonsLeft(x)'
    <2>1. /\ surplus[x] \in Int /\ surplus'[x] = surplus[x] /\ WD!ReasonsLeft(x)
          /\ 0 \in -1 .. 1 /\ 1 \in -1 .. 1 /\ -1 \in -1 .. 1
          /\ delivery[x] # WD!NoRow => delivery'[x] # WD!NoRow
      BY <1>5, DeliveryTyped
    <2>2. CASE x = d
      <3>1. Within(WD!Open(x)', WD!Open(x), 1) /\ Within(WD!Adding(x)', WD!Adding(x), -1)
        BY <1>1, <1>2, <1>9, <1>10, <2>2, OpenWithin, AddingWithin
      <3>2. surplus'[x] \in Int /\ surplus'[x] + 1 + (-1) <= surplus[x]
        BY <2>1
      <3> QED
        BY <2>1, <3>1, <3>2, ReasonsCover
    <2>3. CASE x # d
      <3>1. j \notin WD!Open(x)'
        BY <1>4, <1>6, <2>3 DEF WD!Open
      <3>2. Within(WD!Open(x)', WD!Open(x), 0) /\ Within(WD!Adding(x)', WD!Adding(x), 0)
        BY <1>9, <1>10, <3>1, OpenWithin, AddingWithin
      <3>3. surplus'[x] \in Int /\ surplus'[x] + 0 + 0 <= surplus[x]
        BY <2>1
      <3> QED
        BY <2>1, <3>2, <3>3, ReasonsCover
    <2> QED
      BY <2>2, <2>3
  <1> QED
    BY <1>5, <1>9, <1>12, <1>13, <1>14, DeliveryMoves, DeliveryTyped

\* The rows of the endpoint and the deliveries keep their type and their being.
RowsTyped ==
    /\ endpoint' \in WD!Endpoint \cup {WD!Gone} /\ streak' \in Nat
    /\ delivery' \in [Deliveries -> WD!Delivery \cup {WD!NoRow, WD!Deleted}]
    /\ \A x \in Deliveries : delivery[x] # WD!NoRow => delivery'[x] # WD!NoRow

LEMMA RowsTypedSame == ASSUME WD!DeliveryInv, UNCHANGED <<endpoint, delivery, streak>> PROVE RowsTyped
  BY DeliveryTyped DEF RowsTyped

LEMMA SurplusSame ==
    ASSUME WD!DeliveryInv, NEW d \in Deliveries, surplus' = surplus
    PROVE  surplus' = [surplus EXCEPT ![d] = surplus[d] + 0]
  <1>1. surplus \in [Deliveries -> Int] /\ surplus[d] \in Int
    BY DeliveryTyped
  <1>2. surplus[d] + 0 = surplus[d]
    BY <1>1
  <1> QED
    BY <1>1, <1>2

\* A worker goes on with its job.
LEMMA RunGoesOn ==
    ASSUME WD!DeliveryInv, NEW w \in Workers, Runner(wdSlot[w]), NEW new \in WD!Runs \cup WD!Records,
           wdSlot' = [wdSlot EXCEPT ![w] = new], new.j = wdSlot[w].j, queue' = queue, NEW n \in -1 .. 1,
           surplus' = [surplus EXCEPT ![queue[wdSlot[w].j].d] = surplus[queue[wdSlot[w].j].d] + n],
           \/ n = 0 /\ (Done(wdSlot[w]) => Done(new))
           \/ n = -1
           \/ n = 1 /\ ~Done(wdSlot[w]) /\ Done(new),
           Counts(new), RowsTyped
    PROVE  WD!DeliveryInv'
  <1>1. PICK j \in WdJobs : j = wdSlot[w].j
    BY JobIsMine
  <1>2. /\ queue[j] \in JobRows /\ queue[j] # WD!NoJob /\ queue[j].state = "active" /\ Mine(w, {j})
        /\ delivery[queue[j].d] # WD!NoRow
    BY <1>1, JobIsMine
  <1>3. PICK d \in Deliveries : d = queue[j].d
    BY <1>2 DEF JobRows
  <1>4. Runner(new) /\ new \in Slotted /\ new.j = j
    BY <1>1, Kinds DEF Slotted
  <1>5. JobsMove(w, new, {j})
    BY <1>1, <1>2, <1>4, DeliveryTyped DEF JobsMove
  <1>6. new \notin WD!Enqueuings \cup WD!Retryings /\ new.pc # "enqueuing"
    BY DEF WD!Runs, WD!Records, WD!Enqueuings, WD!Retryings
  <1>7. /\ Opens(wdSlot[w], queue[j], j) <=> ~Done(wdSlot[w])
        /\ Opens(new, queue'[j], j) <=> ~Done(new)
    BY <1>1, <1>2, <1>4 DEF Opens
  <1>8. surplus' = [surplus EXCEPT ![d] = surplus[d] + n]
    BY <1>1, <1>3
  <1>9. RunGoes(w, new, j, d, n)
    BY <1>3, <1>5, <1>6, <1>7, <1>8 DEF RunGoes
  <1> QED
    BY <1>2, <1>3, <1>9, RunsMove DEF RowsTyped

\* A worker leaves its job, which waits again or is over.
LEMMA RunStops ==
    ASSUME WD!DeliveryInv, NEW w \in Workers, Runner(wdSlot[w]), NEW q \in JobRows \cup {WD!NoJob},
           wdSlot' = [wdSlot EXCEPT ![w] = WD!Idle],
           queue' = [queue EXCEPT ![wdSlot[w].j] = q], q # WD!NoJob => q.d = queue[wdSlot[w].j].d,
           NEW n \in -1 .. 1,
           surplus' = [surplus EXCEPT ![queue[wdSlot[w].j].d] = surplus[queue[wdSlot[w].j].d] + n],
           \/ n = 0 /\ (q # WD!NoJob => ~Done(wdSlot[w]))
           \/ n = -1,
           UNCHANGED <<endpoint, streak, wdOverwritten>>, RowsTyped
    PROVE  WD!DeliveryInv'
  <1>1. PICK j \in WdJobs : j = wdSlot[w].j
    BY JobIsMine
  <1>2. /\ queue[j] \in JobRows /\ queue[j] # WD!NoJob /\ Mine(w, {j}) /\ delivery[queue[j].d] # WD!NoRow
    BY <1>1, JobIsMine
  <1>3. PICK d \in Deliveries : d = queue[j].d
    BY <1>2 DEF JobRows
  <1>4. /\ ~Runner(WD!Idle) /\ WD!Idle \in Slotted
        /\ WD!Idle \notin WD!Enqueuings \cup WD!Retryings /\ WD!Idle.pc = "idle"
    BY Kinds DEF Slotted, WD!Idle, WD!Enqueuings, WD!Retryings
  <1>5. /\ queue' \in [WdJobs -> JobRows \cup {WD!NoJob}] /\ queue'[j] = q
        /\ \A k \in WdJobs \ {j} : queue'[k] = queue[k]
    BY <1>1, DeliveryTyped
  <1>6. JobsMove(w, WD!Idle, {j})
    BY <1>1, <1>2, <1>4, <1>5 DEF JobsMove
  <1>7. /\ Opens(wdSlot[w], queue[j], j) <=> ~Done(wdSlot[w])
        /\ Opens(WD!Idle, queue'[j], j) <=> q # WD!NoJob
    BY <1>1, <1>2, <1>4, <1>5 DEF Opens
  <1>8. surplus' = [surplus EXCEPT ![d] = surplus[d] + n]
    BY <1>1, <1>3
  <1>9. queue'[j] # WD!NoJob => queue'[j].d = d
    BY <1>1, <1>3, <1>5
  <1>10. RunGoes(w, WD!Idle, j, d, n)
    BY <1>3, <1>4, <1>6, <1>7, <1>8, <1>9 DEF RunGoes
  <1>11. Counts(WD!Idle)
    BY <1>4, DeliveryTyped DEF Counts, WD!CountsTrue
  <1> QED
    BY <1>2, <1>3, <1>10, <1>11, RunsMove DEF RowsTyped

LEMMA Taken == ASSUME WD!DeliveryInv, NEW w \in Workers, NEW j \in WdJobs, WD!Take(w, j) PROVE WD!DeliveryInv'
  <1>1. /\ wdSlot[w].pc = "idle" /\ queue[j] # WD!NoJob /\ queue[j].state = "waiting"
        /\ UNCHANGED <<endpoint, delivery, surplus, streak, wdOverwritten>>
    BY DEF WD!Take, WD!At
  <1>2. wdSlot[w] = WD!Idle /\ ~Runner(WD!Idle) /\ WD!Idle \in Slotted
    BY <1>1, StepKinds, Kinds DEF Slotted
  <1>3. queue[j] \in JobRows /\ delivery[queue[j].d] # WD!NoRow
    BY <1>1, DeliveryTyped DEF WD!RowsMade
  <1>4. PICK d \in Deliveries : d = queue[j].d
    BY <1>3 DEF JobRows
  <1>5. Mine(w, {j})
    BY <1>1, JobIsMine DEF Mine
  <1>6. Opens(wdSlot[w], queue[j], j)
    BY <1>1, <1>2 DEF Opens
  <1>7. surplus' = [surplus EXCEPT ![d] = surplus[d] + 0]
    BY <1>1, SurplusSame
  <1>8. ASSUME NEW new, new \notin WD!Enqueuings \cup WD!Retryings, new.pc \in {"idle", "posting"},
               JobsMove(w, new, {j}), queue'[j] # WD!NoJob => queue'[j].d = d
        PROVE  WD!DeliveryInv'
    <2>1. RunGoes(w, new, j, d, 0)
      BY <1>4, <1>6, <1>7, <1>8 DEF RunGoes
    <2>2. Counts(new)
      BY <1>1, <1>8, DeliveryTyped DEF Counts, WD!CountsTrue
    <2> QED
      BY <1>1, <1>3, <1>4, <2>1, <2>2, RunsMove, RowsTypedSame DEF RowsTyped
  <1>9. CASE WD!Exists(queue[j].d) /\ ~endpoint.gone
    <2> DEFINE next == queue[j].made + 1  copy == [delivery[d] EXCEPT !.attempts = next]
               new == [pc |-> "posting", j |-> j, copy |-> copy]
               q == [queue[j] EXCEPT !.state = "active"]
    <2>1. wdSlot' = [wdSlot EXCEPT ![w] = new] /\ queue' = [queue EXCEPT ![j] = q]
      BY <1>4, <1>9 DEF WD!Take
    <2>2. delivery[d] \in WD!Delivery
      BY <1>4, <1>9, DeliveryTyped DEF WD!Exists, WD!NoRow, WD!Deleted, WD!WebhookDeliveryStatus
    <2>3. next \in Nat
      BY <1>3 DEF JobRows
    <2>4. q \in JobRows /\ q.d = d /\ q.state = "active" /\ q # WD!NoJob
      BY <1>3, <1>4 DEF JobRows, WD!NoJob
    <2> HIDE DEF next, q
    <2>5. copy \in WD!Delivery
      BY <2>2, <2>3 DEF WD!Delivery
    <2> HIDE DEF copy
    <2>6. new \in WD!Runs /\ new.pc = "posting" /\ new.j = j
      BY <2>5 DEF WD!Runs
    <2> HIDE DEF new
    <2>7. /\ queue' \in [WdJobs -> JobRows \cup {WD!NoJob}] /\ queue'[j] = q
          /\ \A k \in WdJobs \ {j} : queue'[k] = queue[k]
      BY <2>1, <2>4, DeliveryTyped
    <2>8. new \in Slotted /\ new \notin WD!Enqueuings \cup WD!Retryings
      BY <2>6 DEF Slotted, WD!Enqueuings, WD!Retryings
    <2>9. JobsMove(w, new, {j})
      BY <1>2, <1>5, <2>1, <2>4, <2>6, <2>7, <2>8 DEF JobsMove
    <2> QED
      BY <1>8, <2>4, <2>6, <2>7, <2>8, <2>9
  <1>10. CASE ~(WD!Exists(queue[j].d) /\ ~endpoint.gone)
    <2>1. wdSlot' = wdSlot /\ queue' = [queue EXCEPT ![j] = WD!NoJob]
      BY <1>10 DEF WD!Take
    <2>2. /\ queue' \in [WdJobs -> JobRows \cup {WD!NoJob}] /\ queue'[j] = WD!NoJob
          /\ \A k \in WdJobs \ {j} : queue'[k] = queue[k]
      BY <2>1, DeliveryTyped
    <2>3. wdSlot' = [wdSlot EXCEPT ![w] = WD!Idle]
      BY <1>2, <2>1, DeliveryTyped
    <2>4. JobsMove(w, WD!Idle, {j})
      BY <1>2, <1>5, <2>2, <2>3 DEF JobsMove
    <2>5. WD!Idle \notin WD!Enqueuings \cup WD!Retryings /\ WD!Idle.pc = "idle"
      BY DEF WD!Idle, WD!Enqueuings, WD!Retryings
    <2> QED
      BY <1>8, <2>2, <2>4, <2>5
  <1> QED
    BY <1>9, <1>10

LEMMA RunAt ==
    ASSUME NEW r \in WD!Runs, NEW p \in {"posting", "delivered", "resetting", "failing", "marking", "ending"}
    PROVE  /\ [r EXCEPT !.pc = p] \in WD!Runs /\ [r EXCEPT !.pc = p].pc = p
           /\ [r EXCEPT !.pc = p].j = r.j
           /\ Done([r EXCEPT !.pc = p]) <=> p \in {"delivered", "resetting", "ending"}
  BY DEF WD!Runs, Done

LEMMA CountsStay ==
    ASSUME WD!DeliveryInv, NEW new, new.pc # "saving", UNCHANGED <<endpoint, streak, wdOverwritten>>
    PROVE  Counts(new)
  BY DeliveryTyped DEF Counts, WD!CountsTrue

\* The row of a run's delivery is saved, if it is there.
LEMMA RowSaved ==
    ASSUME WD!DeliveryInv, NEW w \in Workers, wdSlot[w] \in WD!Runs,
           NEW s \in WD!WebhookDeliveryStatus, WD!SaveDelivery(w, s), UNCHANGED <<endpoint, streak>>
    PROVE  RowsTyped
  <1>1. Runner(wdSlot[w]) /\ wdSlot[w].copy \in WD!Delivery
    BY Kinds DEF WD!Runs
  <1>2. queue[wdSlot[w].j] \in JobRows
    BY <1>1, JobIsMine
  <1> DEFINE d == queue[wdSlot[w].j].d  row == [wdSlot[w].copy EXCEPT !.status = s]
  <1>3. d \in Deliveries /\ row \in WD!Delivery /\ row # WD!NoRow
    BY <1>1, <1>2 DEF JobRows, WD!Delivery, WD!NoRow
  <1>4. delivery' = IF endpoint.gone THEN delivery ELSE [delivery EXCEPT ![d] = row]
    BY DEF WD!SaveDelivery
  <1> HIDE DEF d, row
  <1>5. /\ delivery' \in [Deliveries -> WD!Delivery \cup {WD!NoRow, WD!Deleted}]
        /\ \A x \in Deliveries : delivery[x] # WD!NoRow => delivery'[x] # WD!NoRow
    BY <1>3, <1>4, DeliveryTyped
  <1> QED
    BY <1>5, DeliveryTyped DEF RowsTyped

LEMMA Posted == ASSUME WD!DeliveryInv, NEW w \in Workers, WD!Post(w) PROVE WD!DeliveryInv'
  <1>1. /\ wdSlot[w].pc = "posting" /\ UNCHANGED <<endpoint, delivery, queue, streak, wdOverwritten>>
    BY DEF WD!Post, WD!At
  <1>2. wdSlot[w] \in WD!Runs /\ Runner(wdSlot[w]) /\ ~Done(wdSlot[w])
    BY <1>1, StepKinds, Kinds DEF Done
  <1>3. PICK d \in Deliveries : d = queue[wdSlot[w].j].d
    BY <1>2, JobIsMine DEF JobRows
  <1>4. ASSUME NEW p \in {"delivered", "failing"}, NEW n \in {0, 1}, (n = 1) <=> (p = "delivered"),
               WD!Goto(w, p), surplus' = [surplus EXCEPT ![d] = surplus[d] + n]
        PROVE  WD!DeliveryInv'
    <2> DEFINE new == [wdSlot[w] EXCEPT !.pc = p]
    <2>1. wdSlot' = [wdSlot EXCEPT ![w] = new]
      BY <1>4 DEF WD!Goto
    <2>2. new \in WD!Runs /\ new.pc = p /\ new.j = wdSlot[w].j /\ (Done(new) <=> p = "delivered")
      <3>1. p \in {"posting", "delivered", "resetting", "failing", "marking", "ending"}
        OBVIOUS
      <3>2. /\ new \in WD!Runs /\ new.pc = p /\ new.j = wdSlot[w].j
            /\ Done(new) <=> p \in {"delivered", "resetting", "ending"}
        BY <1>2, <3>1, RunAt
      <3> QED
        BY <3>2
    <2> HIDE DEF new
    <2>3. Counts(new) /\ RowsTyped
      BY <1>1, <2>2, CountsStay, RowsTypedSame
    <2>4. n \in -1 .. 1 /\ (n = 0 \/ (n = 1 /\ Done(new)))
      BY <1>4, <2>2
    <2> QED
      BY <1>1, <1>2, <1>3, <1>4, <2>1, <2>2, <2>3, <2>4, RunGoesOn
  <1>5. CASE WD!Goto(w, "delivered") /\ surplus' = [surplus EXCEPT ![d] = surplus[d] + 1]
    BY <1>4, <1>5
  <1>6. CASE WD!Goto(w, "failing") /\ surplus' = surplus
    BY <1>4, <1>6, SurplusSame
  <1> QED
    BY <1>3, <1>5, <1>6 DEF WD!Post

\* The surplus of a run's delivery goes down by one, or stays.
LEMMA ReasonGiven ==
    ASSUME WD!DeliveryInv, NEW d \in Deliveries, WD!OneReason(d)
    PROVE  surplus' = [surplus EXCEPT ![d] = surplus[d] + (-1)]
  <1>1. surplus[d] \in Int
    BY DeliveryTyped
  <1>2. surplus[d] - 1 = surplus[d] + (-1)
    BY <1>1
  <1> QED
    BY <1>2 DEF WD!OneReason

LEMMA SuccessSaved == ASSUME WD!DeliveryInv, NEW w \in Workers, WD!SaveSuccess(w) PROVE WD!DeliveryInv'
  <1>1. /\ wdSlot[w].pc = "delivered" /\ UNCHANGED <<endpoint, queue, streak, wdOverwritten>>
        /\ WD!SaveDelivery(w, "success")
    BY DEF WD!SaveSuccess, WD!At
  <1>2. wdSlot[w] \in WD!Runs /\ Runner(wdSlot[w])
    BY <1>1, StepKinds, Kinds
  <1>3. PICK d \in Deliveries : d = queue[wdSlot[w].j].d
    BY <1>2, JobIsMine DEF JobRows
  <1>4. RowsTyped
    BY <1>1, <1>2, RowSaved DEF WD!WebhookDeliveryStatus
  <1>5. ASSUME NEW p \in {"resetting", "failing"}, NEW n \in {0, -1}, (n = 0) <=> (p = "resetting"),
               WD!Goto(w, p), surplus' = [surplus EXCEPT ![d] = surplus[d] + n]
        PROVE  WD!DeliveryInv'
    <2> DEFINE new == [wdSlot[w] EXCEPT !.pc = p]
    <2>1. wdSlot' = [wdSlot EXCEPT ![w] = new]
      BY <1>5 DEF WD!Goto
    <2>2. new \in WD!Runs /\ new.pc = p /\ new.j = wdSlot[w].j /\ (Done(new) <=> p = "resetting")
      <3>1. p \in {"posting", "delivered", "resetting", "failing", "marking", "ending"}
        OBVIOUS
      <3>2. /\ new \in WD!Runs /\ new.pc = p /\ new.j = wdSlot[w].j
            /\ Done(new) <=> p \in {"delivered", "resetting", "ending"}
        BY <1>2, <3>1, RunAt
      <3> QED
        BY <3>2
    <2> HIDE DEF new
    <2>3. Counts(new)
      BY <1>1, <2>2, CountsStay
    <2>4. n \in -1 .. 1 /\ (n = -1 \/ (n = 0 /\ Done(new)))
      BY <1>5, <2>2
    <2> QED
      BY <1>1, <1>2, <1>3, <1>4, <1>5, <2>1, <2>2, <2>3, <2>4, RunGoesOn
  <1>6. CASE endpoint.gone
    BY <1>3, <1>5, <1>6, ReasonGiven DEF WD!SaveSuccess
  <1>7. CASE ~endpoint.gone
    BY <1>5, <1>7, SurplusSame DEF WD!SaveSuccess
  <1> QED
    BY <1>6, <1>7

LEMMA ErrorCaught ==
    ASSUME WD!DeliveryInv, NEW w \in Workers, WD!ThrowAfterSuccess(w) PROVE WD!DeliveryInv'
  <1> DEFINE new == [wdSlot[w] EXCEPT !.pc = "failing"]
  <1>1. /\ wdSlot[w].pc \in {"delivered", "resetting"} /\ wdSlot' = [wdSlot EXCEPT ![w] = new]
        /\ UNCHANGED <<endpoint, delivery, queue, streak, wdOverwritten>>
        /\ WD!OneReason(queue[wdSlot[w].j].d)
    BY DEF WD!ThrowAfterSuccess, WD!Goto
  <1>2. wdSlot[w] \in WD!Runs /\ Runner(wdSlot[w])
    BY <1>1, StepKinds, Kinds
  <1>3. PICK d \in Deliveries : d = queue[wdSlot[w].j].d
    BY <1>2, JobIsMine DEF JobRows
  <1>4. new \in WD!Runs /\ new.pc = "failing" /\ new.j = wdSlot[w].j
    BY <1>2, RunAt
  <1> HIDE DEF new
  <1>5. Counts(new) /\ RowsTyped /\ surplus' = [surplus EXCEPT ![d] = surplus[d] + (-1)]
    BY <1>1, <1>3, <1>4, CountsStay, RowsTypedSame, ReasonGiven
  <1>6. -1 \in -1 .. 1
    OBVIOUS
  <1> QED
    BY <1>1, <1>2, <1>3, <1>4, <1>5, <1>6, RunGoesOn

\* The worker reads the endpoint to record what became of the POST.
LEMMA Recorded ==
    ASSUME WD!DeliveryInv, NEW w \in Workers, wdSlot[w] \in WD!Runs, endpoint \in WD!Endpoint,
           NEW copy \in WD!Endpoint, NEW why \in {"reset", "failure"},
           copy.failures = 0 \/ why # "reset", copy = WD!Counted(endpoint) \/ why # "failure",
           NEW next \in {"ending", "marking"}, Done(wdSlot[w]) => next = "ending",
           WD!Record(w, copy, why, next),
           UNCHANGED <<endpoint, delivery, queue, surplus, streak, wdOverwritten>>
    PROVE  WD!DeliveryInv'
  <1> DEFINE new == [pc |-> "saving", read |-> endpoint, copy |-> copy, why |-> why, then |-> next,
                     j |-> wdSlot[w].j, job |-> wdSlot[w].copy]
  <1>1. wdSlot' = [wdSlot EXCEPT ![w] = new]
    BY DEF WD!Record
  <1>2. Runner(wdSlot[w]) /\ wdSlot[w].j \in WdJobs /\ wdSlot[w].copy \in WD!Delivery
    BY DEF WD!Runs, Runner, WD!Idle
  <1>3. /\ new \in WD!Records /\ new.pc = "saving" /\ new.copy = copy /\ new.read = endpoint /\ new.why = why
        /\ new.j = wdSlot[w].j /\ (Done(new) <=> next = "ending")
    BY <1>2 DEF WD!Records, Done
  <1> HIDE DEF new
  <1>4. PICK d \in Deliveries : d = queue[wdSlot[w].j].d
    BY <1>2, JobIsMine DEF JobRows
  <1>5. Counts(new)
    BY <1>3, DeliveryTyped DEF Counts, WD!CopyTrue, WD!CountsTrue
  <1>6. RowsTyped /\ surplus' = [surplus EXCEPT ![d] = surplus[d] + 0] /\ 0 \in -1 .. 1
    BY RowsTypedSame, SurplusSame
  <1> QED
    BY <1>1, <1>2, <1>3, <1>4, <1>5, <1>6, RunGoesOn

\* A worker goes on with its job and touches no row.
LEMMA WentOn ==
    ASSUME WD!DeliveryInv, NEW w \in Workers, wdSlot[w] \in WD!Runs,
           NEW p \in {"marking", "ending"}, WD!Goto(w, p), Done(wdSlot[w]) => p = "ending",
           UNCHANGED <<endpoint, delivery, queue, surplus, streak, wdOverwritten>>
    PROVE  WD!DeliveryInv'
  <1> DEFINE new == [wdSlot[w] EXCEPT !.pc = p]
  <1>1. wdSlot' = [wdSlot EXCEPT ![w] = new]
    BY DEF WD!Goto
  <1>2. Runner(wdSlot[w]) /\ p \in {"posting", "delivered", "resetting", "failing", "marking", "ending"}
    BY Kinds
  <1>3. new \in WD!Runs /\ new.pc = p /\ new.j = wdSlot[w].j /\ (Done(new) <=> p \in {"delivered", "resetting", "ending"})
    BY <1>2, RunAt
  <1> HIDE DEF new
  <1>4. PICK d \in Deliveries : d = queue[wdSlot[w].j].d
    BY <1>2, JobIsMine DEF JobRows
  <1>5. Counts(new) /\ RowsTyped /\ surplus' = [surplus EXCEPT ![d] = surplus[d] + 0] /\ 0 \in -1 .. 1
    BY <1>3, CountsStay, RowsTypedSame, SurplusSame
  <1> QED
    BY <1>1, <1>2, <1>3, <1>4, <1>5, RunGoesOn

LEMMA OutcomeRecorded ==
    ASSUME WD!DeliveryInv, NEW w \in Workers, WD!RecordSuccess(w) \/ WD!RecordFailure(w) PROVE WD!DeliveryInv'
  <1>1. UNCHANGED <<endpoint, delivery, queue, surplus, streak, wdOverwritten>>
    BY DEF WD!RecordSuccess, WD!RecordFailure
  <1>2. wdSlot[w] \in WD!Runs
    BY StepKinds DEF WD!RecordSuccess, WD!RecordFailure, WD!At
  <1>3. endpoint.gone \/ endpoint \in WD!Endpoint
    BY DeliveryTyped DEF WD!Gone
  <1>4. ~endpoint.active \/ endpoint \in WD!Endpoint
    BY DeliveryTyped DEF WD!Gone
  <1>5. CASE WD!RecordSuccess(w)
    <2>1. CASE endpoint.gone
      BY <1>1, <1>2, <1>5, <2>1, WentOn DEF WD!RecordSuccess
    <2>2. CASE ~endpoint.gone
      <3>1. WD!Reset(endpoint) \in WD!Endpoint /\ WD!Reset(endpoint).failures = 0
        BY <1>3, <2>2, EndpointEdits
      <3>2. WD!Record(w, WD!Reset(endpoint), "reset", "ending")
        BY <1>5, <2>2 DEF WD!RecordSuccess
      <3> QED
        BY <1>1, <1>2, <1>3, <2>2, <3>1, <3>2, Recorded
    <2> QED
      BY <2>1, <2>2
  <1>6. CASE WD!RecordFailure(w)
    <2>1. ~Done(wdSlot[w])
      BY <1>6 DEF WD!RecordFailure, WD!At, Done
    <2>2. CASE ~endpoint.active
      BY <1>1, <1>2, <1>6, <2>1, <2>2, WentOn DEF WD!RecordFailure
    <2>3. CASE endpoint.active
      <3>1. WD!Counted(endpoint) \in WD!Endpoint
        BY <1>4, <2>3, EndpointEdits
      <3>2. WD!Record(w, WD!Counted(endpoint), "failure", "marking")
        BY <1>6, <2>3 DEF WD!RecordFailure
      <3> QED
        BY <1>1, <1>2, <1>4, <2>1, <2>3, <3>1, <3>2, Recorded
    <2> QED
      BY <2>2, <2>3
  <1> QED
    BY <1>5, <1>6

\* The count of a saved copy is of failures in a row, if the row had not changed.
LEMMA SavedCount ==
    ASSUME WD!DeliveryInv, NEW w \in Workers, WD!Save(w)
    PROVE  /\ endpoint' \in WD!Endpoint /\ streak' \in Nat
           /\ wdOverwritten' \/ endpoint'.failures <= streak'
  <1>1. /\ wdSlot[w].pc = "saving" /\ endpoint' = wdSlot[w].copy
        /\ wdOverwritten' = (wdOverwritten \/ endpoint # wdSlot[w].read)
        /\ streak' = IF wdSlot[w].why = "reset" THEN 0
                     ELSE IF wdSlot[w].why = "failure" THEN streak + 1 ELSE streak
    BY DEF WD!Save, WD!At
  <1>2. /\ wdSlot[w].copy \in WD!Endpoint /\ wdSlot[w].read \in WD!Endpoint
        /\ wdSlot[w].why \in {"rotation", "reset", "update", "failure"}
    BY <1>1, StepKinds DEF WD!Edits, WD!Records
  <1>3. PICK copy \in WD!Endpoint, had \in WD!Endpoint : copy = wdSlot[w].copy /\ had = wdSlot[w].read
    BY <1>2
  <1>4. /\ wdSlot[w].why = "failure" => copy = WD!Counted(had)
        /\ wdSlot[w].why = "reset" => copy.failures = 0
        /\ wdSlot[w].why \notin {"reset", "failure"} => copy.failures = had.failures
    BY <1>1, <1>3, DeliveryTyped DEF WD!CountsTrue, WD!CopyTrue, WD!At
  <1>5. copy.failures \in Nat /\ had.failures \in Nat /\ ~had.gone /\ streak \in Nat
    BY DeliveryTyped DEF WD!Endpoint
  <1>6. wdSlot[w].why = "failure" => copy.failures <= had.failures + 1
    BY <1>4, <1>5, EndpointEdits
  <1>7. ASSUME ~wdOverwritten' PROVE had.failures <= streak
    BY <1>1, <1>3, <1>5, <1>7, DeliveryTyped DEF WD!CountsTrue
  <1>8. wdOverwritten' \/ copy.failures <= streak'
    BY <1>1, <1>4, <1>5, <1>6, <1>7
  <1> QED
    BY <1>1, <1>3, <1>5, <1>8

LEMMA EndpointSaved == ASSUME WD!DeliveryInv, NEW w \in Workers, WD!Save(w) PROVE WD!DeliveryInv'
  <1>1. wdSlot[w].pc = "saving" /\ UNCHANGED <<delivery, queue, surplus>>
    BY DEF WD!Save, WD!At
  <1>2. /\ endpoint' \in WD!Endpoint \cup {WD!Gone} /\ streak' \in Nat
        /\ endpoint'.gone \/ wdOverwritten' \/ endpoint'.failures <= streak'
    BY SavedCount
  <1>3. RowsTyped
    BY <1>1, <1>2, DeliveryTyped DEF RowsTyped
  <1>4. CASE wdSlot[w].then = "idle"
    <2>1. wdSlot' = [wdSlot EXCEPT ![w] = WD!Idle]
      BY <1>4 DEF WD!Save
    <2>2. ~Runner(wdSlot[w]) /\ ~Runner(WD!Idle) /\ WD!Idle \in Slotted
      BY <1>1, <1>4, StepKinds, Kinds DEF Slotted
    <2>3. WD!Idle \notin WD!Retryings /\ WD!Idle.pc = "idle"
      BY DEF WD!Idle, WD!Retryings
    <2>4. RowsHeld
      <3>1. \A d \in Deliveries : surplus[d] \in Int
        BY DeliveryTyped
      <3> QED
        BY <1>1, <1>3, <3>1, DeliveryTyped DEF RowsTyped, RowsHeld
    <2>5. Counts(WD!Idle)
      BY <1>2, <2>3 DEF Counts
    <2> QED
      BY <1>1, <2>1, <2>2, <2>3, <2>4, <2>5, CallsMove
  <1>5. CASE wdSlot[w].then # "idle"
    <2> DEFINE new == [pc |-> wdSlot[w].then, j |-> wdSlot[w].j, copy |-> wdSlot[w].job]
    <2>1. wdSlot' = [wdSlot EXCEPT ![w] = new]
      BY <1>5 DEF WD!Save
    <2>2. wdSlot[w] \in WD!Records /\ Runner(wdSlot[w])
      BY <1>1, <1>5, StepKinds, Kinds
    <2>3. /\ new \in WD!Runs /\ new.j = wdSlot[w].j /\ new.pc \in {"ending", "marking"}
          /\ Done(wdSlot[w]) => Done(new)
      BY <2>2 DEF WD!Records, WD!Runs, Done
    <2> HIDE DEF new
    <2>4. PICK d \in Deliveries : d = queue[wdSlot[w].j].d
      BY <2>2, JobIsMine DEF JobRows
    <2>5. Counts(new) /\ surplus' = [surplus EXCEPT ![d] = surplus[d] + 0] /\ 0 \in -1 .. 1
      BY <1>1, <1>2, <2>3, SurplusSame DEF Counts
    <2> QED
      BY <1>1, <1>3, <2>1, <2>2, <2>3, <2>4, <2>5, RunGoesOn
  <1> QED
    BY <1>4, <1>5

LEMMA FailureMarked == ASSUME WD!DeliveryInv, NEW w \in Workers, WD!MarkFailed(w) PROVE WD!DeliveryInv'
  <1>1. /\ wdSlot[w].pc = "marking" /\ wdSlot' = [wdSlot EXCEPT ![w] = WD!Idle]
        /\ queue' = [queue EXCEPT ![wdSlot[w].j] = WD!Thrown(wdSlot[w].j)]
        /\ UNCHANGED <<endpoint, surplus, streak, wdOverwritten>>
    BY DEF WD!MarkFailed, WD!At
  <1>2. wdSlot[w] \in WD!Runs /\ Runner(wdSlot[w]) /\ ~Done(wdSlot[w])
    BY <1>1, StepKinds, Kinds DEF Done
  <1>3. queue[wdSlot[w].j] \in JobRows
    BY <1>2, JobIsMine
  <1>4. PICK d \in Deliveries : d = queue[wdSlot[w].j].d
    BY <1>3 DEF JobRows
  <1> DEFINE made == queue[wdSlot[w].j].made + 1  q == WD!Thrown(wdSlot[w].j)
  <1>5. made \in Nat
    BY <1>3 DEF JobRows
  <1>6. q = WD!NoJob \/ q = [queue[wdSlot[w].j] EXCEPT !.state = "waiting", !.made = made]
    BY DEF WD!Thrown
  <1> HIDE DEF made, q
  <1>7. q \in JobRows \cup {WD!NoJob} /\ (q # WD!NoJob => q.d = queue[wdSlot[w].j].d)
    BY <1>3, <1>5, <1>6 DEF JobRows
  <1>8. RowsTyped
    <2>1. PICK s \in WD!WebhookDeliveryStatus : WD!SaveDelivery(w, s)
      BY DEF WD!MarkFailed, WD!WebhookDeliveryStatus
    <2> QED
      BY <1>1, <1>2, <2>1, RowSaved
  <1>9. surplus' = [surplus EXCEPT ![d] = surplus[d] + 0] /\ 0 \in -1 .. 1
    BY <1>1, SurplusSame
  <1> QED
    BY <1>1, <1>2, <1>4, <1>7, <1>8, <1>9, RunStops DEF q

LEMMA JobEnded == ASSUME WD!DeliveryInv, NEW w \in Workers, WD!End(w) PROVE WD!DeliveryInv'
  <1>1. /\ wdSlot[w].pc = "ending" /\ wdSlot' = [wdSlot EXCEPT ![w] = WD!Idle]
        /\ queue' = [queue EXCEPT ![wdSlot[w].j] = WD!NoJob]
        /\ UNCHANGED <<endpoint, delivery, surplus, streak, wdOverwritten>>
    BY DEF WD!End, WD!At
  <1>2. wdSlot[w] \in WD!Runs /\ Runner(wdSlot[w])
    BY <1>1, StepKinds, Kinds
  <1>3. PICK d \in Deliveries : d = queue[wdSlot[w].j].d
    BY <1>2, JobIsMine DEF JobRows
  <1>4. RowsTyped /\ surplus' = [surplus EXCEPT ![d] = surplus[d] + 0] /\ 0 \in -1 .. 1
    BY <1>1, RowsTypedSame, SurplusSame
  <1> QED
    BY <1>1, <1>2, <1>3, <1>4, RunStops

\* A worker dies: its job waits again, with a reason if the POST was answered.
LEMMA WorkerDied == ASSUME WD!DeliveryInv, NEW w \in Workers, WD!Die(w) PROVE WD!DeliveryInv'
  <1>1. /\ wdSlot' = [wdSlot EXCEPT ![w] = WD!Idle] /\ UNCHANGED <<endpoint, delivery, streak, wdOverwritten>>
    BY DEF WD!Die
  <1>2. CASE Runner(wdSlot[w])
    <2> DEFINE q == [queue[wdSlot[w].j] EXCEPT !.state = "waiting"]
    <2>1. /\ queue' = [queue EXCEPT ![wdSlot[w].j] = q]
          /\ IF Done(wdSlot[w]) THEN WD!OneReason(queue[wdSlot[w].j].d) ELSE surplus' = surplus
      BY <1>2, WorkingRuns DEF WD!Die
    <2>2. queue[wdSlot[w].j] \in JobRows
      BY <1>2, JobIsMine
    <2>3. PICK d \in Deliveries : d = queue[wdSlot[w].j].d
      BY <2>2 DEF JobRows
    <2>4. q \in JobRows /\ q.d = queue[wdSlot[w].j].d
      BY <2>2 DEF JobRows
    <2> HIDE DEF q
    <2>5. RowsTyped /\ 0 \in -1 .. 1 /\ -1 \in -1 .. 1
      BY <1>1, RowsTypedSame
    <2>6. CASE Done(wdSlot[w])
      <3>1. surplus' = [surplus EXCEPT ![d] = surplus[d] + (-1)]
        BY <2>1, <2>3, <2>6, ReasonGiven
      <3> QED
        BY <1>1, <1>2, <2>1, <2>3, <2>4, <2>5, <3>1, RunStops
    <2>7. CASE ~Done(wdSlot[w])
      <3>1. surplus' = [surplus EXCEPT ![d] = surplus[d] + 0]
        BY <2>1, <2>3, <2>7, SurplusSame
      <3> QED
        BY <1>1, <1>2, <2>1, <2>3, <2>4, <2>5, <2>7, <3>1, RunStops
    <2> QED
      BY <2>6, <2>7
  <1>3. CASE ~Runner(wdSlot[w])
    <2>1. queue' = queue /\ surplus' = surplus
      BY <1>3, WorkingRuns DEF WD!Die
    <2>2. ~Runner(WD!Idle) /\ WD!Idle \in Slotted /\ WD!Idle \notin WD!Retryings /\ WD!Idle.pc = "idle"
      BY Kinds DEF Slotted, WD!Idle, WD!Retryings
    <2>3. RowsHeld /\ Counts(WD!Idle)
      BY <1>1, <2>1, <2>2, RowsUnchanged, CountsStay
    <2> QED
      BY <1>1, <1>3, <2>1, <2>2, <2>3, CallsMove
  <1> QED
    BY <1>2, <1>3

\* The endpoint goes with its deliveries; what is at work goes on without them.
LEMMA Removed == ASSUME WD!DeliveryInv, NEW w \in Workers, WD!Remove(w) PROVE WD!DeliveryInv'
  <1>1. /\ wdSlot[w].pc = "idle" /\ endpoint' = WD!Gone
        /\ delivery' = [d \in Deliveries |-> IF WD!Exists(d) THEN WD!Deleted ELSE delivery[d]]
        /\ UNCHANGED <<queue, wdSlot, surplus, streak, wdOverwritten>>
    BY DEF WD!Remove, WD!Call, WD!At
  <1>2. wdSlot[w] = WD!Idle /\ ~Runner(WD!Idle) /\ WD!Idle \in Slotted /\ WD!Idle \notin WD!Retryings
        /\ WD!Idle.pc = "idle" /\ endpoint'.gone
    BY <1>1, StepKinds, Kinds DEF Slotted, WD!Idle, WD!Retryings, WD!Gone
  <1>3. wdSlot' = [wdSlot EXCEPT ![w] = WD!Idle]
    BY <1>1, <1>2, DeliveryTyped
  <1>4. RowsHeld
    <2>1. \A d \in Deliveries : surplus[d] \in Int
      BY DeliveryTyped
    <2>2. WD!Deleted # WD!NoRow
      BY DEF WD!Deleted, WD!NoRow
    <2>3. /\ delivery' \in [Deliveries -> WD!Delivery \cup {WD!NoRow, WD!Deleted}]
          /\ \A d \in Deliveries : delivery[d] # WD!NoRow => delivery'[d] # WD!NoRow
      BY <1>1, <2>2, DeliveryTyped
    <2> QED
      BY <1>1, <2>1, <2>3, DeliveryTyped DEF RowsHeld
  <1>5. Counts(WD!Idle)
    BY <1>2 DEF Counts
  <1> QED
    BY <1>1, <1>2, <1>3, <1>4, <1>5, CallsMove

\* Nothing moves but, perhaps, the window.
LEMMA WindowPassed ==
    ASSUME WD!DeliveryInv, UNCHANGED <<delivery, queue, wdSlot, surplus, streak, wdOverwritten>>,
           endpoint' \in WD!Endpoint \cup {WD!Gone},
           endpoint.gone => endpoint'.gone, ~endpoint.gone => endpoint'.failures = endpoint.failures
    PROVE  WD!DeliveryInv'
  <1>1. \A d \in Deliveries : WD!ReasonsLeft(d) => WD!ReasonsLeft(d)'
    BY DEF WD!ReasonsLeft, WD!Open, WD!Adding, WD!Working, WD!Answered, WD!At
  <1>2. WD!RowsMade' /\ WD!OneWorker'
    BY DeliveryTyped DEF WD!RowsMade, WD!OneWorker, WD!Working
  <1>3. \A r : WD!CopyTrue(r)' <=> WD!CopyTrue(r)
    BY DEF WD!CopyTrue, WD!Counted, WD!Disables, WD!CountFrom
  <1>4. WD!CountsTrue'
    <2>1. ASSUME NEW w \in Workers, WD!At(w, "saving")' PROVE WD!CopyTrue(wdSlot[w])'
      BY <2>1, DeliveryTyped DEF WD!CountsTrue, WD!At, WD!CopyTrue, WD!Counted, WD!Disables, WD!CountFrom
    <2>2. (endpoint.gone \/ wdOverwritten \/ endpoint.failures <= streak)'
      BY DeliveryTyped DEF WD!CountsTrue
    <2> QED
      BY <2>1, <2>2 DEF WD!CountsTrue
  <1> QED
    BY <1>1, <1>2, <1>4 DEF WD!DeliveryInv

LEMMA DeliveryStep == WD!DeliveryInv /\ [WD!Next]_(WD!vars) => WD!DeliveryInv'
  <1> SUFFICES ASSUME WD!DeliveryInv, [WD!Next]_(WD!vars) PROVE WD!DeliveryInv'
    OBVIOUS
  <1>1. CASE WD!WindowPasses
    <2>1. endpoint \in WD!Endpoint
      BY <1>1, DeliveryTyped DEF WD!WindowPasses, WD!Gone
    <2>2. endpoint' \in WD!Endpoint /\ endpoint'.failures = endpoint.failures /\ ~endpoint.gone
      BY <1>1, <2>1 DEF WD!WindowPasses, WD!Endpoint
    <2> QED
      BY <1>1, <2>2, WindowPassed DEF WD!WindowPasses
  <1>2. CASE UNCHANGED WD!vars
    BY <1>2, WindowPassed, DeliveryTyped DEF WD!vars
  <1>3. CASE \E w \in Workers, d \in Deliveries : WD!Dispatch(w, d) \/ WD!Replay(w, d) \/ WD!Retry(w, d)
    BY <1>3, Dispatched, Retried
  <1>4. CASE \E w \in Workers, j \in WdJobs : WD!Take(w, j)
    BY <1>4, Taken
  <1>5. CASE \E w \in Workers : \/ WD!RotateSecret(w) \/ WD!ReenableEndpoint(w)
                                \/ WD!UpdateEndpoint(w) \/ WD!Remove(w)
    BY <1>5, EndpointEdited, Removed
  <1>6. CASE \E w \in Workers : WD!Step(w)
    BY <1>6, MarkedPending, Enqueued, EndpointSaved, Posted, SuccessSaved, OutcomeRecorded, FailureMarked,
       JobEnded DEF WD!Step
  <1>7. CASE \E w \in Workers : WD!Die(w) \/ WD!ThrowAfterSuccess(w)
    BY <1>7, WorkerDied, ErrorCaught
  <1> QED
    BY <1>1, <1>2, <1>3, <1>4, <1>5, <1>6, <1>7 DEF WD!Next

LEMMA DeliveriesTakenOnce == WD!DeliveryInv => WD!DeliveredOnce
  <1> SUFFICES ASSUME WD!DeliveryInv, NEW d \in Deliveries PROVE surplus[d] <= 1
    BY DEF WD!DeliveredOnce
  <1>1. /\ surplus[d] \in Int /\ IsFiniteSet(WD!Open(d)) /\ IsFiniteSet(WD!Adding(d))
        /\ surplus[d] + Cardinality(WD!Open(d)) + Cardinality(WD!Adding(d))
             <= IF delivery[d] = WD!NoRow THEN 0 ELSE 1
    BY DeliveryTyped, ReasonsSame DEF WD!ReasonsLeft
  <1> DEFINE o == Cardinality(WD!Open(d))  a == Cardinality(WD!Adding(d))
  <1>2. o \in Nat /\ a \in Nat /\ surplus[d] + o + a <= IF delivery[d] = WD!NoRow THEN 0 ELSE 1
    BY <1>1, FS_CardinalityType
  <1> HIDE DEF o, a
  <1> QED
    BY <1>1, <1>2

\* Only a save ends a save, and only one for failures disables for them.
LEMMA DisabledRightly ==
    ASSUME WdThreshold \in Nat, WD!DeliveryInv, [WD!Next]_(WD!vars) PROVE WD!DisabledKept
  <1> SUFFICES ASSUME NEW w \in Workers, wdSlot[w].pc = "saving", wdSlot[w].why = "failure",
                      wdSlot'[w].pc # "saving", endpoint.active, ~endpoint'.active
               PROVE  streak' >= WdThreshold \/ wdOverwritten'
    BY DEF WD!DisabledKept, WD!At
  <1>1. wdSlot' # wdSlot /\ endpoint' # endpoint
    OBVIOUS
  <1>2. CASE WD!WindowPasses
    BY <1>1, <1>2 DEF WD!WindowPasses
  <1>3. CASE UNCHANGED WD!vars
    BY <1>1, <1>3 DEF WD!vars
  <1>4. CASE \E v \in Workers, d \in Deliveries : WD!Dispatch(v, d) \/ WD!Replay(v, d) \/ WD!Retry(v, d)
    BY <1>1, <1>4 DEF WD!Dispatch, WD!Replay, WD!Retry
  <1>5. CASE \E v \in Workers, j \in WdJobs : WD!Take(v, j)
    BY <1>1, <1>5 DEF WD!Take
  <1>6. CASE \E v \in Workers : \/ WD!RotateSecret(v) \/ WD!ReenableEndpoint(v)
                                \/ WD!UpdateEndpoint(v) \/ WD!Remove(v)
    BY <1>1, <1>6 DEF WD!RotateSecret, WD!ReenableEndpoint, WD!UpdateEndpoint, WD!Remove, WD!StartEdit
  <1>7. CASE \E v \in Workers : WD!Step(v) \/ WD!Die(v) \/ WD!ThrowAfterSuccess(v)
    <2>1. PICK v \in Workers : WD!Save(v)
      BY <1>1, <1>7 DEF WD!Step, WD!MarkPending, WD!Enqueue, WD!Post, WD!SaveSuccess, WD!RecordSuccess,
         WD!RecordFailure, WD!MarkFailed, WD!End, WD!Die, WD!ThrowAfterSuccess
    <2>2. v = w
      BY <2>1, DeliveryTyped DEF WD!Save
    <2>3. /\ endpoint' = wdSlot[w].copy /\ streak' = streak + 1
          /\ wdOverwritten' = (wdOverwritten \/ endpoint # wdSlot[w].read)
      BY <2>1, <2>2 DEF WD!Save
    <2>4. wdSlot[w].copy = WD!Counted(wdSlot[w].read)
      BY DeliveryTyped DEF WD!CountsTrue, WD!CopyTrue, WD!At
    <2>5. ASSUME ~wdOverwritten' PROVE streak' >= WdThreshold
      <3>1. endpoint' = WD!Counted(endpoint)
        BY <2>3, <2>4, <2>5
      <3>2. endpoint \in WD!Endpoint /\ ~endpoint.gone
        <4>1. endpoint \in WD!Endpoint
          BY DeliveryTyped DEF WD!Gone
        <4> QED
          BY <4>1 DEF WD!Endpoint
      <3>3. WD!Disables(endpoint) /\ WD!CountFrom(endpoint) <= endpoint.failures + 1 /\ WD!CountFrom(endpoint) \in Nat
        BY <3>1, <3>2, EndpointEdits
      <3>4. endpoint.failures <= streak /\ endpoint.failures \in Nat /\ streak \in Nat
        BY <2>3, <2>5, <3>2, DeliveryTyped DEF WD!CountsTrue, WD!Endpoint
      <3>5. WD!CountFrom(endpoint) >= WdThreshold
        BY <3>3 DEF WD!Disables
      <3> QED
        BY <2>3, <3>3, <3>4, <3>5
    <2> QED
      BY <2>5
  <1> QED
    BY <1>2, <1>3, <1>4, <1>5, <1>6, <1>7 DEF WD!Next

LEMMA WebhooksMove == [Next]_vars => [WD!Next]_(WD!vars)
  BY DEF Next, vars, plVars, wdVars, acVars, tkVars, auVars, akVars, diVars, thVars, wnVars,
     raVars, ejVars, msVars, seVars, WD!vars

LEMMA MailsMove == [Next]_vars => [EJ!Next]_(EJ!vars)
  BY DEF Next, vars, plVars, wdVars, acVars, tkVars, auVars, akVars, diVars, thVars, wnVars,
     raVars, ejVars, msVars, seVars, EJ!vars

(* A merchant takes each delivery once, and a mail goes out once, plus     *)
(* once for each doubt; and an endpoint is disabled only after as many     *)
(* failures in a row as the threshold says, unless a stale save brought    *)
(* back a count (webhooks.service.ts:154-270, webhooks.processor.ts:33-117,*)
(* email.service.ts:31-95).                                                *)
THEOREM DeliveriesStayKept ==
    ASSUME EjAttempts \in Nat \ {0}, WdThreshold \in Nat
    PROVE  Spec => DeliveriesKept
  <1>1. Init => WD!DeliveryInv /\ EJ!MailsInv
    BY Registered, MailsBegin
  <1>2. WD!DeliveryInv /\ [Next]_vars => WD!DeliveryInv'
    BY WebhooksMove, DeliveryStep
  <1>3. EJ!MailsInv /\ [Next]_vars => EJ!MailsInv'
    BY MailsMove, MailsStep
  <1>4. WD!DeliveryInv => WD!DeliveredOnce
    BY DeliveriesTakenOnce
  <1>5. WD!DeliveryInv /\ [Next]_vars => WD!DisabledKept
    BY WebhooksMove, DisabledRightly
  <1>6. EJ!MailsInv => (focus = "EmailJobs" => EJ!MailedOnce)
    BY MailsHold
  <1> QED
    BY <1>1, <1>2, <1>3, <1>4, <1>5, <1>6, PTL DEF Spec, DeliveriesKept

-----------------------------------------------------------------------------
(* The types of the components, where their invariants say less.           *)

(* Links: the clock stops in time, and only links are overwritten.         *)
LinkBounds ==
    /\ plNow \in 0 .. PlMaxTime /\ plOverwritten \subseteq Links
    /\ \A w \in Workers : plJob[w].pc # "idle" => plJob[w].read \in PL!Row

LEMMA LinkBoundsKept ==
    ASSUME PlMaxTime \in Nat, PL!LinksInv, LinkBounds, [PL!Next]_(PL!vars) PROVE LinkBounds'
  <1>1. ASSUME NEW w \in Workers, NEW l \in Links, NEW edit, link[l] # PL!NoRow, PL!Load(w, l, edit)
        PROVE  LinkBounds'
    BY <1>1 DEF PL!Load, PL!At, PL!LinksInv, LinkBounds
  <1>2. CASE PL!Tick
    BY <1>2 DEF PL!Tick, PL!At, LinkBounds
  <1>3. ASSUME NEW l \in Links, PL!Create(l) \/ PL!NameLink(l) \/ PL!CompletePayment(l)
                                    \/ PL!Credit(l) \/ PL!LoseCredit(l) \/ PL!CompleteByStream(l)
        PROVE  LinkBounds'
    BY <1>3 DEF PL!Create, PL!NameLink, PL!CompletePayment, PL!Credit, PL!LoseCredit,
                PL!CompleteByStream, PL!At, LinkBounds
  <1>4. ASSUME NEW w \in Workers, NEW l \in Links, PL!StartDeactivate(w, l) \/ PL!StartUpdate(w, l)
        PROVE  LinkBounds'
    BY <1>1, <1>4 DEF PL!StartDeactivate, PL!StartUpdate
  <1>5. ASSUME NEW w \in Workers, NEW l \in Links, PL!Visit(w, l) PROVE LinkBounds'
    BY <1>5 DEF PL!Visit, PL!At, PL!LinksInv, LinkBounds
  <1>6. ASSUME NEW w \in Workers, PL!Save(w) PROVE LinkBounds'
    <2>1. plJob[w].l \in Links
      BY <1>6 DEF PL!Save, PL!At, PL!LinksInv, PL!Handled, PL!Idle
    <2> QED
      BY <1>6, <2>1 DEF PL!Save, PL!Finish, PL!Idle, PL!At, PL!LinksInv, LinkBounds
  <1>7. ASSUME NEW w \in Workers, PL!CountView(w) PROVE LinkBounds'
    <2>1. /\ plJob[w].pc = "counting" /\ plJob' = [plJob EXCEPT ![w].pc = "answering"]
          /\ UNCHANGED <<plNow, plOverwritten>>
      BY <1>7 DEF PL!CountView, PL!At
    <2>2. /\ \A v \in Workers : v # w => plJob'[v] = plJob[v]
          /\ plJob'[w].read = plJob[w].read
      BY <2>1 DEF PL!LinksInv
    <2>3. \A v \in Workers : plJob'[v].pc # "idle" => plJob'[v].read \in PL!Row
      BY <2>1, <2>2 DEF LinkBounds
    <2> QED
      BY <2>1, <2>3 DEF LinkBounds, PL!Row
  <1>9. ASSUME NEW w \in Workers, PL!Answer(w) PROVE LinkBounds'
    BY <1>9 DEF PL!Answer, PL!Finish, PL!Idle, PL!At, PL!LinksInv, LinkBounds
  <1>8. CASE UNCHANGED PL!vars
    BY <1>8 DEF PL!vars, PL!At, LinkBounds
  <1>10. ASSUME NEW w \in Workers, PL!SelectLink(w) PROVE LinkBounds'
    <2>1. /\ plJob[w].read \in PL!Row /\ plJob'[w].read = plJob[w].read
          /\ \A v \in Workers : v # w => plJob'[v] = plJob[v]
          /\ UNCHANGED <<plNow, plOverwritten>>
      BY <1>10 DEF PL!SelectLink, PL!At, PL!LinksInv, LinkBounds
    <2> QED
      BY <2>1 DEF LinkBounds
  <1> QED
    BY <1>2, <1>3, <1>4, <1>5, <1>6, <1>7, <1>8, <1>9, <1>10 DEF PL!Next

LEMMA LinksTyped == PL!LinksInv /\ LinkBounds => PL!TypeOK
  BY DEF PL!LinksInv, PL!Handled, PL!At, PL!TypeOK, LinkBounds

LEMMA LinkBoundsBegin == PlMaxTime \in Nat /\ PL!Init => LinkBounds
  BY DEF PL!Init, PL!Idle, PL!At, LinkBounds

(* Access: requests are counted.                                           *)
LEMMA CallsCounted ==
    ASSUME AcMaxCalls \in Nat, acCalls \in 0 .. AcMaxCalls, [AC!Next]_(AC!vars)
    PROVE  acCalls' \in 0 .. AcMaxCalls
  <1>1. ASSUME NEW w \in Workers, AC!Arrive(w) PROVE acCalls' \in 0 .. AcMaxCalls
    BY <1>1 DEF AC!Arrive
  <1>2. ASSUME NEW w \in Workers, AC!Authenticate(w) \/ AC!Permit(w) \/ AC!Serve(w) PROVE acCalls' = acCalls
    BY <1>2, Zenon DEF AC!Authenticate, AC!Permit, AC!Serve
  <1>3. ASSUME NEW w \in Workers, AC!FindUser(w) \/ AC!FindRole(w) \/ AC!SaveUser(w) \/ AC!CreateRole(w)
        PROVE  acCalls' = acCalls
    BY <1>3, Zenon DEF AC!FindUser, AC!FindRole, AC!SaveUser, AC!CreateRole
  <1>4. ASSUME NEW w \in Workers, AC!FindRoleRow(w) \/ AC!SaveRole(w) \/ AC!CountUsers(w) \/ AC!RemoveRole(w)
        PROVE  acCalls' = acCalls
    BY <1>4, Zenon DEF AC!FindRoleRow, AC!SaveRole, AC!CountUsers, AC!RemoveRole
  <1> QED
    BY <1>1, <1>2, <1>3, <1>4 DEF AC!Next, AC!vars

LEMMA AccessTyped == AC!AccessInv /\ acCalls \in 0 .. AcMaxCalls => AC!TypeOK
  BY DEF AC!AccessInv, AC!InCall, AC!TypeOK

(* Webhooks: upsets are counted, and a save overwrote another or did not.  *)
UpsetBounds == upsets \in 0 .. MaxUpsets /\ wdOverwritten \in BOOLEAN

LEMMA UpsetsKept ==
    ASSUME MaxUpsets \in Nat, UpsetBounds, [WD!Next]_(WD!vars) PROVE UpsetBounds'
  <1>1. ASSUME WD!Upset PROVE upsets' \in 0 .. MaxUpsets
    BY <1>1 DEF WD!Upset, UpsetBounds
  <1>2. CASE WD!WindowPasses \/ UNCHANGED WD!vars
    BY <1>2 DEF WD!WindowPasses, WD!vars, UpsetBounds
  <1>3. ASSUME NEW w \in Workers, NEW d \in Deliveries, WD!Dispatch(w, d) \/ WD!Replay(w, d) \/ WD!Retry(w, d)
        PROVE  UpsetBounds'
    BY <1>1, <1>3 DEF WD!Dispatch, WD!Replay, WD!Retry, WD!Call, UpsetBounds
  <1>4. ASSUME NEW w \in Workers, NEW j \in WdJobs, WD!Take(w, j) PROVE UpsetBounds'
    BY <1>4 DEF WD!Take, UpsetBounds
  <1>5. ASSUME NEW w \in Workers,
               WD!RotateSecret(w) \/ WD!ReenableEndpoint(w) \/ WD!UpdateEndpoint(w) \/ WD!Remove(w)
        PROVE  UpsetBounds'
    BY <1>1, <1>5 DEF WD!RotateSecret, WD!ReenableEndpoint, WD!UpdateEndpoint, WD!Remove, WD!StartEdit,
       WD!Call, UpsetBounds
  <1>6. ASSUME NEW w \in Workers, WD!Save(w) PROVE UpsetBounds'
    BY <1>6 DEF WD!Save, UpsetBounds
  <1>7. ASSUME NEW w \in Workers, WD!MarkPending(w) \/ WD!Enqueue(w) \/ WD!Post(w) \/ WD!SaveSuccess(w)
        PROVE  UpsetBounds'
    BY <1>7 DEF WD!MarkPending, WD!Enqueue, WD!Post, WD!SaveSuccess, UpsetBounds
  <1>8. ASSUME NEW w \in Workers,
               WD!RecordSuccess(w) \/ WD!RecordFailure(w) \/ WD!MarkFailed(w) \/ WD!End(w)
        PROVE  UpsetBounds'
    BY <1>8 DEF WD!RecordSuccess, WD!RecordFailure, WD!MarkFailed, WD!End, UpsetBounds
  <1>9. ASSUME NEW w \in Workers, WD!Die(w) \/ WD!ThrowAfterSuccess(w) PROVE UpsetBounds'
    BY <1>1, <1>9 DEF WD!Die, WD!ThrowAfterSuccess, UpsetBounds
  <1> QED
    BY <1>2, <1>3, <1>4, <1>5, <1>6, <1>7, <1>8, <1>9 DEF WD!Next, WD!Step

LEMMA DeliveriesTyped == WD!DeliveryInv /\ UpsetBounds => WD!TypeOK
  BY DEF WD!DeliveryInv, WD!OneWorker, WD!TypeOK, UpsetBounds

(* Nonces: none is dated later than the tolerance allows.                  *)
NonceBounds ==
    /\ clock \in 1 .. WnMaxTime /\ enabled \in BOOLEAN /\ restarts \in 0 .. MaxRestarts
    /\ \A n \in Nonces : usedNonces[n] <= WnMaxTime + Tolerance /\ lastTaken[n] <= WnMaxTime + Tolerance

LEMMA NonceBoundsKept ==
    ASSUME WnMaxTime \in Nat, MaxRestarts \in Nat, Tolerance \in Nat, WN!NoncesInv, NonceBounds,
           [WN!Next]_(WN!vars)
    PROVE  NonceBounds'
  <1>1. CASE WN!Tick
    BY <1>1 DEF WN!Tick, NonceBounds
  <1>2. CASE WN!Restart
    BY <1>2 DEF WN!Restart, WN!Absent, NonceBounds
  <1>3. ASSUME NEW n \in Nonces \cup {WN!NoNonce}, NEW t \in 1 .. WnMaxTime + Tolerance,
               NEW signed \in BOOLEAN, WN!Verify(n, t, signed)
        PROVE  NonceBounds'
    <2>1. ASSUME NEW k \in Nonces
          PROVE  usedNonces'[k] <= WnMaxTime + Tolerance /\ lastTaken'[k] <= WnMaxTime + Tolerance
      <3>1. WN!Pruned \in [Nonces -> Nat] /\ WN!Pruned[k] <= WnMaxTime + Tolerance
        BY DEF WN!Pruned, WN!Absent, WN!NoncesInv, NonceBounds
      <3>2. usedNonces'[k] \in {WN!Pruned[k], usedNonces[k], t} /\ lastTaken'[k] \in {lastTaken[k], t}
        BY <1>3, <3>1 DEF WN!Verify, WN!NoncesInv
      <3> QED
        BY <3>1, <3>2 DEF NonceBounds
    <2> QED
      BY <1>3, <2>1 DEF WN!Verify, NonceBounds
  <1>4. CASE UNCHANGED WN!vars
    BY <1>4 DEF WN!vars, NonceBounds
  <1> QED
    BY <1>1, <1>2, <1>3, <1>4 DEF WN!Next

LEMMA NoncesTyped ==
    ASSUME WnMaxTime \in Nat, Tolerance \in Nat, WN!NoncesInv, NonceBounds PROVE WN!TypeOK
  BY DEF WN!NoncesInv, WN!TypeOK, NonceBounds

(* Rates: no rate is from later than now, and what is cached goes within   *)
(* its time to live.                                                       *)
RateBounds ==
    /\ raNow \in 1 .. RaMaxTime /\ raFaults \in 0 .. RaMaxFaults
    /\ cache.until <= raNow + Ttl /\ fallback <= raNow /\ latest <= raNow

LEMMA RateWork ==
    ASSUME RA!RatesInv, NEW w \in Workers
    PROVE  /\ raWork[w].pc \in {"idle", "fetching", "caching", "keeping", "falling back"}
           /\ raWork[w].pc \in {"caching", "keeping"} => raWork[w].rate \in Nat /\ raWork[w].rate <= raNow
  <1>1. CASE raWork[w] = RA!Idle
    BY <1>1 DEF RA!Idle
  <1>2. CASE RA!Timely(w)
    BY <1>2 DEF RA!Timely
  <1> QED
    BY <1>1, <1>2 DEF RA!RatesInv

LEMMA RatesTyped ==
    ASSUME RaMaxTime \in Nat, Ttl \in Nat, RA!RatesInv, RateBounds PROVE RA!TypeOK
  <1>1. /\ cache.rate \in Nat /\ cache.until \in Nat /\ fallback \in Nat /\ latest \in Nat
        /\ cache.rate <= raNow
    BY DEF RA!RatesInv
  <1>2. \A w \in Workers : raWork[w].pc \in {"idle", "fetching", "caching", "keeping", "falling back"}
    BY RateWork
  <1>3. /\ raNow \in 1 .. RaMaxTime /\ cache.rate \in 0 .. RaMaxTime /\ cache.until \in 0 .. RaMaxTime + Ttl
        /\ fallback \in 0 .. RaMaxTime /\ latest \in 0 .. RaMaxTime /\ raFaults \in 0 .. RaMaxFaults
    BY <1>1 DEF RateBounds
  <1> QED
    BY <1>2, <1>3 DEF RA!TypeOK

LEMMA RateBoundsKept ==
    ASSUME RaMaxTime \in Nat, RaMaxFaults \in Nat, Ttl \in Nat, RA!RatesInv, RateBounds,
           [RA!Next]_(RA!vars)
    PROVE  RateBounds'
  <1>1. /\ cache.rate \in Nat /\ cache.until \in Nat /\ fallback \in Nat /\ latest \in Nat
        /\ cache.rate <= raNow /\ raNow \in Nat
        /\ \A w \in Workers : raWork[w].pc \in {"caching", "keeping"}
                              => raWork[w].rate \in Nat /\ raWork[w].rate <= raNow
    BY RateWork DEF RA!RatesInv
  <1>2. ASSUME NEW rate \in Nat, rate <= raNow, RA!Serve(rate) PROVE latest' \in Nat /\ latest' <= raNow
    BY <1>1, <1>2 DEF RA!Serve, RA!Greater, RateBounds
  <1>3. CASE RA!Tick
    BY <1>1, <1>3 DEF RA!Tick, RateBounds
  <1>4. CASE RA!Restart
    BY <1>4 DEF RA!Restart, RateBounds
  <1>5. ASSUME NEW w \in Workers, RA!GetRate(w) PROVE RateBounds'
    BY <1>1, <1>2, <1>5 DEF RA!GetRate, RateBounds
  <1>6. ASSUME NEW w \in Workers, RA!SetCache(w) PROVE RateBounds'
    BY <1>1, <1>6 DEF RA!SetCache, RA!KeptFor, RateBounds
  <1>7. ASSUME NEW w \in Workers, RA!SetFallback(w) PROVE RateBounds'
    BY <1>1, <1>2, <1>7 DEF RA!SetFallback, RateBounds
  <1>8. ASSUME NEW w \in Workers, RA!FallBack(w) PROVE RateBounds'
    <2>1. latest' \in Nat /\ latest' <= raNow
      BY <1>1, <1>2, <1>8 DEF RA!FallBack, RateBounds
    <2> QED
      BY <1>8, <2>1 DEF RA!FallBack, RateBounds
  <1>9. ASSUME NEW w \in Workers, RA!Refresh(w) \/ RA!Quote(w) \/ RA!NoQuote(w) PROVE RateBounds'
    BY <1>9 DEF RA!Refresh, RA!Quote, RA!NoQuote, RateBounds
  <1>10. ASSUME NEW w \in Workers, RA!Refused(w) PROVE RateBounds'
    BY <1>10 DEF RA!Refused, RateBounds
  <1>11. CASE UNCHANGED RA!vars
    BY <1>11 DEF RA!vars, RateBounds
  <1> QED
    BY <1>3, <1>4, <1>5, <1>6, <1>7, <1>8, <1>9, <1>10, <1>11 DEF RA!Next

(* Throttling: a bucket has the hits of its limit and the one that blocked. *)
HitBounds ==
    /\ decorated \in BOOLEAN /\ thNow \in 0 .. ThMaxTime
    /\ \A b \in TH!Buckets :
         /\ Cardinality(hits[b]) <= TH!Limits[b].limit + 1
         /\ blocked[b] = 0 => Cardinality(hits[b]) <= TH!Limits[b].limit
         /\ blocked[b] <= ThMaxTime + AuthTtl + DefaultTtl

LEMMA HitsTyped ==
    ASSUME ThrottlersOn, ThMaxTime \in Nat, TH!WindowsInv, HitBounds PROVE TH!TypeOK
  <1>1. \A b \in TH!Buckets : TH!Cardinality(hits[b]) <= TH!Effective(b).limit + 1
    BY BucketLimits, ThrottlingSame DEF HitBounds
  <1>2. blocked \in [TH!Buckets -> 0 .. ThMaxTime + AuthTtl + DefaultTtl]
    BY DEF HitBounds, TH!WindowsInv, ThrottlersOn
  <1> QED
    BY <1>1, <1>2 DEF HitBounds, TH!TypeOK

LEMMA HitBoundsBegin == ASSUME ThrottlersOn, ThMaxTime \in Nat \ {0}, Init PROVE HitBounds
  <1>1. /\ thNow = 1 /\ hits = [b \in TH!Buckets |-> {}] /\ blocked = [b \in TH!Buckets |-> 0]
        /\ decorated \in BOOLEAN
    BY DEF Init, TH!Init
  <1>2. Cardinality({}) = 0
    BY FS_EmptySet
  <1>3. \A b \in TH!Buckets : Cardinality(hits[b]) = 0 /\ blocked[b] = 0
    BY <1>1, <1>2
  <1> QED
    BY <1>1, <1>3, BucketLimits DEF HitBounds, ThrottlersOn

LEMMA HitWithin ==
    ASSUME ThrottlersOn, ThMaxTime \in Nat, TH!WindowsInv, HitBounds, NEW b \in TH!Buckets
    PROVE  /\ Cardinality(TH!Counted(b)) <= TH!Limits[b].limit + 1
           /\ TH!Blocks(b) = 0 => Cardinality(TH!Counted(b)) <= TH!Limits[b].limit
           /\ TH!Blocks(b) <= ThMaxTime + AuthTtl + DefaultTtl
  <1> DEFINE limit == TH!Limits[b].limit
             ttl == TH!Limits[b].ttl
             count == TH!Counted(b)
             fresh == TH!Fresh(b)
  <1>1. limit \in Nat \ {0} /\ ttl \in Nat \ {0} /\ TH!Effective(b) = TH!Limits[b]
    BY BucketLimits
  <1>2. ttl <= AuthTtl + DefaultTtl /\ AuthTtl \in Nat /\ DefaultTtl \in Nat
    BY BucketNames DEF ThrottlersOn, TH!Limits, TH!Throttler
  <1>3. fresh \subseteq hits[b] /\ IsFiniteSet(hits[b])
    BY ThrottlingSame DEF TH!Fresh, TH!WindowsInv
  <1>4. IsFiniteSet(fresh) /\ Cardinality(fresh) <= Cardinality(hits[b])
        /\ Cardinality(fresh) \in Nat /\ Cardinality(hits[b]) \in Nat
    BY <1>3, FS_Subset, FS_CardinalityType
  <1>5. count = IF TH!BlockOver(b) THEN {TH!This} ELSE IF blocked[b] # 0 THEN fresh ELSE fresh \cup {TH!This}
    BY DEF TH!Counted
  <1>6. /\ Cardinality({TH!This}) = 1
        /\ Cardinality(fresh \cup {TH!This}) <= Cardinality(fresh) + 1
        /\ Cardinality(fresh \cup {TH!This}) \in Nat
    <2> DEFINE this == TH!This
    <2> HIDE DEF fresh, this
    <2>1. Cardinality({this}) = 1
      BY FS_Singleton
    <2>2. /\ IsFiniteSet(fresh \cup {this})
          /\ Cardinality(fresh \cup {this}) = Cardinality(fresh)
             \/ Cardinality(fresh \cup {this}) = Cardinality(fresh) + 1
      BY <1>4, FS_AddElement
    <2> QED
      BY <1>4, <2>1, <2>2 DEF this
  <1>7. /\ Cardinality(hits[b]) <= limit + 1
        /\ blocked[b] = 0 => Cardinality(hits[b]) <= limit
        /\ blocked[b] <= ThMaxTime + AuthTtl + DefaultTtl /\ blocked[b] \in Nat
        /\ thNow \in 0 .. ThMaxTime
    BY DEF HitBounds, TH!WindowsInv
  <1>8. TH!Blocks(b) = IF TH!BlockOver(b) THEN 0
                       ELSE IF blocked[b] = 0 /\ Cardinality(count) > limit THEN thNow + ttl
                       ELSE blocked[b]
    BY <1>1, ThrottlingSame DEF TH!Blocks
  <1>9. TH!BlockOver(b) => blocked[b] # 0
    BY DEF TH!BlockOver
  <1> HIDE DEF limit, ttl, count, fresh
  <1>10. CASE TH!BlockOver(b)
    <2>1. Cardinality(count) = 1 /\ TH!Blocks(b) = 0
      BY <1>5, <1>6, <1>8, <1>10
    <2> QED
      BY <1>1, <1>2, <2>1 DEF limit, count
  <1>11. CASE ~TH!BlockOver(b)
    <2>1. /\ blocked[b] # 0 => count = fresh
          /\ blocked[b] = 0 => count = fresh \cup {TH!This}
      BY <1>5, <1>11
    <2>2. /\ blocked[b] # 0 => Cardinality(count) = Cardinality(fresh)
          /\ blocked[b] = 0 => Cardinality(count) <= Cardinality(fresh) + 1
          /\ Cardinality(count) \in Nat
      BY <1>4, <1>6, <2>1
    <2>3. Cardinality(count) <= limit + 1
      BY <1>1, <1>4, <1>7, <2>2
    <2>4. /\ TH!Blocks(b) = 0 => Cardinality(count) <= limit
          /\ TH!Blocks(b) <= ThMaxTime + AuthTtl + DefaultTtl
      BY <1>1, <1>2, <1>7, <1>8, <1>11, <2>2
    <2> QED
      BY <2>3, <2>4 DEF limit, count
  <1> QED
    BY <1>10, <1>11

LEMMA HitBoundsKept ==
    ASSUME ThrottlersOn, ThMaxTime \in Nat, TH!WindowsInv, HitBounds, [TH!Next]_(TH!vars) PROVE HitBounds'
  <1>1. CASE TH!Tick
    BY <1>1 DEF TH!Tick, HitBounds, TH!Limits
  <1>2. CASE TH!Request
    <2>1. ASSUME NEW b \in TH!Buckets
          PROVE  \/ hits'[b] = hits[b] /\ blocked'[b] = blocked[b]
                 \/ hits'[b] = TH!Counted(b) /\ blocked'[b] = TH!Blocks(b)
      BY <1>2 DEF TH!Request, TH!WindowsInv
    <2>2. \A b \in TH!Buckets : TH!Limits[b]' = TH!Limits[b]
      BY DEF TH!Limits
    <2>3. decorated' = decorated /\ thNow' = thNow
      BY <1>2 DEF TH!Request
    <2>4. ASSUME NEW b \in TH!Buckets
          PROVE  /\ Cardinality(hits'[b]) <= TH!Limits[b].limit + 1
                 /\ blocked'[b] = 0 => Cardinality(hits'[b]) <= TH!Limits[b].limit
                 /\ blocked'[b] <= ThMaxTime + AuthTtl + DefaultTtl
      BY <2>1, HitWithin DEF HitBounds
    <2> QED
      BY <2>2, <2>3, <2>4 DEF HitBounds
  <1>3. CASE UNCHANGED TH!vars
    BY <1>3 DEF TH!vars, HitBounds, TH!Limits
  <1> QED
    BY <1>1, <1>2, <1>3 DEF TH!Next

(* Mails: what is tried, logged and doubted is counted. *)
MailBounds ==
    /\ ejFaults \in 0 .. EjMaxFaults
    /\ \A m \in Mails : /\ ejJob[m].tries <= EjAttempts
                        /\ log[m].failed <= ejJob[m].tries
                        /\ doubts[m] <= ejFaults

LEMMA MailBoundsBegin == ASSUME EjAttempts \in Nat, EjMaxFaults \in Nat, Init PROVE MailBounds
  BY DEF Init, EJ!Init, MailBounds

LEMMA MailsTyped ==
    ASSUME EjAttempts \in Nat \ {0}, EjMaxFaults \in Nat, EJ!MailsInv, MailBounds PROVE EJ!TypeOK
  <1>1. \A m \in Mails :
          /\ ejJob[m].state \in {"none", "waiting", "active", "completed", "failed"}
          /\ ejJob[m].tries \in 0 .. EjAttempts
          /\ log[m].sent \in 0 .. 1 /\ log[m].failed \in 0 .. EjAttempts
          /\ doubts[m] \in 0 .. EjMaxFaults
    BY MailTyped DEF MailBounds, EJ!SentOnce
  <1>2. \A w \in Workers : ejSlot[w].pc \in {"idle", "sending", "logging", "failing"}
    BY DEF EJ!MailsInv, EJ!Idle, EJ!Sendings
  <1> QED
    BY <1>1, <1>2 DEF EJ!TypeOK, EJ!MailsInv, MailBounds

LEMMA MailBoundsKept ==
    ASSUME EjAttempts \in Nat \ {0}, EjMaxFaults \in Nat, EJ!MailsInv, MailBounds, [EJ!Next]_(EJ!vars)
    PROVE  MailBounds'
  <1>1. \A m \in Mails :
          /\ ejJob[m] \in [state : {"none", "waiting", "active", "completed", "failed"}, tries : Nat]
          /\ log[m] \in [sent : Nat, failed : Nat] /\ doubts[m] \in Nat
          /\ ejJob[m].tries <= EjAttempts /\ log[m].failed <= ejJob[m].tries /\ doubts[m] <= ejFaults
    BY MailTyped DEF MailBounds
  <1>2. /\ ejFaults \in 0 .. EjMaxFaults
        /\ DOMAIN ejJob = Mails /\ DOMAIN log = Mails /\ DOMAIN doubts = Mails
    BY DEF MailBounds, EJ!MailsInv
  <1>3. ASSUME NEW m \in Mails, EJ!Enqueue(m) \/ \E w \in Workers : EJ!Process(w, m) PROVE MailBounds'
    BY <1>1, <1>2, <1>3 DEF EJ!Enqueue, EJ!Process, MailBounds
  <1>4. ASSUME NEW w \in Workers, EJ!Delivered(w) \/ EJ!NotDelivered(w) PROVE MailBounds'
    BY <1>4 DEF EJ!Delivered, EJ!NotDelivered, MailBounds
  <1>5. ASSUME NEW w \in Workers,
               EJ!AnswerLost(w) \/ EJ!LogSent(w) \/ EJ!LogSentFails(w) \/ EJ!LogFailed(w) \/ EJ!Die(w)
        PROVE  MailBounds'
    <2> DEFINE m == ejSlot[w].mail
    <2>1. ejSlot[w].pc \in {"sending", "logging", "failing"}
      BY <1>5 DEF EJ!AnswerLost, EJ!LogSent, EJ!LogSentFails, EJ!LogFailed, EJ!Die, EJ!MailsInv, EJ!Sendings
    <2>2. m \in Mails /\ ejJob[m].tries < EjAttempts
      BY <2>1, MailServed
    <2>3. CASE EJ!AnswerLost(w) \/ EJ!LogSentFails(w)
      <3>1. /\ UNCHANGED <<ejJob, log>> /\ doubts' = [doubts EXCEPT ![m] = @ + 1]
            /\ ejFaults < EjMaxFaults /\ ejFaults' = ejFaults + 1
        BY <2>3 DEF EJ!AnswerLost, EJ!LogSentFails, EJ!Fault
      <3> HIDE DEF m
      <3> QED
        BY <1>1, <1>2, <2>2, <3>1 DEF MailBounds
    <2>4. CASE EJ!LogSent(w)
      <3>1. /\ UNCHANGED <<doubts, ejFaults>> /\ log' = [log EXCEPT ![m].sent = @ + 1]
            /\ ejJob' = [ejJob EXCEPT ![m].state = "completed"]
        BY <2>4 DEF EJ!LogSent
      <3> HIDE DEF m
      <3> QED
        BY <1>1, <1>2, <2>2, <3>1 DEF MailBounds
    <2>5. CASE EJ!LogFailed(w)
      <3>1. /\ ejJob' = [ejJob EXCEPT ![m] = EJ!Thrown(@)] /\ UNCHANGED doubts
            /\ \/ log' = [log EXCEPT ![m].failed = @ + 1] /\ UNCHANGED ejFaults
               \/ UNCHANGED log /\ ejFaults < EjMaxFaults /\ ejFaults' = ejFaults + 1
        BY <2>5 DEF EJ!LogFailed, EJ!Fault
      <3> HIDE DEF m
      <3>2. /\ \A k \in Mails : /\ k # m => ejJob'[k] = ejJob[k] /\ log'[k] = log[k]
                                /\ log'[k].failed \in {log[k].failed, log[k].failed + 1}
            /\ ejJob'[m].tries = ejJob[m].tries + 1
        BY <1>1, <1>2, <2>2, <3>1 DEF EJ!Thrown
      <3>3. ejFaults' \in 0 .. EjMaxFaults /\ ejFaults <= ejFaults'
        BY <1>2, <3>1
      <3>4. ASSUME NEW k \in Mails PROVE ejJob'[k].tries <= EjAttempts /\ log'[k].failed <= ejJob'[k].tries
        BY <1>1, <2>2, <3>2
      <3>5. \A k \in Mails : doubts'[k] <= ejFaults'
        BY <1>1, <1>2, <3>1, <3>3
      <3> QED
        BY <3>3, <3>4, <3>5 DEF MailBounds
    <2>6. CASE EJ!Die(w)
      <3>1. /\ ejJob' = [ejJob EXCEPT ![m].state = "waiting"] /\ UNCHANGED log
            /\ doubts' = [doubts EXCEPT ![m] = IF ejSlot[w].pc = "logging" THEN @ + 1 ELSE @]
            /\ ejFaults < EjMaxFaults /\ ejFaults' = ejFaults + 1
        BY <2>6 DEF EJ!Die, EJ!Fault
      <3> HIDE DEF m
      <3> QED
        BY <1>1, <1>2, <2>2, <3>1 DEF MailBounds
    <2> QED
      BY <1>5, <2>3, <2>4, <2>5, <2>6
  <1>6. CASE UNCHANGED EJ!vars
    BY <1>6 DEF EJ!vars, MailBounds
  <1> QED
    BY <1>3, <1>4, <1>5, <1>6 DEF EJ!Next

(* Signatures: the account's number is used by stored transactions that    *)
(* are on the ledger and by calls that paid, or are about to.              *)
Paying == {w \in Workers : msWork[w].op = "pay"}
BadSigned(c) == c.bad \subseteq c.signers

SignBounds ==
    /\ timely \subseteq Txs /\ msCalls \in 0 .. MsMaxCalls /\ msFaults \in 0 .. MsMaxFaults
    /\ \A t \in Txs : BadSigned(msRow[t])
    /\ \A w \in Workers : msWork[w].op \in {"sign", "submit", "save"} => BadSigned(msWork[w].copy)
    /\ sequence + Cardinality(Paying) <= Cardinality(ledger) + msCalls

LEMMA SignBoundsBegin ==
    ASSUME MsMaxCalls \in Nat, MsMaxFaults \in Nat, Init PROVE SignBounds
  <1>1. Paying = {} /\ ledger = {} /\ sequence = 0 /\ msCalls = 0
    BY DEF Init, MS!Init, MS!Idle, Paying
  <1>2. Cardinality({}) = 0
    BY FS_EmptySet
  <1>3. sequence + Cardinality(Paying) <= Cardinality(ledger) + msCalls
    BY <1>1, <1>2
  <1> QED
    BY <1>3 DEF Init, MS!Init, MS!Idle, MS!Unborn, BadSigned, SignBounds

LEMMA SignCounts ==
    ASSUME IsFiniteSet(Workers), IsFiniteSet(Txs), MS!WeightsInv, NEW S \in SUBSET Workers, NEW L \in SUBSET Txs
    PROVE  /\ IsFiniteSet(S) /\ IsFiniteSet(L)
           /\ Cardinality(S) \in Nat /\ Cardinality(L) \in Nat
           /\ Cardinality(L) <= Cardinality(Txs) /\ Cardinality(Txs) \in Nat
  BY FS_Subset, FS_CardinalityType

LEMMA SignsTyped ==
    ASSUME IsFiniteSet(Workers), IsFiniteSet(Txs), MsMaxCalls \in Nat, MS!WeightsInv, SignBounds
    PROVE  MS!TypeOK
  <1>1. ASSUME NEW t \in Txs
        PROVE  /\ msRow[t].status \in MS!Status /\ msRow[t].collected \in Nat
               /\ msRow[t].bad \subseteq msRow[t].signers /\ msRow[t].signers \subseteq Signers
    BY DEF SignBounds, BadSigned, MS!WeightsInv, MS!Transaction, MS!Unborn, MS!Status
  <1>2. /\ Cardinality(Paying) \in Nat /\ Cardinality(ledger) \in Nat /\ Cardinality(Txs) \in Nat
        /\ Cardinality(ledger) <= Cardinality(Txs)
    BY SignCounts DEF Paying, MS!WeightsInv
  <1>3. sequence \in 0 .. Cardinality(Txs) + MsMaxCalls
    BY <1>2 DEF SignBounds, MS!WeightsInv
  <1>4. MS!Cardinality(Txs) = Cardinality(Txs)
    BY WeightsSame
  <1> QED
    BY <1>1, <1>3, <1>4 DEF SignBounds, MS!TypeOK, MS!WeightsInv

LEMMA PayingMoves ==
    ASSUME IsFiniteSet(Workers), NEW w \in Workers, NEW r, DOMAIN msWork = Workers,
           msWork' = [msWork EXCEPT ![w] = r]
    PROVE  /\ r.op # "pay" => Paying' = Paying \ {w}
           /\ r.op = "pay" => Paying' = Paying \cup {w}
  BY DEF Paying

LEMMA SignBoundsKept ==
    ASSUME IsFiniteSet(Workers), IsFiniteSet(Txs), MsMaxCalls \in Nat, MsMaxFaults \in Nat, MS!WeightsInv,
           SignBounds, [MS!Next]_(MS!vars)
    PROVE  SignBounds'
  <1> USE DEF MS!Goto
  <1>1. /\ DOMAIN msWork = Workers /\ DOMAIN msRow = Txs /\ sequence \in Nat /\ ledger \subseteq Txs
        /\ IsFiniteSet(Paying) /\ Cardinality(Paying) \in Nat
        /\ IsFiniteSet(ledger) /\ Cardinality(ledger) \in Nat
    BY SignCounts DEF MS!WeightsInv, Paying
  <1>2. /\ timely \subseteq Txs /\ msCalls \in 0 .. MsMaxCalls /\ msFaults \in 0 .. MsMaxFaults
        /\ \A t \in Txs : BadSigned(msRow[t])
        /\ \A w \in Workers : msWork[w].op \in {"sign", "submit", "save"} => BadSigned(msWork[w].copy)
        /\ sequence + Cardinality(Paying) <= Cardinality(ledger) + msCalls
    BY DEF SignBounds
  <1>3. ASSUME NEW w \in Workers PROVE /\ Cardinality(Paying \ {w}) \in Nat
                                       /\ Cardinality(Paying \ {w}) <= Cardinality(Paying)
                                       /\ w \in Paying => Cardinality(Paying \ {w}) = Cardinality(Paying) - 1
                                       /\ Cardinality(Paying \cup {w}) \in Nat
                                       /\ Cardinality(Paying \cup {w}) <= Cardinality(Paying) + 1
    <2> HIDE DEF Paying
    <2>1. /\ IsFiniteSet(Paying \ {w})
          /\ Cardinality(Paying \ {w}) = IF w \in Paying THEN Cardinality(Paying) - 1 ELSE Cardinality(Paying)
      BY <1>1, FS_RemoveElement
    <2>2. /\ IsFiniteSet(Paying \cup {w})
          /\ Cardinality(Paying \cup {w}) = IF w \in Paying THEN Cardinality(Paying) ELSE Cardinality(Paying) + 1
      BY <1>1, FS_AddElement
    <2>3. Cardinality(Paying \ {w}) \in Nat
      BY <2>1, FS_CardinalityType
    <2> QED
      BY <1>1, <2>1, <2>2, <2>3
  <1>4. ASSUME NEW w \in Workers, NEW r, msWork' = [msWork EXCEPT ![w] = r], r.op # "pay",
               r.op \in {"sign", "submit", "save"} => BadSigned(r.copy),
               \A t \in Txs : BadSigned(msRow'[t]), timely' \subseteq Txs,
               msCalls' \in {msCalls, msCalls + 1} /\ msCalls' <= MsMaxCalls, msFaults' \in 0 .. MsMaxFaults,
               UNCHANGED <<sequence, ledger>>
        PROVE  SignBounds'
    <2>1. \A v \in Workers : msWork'[v] = IF v = w THEN r ELSE msWork[v]
      BY <1>1, <1>4
    <2>2. Paying' = Paying \ {w}
      BY <1>1, <1>4, PayingMoves
    <2>6. Cardinality(Paying') \in Nat /\ Cardinality(Paying') <= Cardinality(Paying)
      BY <1>3, <2>2
    <2>3. sequence' + Cardinality(Paying') <= Cardinality(ledger') + msCalls'
      BY <1>1, <1>2, <1>4, <2>6
    <2>4. \A v \in Workers : msWork'[v].op \in {"sign", "submit", "save"} => BadSigned(msWork'[v].copy)
      BY <1>2, <1>4, <2>1
    <2>5. msCalls' \in 0 .. MsMaxCalls
      BY <1>2, <1>4
    <2> QED
      BY <1>4, <2>3, <2>4, <2>5 DEF SignBounds, BadSigned
  <1>5. ASSUME NEW w \in Workers, MS!Send(w) PROVE SignBounds'
    <2> DEFINE r == [op |-> IF MedThreshold > OwnWeight THEN "store" ELSE "pay", sequence |-> sequence + 1]
    <2>1. /\ msWork' = [msWork EXCEPT ![w] = r] /\ msCalls < MsMaxCalls /\ msCalls' = msCalls + 1
          /\ UNCHANGED <<msRow, sequence, ledger, timely, msFaults>> /\ r.op \in {"store", "pay"}
      BY <1>5 DEF MS!Send
    <2> HIDE DEF r
    <2>2. \A v \in Workers : msWork'[v] = IF v = w THEN r ELSE msWork[v]
      BY <1>1, <2>1
    <2>3. Paying' = Paying \cup {w} \/ Paying' = Paying \ {w}
      BY <1>1, <2>1, PayingMoves
    <2>6. Cardinality(Paying') \in Nat /\ Cardinality(Paying') <= Cardinality(Paying) + 1
      BY <1>1, <1>3, <2>3
    <2>4. sequence' + Cardinality(Paying') <= Cardinality(ledger') + msCalls'
      BY <1>1, <1>2, <2>1, <2>6
    <2>5. \A v \in Workers : msWork'[v].op \in {"sign", "submit", "save"} => BadSigned(msWork'[v].copy)
      BY <1>2, <2>1, <2>2
    <2> QED
      BY <1>2, <2>1, <2>4, <2>5 DEF SignBounds, BadSigned
  <1>6. ASSUME NEW w \in Workers, MS!Store(w) PROVE SignBounds'
    <2>1. /\ msWork' = [msWork EXCEPT ![w] = MS!Idle] /\ MS!Idle.op = "idle"
          /\ timely' \subseteq Txs /\ UNCHANGED <<sequence, ledger, msCalls, msFaults>>
      BY <1>2, <1>6 DEF MS!Store, MS!Idle
    <2>2. ASSUME NEW t \in Txs PROVE BadSigned(msRow'[t])
      <3>1. PICK s \in Txs : msRow' = [msRow EXCEPT ![s] =
                 [status |-> "pending_signatures", signers |-> {}, collected |-> OwnWeight,
                  bad |-> {}, sequence |-> msWork[w].sequence]]
        BY <1>6 DEF MS!Store
      <3>2. msRow'[t] = msRow[t] \/ (msRow'[t].bad = {} /\ msRow'[t].signers = {})
        BY <1>1, <3>1
      <3> QED
        BY <1>2, <3>2 DEF BadSigned
    <2>3. /\ MS!Idle.op # "pay" /\ (MS!Idle.op \in {"sign", "submit", "save"} => BadSigned(MS!Idle.copy))
          /\ \A t \in Txs : BadSigned(msRow'[t])
          /\ timely' \subseteq Txs
          /\ msCalls' \in {msCalls, msCalls + 1} /\ msCalls' <= MsMaxCalls /\ msFaults' \in 0 .. MsMaxFaults
          /\ UNCHANGED <<sequence, ledger>>
      BY <1>2, <2>1, <2>2
    <2> QED
      BY <1>4, <2>1, <2>3
  <1>7. ASSUME NEW w \in Workers, MS!Pay(w) PROVE SignBounds'
    <2>1. /\ msWork' = [msWork EXCEPT ![w] = MS!Idle] /\ MS!Idle.op = "idle" /\ w \in Paying
          /\ sequence' \in {sequence, sequence + 1}
          /\ UNCHANGED <<msRow, ledger, timely, msCalls, msFaults>>
      BY <1>7 DEF MS!Pay, MS!Idle, Paying
    <2>2. \A v \in Workers : msWork'[v] = IF v = w THEN MS!Idle ELSE msWork[v]
      BY <1>1, <2>1
    <2>3. Paying' = Paying \ {w}
      BY <1>1, <2>1, PayingMoves
    <2>6. Cardinality(Paying') = Cardinality(Paying) - 1
      BY <1>3, <2>1, <2>3
    <2>4. sequence' + Cardinality(Paying') <= Cardinality(ledger') + msCalls'
      BY <1>1, <1>2, <2>1, <2>6
    <2>5. \A v \in Workers : msWork'[v].op \in {"sign", "submit", "save"} => BadSigned(msWork'[v].copy)
      BY <1>2, <2>1, <2>2
    <2> QED
      BY <1>2, <2>1, <2>4, <2>5 DEF SignBounds, BadSigned
  <1>8. ASSUME NEW w \in Workers, MS!Add(w) PROVE SignBounds'
    <2>1. msWork[w] \in MS!Signings /\ msWork[w].op = "sign"
      BY <1>8, WorkersWork DEF MS!Add, Works, MS!Idle
    <2> DEFINE c == MS!Signed(msWork[w])
    <2>2. BadSigned(c) /\ BadSigned(msWork[w].copy)
      <3>1. /\ c.signers = msWork[w].copy.signers \cup {msWork[w].signer}
            /\ c.bad \subseteq msWork[w].copy.bad \cup {msWork[w].signer}
        BY <2>1 DEF MS!Signed, MS!Signings, MS!Transaction
      <3> QED
        BY <1>2, <2>1, <3>1 DEF BadSigned
    <2> HIDE DEF c
    <2>3. PICK r : /\ msWork' = [msWork EXCEPT ![w] = r]
                   /\ \/ r = MS!Idle
                      \/ r = [msWork[w] EXCEPT !.copy = c, !.op = IF c.collected >= MedThreshold THEN "submit" ELSE "save"]
      BY <1>8 DEF MS!Add, c
    <2>4. r.op # "pay" /\ (r.op \in {"sign", "submit", "save"} => BadSigned(r.copy))
      <3>1. CASE r = MS!Idle
        BY <3>1 DEF MS!Idle
      <3>2. CASE r # MS!Idle
        <4>1. r.copy = c /\ r.op \in {"submit", "save"}
          BY <2>1, <2>3, <3>2 DEF MS!Signings
        <4> QED
          BY <2>2, <4>1
      <3> QED
        BY <3>1, <3>2
    <2>5. UNCHANGED <<msRow, timely, msCalls, msFaults, sequence, ledger>>
      BY <1>8 DEF MS!Add
    <2>6. /\ r.op # "pay" /\ (r.op \in {"sign", "submit", "save"} => BadSigned(r.copy))
          /\ \A t \in Txs : BadSigned(msRow'[t])
          /\ timely' \subseteq Txs
          /\ msCalls' \in {msCalls, msCalls + 1} /\ msCalls' <= MsMaxCalls /\ msFaults' \in 0 .. MsMaxFaults
          /\ UNCHANGED <<sequence, ledger>>
      BY <1>2, <2>4, <2>5
    <2> QED
      BY <1>4, <2>3, <2>6
  <1>9. ASSUME NEW w \in Workers, MS!Submit(w) PROVE SignBounds'
    <2>1. msWork[w] \in MS!Signings /\ msWork[w].op = "submit" /\ msWork[w].tx \in Txs /\ w \notin Paying
      BY <1>9, WorkersWork DEF MS!Submit, Works, MS!Idle, MS!Signings, Paying
    <2>2. BadSigned(msWork[w].copy)
      BY <1>2, <2>1
    <2>3. PICK r : /\ msWork' = [msWork EXCEPT ![w] = r]
                   /\ \/ r = MS!Idle
                      \/ r = [msWork[w] EXCEPT !.op = "save", !.copy.status = "submitted"]
      BY <1>9 DEF MS!Submit
    <2>4. r.op # "pay" /\ (r.op \in {"sign", "submit", "save"} => BadSigned(r.copy))
      <3>1. CASE r = MS!Idle
        BY <3>1 DEF MS!Idle
      <3>2. CASE r # MS!Idle
        <4>1. /\ r.op = "save" /\ r.copy.bad = msWork[w].copy.bad
              /\ r.copy.signers = msWork[w].copy.signers
          <5> DEFINE c == [msWork[w].copy EXCEPT !.status = "submitted"]
          <5>1. r = [msWork[w] EXCEPT !.op = "save", !.copy = c]
            BY <2>3, <3>2
          <5>2. /\ msWork[w].copy \in MS!Transaction
                /\ {"op", "copy"} \subseteq DOMAIN msWork[w]
            BY <2>1 DEF MS!Signings
          <5>3. c.bad = msWork[w].copy.bad /\ c.signers = msWork[w].copy.signers
            BY <5>2 DEF MS!Transaction
          <5> HIDE DEF c
          <5>4. r.op = "save" /\ r.copy = c
            BY <5>1, <5>2
          <5> QED
            BY <5>3, <5>4
        <4> QED
          BY <2>2, <4>1 DEF BadSigned
      <3> QED
        BY <3>1, <3>2
    <2>5. UNCHANGED <<msRow, timely, msCalls, msFaults>>
      BY <1>9 DEF MS!Submit
    <2>6. CASE UNCHANGED <<sequence, ledger>>
      <3>1. /\ r.op # "pay" /\ (r.op \in {"sign", "submit", "save"} => BadSigned(r.copy))
            /\ \A t \in Txs : BadSigned(msRow'[t])
            /\ timely' \subseteq Txs
            /\ msCalls' \in {msCalls, msCalls + 1} /\ msCalls' <= MsMaxCalls /\ msFaults' \in 0 .. MsMaxFaults
            /\ UNCHANGED <<sequence, ledger>>
        BY <1>2, <2>4, <2>5, <2>6
      <3> QED
        BY <1>4, <2>3, <3>1
    <2>7. CASE ~UNCHANGED <<sequence, ledger>>
      <3>1. /\ msWork[w].tx \notin ledger
            /\ ledger' = ledger \cup {msWork[w].tx} /\ sequence' = sequence + 1
        BY <1>9, <2>7 DEF MS!Submit
      <3>2. Cardinality(ledger') = Cardinality(ledger) + 1
        BY <1>1, <3>1, FS_AddElement
      <3>3. Paying' = Paying \ {w}
        BY <1>1, <2>3, <2>4, PayingMoves
      <3>7. Cardinality(Paying') \in Nat /\ Cardinality(Paying') <= Cardinality(Paying)
        BY <1>3, <3>3
      <3>4. sequence' + Cardinality(Paying') <= Cardinality(ledger') + msCalls'
        BY <1>1, <1>2, <2>5, <3>1, <3>2, <3>7
      <3>5. \A v \in Workers : msWork'[v] = IF v = w THEN r ELSE msWork[v]
        BY <1>1, <2>3
      <3>6. \A v \in Workers : msWork'[v].op \in {"sign", "submit", "save"} => BadSigned(msWork'[v].copy)
        BY <1>2, <2>4, <3>5
      <3> QED
        BY <1>2, <2>5, <3>4, <3>6 DEF SignBounds, BadSigned
    <2> QED
      BY <2>6, <2>7
  <1>10. ASSUME NEW w \in Workers, MS!Save(w) PROVE SignBounds'
    <2>1. /\ msWork' = [msWork EXCEPT ![w] = MS!Idle] /\ MS!Idle.op = "idle" /\ msWork[w].op = "save"
          /\ msRow' = [msRow EXCEPT ![msWork[w].tx] = msWork[w].copy]
          /\ UNCHANGED <<sequence, ledger, timely, msCalls, msFaults>>
      BY <1>10 DEF MS!Save, MS!Idle
    <2>2. \A t \in Txs : BadSigned(msRow'[t])
      BY <1>1, <1>2, <2>1
    <2>3. /\ MS!Idle.op # "pay" /\ (MS!Idle.op \in {"sign", "submit", "save"} => BadSigned(MS!Idle.copy))
          /\ \A t \in Txs : BadSigned(msRow'[t])
          /\ timely' \subseteq Txs
          /\ msCalls' \in {msCalls, msCalls + 1} /\ msCalls' <= MsMaxCalls /\ msFaults' \in 0 .. MsMaxFaults
          /\ UNCHANGED <<sequence, ledger>>
      BY <1>2, <2>1, <2>2
    <2> QED
      BY <1>4, <2>1, <2>3
  <1>11. ASSUME NEW w \in Workers, MS!Die(w) PROVE SignBounds'
    <2>1. /\ msWork' = [msWork EXCEPT ![w] = MS!Idle] /\ MS!Idle.op = "idle"
          /\ msFaults' = msFaults + 1 /\ msFaults < MsMaxFaults
          /\ UNCHANGED <<msRow, sequence, ledger, timely, msCalls>>
      BY <1>11 DEF MS!Die, MS!Idle
    <2>2. /\ MS!Idle.op # "pay" /\ (MS!Idle.op \in {"sign", "submit", "save"} => BadSigned(MS!Idle.copy))
          /\ \A t \in Txs : BadSigned(msRow'[t])
          /\ timely' \subseteq Txs
          /\ msCalls' \in {msCalls, msCalls + 1} /\ msCalls' <= MsMaxCalls /\ msFaults' \in 0 .. MsMaxFaults
          /\ UNCHANGED <<sequence, ledger>>
      BY <1>2, <2>1
    <2> QED
      BY <1>4, <2>1, <2>2
  <1>12. ASSUME NEW w \in Workers, NEW x \in Txs, NEW s \in Signers, NEW valid \in BOOLEAN,
                MS!Find(w, x, s, valid)
         PROVE  SignBounds'
    <2> DEFINE r == [op |-> "sign", tx |-> x, signer |-> s, valid |-> valid, copy |-> msRow[x],
                     version |-> msVersion[x]]
    <2>1. /\ msWork' = [msWork EXCEPT ![w] = r] /\ r.op = "sign" /\ r.copy = msRow[x]
          /\ msCalls' = msCalls + 1 /\ msCalls < MsMaxCalls
          /\ UNCHANGED <<msRow, sequence, ledger, timely, msFaults>>
      BY <1>12 DEF MS!Find
    <2> HIDE DEF r
    <2>2. /\ r.op # "pay" /\ (r.op \in {"sign", "submit", "save"} => BadSigned(r.copy))
          /\ \A t \in Txs : BadSigned(msRow'[t])
          /\ timely' \subseteq Txs
          /\ msCalls' \in {msCalls, msCalls + 1} /\ msCalls' <= MsMaxCalls /\ msFaults' \in 0 .. MsMaxFaults
          /\ UNCHANGED <<sequence, ledger>>
      BY <1>2, <2>1
    <2> QED
      BY <1>4, <2>1, <2>2
  <1>13. ASSUME NEW t \in Txs, MS!TooLate(t) PROVE SignBounds'
    BY <1>2, <1>13 DEF MS!TooLate, SignBounds, Paying, BadSigned
  <1>14. CASE UNCHANGED MS!vars
    BY <1>14 DEF MS!vars, SignBounds, Paying, BadSigned
  <1> QED
    BY <1>5, <1>6, <1>7, <1>8, <1>9, <1>10, <1>11, <1>12, <1>13, <1>14 DEF MS!Next

(* Accounts: the row, and each copy of it, counts a guess of a call that   *)
(* is not guessing any more, and has only what a call made.                *)
Guessing == {w \in Workers : AU!Next1(w) \in {"compare", "fail"}}

Fits(u) ==
    /\ u.failed + Cardinality(Guessing) <= auCalls
    /\ u.lockedUntil <= AuMaxTime + 1 /\ u.secret <= AuMaxCalls /\ u.codes \subseteq AU!Calls

AccountBounds ==
    /\ auNow \in 0 .. AuMaxTime /\ Fits(auRow)
    /\ late \subseteq [copy : AU!UserRow, version : Nat] /\ \A s \in late : Fits(s.copy)
    /\ \A w \in Workers : /\ auWork[w].copy # AU!NoCopy => Fits(auWork[w].copy)
                          /\ auWork[w].version \in Nat /\ auWork[w].version <= auVersion

LEMMA GuessesFinite ==
    ASSUME IsFiniteSet(Workers)
    PROVE  /\ IsFiniteSet(Guessing) /\ Cardinality(Guessing) \in Nat
           /\ IsFiniteSet(Guessing') /\ Cardinality(Guessing') \in Nat
  <1>1. IsFiniteSet(Guessing) /\ IsFiniteSet(Guessing')
    BY FS_Subset DEF Guessing
  <1> QED
    BY <1>1, FS_CardinalityType

\* One call moves: how many are guessing then.
LEMMA GuessMoves ==
    ASSUME IsFiniteSet(Workers), AU!AccountInv, NEW w \in Workers, NEW r, auWork' = [auWork EXCEPT ![w] = r]
    PROVE  /\ Cardinality(Guessing') <= Cardinality(Guessing) + 1
           /\ AU!Next1(w) \in {"compare", "fail"} => Cardinality(Guessing') <= Cardinality(Guessing)
           /\ r.todo = <<>> \/ Head(r.todo) \notin {"compare", "fail"} =>
                /\ Cardinality(Guessing') <= Cardinality(Guessing)
                /\ AU!Next1(w) \in {"compare", "fail"} => Cardinality(Guessing') + 1 <= Cardinality(Guessing)
  <1>1. auWork'[w] = r /\ \A v \in Workers : v # w => auWork'[v] = auWork[v]
    BY DEF AU!AccountInv
  <1>2. /\ Guessing' \subseteq Guessing \cup {w}
        /\ AU!Next1(w) \in {"compare", "fail"} => w \in Guessing
        /\ r.todo = <<>> \/ Head(r.todo) \notin {"compare", "fail"} => w \notin Guessing'
    BY <1>1 DEF Guessing, AU!Next1
  <1> DEFINE now == Guessing  then == Guessing'
  <1>3. IsFiniteSet(now) /\ IsFiniteSet(then) /\ Cardinality(now) \in Nat /\ Cardinality(then) \in Nat
    BY GuessesFinite
  <1> HIDE DEF now, then
  <1>4. /\ IsFiniteSet(now \cup {w})
        /\ Cardinality(now \cup {w}) = Cardinality(now) \/ Cardinality(now \cup {w}) = Cardinality(now) + 1
        /\ w \in now => now \cup {w} = now
    BY <1>3, FS_AddElement
  <1>5. IsFiniteSet(now \ {w}) /\ Cardinality(now \ {w}) \in Nat
        /\ (w \in now => Cardinality(now \ {w}) = Cardinality(now) - 1)
        /\ (w \notin now => now \ {w} = now)
    BY <1>3, FS_RemoveElement, FS_CardinalityType
  <1>6. then \subseteq now \cup {w} => Cardinality(then) <= Cardinality(now \cup {w})
    BY <1>4, FS_Subset
  <1>7. then \subseteq now \ {w} => Cardinality(then) <= Cardinality(now \ {w})
    BY <1>5, FS_Subset
  <1>8. then \subseteq now \cup {w} /\ w \notin then => then \subseteq now \ {w}
    OBVIOUS
  <1>9. then \subseteq now \cup {w} => Cardinality(then) <= Cardinality(now) + 1
    BY <1>3, <1>4, <1>6
  <1>10. then \subseteq now \cup {w} /\ w \in now => Cardinality(then) <= Cardinality(now)
    BY <1>4, <1>6
  <1>11. then \subseteq now \ {w} => /\ Cardinality(then) <= Cardinality(now)
                                     /\ w \in now => Cardinality(then) + 1 <= Cardinality(now)
    <2>1. CASE w \in now
      BY <1>3, <1>5, <1>7, <2>1
    <2>2. CASE w \notin now
      BY <1>3, <1>5, <1>7, <2>2
    <2> QED
      BY <2>1, <2>2
  <1> QED
    BY <1>2, <1>8, <1>9, <1>10, <1>11 DEF now, then

\* Calls come in as guesses do.
Keeps == auCalls' \in Nat /\ auCalls + Cardinality(Guessing') <= auCalls' + Cardinality(Guessing)

LEMMA FitsLater ==
    ASSUME IsFiniteSet(Workers), AU!AccountInv, Keeps, NEW u, u.failed \in Nat, Fits(u) PROVE Fits(u)'
  <1> DEFINE now == Cardinality(Guessing)  then == Cardinality(Guessing')  f == u.failed
  <1>1. now \in Nat /\ then \in Nat /\ auCalls \in Nat /\ auCalls' \in Nat /\ f \in Nat
        /\ f + now <= auCalls /\ auCalls + then <= auCalls' + now
    BY GuessesFinite DEF AU!AccountInv, Fits, Keeps
  <1> HIDE DEF now, then, f
  <1>2. \A a, b, c, d, e \in Nat : a + b <= c /\ c + d <= e + b => a + d <= e
    OBVIOUS
  <1>3. f + then <= auCalls'
    BY <1>1, <1>2
  <1> QED
    BY <1>3 DEF now, then, f, Fits, AU!Calls

LEMMA CopiesTyped ==
    ASSUME AU!AccountInv
    PROVE  /\ auRow \in AU!UserRow /\ auVersion \in Nat /\ auCalls \in Nat
           /\ \A s \in late : s.copy \in AU!UserRow
           /\ \A w \in Workers : auWork[w].copy # AU!NoCopy => auWork[w].copy \in AU!UserRow
  BY DEF AU!AccountInv, AU!Behind, AU!Served, AU!Idle

\* A call goes on, with a copy of the row or without one.
LEMMA AccountGoesOn ==
    ASSUME IsFiniteSet(Workers), AU!AccountInv, AccountBounds, NEW w \in Workers, NEW r,
           auWork' = [auWork EXCEPT ![w] = r], Keeps,
           r.copy # AU!NoCopy => r.copy = auRow,
           r.version \in {0, auVersion}, auVersion' \in {auVersion, auVersion + 1}, UNCHANGED auNow,
           late' \subseteq late \cup [copy : {AU!Cleared(auRow)}, version : {auVersion}],
           AuMaxTime \in Nat, UNCHANGED auRow \/ Fits(auRow)'
    PROVE  AccountBounds'
  <1>1. /\ auRow \in AU!UserRow /\ auVersion \in Nat /\ auCalls \in Nat
        /\ \A s \in late : s.copy \in AU!UserRow
        /\ \A v \in Workers : auWork[v].copy # AU!NoCopy => auWork[v].copy \in AU!UserRow
    BY CopiesTyped
  <1>2. \A u \in AU!UserRow : Fits(u) => Fits(u)'
    BY FitsLater DEF AU!UserRow
  <1>3. auWork'[w] = r /\ \A v \in Workers : v # w => auWork'[v] = auWork[v]
    BY DEF AU!AccountInv
  <1>4. Fits(auRow) /\ \A s \in late : Fits(s.copy)
    BY DEF AccountBounds
  <1>5. AU!Cleared(auRow) \in AU!UserRow /\ Fits(AU!Cleared(auRow))
    <2> DEFINE u == [auRow EXCEPT !.lockedUntil = 0, !.failed = 0]
    <2>1. AU!Cleared(auRow) \in {auRow, u}
      BY DEF AU!Cleared
    <2>2. u \in AU!UserRow /\ u.failed = 0 /\ u.lockedUntil = 0 /\ u.secret = auRow.secret /\ u.codes = auRow.codes
          /\ auRow.failed \in Nat /\ auRow.lockedUntil \in Nat
      BY <1>1 DEF AU!UserRow
    <2> HIDE DEF u
    <2> DEFINE f == auRow.failed  now == Cardinality(Guessing)
    <2>3. f \in Nat /\ now \in Nat /\ f + now <= auCalls /\ auCalls \in Nat
      BY <1>1, <1>4, <2>2, GuessesFinite DEF Fits
    <2> HIDE DEF f, now
    <2>4. 0 + now <= auCalls
      BY <2>3
    <2>5. 0 <= AuMaxTime + 1
      OBVIOUS
    <2>6. Fits(u)
      BY <1>4, <2>2, <2>4, <2>5 DEF Fits, now
    <2> QED
      BY <1>1, <1>4, <2>1, <2>2, <2>6
  <1>6. Fits(auRow)'
    BY <1>1, <1>2, <1>4
  <1>7. late' \subseteq [copy : AU!UserRow, version : Nat] /\ \A s \in late' : Fits(s.copy)'
    <2>1. \A s \in late' : s \in late \/ (s \in [copy : AU!UserRow, version : Nat] /\ s.copy = AU!Cleared(auRow))
      BY <1>1, <1>5
    <2> QED
      BY <1>1, <1>2, <1>4, <1>5, <2>1 DEF AccountBounds
  <1>8. ASSUME NEW v \in Workers, auWork'[v].copy # AU!NoCopy PROVE Fits(auWork[v].copy)'
    <2>1. CASE v = w
      <3>1. auWork'[v].copy = auRow
        BY <1>3, <1>8, <2>1
      <3> QED
        BY <1>1, <1>2, <1>4, <3>1
    <2>2. CASE v # w
      <3>1. auWork'[v].copy = auWork[v].copy /\ auWork[v].copy \in AU!UserRow /\ Fits(auWork[v].copy)
        BY <1>1, <1>3, <1>8, <2>2 DEF AccountBounds
      <3> QED
        BY <1>2, <3>1
    <2> QED
      BY <2>1, <2>2
  <1>9. ASSUME NEW v \in Workers PROVE auWork'[v].version \in Nat /\ auWork'[v].version <= auVersion'
    BY <1>1, <1>3 DEF AccountBounds
  <1>10. auNow' \in 0 .. AuMaxTime
    BY DEF AccountBounds
  <1>11. Fits(auRow)' /\ \A v \in Workers : (auWork[v].copy # AU!NoCopy => Fits(auWork[v].copy))'
    BY <1>6, <1>8
  <1> QED
    BY <1>7, <1>9, <1>10, <1>11 DEF AccountBounds

LEMMA BeginFits ==
    ASSUME IsFiniteSet(Workers), AuMaxTime \in Nat, AuMaxCalls \in Nat, AU!AccountInv, AccountBounds,
           NEW w \in Workers, NEW op \in AccountOps, AU!Begin(w, op)
    PROVE  AccountBounds'
  <1> DEFINE b == AU!Begun(op)
             c == [b EXCEPT !.user = AU!Cleared(auRow)]
  <1>1. b.copy = AU!NoCopy /\ b.version = 0 /\ c.copy = AU!NoCopy /\ c.version = 0
    BY DEF AU!Begun, AU!Idle
  <1>2. auWork' = [auWork EXCEPT ![w] = b] \/ auWork' = [auWork EXCEPT ![w] = c]
    BY DEF AU!Begin, AU!Goto
  <1> HIDE DEF b, c
  <1>3. PICK r : auWork' = [auWork EXCEPT ![w] = r] /\ r.copy = AU!NoCopy /\ r.version = 0
    BY <1>1, <1>2
  <1>4. /\ auVersion' = auVersion /\ auCalls' = auCalls + 1 /\ UNCHANGED <<auNow, auRow>>
        /\ late' \subseteq late \cup [copy : {AU!Cleared(auRow)}, version : {auVersion}]
    BY DEF AU!Begin
  <1>5. auCalls \in Nat
    BY CopiesTyped
  <1>6. Cardinality(Guessing') <= Cardinality(Guessing) + 1
    BY <1>3, GuessMoves
  <1>7. Keeps
    BY <1>4, <1>5, <1>6, GuessesFinite DEF Keeps
  <1> QED
    BY <1>3, <1>4, <1>7, AccountGoesOn

\* A call goes on that neither saves nor comes in.
LEMMA CallFits ==
    ASSUME IsFiniteSet(Workers), AuMaxTime \in Nat, AuMaxCalls \in Nat, AU!AccountInv, AccountBounds,
           NEW w \in Workers, NEW r, auWork' = [auWork EXCEPT ![w] = r],
           \/ AU!Next1(w) \in {"compare", "fail"}
           \/ r.todo = <<>>
           \/ Head(r.todo) \notin {"compare", "fail"},
           UNCHANGED <<auRow, auNow, late, auVersion, auCalls>>,
           \/ r.copy = AU!NoCopy /\ r.version = 0
           \/ r.copy = auRow /\ r.version = auVersion
    PROVE  AccountBounds'
  <1>1. Cardinality(Guessing') <= Cardinality(Guessing)
    BY GuessMoves
  <1>2. Keeps
    BY <1>1, CopiesTyped, GuessesFinite DEF Keeps
  <1> QED
    BY <1>2, AccountGoesOn

LEMMA IdleNow == AU!Idle.todo = <<>> /\ AU!Idle.copy = AU!NoCopy /\ AU!Idle.version = 0
  BY DEF AU!Idle

LEMMA LeftNow == \A w, todo : Left(w, todo).todo = todo /\ Left(w, todo).copy = AU!NoCopy /\ Left(w, todo).version = 0
  BY DEF Left

LEMMA QuietFits ==
    ASSUME IsFiniteSet(Workers), AuMaxTime \in Nat, AuMaxCalls \in Nat, AU!AccountInv, AccountBounds,
           NEW w \in Workers, AU!Compare(w) \/ AU!Factor(w) \/ AU!Find(w)
    PROVE  AccountBounds'
  <1> DEFINE todo == auWork[w].todo
  <1>1. UNCHANGED <<auRow, auNow, late, auVersion, auCalls>>
    BY DEF AU!Compare, AU!Factor, AU!Find
  <1>2. AU!Next1(w) # "done"
    BY DEF AU!Compare, AU!Factor, AU!Find, AU!Changes
  <1>3. /\ auWork[w].op \in AccountOps /\ todo \in AU!Ahead(auWork[w].op)
        /\ todo # <<>> /\ Head(todo) = AU!Next1(w)
    BY <1>2 DEF AU!AccountInv, AU!Served, AU!Next1, AU!Idle, AccountOps
  <1>4. ASSUME NEW rest, AU!Then(w, rest), AU!Next1(w) \in {"compare", "fail"} \/ rest = <<>>
                                           \/ Head(rest) \notin {"compare", "fail"}
        PROVE  AccountBounds'
    <2>1. CASE rest = <<>>
      <3>1. auWork' = [auWork EXCEPT ![w] = AU!Idle]
        BY <1>4, <2>1 DEF AU!Then, AU!Goto
      <3> QED
        BY <1>1, <3>1, CallFits, IdleNow
    <2>2. CASE rest # <<>>
      <3>1. auWork' = [auWork EXCEPT ![w] = Left(w, rest)]
        BY <1>4, <2>2 DEF AU!Then, AU!Goto, Left
      <3>2. Left(w, rest).todo = rest
        BY LeftNow
      <3> QED
        BY <1>1, <1>4, <3>1, <3>2, CallFits, LeftNow
    <2> QED
      BY <2>1, <2>2
  <1>5. CASE AU!Compare(w)
    BY <1>4, <1>5 DEF AU!Compare
  <1>6. CASE AU!Factor(w)
    <2>1. <<"consume">> # <<>> /\ Head(<<"consume">>) \notin {"compare", "fail"}
      OBVIOUS
    <2> QED
      BY <1>4, <1>6, <2>1 DEF AU!Factor
  <1>7. CASE AU!Find(w)
    <2>1. CASE AU!Then(w, Tail(todo))
      <3>1. Tail(todo) = <<>> \/ Head(Tail(todo)) \notin {"compare", "fail"}
        BY <1>3, AheadSteps
      <3> QED
        BY <1>4, <2>1, <3>1
    <2>2. CASE AU!Goto(w, [auWork[w] EXCEPT !.copy = auRow, !.version = auVersion])
      <3> DEFINE r == [auWork[w] EXCEPT !.copy = auRow, !.version = auVersion]
      <3>1. auWork' = [auWork EXCEPT ![w] = r]
        BY <2>2 DEF AU!Goto
      <3>2. r.todo = todo /\ r.copy = auRow /\ r.version = auVersion
        OBVIOUS
      <3> HIDE DEF r
      <3>3. AU!Next1(w) \in {"compare", "fail"} \/ Head(r.todo) \notin {"compare", "fail"}
        BY <1>3, <3>2
      <3> QED
        BY <1>1, <3>1, <3>2, <3>3, CallFits
    <2> QED
      BY <1>7, <2>1, <2>2 DEF AU!Find
  <1> QED
    BY <1>5, <1>6, <1>7

LEMMA SaveFits ==
    ASSUME IsFiniteSet(Workers), Threshold \in Nat \ {0}, AuMaxTime \in Nat, AuMaxCalls \in Nat,
           AU!AccountInv, AccountBounds, NEW w \in Workers, AU!Save(w)
    PROVE  AccountBounds'
  <1> DEFINE u == auWork[w].copy  v == auWork[w].version  n == auWork[w].call
             op == auWork[w].op  todo == auWork[w].todo  change == Head(todo)
             code == CHOOSE c \in u.codes : TRUE
             new == AU!Changed(change, u, n)
             r == IF Tail(todo) = <<>> THEN AU!Idle ELSE Left(w, Tail(todo))
  <1>0. /\ auWork[w] # AU!Idle /\ u # AU!NoCopy /\ AU!Served(w)
        /\ AU!Next1(w) = change /\ change \in AU!Changes
        /\ op \in AccountOps /\ todo \in AU!Ahead(op)
        /\ AU!Behind(u, v)
        /\ change = "consume" => u.codes # {}
        /\ n \in 1 .. auCalls /\ n \in AU!Calls
    BY SaveFacts
  <1>1. /\ auRow' = new /\ auVersion' = auVersion + 1
        /\ auWork' = [auWork EXCEPT ![w] = r]
        /\ UNCHANGED <<auNow, late, auCalls>>
    BY SaveFacts
  <1>2. /\ u \in AU!UserRow /\ u.failed \in Nat /\ u.secret \in Nat
        /\ u.failed >= Threshold => u.lockedUntil # 0
        /\ auNow \in Nat /\ auCalls \in Nat /\ n \in Nat /\ n <= AuMaxCalls
    <2>1. n \in Nat /\ n <= AuMaxCalls
      BY <1>0 DEF AU!Calls
    <2>2. auNow \in Nat /\ auCalls \in Nat
      BY CopiesTyped DEF AU!AccountInv
    <2>3. AU!Behind(u, v)
      BY <1>0
    <2> HIDE DEF u, v, n
    <2>4. u \in AU!UserRow /\ (u.failed >= Threshold => u.lockedUntil # 0)
      BY <2>3 DEF AU!Behind
    <2> QED
      BY <2>1, <2>2, <2>4 DEF AU!UserRow
  <1>9. Fits(u) /\ auNow \in 0 .. AuMaxTime
    BY <1>0 DEF AccountBounds
  <1>3. /\ new \in AU!UserRow
        /\ new.failed >= Threshold => new.lockedUntil # 0
        /\ change = "fail" => new.failed = u.failed + 1
        /\ change \notin {"fail", "reset", "unlock"} => new.failed = u.failed
        /\ change = "consume" => code \in u.codes /\ new.codes = u.codes \ {code}
        /\ change \in {"codes", "regenerate"} => new.codes = {n}
        /\ change \notin {"codes", "regenerate"} => new.codes \subseteq u.codes
        /\ change \in {"codes", "regenerate"} => new.enabled = u.enabled
        /\ change = "disable" => new.enabled = FALSE
        /\ change \notin {"enable", "disable"} => new.enabled = u.enabled
        /\ change \notin {"secret", "disable"} => new.secret = u.secret
        /\ change \in {"reset", "unlock"} => new.failed = 0
        /\ new.secret \in {0, n, u.secret}
        /\ new.lockedUntil \in {0, auNow + 1, u.lockedUntil}
    <2>1. ChangesTo(new, change, u, n)
      BY <1>0, <1>2, ChangedFields
    <2> HIDE DEF new, u, n, change
    <2> QED
      BY <2>1 DEF ChangesTo
  <1>4. /\ r.copy = AU!NoCopy /\ r.version = 0
        /\ r.todo = <<>> \/ Head(r.todo) \notin {"compare", "fail"}
        /\ change = "fail" => r.todo = <<>>
    <2>1. /\ Tail(todo) # <<>> => Head(Tail(todo)) \notin {"compare", "fail"}
          /\ change = "fail" => Tail(todo) = <<>>
      BY <1>0, AheadSteps
    <2> QED
      BY <2>1, IdleNow, LeftNow
  <1> HIDE DEF r, new, u, v, n, change, code
  <1>5. /\ Cardinality(Guessing') <= Cardinality(Guessing)
        /\ change = "fail" => Cardinality(Guessing') + 1 <= Cardinality(Guessing)
    BY <1>0, <1>1, <1>4, GuessMoves
  <1>6. Keeps
    BY <1>1, <1>2, <1>5, GuessesFinite DEF Keeps
  <1>7. new.failed + Cardinality(Guessing') <= auCalls
    <2> DEFINE now == Cardinality(Guessing)  then == Cardinality(Guessing')  f == u.failed  g == new.failed
    <2>1. /\ now \in Nat /\ then \in Nat /\ f \in Nat /\ f + now <= auCalls /\ then <= now
          /\ change = "fail" => then + 1 <= now /\ g = f + 1
          /\ change # "fail" => g \in {0, f}
      BY <1>2, <1>3, <1>5, <1>9, GuessesFinite DEF Fits
    <2> HIDE DEF now, then, f, g
    <2>2. CASE change = "fail"
      BY <1>2, <2>1, <2>2 DEF now, then, f, g
    <2>3. CASE change # "fail"
      <3>1. g + then <= auCalls
        BY <1>2, <2>1, <2>3
      <3> QED
        BY <3>1 DEF then, g
    <2> QED
      BY <2>2, <2>3
  <1>8. /\ new.lockedUntil <= AuMaxTime + 1 /\ new.secret <= AuMaxCalls /\ new.codes \subseteq AU!Calls
    BY <1>0, <1>2, <1>3, <1>9 DEF Fits
  <1>10. Fits(auRow)'
    BY <1>1, <1>7, <1>8 DEF Fits, AU!Calls
  <1> QED
    BY <1>1, <1>4, <1>6, <1>10, AccountGoesOn, CopiesTyped

LEMMA OthersFit ==
    ASSUME IsFiniteSet(Workers), AuMaxTime \in Nat, AU!AccountInv, AccountBounds,
           AU!LateSave \/ AU!Tick \/ UNCHANGED AU!vars
    PROVE  AccountBounds'
  <1>1. UNCHANGED <<auWork, auCalls>>
    BY DEF AU!LateSave, AU!Tick, AU!vars
  <1>2. Guessing' = Guessing
    BY <1>1 DEF Guessing, AU!Next1
  <1>3. \A u : Fits(u) => Fits(u)'
    BY <1>1, <1>2 DEF Fits, AU!Calls
  <1>4. /\ auRow' \in {auRow} \cup {s.copy : s \in late} /\ late' \subseteq late
        /\ auVersion' \in {auVersion, auVersion + 1} /\ auNow' \in 0 .. AuMaxTime
    BY DEF AU!LateSave, AU!Overwrite, AU!Tick, AU!vars, AccountBounds
  <1>5. Fits(auRow)'
    BY <1>3, <1>4 DEF AccountBounds
  <1>6. \A s \in late' : Fits(s.copy)'
    BY <1>3, <1>4 DEF AccountBounds
  <1>7. \A w \in Workers : (auWork[w].copy # AU!NoCopy => Fits(auWork[w].copy))'
    BY <1>1, <1>3 DEF AccountBounds
  <1>8. \A w \in Workers : auWork'[w].version \in Nat /\ auWork'[w].version <= auVersion'
    BY <1>1, <1>4, CopiesTyped DEF AccountBounds
  <1> QED
    BY <1>4, <1>5, <1>6, <1>7, <1>8 DEF AccountBounds

LEMMA AccountBoundsKept ==
    ASSUME IsFiniteSet(Workers), Threshold \in Nat \ {0}, AuMaxTime \in Nat, AuMaxCalls \in Nat,
           AU!AccountInv, AccountBounds, [AU!Next]_(AU!vars)
    PROVE  AccountBounds'
  BY BeginFits, QuietFits, SaveFits, OthersFit DEF AU!Next, AccountOps

LEMMA AccountBoundsBegin ==
    ASSUME IsFiniteSet(Workers), AuMaxTime \in Nat, AuMaxCalls \in Nat \ {0}, Init
    PROVE  AccountBounds
  <1>1. /\ auRow \in {AU!Plain, AU!Enrolled} /\ auNow = 0 /\ late = {} /\ auVersion = 0
        /\ auWork = [w \in Workers |-> AU!Idle] /\ auCalls = auRow.secret
    BY DEF Init, AU!Init
  <1>2. /\ auRow.failed = 0 /\ auRow.lockedUntil = 0 /\ auRow.secret \in {0, 1} /\ auRow.codes \subseteq {1}
    <2>1. AU!Plain = [failed |-> 0, lockedUntil |-> 0, enabled |-> FALSE, secret |-> 0, codes |-> {}]
      BY DEF AU!Plain
    <2>2. /\ AU!Enrolled.failed = 0 /\ AU!Enrolled.lockedUntil = 0
          /\ AU!Enrolled.secret = 1 /\ AU!Enrolled.codes = {1}
      <3> DEFINE p == AU!Plain  c == {1}
      <3>1. AU!Enrolled = [p EXCEPT !.enabled = TRUE, !.secret = 1, !.codes = c]
        BY DEF AU!Enrolled
      <3>2. /\ p.failed = 0 /\ p.lockedUntil = 0
            /\ p \in [failed : {0}, lockedUntil : {0}, enabled : BOOLEAN, secret : {0}, codes : {{}}]
        BY <2>1
      <3> HIDE DEF p, c
      <3>3. /\ AU!Enrolled.failed = 0 /\ AU!Enrolled.lockedUntil = 0
            /\ AU!Enrolled.secret = 1 /\ AU!Enrolled.codes = c
        BY <3>1, <3>2
      <3> QED
        BY <3>3 DEF c
    <2> QED
      BY <1>1, <2>1, <2>2
  <1>3. Guessing = {}
    <2>1. \A w \in Workers : AU!Next1(w) = "done"
      BY <1>1 DEF AU!Next1, AU!Idle
    <2> QED
      BY <2>1 DEF Guessing
  <1>4. Cardinality(Guessing) = 0
    BY <1>3, FS_EmptySet
  <1>5. Fits(auRow)
    BY <1>1, <1>2, <1>4 DEF Fits, AU!Calls
  <1> QED
    BY <1>1, <1>5, IdleNow DEF AccountBounds

LEMMA AheadTyped ==
    ASSUME NEW op \in AccountOps, NEW todo \in AU!Ahead(op)
    PROVE  todo \in Seq(AU!Changes \cup {"compare", "factor"})
  <1>1. \A S, a : a \in S => <<a>> \in Seq(S)
    OBVIOUS
  <1>2. \A S, a, b : a \in S /\ b \in S => <<a, b>> \in Seq(S)
    OBVIOUS
  <1>3. AU!Changes \cup {"compare", "factor"} =
          {"fail", "reset", "consume", "secret", "codes", "enable", "disable", "regenerate",
           "unlock", "other", "compare", "factor"}
    BY DEF AU!Changes
  <1>4. \/ \E a \in {"compare", "fail", "factor", "consume", "enable", "disable", "codes",
                       "regenerate", "unlock", "other"} : todo = <<a>>
        \/ \E a \in {"reset", "secret"}, b \in {"factor", "enable", "disable", "codes"} : todo = <<a, b>>
    BY DEF AU!Ahead, AccountOps
  <1>5. CASE \E a \in {"compare", "fail", "factor", "consume", "enable", "disable", "codes",
                        "regenerate", "unlock", "other"} : todo = <<a>>
    <2>1. PICK a \in AU!Changes \cup {"compare", "factor"} : todo = <<a>>
      BY <1>3, <1>5
    <2> QED
      BY <1>1, <2>1
  <1>6. CASE \E a \in {"reset", "secret"}, b \in {"factor", "enable", "disable", "codes"} : todo = <<a, b>>
    <2>1. PICK a \in AU!Changes \cup {"compare", "factor"}, b \in AU!Changes \cup {"compare", "factor"} :
            todo = <<a, b>>
      BY <1>3, <1>6
    <2> QED
      BY <1>2, <2>1
  <1> QED
    BY <1>4, <1>5, <1>6

LEMMA AccountTyped ==
    ASSUME IsFiniteSet(Workers), AuMaxTime \in Nat, AuMaxCalls \in Nat, AU!AccountInv, AccountBounds
    PROVE  AU!TypeOK
  <1>1. ASSUME NEW u \in AU!UserRow, Fits(u) PROVE u \in AU!Rows
    <2>1. /\ u = [failed |-> u.failed, lockedUntil |-> u.lockedUntil, enabled |-> u.enabled,
                  secret |-> u.secret, codes |-> u.codes]
          /\ u.failed \in Nat /\ u.lockedUntil \in Nat /\ u.enabled \in BOOLEAN /\ u.secret \in Nat
      BY <1>1 DEF AU!UserRow
    <2> DEFINE f == u.failed  now == Cardinality(Guessing)
    <2>2. f \in Nat /\ now \in Nat /\ f + now <= auCalls /\ auCalls \in 0 .. AuMaxCalls
      BY <1>1, <2>1, GuessesFinite DEF Fits, AU!AccountInv
    <2> HIDE DEF f, now
    <2>3. f \in 0 .. AuMaxCalls
      BY <2>2
    <2>4. u.failed \in 0 .. AuMaxCalls /\ u.lockedUntil \in 0 .. AuMaxTime + 1 /\ u.secret \in 0 .. AuMaxCalls
          /\ u.codes \in SUBSET AU!Calls
      BY <1>1, <2>1, <2>3 DEF Fits, f
    <2> QED
      BY <2>1, <2>4 DEF AU!Rows
  <1>2. /\ auRow \in AU!Rows /\ \A s \in late : s.copy \in AU!Rows
        /\ \A w \in Workers : auWork[w].copy \in AU!Rows \cup {AU!NoCopy}
    BY <1>1, CopiesTyped DEF AccountBounds
  <1>3. late \subseteq [copy : AU!Rows, version : Nat]
    BY <1>2 DEF AccountBounds
  <1>4. ASSUME NEW w \in Workers PROVE auWork[w].todo \in Seq(AU!Changes \cup {"compare", "factor"})
    <2>1. CASE auWork[w] = AU!Idle
      <3>1. \A S : <<>> \in Seq(S)
        OBVIOUS
      <3> QED
        BY <2>1, <3>1 DEF AU!Idle
    <2>2. CASE AU!Served(w)
      BY <2>2, AheadTyped DEF AU!Served, AccountOps
    <2> QED
      BY <2>1, <2>2 DEF AU!AccountInv
  <1> QED
    BY <1>2, <1>3, <1>4 DEF AU!TypeOK, AU!AccountInv, AccountBounds
=============================================================================
