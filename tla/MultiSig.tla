------------------------------- MODULE MultiSig -------------------------------
(***************************************************************************)
(* Payments from the platform's Stellar account.  When the account asks    *)
(* for more weight than the platform's own key has, the transaction is     *)
(* stored and other signers add their signatures, each with a read of the  *)
(* row, a look at the account, perhaps a submission, and a save of the     *)
(* copy.  The row keeps the transaction and all its signatures in one      *)
(* column.  Signatures are stored unverified; the network verifies them.   *)
(***************************************************************************)
EXTENDS Naturals, FiniteSets

CONSTANTS
    Txs,          \* ids of stored transactions
    Signers,      \* keys that may sign besides the platform's
    Weight,       \* [Signers -> 0 .. n]: weight on the account, 0 of a stranger
    OwnWeight,    \* weight of the platform's key
    MedThreshold, \* weight the network asks for
    Workers, MaxCalls, MaxFaults

VARIABLES
    row,         \* multi_sig_transactions: unborn, or [status, signers, collected, bad, sequence]
    work,        \* per worker, the request it serves
    sequence,    \* the account's sequence number on the ledger
    ledger,      \* transactions on the ledger
    timely,      \* stored transactions whose 30 seconds are not over
    version, lost, calls, faults
vars == <<row, work, sequence, ledger, timely, version, lost, calls, faults>>

Unborn == [status |-> "unborn", signers |-> {}, collected |-> 0, bad |-> {}, sequence |-> 0]
\* ids are random: which of the unused ones comes does not matter
NewTx == CHOOSE t \in Txs : row[t] = Unborn
Status == {"unborn", "pending_signatures", "submitted"}
Idle == [op |-> "idle"]

TypeOK ==
    /\ \A t \in Txs :
        /\ row[t].status \in Status /\ row[t].collected \in Nat
        /\ row[t].bad \subseteq row[t].signers /\ row[t].signers \subseteq Signers
    /\ sequence \in 0 .. Cardinality(Txs) + MaxCalls
    /\ ledger \subseteq Txs /\ timely \subseteq Txs
    /\ calls \in 0 .. MaxCalls /\ faults \in 0 .. MaxFaults

Init ==
    /\ row = [t \in Txs |-> Unborn]
    /\ work = [w \in Workers |-> Idle]
    /\ sequence = 0
    /\ ledger = {} /\ timely = {}
    /\ version = [t \in Txs |-> 0]
    /\ lost = [t \in Txs |-> 0]
    /\ calls = 0 /\ faults = 0

Goto(w, r) == work' = [work EXCEPT ![w] = r]

\* the weight of several keys: as many as there are units of weight among them
Units(S) == UNION {{s} \X (1 .. Weight[s]) : s \in S}
WeightOf(S) == Cardinality(Units(S))

-----------------------------------------------------------------------------
(* sendPayment: the account is loaded and the transaction built. *)
Send(w) ==
    /\ work[w] = Idle
    /\ calls < MaxCalls /\ calls' = calls + 1
    /\ Goto(w, [op |-> IF MedThreshold > OwnWeight THEN "store" ELSE "pay",
                sequence |-> sequence + 1])
    /\ UNCHANGED <<row, sequence, ledger, timely, version, lost, faults>>

(* It lacks weight and is stored for the others to sign. *)
Store(w) ==
    /\ work[w].op = "store"
    /\ \E t \in Txs :
        /\ row[t] = Unborn /\ t = NewTx
        /\ row' = [row EXCEPT ![t] =
              [status |-> "pending_signatures", signers |-> {}, collected |-> OwnWeight,
               bad |-> {}, sequence |-> work[w].sequence]]
        /\ timely' = timely \cup {t}
    /\ Goto(w, Idle)
    /\ UNCHANGED <<sequence, ledger, version, lost, calls, faults>>

(* It has the weight and is submitted; the network refuses a used number. *)
Pay(w) ==
    /\ work[w].op = "pay"
    /\ sequence' = IF work[w].sequence = sequence + 1 THEN sequence + 1 ELSE sequence
    /\ Goto(w, Idle)
    /\ UNCHANGED <<row, ledger, timely, version, lost, calls, faults>>

-----------------------------------------------------------------------------
\* whoever signs, signed already or not
SignableAgain(t, s) == row[t].status = "pending_signatures"

Signable(t, s) == row[t].status = "pending_signatures" /\ s \notin row[t].signers

(* signTransaction: findOneBy; the signature may be a valid one or not. *)
Find(w, t, s, valid) ==
    /\ work[w] = Idle
    /\ calls < MaxCalls /\ calls' = calls + 1
    /\ Signable(t, s)
    /\ Goto(w, [op |-> "sign", tx |-> t, signer |-> s, valid |-> valid,
                copy |-> row[t], version |-> version[t]])
    /\ UNCHANGED <<row, sequence, ledger, timely, version, lost, faults>>

\* the copy with the signature in it
Signed(r) ==
    [r.copy EXCEPT !.signers = @ \cup {r.signer},
                   !.collected = @ + Weight[r.signer],
                   !.bad = IF r.valid THEN @ ELSE @ \cup {r.signer}]

(* The account is loaded: a stranger is refused, a signer is added. *)
Add(w) ==
    /\ work[w].op = "sign"
    /\ LET c == Signed(work[w])
       IN Goto(w, IF Weight[work[w].signer] = 0 THEN Idle
                  ELSE [work[w] EXCEPT !.copy = c,
                            !.op = IF c.collected >= MedThreshold THEN "submit" ELSE "save"])
    /\ UNCHANGED <<row, sequence, ledger, timely, version, lost, calls, faults>>

(* What the network takes: enough weight, no bad signature, in time, and   *)
(* the next number; the same transaction again is answered as before.      *)
Accepted(t, c) ==
    \/ t \in ledger
    \/ /\ c.bad = {} /\ OwnWeight + WeightOf(c.signers) >= MedThreshold
       /\ t \in timely
       /\ c.sequence = sequence + 1

\* the row is marked whatever the network said
MarkedAnyway(t, c) == TRUE

\* submitTransaction throws when the network refuses
Marked(t, c) == Accepted(t, c)

Submit(w) ==
    /\ work[w].op = "submit"
    /\ LET t == work[w].tx  c == work[w].copy
       IN /\ IF Accepted(t, c) /\ t \notin ledger
             THEN ledger' = ledger \cup {t} /\ sequence' = sequence + 1
             ELSE UNCHANGED <<ledger, sequence>>
          /\ Goto(w, IF Marked(t, c)
                     THEN [work[w] EXCEPT !.op = "save", !.copy.status = "submitted"]
                     ELSE Idle)
    /\ UNCHANGED <<row, timely, version, lost, calls, faults>>

(* save: the row takes the copy. *)
Save(w) ==
    /\ work[w].op = "save"
    /\ LET t == work[w].tx
       IN /\ row' = [row EXCEPT ![t] = work[w].copy]
          /\ version' = [version EXCEPT ![t] = @ + 1]
          /\ lost' = [lost EXCEPT ![t] = @ + (version[t] - work[w].version)]
    /\ Goto(w, Idle)
    /\ UNCHANGED <<sequence, ledger, timely, calls, faults>>

\* setTimeout(30) of the builder runs out
TooLate(t) ==
    /\ t \in timely
    /\ timely' = timely \ {t}
    /\ UNCHANGED <<row, work, sequence, ledger, version, lost, calls, faults>>

Die(w) ==
    /\ work[w] /= Idle
    /\ faults < MaxFaults /\ faults' = faults + 1
    /\ Goto(w, Idle)
    /\ UNCHANGED <<row, sequence, ledger, timely, version, lost, calls>>

Next ==
    \/ \E w \in Workers : Send(w) \/ Store(w) \/ Pay(w) \/ Add(w) \/ Submit(w) \/ Save(w) \/ Die(w)
    \/ \E w \in Workers, t \in Txs, s \in Signers, valid \in BOOLEAN : Find(w, t, s, valid)
    \/ \E t \in Txs : TooLate(t)

Spec == Init /\ [][Next]_vars

-----------------------------------------------------------------------------
InFlight(t) == \E w \in Workers : work[w].op = "save" /\ work[w].tx = t

(* A stored transaction counts the weight of every key that signed it once *)
(* and no other, and waits only while that is too little; one marked as    *)
(* submitted is on the ledger, and one on the ledger is marked, unless its *)
(* save is still to come, never came, or was overwritten by the copy of    *)
(* another signer (stellar.service.ts:151-206).                            *)
SignaturesAddUp ==
    \A t \in Txs :
        /\ row[t] /= Unborn =>
              row[t].collected = OwnWeight + WeightOf(row[t].signers)
        /\ row[t].status = "pending_signatures" => row[t].collected < MedThreshold
        /\ row[t].status = "submitted" => t \in ledger
        /\ t \in ledger =>
              row[t].status = "submitted" \/ InFlight(t) \/ faults > 0 \/ lost[t] > 0

-----------------------------------------------------------------------------
(* The inductive invariant behind it.                                      *)

Transaction == [status : Status \ {"unborn"}, signers : SUBSET Signers, collected : Nat, bad : SUBSET Signers,
                sequence : Nat]

\* A row, or a copy of one, has the weight of its signers,
Weighed(c) == IsFiniteSet(Units(c.signers)) /\ c.collected = OwnWeight + WeightOf(c.signers)

\* and says that it waits, or was submitted, when it does or was.
Stands(t, c) ==
    /\ Weighed(c)
    /\ c.status = "pending_signatures" => c.collected < MedThreshold
    /\ c.status = "submitted" => t \in ledger

Signings == [op : {"sign", "submit", "save"}, tx : Txs, signer : Signers, valid : BOOLEAN,
             copy : Transaction, version : Nat]

\* A signer has the copy of a row that waited, and still does if nobody saved since.
Signing(w) ==
    LET r == work[w]
    IN  /\ row[r.tx] /= Unborn /\ Weighed(r.copy)
        /\ r.version <= version[r.tx]
        /\ r.version = version[r.tx] => row[r.tx].status = "pending_signatures"
        /\ r.op = "sign" => r.signer \notin r.copy.signers /\ r.copy.status = "pending_signatures"
        /\ r.op = "save" => Stands(r.tx, r.copy)

\* What is on the ledger is marked, or one who is about to save knows.
Told(t) ==
    \/ row[t].status = "submitted"
    \/ \E w \in Workers : work[w].op = "save" /\ work[w].tx = t /\ work[w].copy.status = "submitted"

WeightsInv ==
    /\ version \in [Txs -> Nat] /\ lost \in [Txs -> Nat] /\ faults \in Nat /\ sequence \in Nat
    /\ ledger \subseteq Txs
    /\ DOMAIN row = Txs
    /\ \A t \in Txs : row[t] = Unborn \/ (row[t] \in Transaction /\ Stands(t, row[t]))
    /\ DOMAIN work = Workers
    /\ \A w \in Workers :
         \/ work[w] = Idle
         \/ work[w] \in [op : {"store", "pay"}, sequence : Nat]
            /\ (work[w].op = "store" => OwnWeight < MedThreshold)
         \/ work[w] \in Signings /\ Signing(w)
    /\ \A t \in ledger : row[t] /= Unborn /\ (faults = 0 /\ lost[t] = 0 => Told(t))
===============================================================================
