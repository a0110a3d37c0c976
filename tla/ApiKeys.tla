-------------------------------- MODULE ApiKeys --------------------------------
(***************************************************************************)
(* The API keys of one merchant: create, update, revoke, rotate and the    *)
(* validation of every request that brings one.  All but create read the   *)
(* row and some awaits later save the copy, the validation too, which only *)
(* means to note when the key was last used.  An expired key is refused    *)
(* like an inactive one; expiry is left out, and so are refused calls.     *)
(***************************************************************************)
EXTENDS Naturals, FiniteSets

CONSTANTS
    Keys,         \* ids of keys
    Workers,      \* requests being served at a time
    MaxCalls,     \* bound: requests in all
    MaxFaults     \* bound: requests that die half-way

VARIABLES
    key,         \* rows of api_keys: unborn, or [active, settings]; settings number the updates
    work,        \* per worker, the request it serves
    version,     \* history: saves of a row so far
    lost,        \* history: saves of a row that were overwritten unseen
    ended,       \* history: keys whose revocation or rotation was saved
    heir,        \* history: the keys that rotations made of a key
    wanted,      \* history: the settings the merchant last saved for a key
    calls, faults
vars == <<key, work, version, lost, ended, heir, wanted, calls, faults>>

Unborn == [active |-> FALSE, settings |-> 0, born |-> FALSE]
Row == [active : BOOLEAN, settings : 0 .. MaxCalls, born : BOOLEAN]
Idle == [op |-> "idle"]
Calls == {"revoke", "update", "rotate", "validate"}
Saves == [op : Calls, key : Keys, copy : Row, version : Nat, call : 0 .. MaxCalls]
Inserts == [op : {"insert"}, key : Keys, copy : Row]

TypeOK ==
    /\ key \in [Keys -> Row]
    /\ \A k \in Keys : ~key[k].born => key[k] = Unborn /\ version[k] = 0
    /\ work \in [Workers -> {Idle} \cup Saves \cup Inserts]
    /\ version \in [Keys -> Nat] /\ lost \in [Keys -> Nat]
    /\ ended \subseteq Keys /\ heir \in [Keys -> SUBSET Keys] /\ wanted \in [Keys -> 0 .. MaxCalls]
    /\ calls \in 0 .. MaxCalls /\ faults \in 0 .. MaxFaults

Init ==
    /\ key = [k \in Keys |-> Unborn]
    /\ work = [w \in Workers |-> Idle]
    /\ version = [k \in Keys |-> 0]
    /\ lost = [k \in Keys |-> 0]
    /\ ended = {}
    /\ heir = [k \in Keys |-> {}]
    /\ wanted = [k \in Keys |-> 0]
    /\ calls = 0 /\ faults = 0

\* ids are random: which of the unused ones comes does not matter
NewKey(k) == k = CHOOSE n \in Keys : ~key[n].born
Goto(w, r) == work' = [work EXCEPT ![w] = r]

-----------------------------------------------------------------------------
Create(k) ==
    /\ calls < MaxCalls /\ calls' = calls + 1
    /\ ~key[k].born /\ NewKey(k)
    /\ key' = [key EXCEPT ![k] = [active |-> TRUE, settings |-> 0, born |-> TRUE]]
    /\ UNCHANGED <<work, version, lost, ended, heir, wanted, faults>>

\* any row is found
FindsAny(op, row) == row.born

\* only revoke finds inactive keys
Finds(op, row) == row.born /\ (row.active \/ op = "revoke")

\* findOne of revoke, update, rotate and validateKey
Find(w, op, k) ==
    /\ work[w] = Idle
    /\ calls < MaxCalls /\ calls' = calls + 1
    /\ Finds(op, key[k])
    /\ Goto(w, [op |-> op, key |-> k, copy |-> key[k], version |-> version[k], call |-> calls'])
    /\ UNCHANGED <<key, version, lost, ended, heir, wanted, faults>>

\* what each of them makes of the copy
Changed(op, row, call) ==
    CASE op \in {"revoke", "rotate"} -> [row EXCEPT !.active = FALSE]
      [] op = "update" -> [row EXCEPT !.settings = call]
      [] op = "validate" -> row

(* save: the row takes the copy; rotate goes on to the new key. *)
Save(w) ==
    /\ work[w].op \in Calls
    /\ LET r == work[w]  k == r.key
       IN /\ key' = [key EXCEPT ![k] = Changed(r.op, r.copy, r.call)]
          /\ version' = [version EXCEPT ![k] = version[k] + 1]
          /\ lost' = [lost EXCEPT ![k] = lost[k] + (version[k] - r.version)]
          /\ ended' = IF r.op \in {"revoke", "rotate"} THEN ended \cup {k} ELSE ended
          /\ wanted' = IF r.op = "update" THEN [wanted EXCEPT ![k] = r.call] ELSE wanted
          /\ Goto(w, IF r.op = "rotate" THEN [op |-> "insert", key |-> k, copy |-> r.copy] ELSE Idle)
    /\ UNCHANGED <<heir, calls, faults>>

(* rotate: the new key with the old one's settings. *)
InsertHeir(w) ==
    /\ work[w].op = "insert"
    /\ \E n \in Keys :
        /\ ~key[n].born /\ NewKey(n)
        /\ key' = [key EXCEPT ![n] = [active |-> TRUE, settings |-> work[w].copy.settings, born |-> TRUE]]
        /\ heir' = [heir EXCEPT ![work[w].key] = heir[work[w].key] \cup {n}]
        /\ wanted' = [wanted EXCEPT ![n] = work[w].copy.settings]
    /\ Goto(w, Idle)
    /\ UNCHANGED <<version, lost, ended, calls, faults>>

\* a statement fails or the process stops: what was saved stays
Die(w) ==
    /\ work[w] /= Idle
    /\ faults < MaxFaults /\ faults' = faults + 1
    /\ Goto(w, Idle)
    /\ UNCHANGED <<key, version, lost, ended, heir, wanted, calls>>

Next ==
    \/ \E k \in Keys : Create(k)
    \/ \E w \in Workers, k \in Keys, op \in Calls : Find(w, op, k)
    \/ \E w \in Workers : Save(w) \/ InsertHeir(w) \/ Die(w)

Spec == Init /\ [][Next]_vars

-----------------------------------------------------------------------------
(* A key whose revocation or rotation was saved is not active again unless *)
(* a save of its row overwrote another; a rotation leaves one heir, and    *)
(* one more at most for each such save; and an heir that nobody touched    *)
(* has the settings its predecessor was last given                         *)
(* (api-keys.service.ts:102-211).                                          *)
KeysEndForGood ==
    /\ \A k \in ended : key[k].active => lost[k] > 0
    /\ \A k \in Keys : Cardinality(heir[k]) <= 1 + lost[k]
    /\ \A k \in Keys : \A n \in heir[k] :
          lost[k] = 0 /\ version[n] = 0 => key[n].settings = wanted[k]

-----------------------------------------------------------------------------
(* The inductive invariant behind it.                                      *)

\* A copy was read of a key that there is, active unless it is to be revoked, and
\* while nobody else has saved the row it is the row.
Copied(r) ==
    /\ key[r.key].born /\ r.copy.born
    /\ r.version <= version[r.key]
    /\ r.version = version[r.key] => r.copy = key[r.key]
    /\ r.op /= "revoke" => r.copy.active
CopiesTrue == \A w \in Workers : work[w].op \in Calls => Copied(work[w])

\* A key that ended is active only after a save of a stale copy; it alone has heirs,
Inserting(k) == {w \in Workers : work[w].op = "insert" /\ work[w].key = k}
Ended ==
    \A k \in Keys :
        /\ k \in ended => key[k].born /\ (key[k].active => lost[k] > 0)
        /\ heir[k] /= {} \/ Inserting(k) /= {} => k \in ended

\* and each heir it has or will have but one, or but none while it is active,
\* goes back to such a save.
HeirCount(k) == Cardinality(heir[k]) + Cardinality(Inserting(k))
HeirsFew ==
    \A k \in Keys :
        /\ IsFiniteSet(heir[k]) /\ HeirCount(k) <= lost[k] + 1
        /\ key[k].active => HeirCount(k) <= lost[k]

\* Settings are the last saved, for an heir those of its predecessor.
SettingsKept ==
    \A k \in Keys : lost[k] = 0 =>
        /\ key[k].settings = wanted[k]
        /\ \A w \in Inserting(k) : work[w].copy.settings = wanted[k]
HeirsAlike ==
    \A k \in Keys : \A n \in heir[k] :
        key[n].born /\ (lost[k] = 0 /\ version[n] = 0 => key[n].settings = wanted[k])
===============================================================================
