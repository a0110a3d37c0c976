----------------------------- MODULE OncePerKey -----------------------------
(***************************************************************************)
(* What docs/IDEMPOTENCY.md promises for one Idempotency-Key while it is   *)
(* valid: of all the requests that carry the key at most one creates a     *)
(* payment; a request is answered with that payment only if its body is    *)
(* the one that created it; any other answer is a refusal, and an answer   *)
(* is final.                                                               *)
(***************************************************************************)
CONSTANTS
    Requests,   \* the requests that carry the key
    Body        \* Body[r]: the body of request r

VARIABLES
    valid,      \* the key has not expired, nor has an answer been lost
    made,       \* the request that created the payment, or Nobody
    answer      \* answer[r]: the payment r was given, or a refusal

Nobody   == "nobody"
Open     == "open"
Refused  == "refused"

Init == valid = TRUE /\ made = Nobody /\ answer = [r \in Requests |-> Open]

Make(r) ==
    /\ made = Nobody
    /\ answer[r] = Open
    /\ made' = r
    /\ UNCHANGED answer

Answer(r) ==
    /\ answer[r] = Open
    /\ made \in Requests
    /\ Body[r] = Body[made]
    /\ answer' = [answer EXCEPT ![r] = made]
    /\ UNCHANGED made

Refuse(r) ==
    /\ answer[r] = Open
    /\ answer' = [answer EXCEPT ![r] = Refused]
    /\ UNCHANGED made

Keep == \E r \in Requests : Make(r) \/ Answer(r) \/ Refuse(r)

\* Once the key has lapsed anything may happen.
Next == ~valid' \/ (valid /\ UNCHANGED valid /\ Keep)

Spec == Init /\ [][Next]_<<valid, made, answer>>
=============================================================================
