--------------------------- MODULE IdempotencyMC ---------------------------
(* Four requests under one key, three of which are retries of one body.      *)
EXTENDS Idempotency

CONSTANTS r1, r2, r3, r4, a, b

FourRequests == {r1, r2, r3, r4}
TwoBodies == {a, b}
OddBody == [r \in FourRequests |-> IF r = r4 THEN b ELSE a]
=============================================================================
