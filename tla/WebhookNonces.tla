----------------------------- MODULE WebhookNonces -----------------------------
(***************************************************************************)
(* The guard in front of the payment provider's webhooks: the age of the   *)
(* timestamp, and the nonces that the process remembers.  A call is one    *)
(* step: nothing in it is awaited.  Signatures are judged, not computed.   *)
(***************************************************************************)
EXTENDS Naturals

CONSTANTS
    Nonces,
    Tolerance,    \* WEBHOOK_TIMESTAMP_TOLERANCE_MINUTES, in ticks
    MaxTime,      \* bound: the clock
    MaxRestarts   \* bound

Absent == 0
NoNonce == "none"

VARIABLES
    clock,
    enabled,     \* WEBHOOK_NONCE_REPLAY_CACHE_ENABLED
    usedNonces,  \* per nonce, the timestamp it came with, or Absent
    lastTaken,   \* history: per nonce, the latest timestamp taken since the start
    repeated,    \* history: a nonce was taken again with no later timestamp
    restarts
vars == <<clock, enabled, usedNonces, lastTaken, repeated, restarts>>

TypeOK ==
    /\ clock \in 1 .. MaxTime /\ enabled \in BOOLEAN
    /\ usedNonces \in [Nonces -> 0 .. MaxTime + Tolerance]
    /\ lastTaken \in [Nonces -> 0 .. MaxTime + Tolerance]
    /\ restarts \in 0 .. MaxRestarts

Init ==
    /\ clock = 1
    /\ enabled \in BOOLEAN
    /\ usedNonces = [n \in Nonces |-> Absent]
    /\ lastTaken = [n \in Nonces |-> Absent]
    /\ repeated = FALSE
    /\ restarts = 0

Tick ==
    /\ clock < MaxTime
    /\ clock' = clock + 1
    /\ UNCHANGED <<enabled, usedNonces, lastTaken, repeated, restarts>>

\* the timestamps within the tolerance of the clock
InTime(timestamp) == clock <= timestamp + Tolerance /\ timestamp <= clock + Tolerance

\* a nonce is forgotten when its timestamp is on the edge of the tolerance
PrunedEarly == [n \in Nonces |-> IF usedNonces[n] + Tolerance <= clock THEN Absent ELSE usedNonces[n]]

\* pruneExpiredNonces
Pruned == [n \in Nonces |-> IF usedNonces[n] + Tolerance < clock THEN Absent ELSE usedNonces[n]]

\* The nonce is a header that the signature does not cover and that a call may
\* leave out.
Cached(nonce) == enabled /\ nonce # NoNonce

(* verifySignature of a message with this timestamp, sent with this nonce  *)
(* or with none: old nonces are forgotten before the signature is looked   *)
(* at, the new one is kept after.  A call without a nonce neither looks at *)
(* the cache nor changes it.                                               *)
Verify(nonce, timestamp, signed) ==
    /\ InTime(timestamp)
    /\ LET remembered == IF Cached(nonce) THEN Pruned ELSE usedNonces
           keeps == Cached(nonce) /\ signed /\ remembered[nonce] = Absent
       IN  /\ usedNonces' = IF keeps THEN [remembered EXCEPT ![nonce] = timestamp] ELSE remembered
           /\ repeated' = (repeated \/ (keeps /\ timestamp <= lastTaken[nonce]))
           /\ lastTaken' = IF keeps THEN [lastTaken EXCEPT ![nonce] = timestamp] ELSE lastTaken
    /\ UNCHANGED <<clock, enabled, restarts>>

\* The nonces are in the memory of the process.
Restart ==
    /\ restarts < MaxRestarts /\ restarts' = restarts + 1
    /\ enabled' \in BOOLEAN
    /\ usedNonces' = [n \in Nonces |-> Absent]
    /\ lastTaken' = [n \in Nonces |-> Absent]
    /\ UNCHANGED <<clock, repeated>>

Next ==
    \/ Tick \/ Restart
    \/ \E n \in Nonces \cup {NoNonce}, t \in 1 .. MaxTime + Tolerance,
             signed \in BOOLEAN : Verify(n, t, signed)

Spec == Init /\ [][Next]_vars

-----------------------------------------------------------------------------
(* With the cache enabled, and until the process restarts, a nonce that    *)
(* was taken is taken again only with a later timestamp, however the       *)
(* forgetting of old nonces and timestamps ahead of the clock meet         *)
(* (webhook-signature.service.ts:50-140).  This is about the nonce, not    *)
(* the message: one sent with another nonce, or with none, is judged by    *)
(* its timestamp and signature alone and can be taken any number of times. *)
NonceTakenOnce == ~repeated

-----------------------------------------------------------------------------
(* The inductive invariant behind it: what was taken last is remembered,   *)
(* or is too old to be taken again.                                        *)
NoncesInv ==
    /\ ~repeated
    /\ clock \in Nat /\ usedNonces \in [Nonces -> Nat] /\ lastTaken \in [Nonces -> Nat]
    /\ \A n \in Nonces : usedNonces[n] /= lastTaken[n]
                         => usedNonces[n] = Absent /\ lastTaken[n] + Tolerance < clock
===============================================================================
