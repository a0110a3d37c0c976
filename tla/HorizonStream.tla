----------------------------- MODULE HorizonStream -----------------------------
(***************************************************************************)
(* The subscription to the merchant account's payments on Horizon: one     *)
(* stream that is closed when it fails and opened again after a delay,     *)
(* until the module is destroyed.  It asks for payments from now on, so    *)
(* one made while no stream is open is never seen.  What is done with a    *)
(* payment that arrives is in module Payments.                             *)
(***************************************************************************)
EXTENDS Naturals

CONSTANTS
    BaseDelay,    \* STELLAR_RECONNECT_BASE_DELAY_MS
    MaxDelay,     \* STELLAR_RECONNECT_MAX_DELAY_MS
    MaxErrors     \* bound: failures of the stream

VARIABLES
    begun, isDestroyed,
    streams,       \* subscriptions open at Horizon
    streamClose,   \* whether the service holds one to close
    timers,        \* reconnections that will run
    currentDelay, failureCount,
    errors
vars == <<begun, isDestroyed, streams, streamClose, timers, currentDelay, failureCount,
          errors>>

Least(a, b) == IF a < b THEN a ELSE b

TypeOK ==
    /\ begun \in BOOLEAN /\ isDestroyed \in BOOLEAN /\ streamClose \in BOOLEAN
    /\ streams \in Nat /\ timers \in Nat
    /\ currentDelay \in BaseDelay .. MaxDelay /\ failureCount \in Nat
    /\ errors \in 0 .. MaxErrors

Init ==
    /\ begun = FALSE /\ isDestroyed = FALSE /\ streamClose = FALSE
    /\ streams = 0 /\ timers = 0
    /\ currentDelay = BaseDelay /\ failureCount = 0
    /\ errors = 0

-----------------------------------------------------------------------------
\* 2 ** n, for as many failures as there may be
PowerOfTwo[n \in 0 .. MaxErrors] == IF n = 0 THEN 1 ELSE 2 * PowerOfTwo[n - 1]

\* the delay of the next failure, not of the reconnection just scheduled
Delayed ==
    /\ failureCount' = failureCount + 1
    /\ currentDelay' = Least(BaseDelay * PowerOfTwo[failureCount + 1], MaxDelay)

(* startStream: a stream, or an exception and another reconnection. *)
Start(armed) ==
    \/ /\ streams' = streams + 1 /\ streamClose' = TRUE
       /\ failureCount' = 0 /\ currentDelay' = BaseDelay
       /\ timers' = armed
       /\ UNCHANGED errors
    \/ /\ errors < MaxErrors /\ errors' = errors + 1
       /\ Delayed /\ timers' = armed + 1
       /\ UNCHANGED <<streams, streamClose>>

OnModuleInit ==
    /\ ~begun /\ begun' = TRUE
    /\ Start(timers)
    /\ UNCHANGED <<isDestroyed>>

\* the handle is dropped without calling it
DropHandle == streamClose' = FALSE /\ UNCHANGED streams

CloseStream ==
    /\ streamClose' = FALSE
    /\ streams' = IF streamClose THEN streams - 1 ELSE streams

(* onerror of an open stream: closeStream, then scheduleReconnect. *)
OnError ==
    /\ streams > 0
    /\ errors < MaxErrors /\ errors' = errors + 1
    /\ CloseStream
    /\ IF isDestroyed THEN UNCHANGED <<timers, failureCount, currentDelay>>
       ELSE Delayed /\ timers' = timers + 1
    /\ UNCHANGED <<begun, isDestroyed>>

Reconnect ==
    /\ timers > 0
    /\ IF isDestroyed
       THEN /\ timers' = timers - 1
            /\ UNCHANGED <<streams, streamClose, failureCount, currentDelay, errors>>
       ELSE Start(timers - 1)
    /\ UNCHANGED <<begun, isDestroyed>>

OnModuleDestroy ==
    /\ begun /\ ~isDestroyed /\ isDestroyed' = TRUE
    /\ CloseStream
    /\ timers' = IF timers > 0 THEN timers - 1 ELSE 0
    /\ UNCHANGED <<begun, failureCount, currentDelay, errors>>

Next ==
    OnModuleInit \/ OnError \/ Reconnect \/ OnModuleDestroy

Spec == Init /\ [][Next]_vars

-----------------------------------------------------------------------------
(* While the module lives it has exactly one stream or exactly one         *)
(* reconnection ahead of it, a destroyed one has neither, and the service  *)
(* can close whatever is open (stellar-horizon-stream.service.ts:44-127).  *)
OneStreamAtATime ==
    /\ streamClose <=> streams > 0
    /\ streams + timers = IF begun /\ ~isDestroyed THEN 1 ELSE 0
=============================================================================
