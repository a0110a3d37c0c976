------------------------------ MODULE Throttling ------------------------------
(***************************************************************************)
(* The throttler in front of every endpoint: MerchantThrottlerGuard over   *)
(* @nestjs/throttler 6.5 with its storage in memory, and the decorators of *)
(* throttler.decorator.ts.  Hits are counted per handler, client address   *)
(* and named throttler, so one handler and one client are all there is to  *)
(* model.  The guard is global: it runs before the guards that know the    *)
(* caller, and it applies every named throttler to every handler, because  *)
(* no handler skips one.  A request is the tick it came at, and how many   *)
(* of those remembered came before it.                                     *)
(***************************************************************************)
EXTENDS Naturals, FiniteSets

CONSTANTS
    DefaultLimit, DefaultTtl,   \* the "default" throttler: hits per ticks
    BulkLimit, WebhookLimit, QrLimit,   \* those of the same ttl
    AuthLimit, AuthTtl,         \* the "auth" throttler
    UserLimit,                  \* the limit an administrator has set for the client
    MaxTime,                    \* bound: ticks
    MaxSent                     \* bound: requests within the longest ttl

\* ThrottlerGuard has the throttlers in the order of their ttl.
Order == <<"default", "bulk", "webhook", "qr", "auth">>
Buckets == {Order[i] : i \in 1 .. 5}

VARIABLES
    decorated,  \* the handler has @AuthThrottle()
    now,
    hits,       \* storage: per bucket, the requests that still count
    blocked,    \* storage: per bucket, the tick its block ends, or 0
    sent,       \* history: the requests
    passed      \* history: those let through
vars == <<decorated, now, hits, blocked, sent, passed>>

Throttler(limit, ttl) == [limit |-> limit, ttl |-> ttl]

\* Mutant: the "auth" throttler with the ttl of the others.
LimitsOneTtl ==
    [default |-> Throttler(DefaultLimit, DefaultTtl),
     bulk |-> Throttler(BulkLimit, DefaultTtl),
     webhook |-> Throttler(WebhookLimit, DefaultTtl),
     qr |-> Throttler(QrLimit, DefaultTtl),
     auth |-> Throttler(AuthLimit, DefaultTtl)]

\* the throttlers of throttler.config.module.ts
Limits ==
    [default |-> Throttler(DefaultLimit, DefaultTtl),
     bulk |-> Throttler(BulkLimit, DefaultTtl),
     webhook |-> Throttler(WebhookLimit, DefaultTtl),
     qr |-> Throttler(QrLimit, DefaultTtl),
     auth |-> Throttler(AuthLimit, AuthTtl)]

(* @AuthThrottle() is Throttle({auth: 5}): the decorator stores the limit  *)
(* and ttl of the number 5, both undefined, and the throttler's own count. *)
Decorated(b) == Limits[b]

(* resolveRateLimitOverride: the caller's own limit, once req.apiKey or    *)
(* req.user is there.  A global guard sees neither.                        *)
Known == FALSE

\* per bucket, what handleRequest passes on
Effective(b) == IF b = "default" /\ Known THEN [Limits[b] EXCEPT !.limit = UserLimit] ELSE Decorated(b)

TypeOK ==
    /\ decorated \in BOOLEAN /\ now \in 0 .. MaxTime
    /\ \A b \in Buckets : Cardinality(hits[b]) <= Effective(b).limit + 1
    /\ blocked \in [Buckets -> 0 .. MaxTime + AuthTtl + DefaultTtl]

Init ==
    /\ decorated \in BOOLEAN
    /\ now = 1
    /\ hits = [b \in Buckets |-> {}]
    /\ blocked = [b \in Buckets |-> 0]
    /\ sent = {} /\ passed = {}

\* the part of a history that a window ending at tick n can still reach
Recent(s, n) == {r \in s : r.at + AuthTtl > n \/ r.at + DefaultTtl > n}

Tick ==
    /\ now < MaxTime
    /\ now' = now + 1
    /\ sent' = Recent(sent, now + 1) /\ passed' = Recent(passed, now + 1)
    /\ UNCHANGED <<decorated, hits, blocked>>

(* ThrottlerStorageService.increment: hits older than the ttl are gone; a  *)
(* block that is over starts a new count with this hit; the hit that goes  *)
(* over the limit starts a block as long as the ttl.                       *)
This == [at |-> now, nth |-> Cardinality(sent)]
Fresh(b) == {r \in hits[b] : r.at + Effective(b).ttl > now}
BlockOver(b) == blocked[b] /= 0 /\ blocked[b] <= now
Counted(b) ==
    IF BlockOver(b) THEN {This}
    ELSE IF blocked[b] /= 0 THEN Fresh(b) ELSE Fresh(b) \cup {This}
Blocks(b) ==
    IF BlockOver(b) THEN 0
    ELSE IF blocked[b] = 0 /\ Cardinality(Counted(b)) > Effective(b).limit THEN now + Effective(b).ttl
    ELSE blocked[b]

(* canActivate: the buckets in turn, up to the first that refuses. *)
Reached ==
    {Order[i] : i \in {j \in 1 .. 5 : \A k \in 1 .. j - 1 : Blocks(Order[k]) = 0}}

Request ==
    /\ Cardinality(sent) < MaxSent
    /\ sent' = sent \cup {This}
    /\ hits' = [b \in Buckets |-> IF b \in Reached THEN Counted(b) ELSE hits[b]]
    /\ blocked' = [b \in Buckets |-> IF b \in Reached THEN Blocks(b) ELSE blocked[b]]
    /\ passed' = IF \A b \in Buckets : Blocks(b) = 0 THEN passed \cup {This} ELSE passed
    /\ UNCHANGED <<decorated, now>>

Next == Tick \/ Request

Spec == Init /\ [][Next]_vars

-----------------------------------------------------------------------------
InWindow(s, ttl) == {r \in s : r.at + ttl > now}

(* No window of a throttler's ttl has more requests let through than its   *)
(* limit, whatever blocks, expiries of single hits and the order of the    *)
(* buckets make of the counts (throttler.config.module.ts:9-35).           *)
LimitKept ==
    /\ \A limit \in {DefaultLimit, BulkLimit, WebhookLimit, QrLimit} :
           Cardinality(InWindow(passed, DefaultTtl)) <= limit
    /\ Cardinality(InWindow(passed, AuthTtl)) <= AuthLimit

(* "100 requests per minute for general endpoints"                         *)
(* (throttler.config.module.ts:16): a handler without @AuthThrottle() lets *)
(* through whatever a client sends that keeps to the default limit.        *)
GeneralEndpointsAdmit == ~decorated /\ Cardinality(sent) <= DefaultLimit => passed = sent

-----------------------------------------------------------------------------
(* The inductive invariant behind LimitKept: what was let through within a *)
(* window is among the hits that count, until a block starts, which        *)
(* outlasts it all.                                                        *)
CountsAll(b) ==
    LET window == InWindow(passed, Limits[b].ttl)
    IN  /\ Cardinality(window) <= Limits[b].limit
        /\ IF blocked[b] = 0 THEN window \subseteq hits[b]
           ELSE \A r \in passed : r.at + Limits[b].ttl <= blocked[b]

WindowsInv ==
    /\ now \in Nat /\ blocked \in [Buckets -> Nat]
    /\ IsFiniteSet(sent) /\ \A r \in sent : r.at \in Nat /\ r.nth \in Nat /\ r.at <= now
    /\ \A r \in sent : r.at = now => r.nth < Cardinality(sent)
    /\ passed \subseteq sent
    /\ DOMAIN hits = Buckets
    /\ \A b \in Buckets : IsFiniteSet(hits[b]) /\ \A r \in hits[b] : r.at \in Nat
    /\ \A b \in Buckets : CountsAll(b)
===============================================================================
