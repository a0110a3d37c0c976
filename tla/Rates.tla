--------------------------------- MODULE Rates ---------------------------------
(***************************************************************************)
(* Exchange rates of one pair of currencies: getRate, the refresh of every *)
(* minute, and the two keys that a fetch leaves in Redis, one for a minute *)
(* and one to fall back on.  A rate is named by the time at which the      *)
(* provider quoted it.  The fallback's week is longer than any run.        *)
(***************************************************************************)
EXTENDS Naturals

CONSTANTS
    Workers,      \* requests, and the job, being served at a time
    Ttl,          \* FX_RATE_CACHE_TTL_SECONDS, in ticks
    MaxTime,      \* bound: the clock
    MaxFaults     \* bound: refused writes, and deaths

None == 0

VARIABLES
    now,
    cache,      \* fx:rate: [rate, until]
    fallback,   \* fx:fallback: a rate, or None
    tracked,    \* trackedPairs has the pair
    work,       \* per worker, the call it serves; since: when its await began
    latest,     \* history: the latest rate served to a client
    backwards,  \* history: a client got an older rate than one before
    mixed,      \* history: fetches overlapped, or one stored the half of what it should
    faults
vars == <<now, cache, fallback, tracked, work, latest, backwards, mixed, faults>>

Idle == [pc |-> "idle"]
Greater(a, b) == IF a > b THEN a ELSE b

TypeOK ==
    /\ now \in 1 .. MaxTime
    /\ cache.rate \in 0 .. MaxTime /\ cache.until \in 0 .. MaxTime + Ttl
    /\ fallback \in 0 .. MaxTime /\ latest \in 0 .. MaxTime
    /\ \A w \in Workers : work[w].pc \in {"idle", "fetching", "caching", "keeping", "falling back"}
    /\ faults \in 0 .. MaxFaults

Init ==
    /\ now = 1
    /\ cache = [rate |-> None, until |-> 0]
    /\ fallback = None
    /\ tracked = FALSE
    /\ work = [w \in Workers |-> Idle]
    /\ latest = None /\ backwards = FALSE /\ mixed = FALSE
    /\ faults = 0

(* No await outlasts a tick: the provider has five seconds to answer, and  *)
(* Redis one try.                                                          *)
Tick ==
    /\ now < MaxTime
    /\ \A w \in Workers : work[w] /= Idle => work[w].since = now
    /\ now' = now + 1
    /\ UNCHANGED <<cache, fallback, tracked, work, latest, backwards, mixed, faults>>

Cached == cache.until > now
Serve(rate) ==
    /\ latest' = Greater(latest, rate)
    /\ backwards' = (backwards \/ rate < latest)
Busy(w) == work[w].pc /= "idle"
Fetch(w, client) ==
    /\ work' = [work EXCEPT ![w] = [pc |-> "fetching", client |-> client, since |-> now]]
    /\ mixed' = (mixed \/ \E v \in Workers : Busy(v))

-----------------------------------------------------------------------------
(* getRate: the pair is tracked; the cached rate is served, or a fetch     *)
(* begins.                                                                 *)
GetRate(w) ==
    /\ work[w] = Idle
    /\ tracked' = TRUE
    /\ IF Cached
       THEN Serve(cache.rate) /\ UNCHANGED <<work, mixed>>
       ELSE Fetch(w, TRUE) /\ UNCHANGED <<latest, backwards>>
    /\ UNCHANGED <<now, cache, fallback, faults>>

\* refreshTrackedRates: the pair is fetched, cached or not
Refresh(w) ==
    /\ work[w] = Idle /\ tracked
    /\ Fetch(w, FALSE)
    /\ UNCHANGED <<now, cache, fallback, tracked, latest, backwards, faults>>

\* the provider quotes a rate and answers
Quote(w) ==
    /\ work[w].pc = "fetching"
    /\ \E rate \in {work[w].since, now} :
          work' = [work EXCEPT ![w] = [pc |-> "caching", client |-> @.client, since |-> now, rate |-> rate]]
    /\ UNCHANGED <<now, cache, fallback, tracked, latest, backwards, mixed, faults>>

\* where an exception leads: getRate goes to the fallback, the refresh gives up
Caught(w) ==
    work' = [work EXCEPT ![w] = IF @.client THEN [pc |-> "falling back", client |-> TRUE, since |-> now]
                                ELSE Idle]

\* no answer in time, or one without the rate
NoQuote(w) ==
    /\ work[w].pc = "fetching"
    /\ Caught(w)
    /\ UNCHANGED <<now, cache, fallback, tracked, latest, backwards, mixed, faults>>

\* the fallback's lifetime for the cache
KeptAWeek(rate) == [rate |-> rate, until |-> MaxTime + Ttl]

\* SET ... EX ttl
KeptFor(rate) == [rate |-> rate, until |-> now + Ttl]

SetCache(w) ==
    /\ work[w].pc = "caching"
    /\ cache' = KeptFor(work[w].rate)
    /\ work' = [work EXCEPT ![w] = [pc |-> "keeping", client |-> @.client, since |-> now, rate |-> @.rate]]
    /\ UNCHANGED <<now, fallback, tracked, latest, backwards, mixed, faults>>

SetFallback(w) ==
    /\ work[w].pc = "keeping"
    /\ fallback' = work[w].rate
    /\ IF work[w].client THEN Serve(work[w].rate) ELSE UNCHANGED <<latest, backwards>>
    /\ work' = [work EXCEPT ![w] = Idle]
    /\ UNCHANGED <<now, cache, tracked, mixed, faults>>

\* Redis refuses a write: the fetch has failed, whatever is stored already.
Refused(w) ==
    /\ work[w].pc \in {"caching", "keeping"}
    /\ faults < MaxFaults /\ faults' = faults + 1
    /\ mixed' = TRUE
    /\ Caught(w)
    /\ UNCHANGED <<now, cache, fallback, tracked, latest, backwards>>

\* getRate after a failed fetch: the fallback, or 503 if there is none
FallBack(w) ==
    /\ work[w].pc = "falling back"
    /\ IF fallback /= None THEN Serve(fallback) ELSE UNCHANGED <<latest, backwards>>
    /\ work' = [work EXCEPT ![w] = Idle]
    /\ UNCHANGED <<now, cache, fallback, tracked, mixed, faults>>

\* The process dies; Redis stays.
Restart ==
    /\ faults < MaxFaults /\ faults' = faults + 1
    /\ tracked' = FALSE
    /\ mixed' = (mixed \/ \E w \in Workers : Busy(w))
    /\ work' = [w \in Workers |-> Idle]
    /\ UNCHANGED <<now, cache, fallback, latest, backwards>>

Next ==
    \/ Tick \/ Restart
    \/ \E w \in Workers :
        \/ GetRate(w) \/ Refresh(w) \/ Quote(w) \/ NoQuote(w)
        \/ SetCache(w) \/ SetFallback(w) \/ Refused(w) \/ FallBack(w)

Spec == Init /\ [][Next]_vars

-----------------------------------------------------------------------------
(* "Served from Redis; rate is at most 60 seconds old" (docs/RATES.md:33): *)
(* no older than its lifetime and the awaits it took to store it; and no   *)
(* client gets an older rate than a client before it, the fallback         *)
(* included, unless fetches overlapped or one was cut off between its two  *)
(* writes (rates.service.ts:34-113).                                       *)
RatesFresh ==
    /\ Cached => now - cache.rate < Ttl + 2
    /\ backwards => mixed

-----------------------------------------------------------------------------
(* The inductive invariant behind it.                                      *)

\* A fetch under way is a tick old at most, and what it fetched a tick more.
Timely(w) ==
    LET r == work[w]
    IN  /\ r.pc \in {"fetching", "caching", "keeping", "falling back"} /\ r.client \in BOOLEAN
        /\ r.since \in Nat /\ r.since <= now /\ now <= r.since + 1
        /\ r.pc \in {"caching", "keeping"} => r.rate \in Nat /\ r.rate <= now
        /\ r.pc = "caching" => r.since <= r.rate + 1

\* While fetches come one after the other both keys have the latest rate, and
\* what is fetched next is not older.
InTurn ==
    /\ ~backwards
    /\ \A v, w \in Workers : Busy(v) /\ Busy(w) => v = w
    /\ latest <= cache.rate
    /\ fallback = cache.rate \/ \E w \in Workers : work[w].pc = "keeping"
    /\ \A w \in Workers :
        /\ work[w].pc = "fetching" => cache.rate <= work[w].since
        /\ work[w].pc = "caching" => cache.rate <= work[w].rate
        /\ work[w].pc = "keeping" => cache.rate = work[w].rate

RatesInv ==
    /\ now \in Nat /\ latest \in Nat /\ fallback \in Nat
    /\ cache \in [rate : Nat, until : Nat]
    /\ cache.rate <= now /\ cache.until <= cache.rate + Ttl + 2
    /\ DOMAIN work = Workers /\ \A w \in Workers : work[w] = Idle \/ Timely(w)
    /\ mixed \/ InTurn
===============================================================================
