----------------------------- MODULE IngestGuard -----------------------------
(***************************************************************************)
(* What an event passes on its way into the pipeline of a tenant.          *)
(*                                                                         *)
(* Two tables are read through a Redis cache: tenant_api_keys by APIKeyAuth*)
(* (middleware/auth.go) and tenant_suppression_rules by the workers        *)
(* (worker/suppression.go).  Those who change them (api/api_keys.go,       *)
(* api/suppression.go) commit first and delete the cache entry afterwards, *)
(* best effort.  The two share no state, so a behaviour is about one of    *)
(* them, and about one key or one rule of it.  A request whose key is      *)
(* accepted goes on to the circuit breaker (middleware/ingest_breaker.go)  *)
(* and to the rate limiter.                                                *)
(*                                                                         *)
(* Time is a clock of minutes; a Redis key with a TTL is the time it is    *)
(* there until.                                                            *)
(***************************************************************************)
EXTENDS Integers, FiniteSets

CONSTANTS
    Client,       \* requests in flight, or workers of the pool
    KeyTTL,       \* middleware.ApiKeyCacheTTL
    RuleTTL,      \* worker.suppressionCacheTTL
    Delay,        \* bound on the time between a SELECT and the SET that caches it
    Threshold,    \* INGEST_BREAKER_THRESHOLD, requests per minute
    Cooldown,     \* INGEST_BREAKER_COOLDOWN_SECONDS
    Limit,        \* the limit of RateLimiter, requests per minute
    MaxMinutes,   \* bound on the clock
    MaxArrivals   \* bound on the requests

ASSUME GuardAssumption ==
    /\ IsFiniteSet(Client)
    /\ KeyTTL \in Nat \ {0} /\ RuleTTL \in Nat \ {0} /\ Cooldown \in Nat \ {0}
    /\ Delay \in Nat /\ Threshold \in Nat /\ Limit \in Nat
    /\ MaxMinutes \in Nat /\ MaxArrivals \in Nat

VARIABLES
    table,      \* the table this behaviour is about
    minute,
    row,        \* the key or the rule is in the table, and has not expired
    lastSeen,   \* the last time it was
    cache,      \* its cache entry: until when, and whether it says that the row is there
    purging,    \* a handler has changed the table and is to delete the entry
    revoked,    \* HandleRevokeAPIKey has deleted the row and then the entry
    stage, since,  \* step of each client; the time of its SELECT
    read,       \* what the SELECT returned
    count, open, trips, alarms,   \* the breaker: counter, open until, openings, alarms
    steady, queued, arrived       \* counter of the limiter, events queued, requests so far

cacheVars == <<table, row, lastSeen, cache, purging, revoked>>
breakerVars == <<count, open, trips, alarms>>
limitVars == <<steady, queued>>
guardVars == <<minute, cacheVars, stage, since, read, breakerVars, limitVars, arrived>>

Step == {"idle", "lookup", "fill", "breaker", "count", "trip", "alarm", "limit", "drop"}
TTL == IF table = "keys" THEN KeyTTL ELSE RuleTTL
Bound == TTL + Delay
Absent == [until |-> 0, there |-> FALSE]

GuardInit ==
    /\ table \in {"keys", "rules"}
    /\ minute = 0
    /\ row \in BOOLEAN
    /\ lastSeen = IF row THEN 0 ELSE -Bound
    /\ cache = Absent /\ purging = FALSE /\ revoked = FALSE
    /\ stage = [c \in Client |-> "idle"] /\ since = [c \in Client |-> 0]
    /\ read = [c \in Client |-> FALSE]
    /\ count = 0 /\ open = 0 /\ trips = 0 /\ alarms = 0
    /\ steady = 0 /\ queued = 0 /\ arrived = 0

Goto(c, s) == stage' = [stage EXCEPT ![c] = s]

\* Where a client goes that has been told whether the row is there.
Verdict(there) ==
    CASE ~there -> "idle"
      [] there /\ table = "keys" -> "breaker"
      [] there /\ table = "rules" -> "drop"

\* A minute goes by: the counters of the breaker and of the limiter start anew.
MinutePasses ==
    /\ minute < MaxMinutes
    /\ \A c \in Client : stage[c] = "fill" => minute < since[c] + Delay
    /\ minute' = minute + 1
    /\ lastSeen' = IF row THEN minute' ELSE lastSeen
    /\ count' = 0 /\ steady' = 0
    /\ UNCHANGED <<table, row, cache, purging, revoked, stage, since, read, open, trips, alarms,
                   queued, arrived>>

-----------------------------------------------------------------------------
(* The two tables and their caches.                                        *)

\* Fault: an entry is renewed by whoever uses it.
FaultRenew(c) ==
    /\ stage[c] = "idle" /\ arrived < MaxArrivals
    /\ arrived' = arrived + 1
    /\ \/ /\ minute < cache.until
          /\ cache' = [cache EXCEPT !.until = minute + TTL]
          /\ Goto(c, Verdict(cache.there))
       \/ Goto(c, "lookup") /\ UNCHANGED cache
    /\ UNCHANGED <<minute, table, row, lastSeen, purging, revoked, since, read, breakerVars,
                   limitVars>>

\* A request with the key, or an event for a worker, arrives and the cache is
\* read: a hit decides; a miss or a Redis error leads to the table.
Arrive(c) ==
    /\ stage[c] = "idle" /\ arrived < MaxArrivals
    /\ arrived' = arrived + 1
    /\ \/ minute < cache.until /\ Goto(c, Verdict(cache.there))
       \/ Goto(c, "lookup")
    /\ UNCHANGED <<minute, cacheVars, since, read, breakerVars, limitVars>>

\* APIKeyAuth, a miss: no row answers 401 and is not cached.
LookUpKey(c) ==
    /\ table = "keys" /\ stage[c] = "lookup"
    /\ Goto(c, IF row THEN "fill" ELSE "idle")
    /\ read' = [read EXCEPT ![c] = row]
    /\ since' = [since EXCEPT ![c] = minute]
    /\ UNCHANGED <<minute, cacheVars, breakerVars, limitVars, arrived>>

\* loadSuppressionRules, a miss: an error leaves the list empty, and an empty
\* list is cached like any other.
LoadSuppressionRules(c) ==
    /\ table = "rules" /\ stage[c] = "lookup"
    /\ Goto(c, "fill")
    /\ \E there \in {row, FALSE} : read' = [read EXCEPT ![c] = there]
    /\ since' = [since EXCEPT ![c] = minute]
    /\ UNCHANGED <<minute, cacheVars, breakerVars, limitVars, arrived>>

\* SET with the TTL, whose error is ignored; then the answer counts.
Fill(c) ==
    /\ stage[c] = "fill"
    /\ cache' \in {[until |-> minute + TTL, there |-> read[c]], cache}
    /\ Goto(c, Verdict(read[c]))
    /\ since' = [since EXCEPT ![c] = 0] /\ read' = [read EXCEPT ![c] = FALSE]
    /\ UNCHANGED <<minute, table, row, lastSeen, purging, revoked, breakerVars, limitVars,
                   arrived>>

\* A worker drops the event a rule matches.
Suppress(c) ==
    /\ stage[c] = "drop"
    /\ Goto(c, "idle")
    /\ UNCHANGED <<minute, cacheVars, since, read, breakerVars, limitVars, arrived>>

\* HandleCreateAPIKey: a new random key, of which there is no entry yet.
HandleCreateAPIKey ==
    /\ table = "keys" /\ lastSeen = -Bound
    /\ row' = TRUE /\ lastSeen' = minute
    /\ UNCHANGED <<minute, table, cache, purging, revoked, stage, since, read, breakerVars,
                   limitVars, arrived>>

\* HandleRevokeAPIKey: the transaction that deletes the row.
HandleRevokeAPIKey ==
    /\ table = "keys" /\ row /\ ~purging
    /\ row' = FALSE /\ purging' = TRUE
    /\ UNCHANGED <<minute, table, lastSeen, cache, revoked, stage, since, read, breakerVars,
                   limitVars, arrived>>

\* expires_at goes by: nobody deletes the entry.
KeyExpires ==
    /\ table = "keys" /\ row
    /\ row' = FALSE
    /\ UNCHANGED <<minute, table, lastSeen, cache, purging, revoked, stage, since, read,
                   breakerVars,
                   limitVars, arrived>>

\* HandleMutateSuppressionRules: POST and DELETE.
HandleMutateSuppressionRules ==
    /\ table = "rules" /\ ~purging
    /\ row' = ~row /\ purging' = TRUE
    /\ lastSeen' = minute
    /\ UNCHANGED <<minute, table, cache, revoked, stage, since, read, breakerVars, limitVars,
                   arrived>>

\* The DEL after a change.  Its error is ignored, and the process may die
\* before it.
InvalidateCache ==
    /\ purging
    /\ purging' = FALSE
    /\ \/ cache' = Absent /\ revoked' = (table = "keys")
       \/ UNCHANGED <<cache, revoked>>
    /\ UNCHANGED <<minute, table, row, lastSeen, stage, since, read, breakerVars, limitVars,
                   arrived>>

-----------------------------------------------------------------------------
(* IngestCircuitBreaker and RateLimiter.                                   *)

\* GET of the open flag: a request is shed while it is there.  A Redis error
\* reads as closed.
CheckOpen(c) ==
    /\ stage[c] = "breaker"
    /\ \/ minute < open /\ Goto(c, "idle")
       \/ Goto(c, "count")
    /\ UNCHANGED <<minute, cacheVars, since, read, breakerVars, limitVars, arrived>>

\* INCR of the minute's counter; on a Redis error the breaker steps aside.
Count(c) ==
    /\ stage[c] = "count"
    /\ \/ count' = count + 1 /\ Goto(c, IF count' > Threshold THEN "trip" ELSE "limit")
       \/ Goto(c, "limit") /\ UNCHANGED count
    /\ UNCHANGED <<minute, cacheVars, since, read, open, trips, alarms, limitVars, arrived>>

\* Fault: SET instead of SETNX, so every request over the threshold opens it.
FaultSet(c) ==
    /\ stage[c] = "trip"
    /\ open' = minute + Cooldown
    /\ trips' = IF minute < open THEN trips ELSE trips + 1
    /\ Goto(c, "alarm")
    /\ UNCHANGED <<minute, cacheVars, since, read, count, alarms, limitVars, arrived>>

\* SETNX: the one request that finds no flag opens the breaker and is to raise
\* the alarm; the others, and one whose SETNX fails, are shed.
Trip(c) ==
    /\ stage[c] = "trip"
    /\ \/ /\ minute >= open
          /\ open' = minute + Cooldown /\ trips' = trips + 1
          /\ Goto(c, "alarm")
       \/ Goto(c, "idle") /\ UNCHANGED <<open, trips>>
    /\ UNCHANGED <<minute, cacheVars, since, read, count, alarms, limitVars, arrived>>

\* raiseIngestBreakerAlarm: LPUSH of the alarm, whose error is logged only.
RaiseIngestBreakerAlarm(c) ==
    /\ stage[c] = "alarm"
    /\ alarms' \in {alarms, alarms + 1}
    /\ Goto(c, "idle")
    /\ UNCHANGED <<minute, cacheVars, since, read, count, open, trips, limitVars, arrived>>

\* RateLimiter: INCR, then compare; it fails open on a Redis error.  The
\* handler of a request that passes queues its event, or fails.
RateLimiter(c) ==
    /\ stage[c] = "limit"
    /\ steady' \in {steady, steady + 1}
    /\ queued' \in {queued, queued + 1}
    /\ queued' # queued => steady' = steady \/ steady' <= Limit
    /\ Goto(c, "idle")
    /\ UNCHANGED <<minute, cacheVars, since, read, breakerVars, arrived>>

\* The process dies with the request or the event in hand.
Crash(c) ==
    /\ stage[c] # "idle"
    /\ Goto(c, "idle")
    /\ since' = [since EXCEPT ![c] = 0] /\ read' = [read EXCEPT ![c] = FALSE]
    /\ UNCHANGED <<minute, cacheVars, breakerVars, limitVars, arrived>>

GuardNext ==
    \/ MinutePasses \/ HandleCreateAPIKey \/ HandleRevokeAPIKey \/ KeyExpires
    \/ HandleMutateSuppressionRules \/ InvalidateCache
    \/ \E c \in Client :
        \/ Arrive(c) \/ LookUpKey(c) \/ LoadSuppressionRules(c) \/ Fill(c) \/ Suppress(c)
        \/ CheckOpen(c) \/ Count(c) \/ Trip(c) \/ RaiseIngestBreakerAlarm(c)
        \/ RateLimiter(c) \/ Crash(c)

GuardSpec == GuardInit /\ [][GuardNext]_guardVars

-----------------------------------------------------------------------------
(* Properties.                                                             *)

GuardTypeOK ==
    /\ table \in {"keys", "rules"}
    /\ minute \in Nat /\ row \in BOOLEAN /\ lastSeen \in Int
    /\ cache \in [until: Nat, there: BOOLEAN] /\ purging \in BOOLEAN
    /\ revoked \in BOOLEAN
    /\ stage \in [Client -> Step] /\ since \in [Client -> Nat] /\ read \in [Client -> BOOLEAN]
    /\ count \in Nat /\ open \in Nat /\ trips \in Nat /\ alarms \in Nat
    /\ steady \in Nat /\ queued \in Nat /\ arrived \in Nat

\* The clients that were told the row is there and act on it: requests past
\* the authentication, workers about to drop an event.
Served == {c \in Client : stage[c] \notin {"idle", "lookup", "fill"}}

Fresh == INSTANCE BoundedStaleness WITH
    now <- minute, bound <- Bound, valid <- row, lastValid <- lastSeen, served <- Served

\* A request is let through on a key, and an event dropped by a rule, that was
\* in its table less than the TTL of the cache and the delay of one lookup ago:
\* a lookup that began before the change and fills the cache after the DEL, a
\* lost DEL and an expiry nobody notices do not stretch it further.  This is
\* what the two caches do give, of a revoked key and of a deleted rule alike.
ImplementsFreshness == Fresh!Spec

\* "Revocation also busts the Redis auth cache so it takes effect at once"
\* (api_keys.go): a request that arrives after the row and the entry have been
\* deleted is not let through.
RevokedAtOnce ==
    [][revoked => \A c \in Client : stage[c] = "idle" => stage'[c] # "breaker"]_guardVars

\* However many requests pass the threshold together, an opening of the
\* breaker raises one alarm at most.
OneAlarmPerOpening ==
    alarms + Cardinality({c \in Client : stage[c] = "alarm"}) <= trips
=============================================================================
