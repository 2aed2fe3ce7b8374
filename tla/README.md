# A verification development for noc-soc-saas

TLA+ models of the concurrent core of the NOC/SOC platform under `src/`, the TLC configurations
that check them on small instances, and theorems that hold for every instance, checked by TLAPS.

The program is a multi-tenant monitoring and security platform: vendor events enter over HTTP, are
normalized, deduplicated into alerts, grouped into incidents, enriched by an AI worker, escalated to
the on-call, and answered by humans (acknowledge, resolve) and by machines (playbooks, response
actions, auto-remediation). PostgreSQL holds the durable state, under row-level security per tenant;
Redis holds queues, debounce pointers, flags and caches. Several replicas of the Go API server
(`cmd/noc-api`) run the same goroutines against the same two stores, next to Python workers
(`workers/`) and edge agents (`cmd/noc-agent`).

## 1. Inventory

| Component | State it keeps | Operations | Why it is hard |
|---|---|---|---|
| Ingestion handlers, connectors (`internal/api/handler.go`, `internal/connector`) | Redis heartbeats | check the integration, map the payload, queue incidents, register a heartbeat | fifteen severity scales; a step may fail after the one before it took effect |
| Raw queue, mapping engine, dead-letter queue (`internal/queue`, `worker.go`, `api/dlq_handler.go`) | Redis lists | pop, normalize, push; push to the DLQ and trim it; replay | a crash between pop and push; two replays over one list; the trim at the limit |
| Worker pool (`internal/worker/worker.go`) | alerts, debounce pointers | dedupe, create or revive an alert, announce it | several workers per fingerprint; Redis writes before the commit; events lost on errors |
| Incident grouping (`internal/worker/incidents.go`) | incidents | find or create the open incident, bump its count and severity | read, lock and write are three moments; the unique index; a savepoint inside the tenant transaction |
| Operator handlers (`internal/api/handler.go`, `incidents.go`) | the same rows | acknowledge, resolve, reopen, clean up, on alerts and on incidents | write skew; opposite lock orders; cascades |
| AI worker (`workers/ai_worker.py`) | the same alerts | evaluate one alert, write severity and status back | decides on an old read |
| SOAR auto-trigger (`worker.go`) | the same alerts | start a safe runbook; resolve the alert when it succeeds | ends whenever it ends |
| Retention (`internal/retention`, `worker/retention.go`) | the same rows | delete old alerts, old resolved incidents | other actors hold ids of what it deletes |
| Escalation (`worker.go`, `worker/oncall.go`, `internal/notifier`) | none | look up the integrations of the tenant, notify | which database role the query runs as |
| SLA escalation (`worker/sla_escalation.go`) | Redis flags | page when an incident is overdue | page first, flag second |
| Connection watchdog (`worker/watchdog.go`) | Redis heartbeats and alarm flags | raise an alarm when a source falls silent, clear it | three keys that expire independently |
| Response actions (`api/response_handler.go`) | response_action_requests | create, approve (executes at the vendor), reject | the vendor call inside the transaction |
| Runbook approvals (`api/runbook_handler.go`) | runbook_approval_requests | request, approve (executes over SSH), reject | a rejection that takes no lock |
| Playbook engine (`api/playbook_engine.go`) | playbook_runs and their steps | start, advance, approve, reject | one transaction per step, the status in another |
| Suppression rules (`worker/suppression.go`, `api/suppression.go`) | table and Redis cache | read through, invalidate | a fill that races an invalidation |
| API keys (`middleware/auth.go`, `api/api_keys.go`) | table and Redis cache | authenticate, revoke | the same |
| Ingest breaker (`middleware/ingest_breaker.go`) | Redis counters | count, trip, alarm | separate Redis calls of concurrent requests |
| Connection pool (`db/connection.go`) | 8 connections | acquire, release | 10 workers that hold one and ask for another |
| WebSocket hub (`internal/ws`) | client set, channels | register, unregister, broadcast | closing a channel somebody sends on |
| Migrations (`db/migrations.go`) | version table | run under an advisory lock | replicas that start together |
| Edge agents (`internal/agent`, `api/agent_*.go`, `cmd/noc-agent`) | enrollment tokens, agents, a key file; devices, interfaces, counters | enroll once; poll, report events and rates, discover | a token presented twice; answers lost; counters that reset; several agents that see one device |
| Accounts, tenants, sessions (`api/auth_handler.go`, `access_handler.go`, `tenant_handler.go`, `middleware`) | users, tenants, grants; a signed token | register, log in, grant, revoke, delete; resolve the tenant of a request | a token is a copy nobody takes back |
| Vault, audit, reports, OCSF, threat intelligence, AI chat, frontend | rows | CRUD, read-only aggregation, external calls | no protocol between actors |

How they meet: handlers and workers share the `alerts` and `incidents` rows and know of each other
only through row locks and the partial unique index `idx_incidents_open_fingerprint`; the queues,
the debounce pointer and every flag are Redis keys written outside any transaction.

What makes each part correct: an event is grouped once and its incident is the only open one of its
fingerprint; counts and links agree; a resolved incident stays resolved; an approved action is executed
once and a rejected one never; a queue entry is neither duplicated nor lost; a revoked key, a new
suppression rule or a tripped breaker takes effect; nobody waits for ever. Where the code falls short of
one of these, the section of its module says so. `PROJECT.json` lists the hazards, each at its line, and
the properties against them.

## 2. Plan

Order of work, the most important behaviour first. All of 1 to 9 is written.

1. `AlertPipeline`: worker pool, grouping, operator handlers, AI worker, SOAR, retention, on the
   alert and incident tables, at the grain of SQL statements. `MCAlertPipeline` instantiates it.
2. `IncidentRegistry`: the abstract life of an incident; the pipeline implements it.
3. `ApprovalGate` (abstract: executed only while pending and claimed by one approval, once per
   claim, decided once), which `ActionQueue` implements; `ApprovalTickets`, the weaker promise that
   `PlaybookEngine` keeps when its calls overlap. One run, `Approvals`.
4. `DeadLetter`: raw queue, mapping engines, bounded dead-letter list, concurrent replays, crashes.
5. `IngestGuard`: the caches of API keys and suppression rules, the circuit breaker, the limiter;
   `BoundedStaleness`, the abstract register both caches implement.
6. `Connectors` (severity scales) and `Telemetry`, which uses it: ingestion handlers, Sentinel
   poller, integrations, watchdog. In one run with `IngestGuard`, `Ingest`.
7. `SLAEscalation`: targets, on-call tables, monitor, flag, page.
8. `Access` and `Hub`, in one run `Console`: accounts and sessions; the live feed.
9. `Enrollment` and `EdgeAgent`, in one run `EdgeAgent`.

Theorems live in `<module>_proofs`; those of two components that share a run live together, in a module that
extends the one of the run: `Approvals_proofs` (`ActionQueue`, `PlaybookEngine`), `Console_proofs` (`Access`,
`Hub`), `EdgeAgent_proofs` (`Enrollment`, `EdgeAgent`).
Left for later: the deletion of a playbook under its runs; the links between discovered neighbours.

Modules that are proved about use no RECURSIVE operator; constants carry their assumptions by name.

## 3. AlertPipeline

One process per worker goroutine (`Worker`) and per operator request (`Request`). `alerts` and
`incidents` are the committed tables. `pendA[p]` and `pendI[p]` hold what the transaction of process
`p` has written and not committed; a row found there is locked for every other writer, and readers
see only committed rows: this is READ COMMITTED. An action is one SQL statement, or a run of
statements between which no other process can observe or change anything this model keeps.

| Action | Code |
|---|---|
| `Pop`, `Mute` | BRPOP in `worker()`; suppression rules in `processEvent` |
| `ReadDebounce`, `FetchAlert`, `GroupIntoAlert` | the debounce hit: GET, `GetByID`, `Update` and COMMIT |
| `InsertAlert` | `createNewAlert`: INSERT of the alert, then the SELECT of `findOrCreateOpenIncident` |
| `BumpIncident`, `OpenIncident` | its UPDATE by id; its INSERT, the unique violation and the aborted savepoint |
| `LeaveUngrouped` | any of these fails: `attachIncident` rolls back to its savepoint, and the alert goes on without an incident |
| `Announce` | LPUSH for the AI worker, SET of the debounce pointer, SOAR, and the query of the escalation on a second connection: before the commit |
| `CommitAlert`, `Fail` | COMMIT; any error or crash |
| `AcknowledgeAlert`, `ReopenAlert`, `CleanupAlerts` | handlers of one statement |
| `ResolveAlert`, `CheckSiblings`, `CloseIncident` | `HandleResolveIncident`: its UPDATE, its NOT EXISTS, the wait for the incident |
| `AcknowledgeIncident`, `ResolveIncident`, `CascadeToAlerts` | `updateIncidentStatus` |
| `CommitRequest`, `FailRequest`, `BreakDeadlock` | COMMIT, Rollback, the deadlock detector of PostgreSQL |
| `ExpireDebounce`, `AiTake`, `AiWrite`, `SoarFinish`, `MonthPasses`, `EnforceRetention` | the background |

Abstracted: a fingerprint is a value drawn when the event is popped; payloads, occurrences, titles,
OCSF and publishing to sockets are left out, since no modelled statement reads them. So is whom an
escalation reaches: `triggerEscalations` logs and returns when its query fails (`worker.go:770`), a
channel may fail (`worker.go:784-835`), and nothing in the tables depends on it. What is kept of
escalation, log shipping and SOAR is the second connection of the pool they ask for. The verdict of the
AI heuristics is a choice between those they can reach. Time passes as the expiry of the debounce key
and as `MonthPasses`, which makes the incidents in the table older than the retention window once no
transaction or key of that age can exist; an alert is as old as its source says (`worker.go:321`), so
any alert may be due at once. `Deployed` says which optional parts run: `ai`, `soar`, `retention`.

The pool is a count: whoever is in a transaction holds a connection, and a step that needs one, or a
second one, waits until fewer than `Connections` are held (`Holders`, `SpareConnection`).

Operators named `Fault...` are plausible bugs of the definition that follows them. No specification
uses them; each property is known to fail when its definition is replaced by one of them.

### Runs

| Run | Instance | What it shows |
|---|---|---|
| `AlertPipeline_core` | 2 workers, 1 operator, 3 events, 1 fingerprint, severities warning and critical, AI worker, every handler that deletes nothing | one open incident, counts equal links, an event is never absorbed by a resolved alert |
| `AlertPipeline_background` | 2 workers, 2 operators (handlers that write incidents, cleanup), 2 events, SOAR, retention, 3 connections | with deletions and late writers: counts are never too small, links lead to an incident of the same fingerprint or to a pruned id, resolved is final, the tables implement `IncidentRegistry`; under fairness every event settles or the pool is exhausted for good |
| `AlertPipeline_suppressed` | 1 worker, 2 events, AI worker | **finding**: a repetition is absorbed by a suppressed alert, which stays suppressed, although `worker.go:219` says it is revived |

Why the bounds are enough. The races are between two transactions on one incident, so two workers, or a
worker and an operator, meet in every pair in the first run, and two operators do in the second; a third
event gives the third row that a race over two needs: one already grouped, two in flight. One fingerprint
is the case in which everything collides; fingerprints share no row, only ids. Ids are as many as events,
because each event opens at most one incident. Three connections are one less than the four processes:
the smallest pool in which everyone may wait for everyone, and in which two still meet on a row. Symmetry
is used with invariants and action properties only, over ids that no action compares except for equality.

Fairness. `FairSpec` assumes that a goroutine that can run does (`WorkerLoop`), that a request which
has started goes on when its statement can be served (`Handle`), and that PostgreSQL breaks a
deadlock of row locks (`BreakDeadlock`). Nothing breaks a deadlock of the pool: eight connections serve
ten workers, a transaction holds one, and log shipping, SOAR and escalation ask for a second one inside it
(`connection.go:35`). So `EveryEventSettles` excepts exactly that: an event settles, or from some moment
on every connection is held by a process that waits for a connection or for a row (`PoolExhausted`). It
says that row locks, the index and the handlers' deadlocks alone never keep an event. Operators need not
call, transactions need not fail, keys need not expire: none of these is fair.

What the code does and a reader might not expect; the model has it, and no property speaks against it:

- The loser of the race to open an incident queries again inside a savepoint that the unique
  violation has aborted (`incidents.go:179`), and leaves its alert without an incident; the comment at
  `incidents.go:129` says that it falls back to bumping.
- Severity and risk score of an incident come from a row read before the lock; the later writer wins,
  so an incident may rank below one of its alerts, although `incidents.go:57` and migration 000019
  speak of the worst severity.
- Two requests that resolve the last two alerts of an incident each see the other one active
  (`handler.go:558`), and the incident stays open.
- A recurrence within the debounce window revives its alert under the resolved incident
  (`incidents.go:111` speaks of a new one).
- The escalation of a critical alert goes out before the commit: it names an alert that a rollback then
  takes back, and one that fails (`worker.go:770`, `784-835`) is not repeated. Under the role
  `noc_app_runtime` its query, outside a tenant transaction, sees no integration at all. No property
  says that somebody is paged.
- The bump updates by id, so an incident resolved between its SELECT and its UPDATE gains an alert
  (the registry's `Attach` allows it). Retention deletes an old resolved incident under younger
  alerts. The AI worker writes back the status it read and may undo a resolution.

## 4. ApprovalGate, ActionQueue, PlaybookEngine

Three parts of the program execute an action on somebody else's system after a human has approved it.
`ApprovalGate` is what the repository promises of them, without locks or calls: an item is filed,
claimed by one approval at a time, acted on at most once per claim, and settled, rejected or, when the
approval fails, pending again. Containment requests keep it. The steps of a playbook do not once two
calls on a run overlap, as nothing serializes them; what they keep all the same is `ApprovalTickets`: an
approval that finds the step awaiting gets a ticket, a ticket buys at most one vendor call, and only a
ticket records an outcome. A ticket outlives a rejection and a step may have several.

`ActionQueue` is the containment queue and the runbook queue, side by side because they differ where
it matters. A transaction touches one row, so `status` is the committed column, `holder` the call
that has its row lock, and a commit or rollback is one step. `pc` is where a call is.

| Action | Code |
|---|---|
| `Create`, `DeleteRunbook` | `HandleCreateResponseAction`, the worker's `createRunbookApprovalRequest`; the cascade of `HandleDeleteRunbook` |
| `Claim`, `Refuse` | SELECT ... FOR UPDATE and the check of the status |
| `Execute`, `ExecuteUnsent` | `executeResponderAction` or `ExecuteSSH`, inside the transaction; its early failures |
| `Commit`, `RollBack` | UPDATE, comment and COMMIT; any error, a client that goes away, a crash |
| `RejectResponse` | one UPDATE with the status in its WHERE |
| `ReadPending`, `RejectRunbook` | a SELECT without a lock, then an UPDATE by id |

`PlaybookEngine` is one run: its row, its steps, and the calls on it. Each action is one transaction of
`playbook_engine.go`; between two of them a call remembers nothing but an index (`at`). `Abandon` stops a
call anywhere, as a failed statement, a cancelled request or a crash does. `Concurrent` bounds the calls
in progress, and is 2 in both runs: HTTP handlers overlap. The context of the run decides which targets
resolve (`resolvable`, drawn at the start). Notifications and comments are a choice of outcome.

| Run | Instance | What it shows |
|---|---|---|
| `Approvals` | the queue: 3 calls, 1 containment request, 1 runbook request; the playbook: 4 calls, 2 of them at once, steps contain, comment, contain | nothing is executed unless its committed row is pending; containment requests implement `ApprovalGate`, gated steps `ApprovalTickets`; every call is answered unless an SSH session hangs; no step before its predecessors; a completed run has had its calls; a run does not stay `running` unless its call was abandoned |
| `Playbook_race` | the same playbook, 2 calls at once | **finding**: the vendor is called for a step rejected or executed since it was read |

`MCApprovals` puts the two in one specification. They share no state, so a behaviour is about one of them
(`part`) and each is explored in full; the queue's `Caller`, `pc` and `calls` are named `Operator`,
`stage` and `executed` there, and its properties `Queue...` where the playbook has one of that name.

Bounds. Rows are independent: a call locks one, so one request of each kind shows all that two calls
can do to each other, and the third call adds the one that arrives after both. A playbook of this
shape has an automatic step between two gated ones; four calls are its start, two approvals, and one
that repeats an approval or rejects, and two at once is what a race needs. Nothing is counted without
bound: a call is handled once, so there are at most as many vendor calls as calls.

Fairness. A call on a playbook that can take a step takes one (`Proceed`): the HTTP clients of the
responders have timeouts of ten seconds. Of the queues that is not so. `ExecuteSSH` bounds its dial only:
`session.Run` has no timeout (`runbook_handler.go:353`), and the host-key callback (380, 410) takes a
second connection of the pool while the first holds the row lock. A session may hang, and whoever waits
for its row or for its connection with it. So `Handle` is fair only while no session is open, and
`EveryCallReturns` says that calls are answered unless from some moment on there is always one: vendor
calls, locks and their failing holders never keep anybody. Operators need not call, and nothing forces
a call to be abandoned.

What the code does and a reader might not expect. The rejection of a runbook request, which takes no lock
and states no status, overwrites the approval it waited for. An approval rolled back after the vendor
call leaves the request pending, and a second approval executes it again (`Abandon` of the gate allows
it). A run whose call stopped between the step and the status of the run is refused by approve and
accepted by reject, so a containment that succeeded ends under a rejected run; if it stopped after that,
the run is `running` for ever. An overlapping call may ask again for a step that another one has decided
(`setRunPaused` looks at no status), so what the row of a step says at the end may be older than what was
done: `CompletedMeansDone` speaks of the vendor calls. A failed runbook is recorded as approved, with the
outcome in its log only.

## 5. DeadLetter

The generic webhook queues a raw message; a mapping engine per replica pops it, maps it and pushes
the incidents one by one, or parks it in the dead-letter list; an administrator replays that list.
Lists are sequences with the head first. `hand[w]` is the only copy of what worker `w` has popped.

| Action | Code |
|---|---|
| `HandleGenericWebhook`, `TakeRaw`, `Park` | the handler; BRPOP and the failed mapping of `StartMappingEngine` |
| `StartReplay`, `TakeDead`, `Retry`, `EndReplay` | `HandleReplayDLQ`: the length read once, RPOP, the count, the poison list |
| `Map`, `PushIncident`, `Finish` | `MapRawPayload` and one LPUSH per incident, in both |
| `PushToDLQ`; `TrimDLQ`, `SkipTrim` | LPUSH, after which anybody may use the list; LTRIM, or its failure: one pipeline, no transaction |
| `LoseIncident`, `LoseEntry`, `Crash`, `Deploy` | failed Redis writes, death of the process, a release with other connectors |

Run `DeadLetter`: 2 messages (one a batch of two), 2 engines, 2 replays of at most 2 entries, a list of 1
entry and 3 retries. No message exists twice or is pushed beyond what it maps to; what no fault touched is
accounted for; an entry counts its failed replays; under fairness nothing stays in the raw queue or in
hand. `faulted` is the set of messages a crash, a trim or a failed write has hit: the code loses those,
and the properties except them by name, nothing else. With a cap of one, two pushes overflow the list, and
two engines and two replays meet between a push and its trim; three retries let an entry fail, come
back and fail again before it is parked. Fairness: engines are loops around a blocking pop, a replay is
a request that runs to its end.

Between the two commands of the pipeline, and after a failed LTRIM until the next push, the list is longer
than `MaxDLQSize`, by as many entries as were pushed in between; `dlq.go` says it "can never grow
unbounded". No property bounds its length.

## 6. IngestGuard

What an event passes on its way in. API keys and suppression rules are tables behind Redis caches:
lookup, fill, change and invalidation are separate steps (`LookUpKey`, `LoadSuppressionRules`, `Fill`,
`HandleRevokeAPIKey`, `KeyExpires`, `HandleMutateSuppressionRules`, `InvalidateCache`), each of which
another may interleave, and each Redis call may fail. `BoundedStaleness` is what both do give: an
answer was true less than `bound` ago, with the TTL of the cache and the delay of one lookup as the
bound. A request whose key is accepted goes on to the breaker (`CheckOpen`, `Count`, `Trip`,
`RaiseIngestBreakerAlarm`) and the limiter. The clock is `minute`, the next step of a client `stage`.

Run `Ingest` (with Telemetry, below): 2 clients, either table, TTLs of 2 (keys) and 1 (rules), a breaker
that trips at the second request, 4 minutes, 3 arrivals: an old fill can land after the invalidation and
outlive it, two requests cross the threshold together, and a second opening follows the cooldown. Safety
only.

The documents promise more than the bound. Run `Revocation_at_once` finds `RevokedAtOnce` violated:
`api_keys.go:28` and `:135` say that a revoked key stops working at once, but a request that has looked
the key up before the revocation caches it after the DEL (`auth.go:78`), and the next request with that
key is let through, for up to the TTL. The rule cache is no different, though `suppression.go` says a
change takes effect at once; there a failed SELECT caches an empty list besides.

## 7. Connectors and Telemetry

`Connectors` gives each vendor's scale in order and the severity each level maps to, fallbacks
included. `Telemetry` is one source of one tenant: every ingestion handler and the Sentinel poller
(`handleTypedIngest` and its callers, `syncTenantSentinel`), the integrations of its type, and the
watchdog (`scanConnections`, `evaluateAndAct`, `raiseTelemetryLossAlarm`, `SetAlarmed`), which share a
heartbeat and an alarm flag in Redis, each with its own TTL. The generic endpoint takes any path segment for
a source; Grafana and Prometheus register a heartbeat for a batch without alerts too (`EmptyBatch`). A clock of
five-minute periods drives it.

Run `Ingest`: a behaviour is about the guard or about the watch (`part`), which share no state. For the
watch 2 integrations, 1 watchdog, 5 periods; silence 1, grace 2, re-alarm 3 or 4 (`NeverRenotify`),
heartbeat 4. The lifetimes keep the order their defaults have in the code (10 and 15 minutes, an hour, a
week; 24 hours for the heartbeat), but for the week, and are small enough that each of them ends within
the run. Every type is run for two periods (`ShortTime`), and all five are run for one of each kind that
time treats differently (`OneOfEachKind`: a watched type fed by a handler, the poller's, the endpoint
without a heartbeat, an unwatched type): within a kind, types differ in their severities only. A source
that has fallen silent has had its alarm since it was last heard (`BlindMeansAlarmed`); an outage of an
integration that was past its grace when it was alarmed is not alarmed again in the window
(`RenotifyPastGrace`); of two events the worse one for the vendor is not the milder here
(`SeverityMonotone`). After a failed Redis call or a skipped scan (`missed`) nothing is promised, and the
behaviour ends.

Run `Telemetry_expiry`, same bounds, finds `RenotifyRespected` violated: the comment of the watchdog
promises the window without the condition on the grace. An integration is added while the heartbeat of an
earlier one of its type is still there: it is alarmed for that old heartbeat. Then the key expires, the row is
younger than the grace, so the source is "not silent", the watchdog deletes the flag as after a recovery,
and alarms again as soon as the grace is over. Found while the theorem about the window was being proved.
Noted: a heartbeat that has expired after 24 hours turns an outage into a "never connected" warning;
an integration made anew over an old heartbeat alarms at once; two integrations of one type share one
heartbeat and flag; the flag is set although the alarm was not queued; two replicas may both alarm.

## 8. SLAEscalation

The monitor reads targets and unresolved incidents in one transaction (`Scan`), evaluates them with
the clock after it (`EvaluateAll`), checks the flag of each breach (`CheckFlag`), looks up who is on
call (`LookUp`), pages every channel (`TriggerEscalations`), and sets the flag (`SetFlag`); operators,
administrators and schedules go on meanwhile. Delivery is a goroutine per channel (`Deliver`).
`page` records the page of the last step; `handled`, `gone`, `excused` and `crossed` record what changed
since the monitor looked, so that the properties can say what a page may be wrong about and what not.
`replicas`, chosen at the start, are the processes that run the monitor: each replica does, and nothing
elects one.

Run `SLAEscalation`: 1 incident, 2 monitors, 1 shift, a window of 2 ticks, valid and invalid targets,
1 fault (a failed call or a crash). Either one replica runs over all of that, or two run over an open
incident without faults or changes of the tables (`SeveralStandStill`), since they meet through the flag
alone. No second page inside the window unless a fault hit the flag or the replicas crossed; each page is
for what was open or unmet when the incidents were read; it names people on call; a breach that lasts is
heard. The incidents of a scan are handled one by one with a flag each, so one shows the protocol; the
theorems below are for any number of incidents, monitors and shifts, without that restriction. Fairness:
time passes, the loop of a monitor runs, a notifier call ends by its timeout.

`sla_escalation.go:34` and `166` promise the window without a condition. It does not hold of two replicas
that cross, each looking for the flag before the other, which pages too, has written it: `QuietWindow`
names that case, and says that it is the only one. Noted besides: the flag is set even when no channel
could be reached; delivery assumes that the query sees the channels and that the pool has a connection.

## 9. Access and Hub

`Access` has accounts, tenants, grants and the token of each user. A login reads the account
(`StartLogin`), and after the password is compared reads the grants and issues the token
(`IssueToken`, `BootstrapTenant`); a request passes `JWTAuth`, the role gate and
`ResolveTenantScope` (`Serve`, `ServeAll`). `lastSeen` is when the tables last gave a user a right.
`RevocationReaches`: no request enters a tenant later than a token and a login after that right ended.

`Hub` has the goroutine `Run`, which owns the client map, the multiplexer that broadcasts under the
read lock, and two pumps per client. Handing a client to `Run` is a rendezvous (`TakeRegister`,
`TakeUnregister`), waiting for the write lock a guard on `round`. `NoPanic`: nobody sends on or closes
a closed channel. `NoZombie`: a client that was skipped or has lost its connection is disconnected and
off the list for good.

Run `Console`: 1 user, 2 tenants, a token of 1 tick, a login of at most 1, 4 ticks; 2 clients with a
buffer of 1, 2 messages, shutdown. The parts share no state, so a behaviour is about one of them. Users
meet only in tables that the other users' administrators may change at any time, which the handlers here
may do without a caller. A login of an admin for whom both lookups of a tenant come back with nothing, or
with an error, makes one (`BootstrapTenant`), also where others exist. Fairness of the feed: `Run`
returns to its select, a waiting writer gets the lock (`sync.RWMutex` lets no new reader pass it, hence
SF), goroutines go on, a pump notices that its connection or channel was closed. Noted: the role gate
looks at the role in the home tenant also when `?tenant_id=` names another; a grant writes `operator`
over a higher role; two admins can delete each other; the token of a deleted platform admin works until
it expires, and its feed beyond; what is published while the multiplexer subscribes again is lost; the
failure of the INSERT at the first login is not noticed.

## 10. Enrollment and EdgeAgent

`Enrollment`: a token is minted, looked up and claimed by requests that may overlap, time out and be
repeated by a supervisor that starts the agent again; the key is returned and saved to a file. One token
makes one agent, and one host at most holds its key.

`EdgeAgent` is the cycle against one device with several checks and one interface: `GetConfig`,
`Collect`, `SendEvents`, `Interfaces`, `Sweep`, `SendDiscovery`, each push with the server handler it
reaches; it may fail on its way, on the server, or on the way back. The device resets, wraps and falls
silent, another agent of the tenant reports it too, and the agent crashes. `TopologyHonest`: an ARP sighting
never replaces what the device said of itself, and no rate claims more octets than passed.
`BreachReported`: a condition that lasts is queued again and again.

A target may have more checks than one request of gosnmp carries (60), and nothing caps them
(`validateSNMPTargetInput`): then every poll fails (`fits`), and what is reported again and again is that
the device cannot be reached.

Run `EdgeAgent`: 2 hosts, 1 token, 3 requests; 2 checks, counters modulo 2 and 1 octet between samples,
enough for a wrap and a reset to look alike; the cycle of a target that does not fit is run without
discovery and traffic, which do not depend on it. Fairness: the cycle goes on; the configuration, a poll
whose answer is not lost and an accepted push happen again and again when tried again and again (SF): a
network that always fails reports nothing, in the code as here. Noted: a walk that answers but whose
counter column cannot be read is recorded as zero, so the next rate is a spike, although the comment of
`computeBps` promises none (`RateHonest` excepts that cycle by name); a token is burned when the agent
dies before it has saved its key; a revoked agent does not enroll again; links are never deleted; an ARP
sighting refreshes `last_seen` of a device that has stopped answering; a partial SNMP answer overwrites
the name and the vendor of a row with nothing (`agent_discovery.go:297`).

## 11. What is proved

`AlertPipeline_proofs.tla`, for any sets of workers, requests, events, incident ids, fingerprints,
deployment options and any size of the pool, from `PipelineAssumption` alone (processes and ids are
distinct, `None` is nothing else, severities are severities):

| Theorem | Says |
|---|---|
| `Typing` | `Spec => []TypeOK` |
| `OneOpenIncident` | `Spec => []UniqueOpen` |
| `ResolvedStaysResolved` | `Spec => ResolvedIsFinal` |
| `Refinement` | `Spec => ImplementsRegistry` |
| `LinksHold` | `Spec => []LinkIntegrity` |
| `CountsHold` | `Spec => []CountTracksLinks` |
| `ResolvedAlertsRevive` | `Spec => ResolvedNeverAbsorbs` |

Typing needs to know what a program counter says about the memory of its process: a worker at
`bump` has an incident, one at `commit` has written its alert (`WorkerPhase`), a request at `close`
has found an incident (`RequestPhase`), and only certain steps have incident rows pending. `TInv` is
`TypeOK` with those facts. Two lemmas (`WorkerMoves`, `RequestMoves`) say that a step of one process
into a good phase keeps the rest; every action is an instance of them.

The next three rest on `RegistryInv`. `UniqueOpen` alone is not inductive: a commit could install a
second open incident unless we know what is pending. `PendingKinds` says that a pending incident row
is an insert for a fingerprint with no open incident, a bump of the committed row, or a status change
of an open one; `IncidentLocks` that a transaction holds one row and a row has one holder;
`InsertsDiffer` that two pending inserts are for different fingerprints (the wait for the index);
`PrunedAreGone` that retention's deletions last. A step then is one of five kinds (`Untouched`,
`Drops`, `Writes`, `Commits`, `Retains`), and only the last two change the table. The refinement maps
a commit to the registry's Open, Attach, Acknowledge or Resolve according to the pending kind, and
retention to Prune.

The last three are about alerts, whose rows are written by workers, requests, the AI worker and
retention. They need to know what an uncommitted alert row is, which no property says: `RowsInv`.
`Recorded`: a row stands for an event that was recorded; `OwnEvents`: two workers never have the same
event; `WorkerRows`: a pending row of a worker is the new row of its own event; `RequestRows`: a pending
row of a request is a committed row with another status; `AlertLocks`: a row is pending in one
transaction. On it stand three invariants, so that each theorem names what it needs:

- `LinksInv` for `LinksHold`: a committed link leads to an incident of the fingerprint (`CommittedLinks`);
  the incident that a worker is about to bump groups its fingerprint, and the one it has linked its alert
  to is the one whose row it has pending, unless retention has deleted it (`WorkerLink`);
- `CountInv` for `CountsHold`: the property itself, and that finitely many alerts lead to an incident, since the
  theorem is for any set of events. A commit adds one element to `Links(i)` and one to the count, because the
  bump held the row lock from its read to its commit; a deletion removes elements;
- `PointersInv` for `ResolvedAlertsRevive`: the alert that a debounce pointer or a job names has, or will have
  if it is committed, the fingerprint it is looked up by (`Represents`).

`Approvals_proofs.tla` is about the queue for any requests and calls, from `QueueAssumption` of
`MCApprovals` (the two id sets are disjoint, `None` is neither a call nor a body), and about the engine
for any playbook and any `Concurrent`, from `PlaybookAssumption` (at least one step, which
`ValidateSteps` enforces, and at least one call). `ApprovalsHold` states for the specification of the run
what holds of both parts without a condition.

| Theorem | Says |
|---|---|
| `QueueTyping` | the queue's `Spec => []QueueTypeOK` |
| `PlaybookTyping` | `Spec => []TypeOK` |
| `ExecutedPending` | the queue's `Spec => ExecutedWhilePending` |
| `QueueRefinement` | the queue's `Spec => QueueImplementsGate` |
| `StepsInOrder` | `Spec => []EarlierStepsTaken` |
| `CompletedRuns` | `Spec => []CompletedMeansDone` |
| `PlaybookRefinement` | `Spec => ImplementsTickets` |

The queue rests on the row lock: `QueueInv` says that a call in its transaction holds the lock of
its row (`LockHeld`), that a lock is held by such a call and its row is pending (`LockUsed`), that
a call without a vendor call has failed, and that only runbooks are read before they are rejected.
Without the last, the unguarded UPDATE could be one of a containment request. The playbook rests
on the order of steps: `Order` says that the steps before the index of the run, of every call, and
of every executed step are taken, and that a taken step stays taken (`StaysTaken`).
`EarlierStepsTaken` alone says nothing of the indices from which the next execution comes. `Called` says
of the vendor calls what `Order` says of the rows: the gated steps before each of those indices have had
a successful call, and a call about to move past a step has made one. Calls are counted and never taken
back, so this survives the overlapping calls that write the rows of the steps over one another. None of
the three theorems assumes that calls do not overlap. For `PlaybookRefinement` each transaction of a call
is an act on the ticket of its step (granted by `CheckStep`, spent by `Execute`, handed in by `RecordStep` or
`FailUnresolved`, dropped by `Abandon`) or a stutter; that it is this step's and nobody else's ticket is
`OneTicketMoves`. That the stronger `ApprovalGate` fails for overlapping calls is what `Playbook_race` shows.

`DeadLetter_proofs.tla`, for any messages, engines, replays and bounds, from `DeadLetterAssumption`:

| Theorem | Says |
|---|---|
| `NoDuplicates` | `Spec => []NeverTwice` |
| `NothingVanishes` | `Spec => []AccountedFor` |
| `RetriesExact` | `Spec => []RetriesCounted` |

The properties count copies with cardinalities, which are awkward to induct over. `DLInv` says the same
with places: no message is in two of them or twice in one (`OnePlace`), only accepted messages are
anywhere (`Known`), what is on a list has pushed nothing (`Waiting`), what a worker has in hand owes
exactly the incidents still to push (`InHand`), and what is nowhere any more has pushed them all, unless
a fault touched it (`Gone`). A trim may come at any time after the push, on a list that others have
changed since: it drops whatever lies beyond the cap, and marks it. That is inductive step by step,
through lemmas on what a push, a pop and a trim do to the positions of a list; the counts follow from it
once.

`IngestGuard_proofs`, `EdgeAgent_proofs`, `Console_proofs`, `SLAEscalation_proofs` and `Telemetry_proofs`
are for any clients, hosts, incidents, monitors, users, tenants, integrations and watchdogs, any
lifetimes and any clock; none uses a bound of a run or a restriction of its module. They assume
`GuardAssumption`, `AgentAssumption`, `SLAAssumption`, `AccessAssumption` and `TelemetryAssumption`
(constants are numbers where the code has numbers, lifetimes are positive, `None` is nothing else).
`TelemetryAssumption` asks besides that the silence is shorter than the window and, with one period to
spare, than the life of a heartbeat. The defaults are 10 minutes, an hour and 24 hours; the environment
may set the first two otherwise, and then an alarm may be repeated, or a source that has fallen silent
taken for one that was never connected.

| Theorem | Says | Argument |
|---|---|---|
| `GuardTyping` | `GuardSpec => []GuardTypeOK` | |
| `Staleness` | `GuardSpec => ImplementsFreshness` | `FreshInv`: what a client has read was true at `since`, it is not later than `Delay`, and a positive entry ends at most `Bound` after the row did; then each acceptance is a `Serve` of the register |
| `OneAlarm` | `GuardSpec => []OneAlarmPerOpening` | an alarm consumes an opening: cardinalities of the clients about to alarm |
| `NobodyPanics` | the hub's `Spec => []NoPanic` | `HubInv`: a channel is closed by the one unregistration of its client, `once` says how far that is, and a closed client is in no tenant and in no round of a broadcast |
| `TokenUsedOnce` | `Spec => []OneAgentPerToken` | `EnrollInv`: a request was granted only if it made its token used; a key is known to the host of its request only |
| `NothingMadeUp` | the agent's `Spec => TopologyHonest` | `Metered`: since a walk that read the counter, the counter has grown by what has moved at most, as resets and wraps only take away |
| `PagesAreJustified` | `Spec => PageJustified` | `Evidence`: the rows a monitor read were true, or the incident is in `handled` |
| `NamesAreOnCall` | `Spec => NamesOnCall` | `NamesInv`: a name held is on call or in `gone` |
| `NotTwiceWithinWindow` | `Spec => QuietWindow` | `WindowKept`: flag and time since the page add up to the window, or a monitor is about to set the flag, or a fault hit it; `CrossedOnly`: a monitor on its way to a page that another one is about to flag is in `crossed` |
| `RevocationsReach` | `Spec => RevocationReaches` | `AccessInv`: a right in the tables is seen now, what was seen only grows, a login saw its admin no later than it began, a token was issued at most one login after its right |
| `SilenceIsAlarmed` | `Spec => BlindMeansAlarmed` | `WatchInv`, below |
| `AlarmsHeldBack` | `Spec => RenotifyPastGrace` | `WatchInv`, below |
| `WorseIsNotMilder` | `Spec => SeverityMonotone` | each scale is cut into bands whose severities rise with the level (`Bands`), one lemma per vendor; the generic source states the severity itself |

`WatchInv` holds until a call fails. `Clock`: a scan works with the time of its own period. `Beats`: the
heartbeat in Redis is the last event, and lives for its TTL after it. `NoRepeat` is for `AlarmsHeldBack`:
the flag holds back others as long as the last alarm says, or the watchdog that raised it is about to set
it (`LastAlarm`), and an alarm in hand is late enough (`AlarmInHand`). `Alerted` is for
`SilenceIsAlarmed`: either an alarm was raised since the source was heard, or no flag of an earlier
outage outlives the scan after the recovery (`Unflagged`) and no scan has yet found the source silent
(`NotSilent`). Neither theorem holds by the flag alone: the heartbeat, the flag and the row end at times
of their own, and what bridges them is that a scan comes in every period.

`Console_proofs` and `EdgeAgent_proofs` extend the modules of their runs, and `ConsoleHolds` and
`AgentsHold` put the two parts together for the specification of the run: a step of the composition is a
step, or a stutter, of each part.

Every safety invariant and action property of the passing runs is stated by one of these theorems. Only
model-checked is liveness: `EventuallySettled`, `EveryEventSettles`, `EveryCallReturns`, `RunSettles`,
`BreachHeard`, `NoZombie`, `BreachReported`. Liveness under fairness and ENABLED, induction over data,
and RECURSIVE operators are out of the prover's reach.

## 12. Not modelled

Vendor HTTP calls, SSH sessions and language-model calls are external: what they return is a choice.
Vault cryptography, reports, KPIs, OCSF mapping, the audit log, threat intelligence and the frontend are
single statements, pure functions of one row, or presentation. The connection pool is a library; of it
there is the number of connections (section 3). Whom an escalation or an SLA page reaches at the vendor
is not modelled, nor the WebSocket feed after a token ends: it is authorized once (`ws_handler.go:110`).
Migrations run at boot under an advisory lock. Wiping a tenant (`WipeTenant`) leaves its API-key cache
entries to their TTL. The topology graph and the links between neighbours are computed from rows whose
life `EdgeAgent` has.
