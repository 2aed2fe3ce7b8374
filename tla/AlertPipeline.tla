--------------------------- MODULE AlertPipeline ---------------------------
(***************************************************************************)
(* From a normalized event to an alert grouped into an incident: the       *)
(* worker pool (internal/worker), the operator handlers that change the    *)
(* same rows (internal/api), the Python AI worker, the SOAR auto-resolve   *)
(* and the retention enforcer.                                             *)
(*                                                                         *)
(* PostgreSQL runs these transactions at READ COMMITTED.  `alerts` and     *)
(* `incidents` are the committed tables; what a transaction has written    *)
(* and not yet committed is in `pendA` and `pendI` of its process, and a   *)
(* row found there is locked against every other writer.  Each action is   *)
(* one statement (or a run of statements no other process can tell apart). *)
(* Redis writes are outside the transaction and visible at once.           *)
(***************************************************************************)
EXTENDS Naturals, FiniteSets

CONSTANTS
    Worker,         \* goroutines of the worker pool
    Request,        \* operator HTTP calls, one transaction each
    Event,          \* normalized events; an alert takes the id of its event
    Incident,       \* ids INSERT may draw for an incident
    Fingerprint,    \* content hashes (computeFingerprint), tenant included
    EventSeverity,  \* severities that sources send
    RequestKind,    \* the handlers the operators may call
    Deployed,       \* options: "ai", "soar", "retention"
    Connections,    \* size of the connection pool of the process
    None            \* SQL NULL, a missing row, a missing Redis key

\* info, warning, critical, fatal (incidentSeverityRank)
Severity == 1..4
Critical == 3

AlertStatus == {"triggered", "acknowledged", "resolved", "suppressed"}
IncidentStatus == {"open", "acknowledged", "resolved"}

AlertRow == [fp: Fingerprint, sev: Severity, status: AlertStatus,
             incident: Incident \cup {None}]
IncidentRow == [fp: Fingerprint, sev: Severity, status: IncidentStatus,
                count: Nat]
\* An incident without its severity, as IncidentRegistry sees it.
PublicRow == [fp: Fingerprint, status: IncidentStatus, count: Nat]

Process == Worker \cup Request
WorkerStep == {"idle", "lookup", "fetch", "update", "insert", "bump", "open",
               "announce", "commit"}
RequestStep == {"new", "cascade", "check", "close", "commit", "done"}

\* What a worker holds in memory while it processes one event: the alert it
\* creates or updates, the row it read, the incident it found and the
\* severity it will write there.
Job == [ev: Event, fp: Fingerprint, sev: Severity, alert: Event,
        row: AlertRow \cup {None}, incident: Incident \cup {None},
        worst: Severity]

\* What a request holds: the rows it names and the status it sets.
Target == [alert: Event \cup {None}, incident: Incident \cup {None},
           status: AlertStatus \cap IncidentStatus]

ASSUME PipelineAssumption ==
    /\ Worker \cap Request = {}
    /\ Event \cap Incident = {}
    /\ None \notin Event \cup Incident
    /\ None \notin AlertRow \cup IncidentRow \cup PublicRow \cup Job \cup Target
    /\ EventSeverity \subseteq Severity
    /\ Connections \in Nat

VARIABLES
    event,      \* where each event is: queued, working, recorded, lost, muted
    alerts,     \* committed alerts, by id
    incidents,  \* committed incidents, by id
    pendA,      \* per process: alert rows written and not committed
    pendI,      \* per process: incident rows written and not committed
    pc,         \* per process: the next statement
    job,        \* per worker: its event, None when idle
    target,     \* per request: what it works on
    debounce,   \* Redis: fingerprint -> id of the alert that represents it
    aiQueue,    \* Redis: alerts waiting for the Python worker
    aiJob,      \* the alert row the Python worker has read, None when idle
    soar,       \* alerts with an auto-trigger runbook still running
    aged,       \* incidents older than the retention window
    pruned      \* incident ids deleted by retention, never drawn again

vars == <<event, alerts, incidents, pendA, pendI, pc, job, target, debounce,
          aiQueue, aiJob, soar, aged, pruned>>

\* The variables only Redis, the AI worker, SOAR and retention use.
sideVars == <<debounce, aiQueue, aiJob, soar, aged, pruned>>

NoAlerts == [e \in Event |-> None]
NoIncidents == [i \in Incident |-> None]

Init ==
    /\ event = [e \in Event |-> "queued"]
    /\ alerts = NoAlerts
    /\ incidents = NoIncidents
    /\ pendA = [p \in Process |-> NoAlerts]
    /\ pendI = [p \in Process |-> NoIncidents]
    /\ pc = [p \in Process |-> IF p \in Worker THEN "idle" ELSE "new"]
    /\ job = [w \in Worker |-> None]
    /\ target = [r \in Request |-> None]
    /\ debounce = [f \in Fingerprint |-> None]
    /\ aiQueue = {} /\ aiJob = None
    /\ soar = {}
    /\ aged = {} /\ pruned = {}

-----------------------------------------------------------------------------
(* Rows, locks and transactions.                                           *)

\* worseSeverity
Worse(s, t) == IF t > s THEN t ELSE s

\* Another transaction has written this row and has not finished.
AlertLocked(e, p) == \E q \in Process \ {p} : pendA[q][e] # None
IncidentLocked(i, p) == \E q \in Process \ {p} : pendI[q][i] # None

\* The partial unique index: rows of the fingerprint that are not resolved.
IsOpen(row) == row # None /\ row.status # "resolved"
OpenIncidents(f) ==
    {i \in Incident : IsOpen(incidents[i]) /\ incidents[i].fp = f}

\* An unfinished transaction has inserted, or has changed, an index entry of
\* this fingerprint: an INSERT of the same key waits for it.
IndexEntryInFlight(f, p) ==
    \E q \in Process \ {p}, i \in Incident :
        /\ pendI[q][i] # None
        /\ pendI[q][i].fp = f
        /\ incidents[i] = None \/ IsOpen(incidents[i])

Merge(new, old) == [k \in DOMAIN old |-> IF new[k] # None THEN new[k] ELSE old[k]]

ApplyWrites(p) ==
    /\ alerts' = Merge(pendA[p], alerts)
    /\ incidents' = Merge(pendI[p], incidents)

DropWrites(p) ==
    /\ pendA' = [pendA EXCEPT ![p] = NoAlerts]
    /\ pendI' = [pendI EXCEPT ![p] = NoIncidents]

\* A process in a transaction holds a connection until it commits or rolls
\* back.  Whoever needs one waits, without a timeout, until one is free: also
\* a worker that queries the pool while its transaction holds another.
TransactionStep == {"update", "insert", "bump", "open", "announce",
                  "check", "close", "cascade", "commit"}
Holders == {p \in Process : pc[p] \in TransactionStep}
SpareConnection == Cardinality(Holders) < Connections

Goto(p, step) == pc' = [pc EXCEPT ![p] = step]

\* The worker is done with its event and goes back to BRPOP.
Settle(w, outcome) ==
    /\ Goto(w, "idle")
    /\ event' = [event EXCEPT ![job[w].ev] = outcome]
    /\ job' = [job EXCEPT ![w] = None]

-----------------------------------------------------------------------------
(* The worker: worker() and processEvent().                                *)

\* BRPOP, then the tenant's suppression rules do not match.  The event
\* leaves the queue here: nothing puts it back.
Pop(w) ==
    /\ pc[w] = "idle"
    /\ \E e \in Event, f \in Fingerprint, s \in EventSeverity :
          /\ event[e] = "queued"
          /\ event' = [event EXCEPT ![e] = "working"]
          /\ job' = [job EXCEPT ![w] =
                        [ev |-> e, fp |-> f, sev |-> s, alert |-> e,
                         row |-> None, incident |-> None, worst |-> s]]
    /\ Goto(w, "lookup")
    /\ UNCHANGED <<alerts, incidents, pendA, pendI, target, sideVars>>

\* BRPOP of an event that a suppression rule matches.
Mute(w) ==
    /\ pc[w] = "idle"
    /\ \E e \in Event : /\ event[e] = "queued"
                        /\ event' = [event EXCEPT ![e] = "muted"]
    /\ UNCHANGED <<alerts, incidents, pendA, pendI, pc, job, target, sideVars>>

\* Fault: redis.Nil is not told from a pointer.
FaultUncheckedPointer(w) ==
    /\ pc[w] = "lookup"
    /\ SpareConnection
    /\ Goto(w, "fetch")
    /\ job' = [job EXCEPT ![w].alert = debounce[job[w].fp]]
    /\ UNCHANGED <<event, alerts, incidents, pendA, pendI, target, sideVars>>

\* The mapping rules of the tenant, on the pool, and GET of the debounce
\* pointer.  Without one the alert to look for is the event's own, which is
\* not there yet.
ReadDebounce(w) ==
    /\ pc[w] = "lookup"
    /\ SpareConnection
    /\ LET a == debounce[job[w].fp]
       IN job' = [job EXCEPT ![w].alert = IF a = None THEN job[w].ev ELSE a]
    /\ Goto(w, "fetch")
    /\ UNCHANGED <<event, alerts, incidents, pendA, pendI, target, sideVars>>

\* The transaction begins.  Debounce hit: GetByID, without FOR UPDATE.  A
\* pointer to a row that is not there (rolled back, not yet committed,
\* deleted) becomes a new alert, as does a miss.
FetchAlert(w) ==
    /\ pc[w] = "fetch"
    /\ SpareConnection
    /\ LET row == alerts[job[w].alert]
       IN IF row = None
          THEN /\ Goto(w, "insert")
               /\ job' = [job EXCEPT ![w].alert = job[w].ev]
          ELSE /\ Goto(w, "update")
               /\ job' = [job EXCEPT ![w].row = row]
    /\ UNCHANGED <<event, alerts, incidents, pendA, pendI, target, sideVars>>

\* Fault: the hit path keeps the status it has read.
FaultKeepStatus(status) == status

\* The status the hit path writes back: only a resolved alert is revived.
Revived(status) == IF status = "resolved" THEN "triggered" ELSE status

\* alertRepo.Update and COMMIT: the status read by FetchAlert is written
\* over whatever the row holds now.  No row left: the event is an error.
GroupIntoAlert(w) ==
    /\ pc[w] = "update"
    /\ LET a == job[w].alert
       IN /\ ~AlertLocked(a, w)
          /\ IF alerts[a] = None
             THEN Settle(w, "lost") /\ UNCHANGED alerts
             ELSE /\ alerts' = [alerts EXCEPT ![a].status =
                                    Revived(job[w].row.status)]
                  /\ Settle(w, "recorded")
    /\ UNCHANGED <<incidents, pendA, pendI, target, sideVars>>

-----------------------------------------------------------------------------
(* createNewAlert(), inside the tenant transaction.                        *)

\* The incident to bump and the severity to write into it.
Chosen(j, i, sev) == [j EXCEPT !.incident = i, !.worst = sev]

\* FetchHostLogs looks up how to reach Loki on a connection of its own, for
\* every severity above info (the events here name their host).
FetchesLogs(sev) == sev > 1

\* alertRepo.Create, then attachIncident: SAVEPOINT and the SELECT of
\* findOrCreateOpenIncident, which computes the severity it will write.
InsertAlert(w) ==
    /\ pc[w] = "insert"
    /\ FetchesLogs(job[w].sev) => SpareConnection
    /\ LET j == job[w]
           row == [fp |-> j.fp, sev |-> j.sev, status |-> "triggered",
                   incident |-> None]
       IN /\ pendA' = [pendA EXCEPT ![w][j.ev] = row]
          /\ \/ \E i \in OpenIncidents(j.fp) :
                   /\ Goto(w, "bump")
                   /\ job' = [job EXCEPT ![w] =
                                 Chosen(@, i, Worse(incidents[i].sev, j.sev))]
             \/ /\ OpenIncidents(j.fp) = {}
                /\ Goto(w, "open")
                /\ UNCHANGED job
    /\ UNCHANGED <<event, alerts, incidents, pendI, target, sideVars>>

\* SET alert_count = alert_count + 1, severity = $2.
Bumped(row, sev) == [row EXCEPT !.count = @ + 1, !.sev = sev]

\* Fault: the bump goes through the pool, not through the savepoint.
FaultBumpOutsideTransaction(w) ==
    /\ pc[w] = "bump"
    /\ LET j == job[w] IN
       /\ ~IncidentLocked(j.incident, w)
       /\ IF incidents[j.incident] = None
          THEN UNCHANGED incidents
          ELSE incidents' = [incidents EXCEPT ![j.incident] = Bumped(@, j.worst)]
       /\ pendA' = [pendA EXCEPT ![w][j.ev].incident = j.incident]
    /\ Goto(w, "announce")
    /\ UNCHANGED <<event, alerts, pendI, job, target, sideVars>>

\* UPDATE incidents ... WHERE id = $1: it waits for the row, adds one to the
\* count it finds there, writes the severity computed from the earlier read,
\* and does not look at the status.  Then the alert is linked.
BumpIncident(w) ==
    /\ pc[w] = "bump"
    /\ LET j == job[w] IN
       /\ ~IncidentLocked(j.incident, w)
       /\ IF incidents[j.incident] = None
          THEN UNCHANGED pendI
          ELSE pendI' = [pendI EXCEPT ![w][j.incident] =
                           Bumped(incidents[j.incident], j.worst)]
       /\ pendA' = [pendA EXCEPT ![w][j.ev].incident = j.incident]
    /\ Goto(w, "announce")
    /\ UNCHANGED <<event, alerts, incidents, job, target, sideVars>>

\* Fault: no partial unique index, and an id the program draws itself.
FaultNoUniqueIndex(w) ==
    /\ pc[w] = "open"
    /\ \E i \in Incident \ pruned :
          /\ incidents[i] = None
          /\ ~IncidentLocked(i, w)
          /\ pendI' = [pendI EXCEPT ![w][i] =
                 [fp |-> job[w].fp, sev |-> job[w].sev, status |-> "open",
                  count |-> 1]]
          /\ pendA' = [pendA EXCEPT ![w][job[w].ev].incident = i]
    /\ Goto(w, "announce")
    /\ UNCHANGED <<event, alerts, incidents, job, target, sideVars>>

\* Fault: the alert is linked to the drawn id although the INSERT failed.
FaultLinkAfterConflict(w) ==
    /\ pc[w] = "open"
    /\ ~IndexEntryInFlight(job[w].fp, w)
    /\ \E i \in Incident \ pruned :
          /\ incidents[i] = None
          /\ ~IncidentLocked(i, w)
          /\ IF OpenIncidents(job[w].fp) # {}
             THEN UNCHANGED pendI
             ELSE pendI' = [pendI EXCEPT ![w][i] =
                    [fp |-> job[w].fp, sev |-> job[w].sev, status |-> "open",
                     count |-> 1]]
          /\ pendA' = [pendA EXCEPT ![w][job[w].ev].incident = i]
    /\ Goto(w, "announce")
    /\ UNCHANGED <<event, alerts, incidents, job, target, sideVars>>

\* INSERT INTO incidents: it waits for an index entry in flight.  With an
\* open incident in the index it fails with 23505, which aborts the
\* savepoint: the second bumpExisting runs in the aborted transaction and
\* fails too, so the savepoint is rolled back and the alert stays unlinked.
OpenIncident(w) ==
    /\ pc[w] = "open"
    /\ LET j == job[w] IN
       /\ ~IndexEntryInFlight(j.fp, w)
       /\ IF OpenIncidents(j.fp) # {}
          THEN UNCHANGED <<pendA, pendI>>
          ELSE \E i \in Incident \ pruned :
                 /\ incidents[i] = None
                 /\ ~IncidentLocked(i, w)
                 /\ pendI' = [pendI EXCEPT ![w][i] =
                        [fp |-> j.fp, sev |-> j.sev, status |-> "open",
                         count |-> 1]]
                 /\ pendA' = [pendA EXCEPT ![w][j.ev].incident = i]
    /\ Goto(w, "announce")
    /\ UNCHANGED <<event, alerts, incidents, job, target, sideVars>>

\* A statement of attachIncident fails, the SAVEPOINT and the SELECT before
\* this step included: only the savepoint is rolled back, and the alert goes
\* on without an incident.
LeaveUngrouped(w) ==
    /\ pc[w] \in {"bump", "open"}
    /\ Goto(w, "announce")
    /\ UNCHANGED <<event, alerts, incidents, pendA, pendI, job, target, sideVars>>

\* triggerSOARPlaybooks and triggerEscalations: for critical and fatal alerts
\* the runbooks and the channels of the tenant are listed, on the pool.
Escalates(sev) == sev >= Critical

\* LPUSH for the AI worker and SET of the debounce pointer; a critical alert
\* may also start a safe auto-trigger runbook.  All of it before the commit.
\* Whom the goroutines of the escalation reach is left out: whatever fails
\* there is logged and changes nothing here.
Announce(w) ==
    /\ pc[w] = "announce"
    /\ Escalates(job[w].sev) => SpareConnection
    /\ LET j == job[w] IN
       /\ aiQueue' = aiQueue \cup {j.ev}
       /\ debounce' = [debounce EXCEPT ![j.fp] = j.ev]
       /\ \/ UNCHANGED soar
          \/ /\ j.sev = Critical /\ "soar" \in Deployed
             /\ soar' = soar \cup {j.ev}
    /\ Goto(w, "commit")
    /\ UNCHANGED <<event, alerts, incidents, pendA, pendI, job, target, aiJob,
                   aged, pruned>>

\* COMMIT of ExecuteInTenantTx.
CommitAlert(w) ==
    /\ pc[w] = "commit"
    /\ ApplyWrites(w)
    /\ DropWrites(w)
    /\ Settle(w, "recorded")
    /\ UNCHANGED <<target, sideVars>>

\* An error of any statement, a failed COMMIT or a crash of the process: the
\* transaction is rolled back, the error is only logged, the popped event is
\* gone.  What Announce wrote to Redis stays.
Fail(w) ==
    /\ pc[w] # "idle"
    /\ DropWrites(w)
    /\ Settle(w, "lost")
    /\ UNCHANGED <<alerts, incidents, target, sideVars>>

-----------------------------------------------------------------------------
(* The operator handlers (internal/api).                                   *)

\* A call begins its transaction.
Calls(r, kind) == pc[r] = "new" /\ kind \in RequestKind /\ SpareConnection

\* A handler whose only statement writes the row of alert e.
SetAlertStatus(r, e, status) ==
    /\ ~AlertLocked(e, r)
    /\ alerts' = [alerts EXCEPT ![e].status = status]
    /\ Goto(r, "done")
    /\ UNCHANGED <<event, incidents, pendA, pendI, job, target, sideVars>>

\* HandleAcknowledgeIncident (of one alert): whatever its status is.
AcknowledgeAlert(r) ==
    /\ Calls(r, "ack_alert")
    /\ \E e \in Event : /\ alerts[e] # None
                        /\ SetAlertStatus(r, e, "acknowledged")

\* HandleReopenAlert: the alert only, the incident is left as it is.
ReopenAlert(r) ==
    /\ Calls(r, "reopen_alert")
    /\ \E e \in Event : /\ alerts[e] # None
                        /\ alerts[e].status \in {"resolved", "suppressed"}
                        /\ SetAlertStatus(r, e, "triggered")

\* HandleCleanupAlerts: deletes the alerts that look like test data.
CleanupAlerts(r) ==
    /\ Calls(r, "cleanup")
    /\ \E mocks \in SUBSET {e \in Event : alerts[e] # None} :
          /\ \A e \in mocks : ~AlertLocked(e, r)
          /\ alerts' = [e \in Event |-> IF e \in mocks THEN None ELSE alerts[e]]
    /\ Goto(r, "done")
    /\ UNCHANGED <<event, incidents, pendA, pendI, job, target, sideVars>>

\* HandleResolveIncident (of one alert), first statement.
ResolveAlert(r) ==
    /\ Calls(r, "resolve_alert")
    /\ \E e \in Event :
          /\ alerts[e] # None
          /\ ~AlertLocked(e, r)
          /\ pendA' = [pendA EXCEPT ![r][e] =
                         [alerts[e] EXCEPT !.status = "resolved"]]
          /\ target' = [target EXCEPT ![r] =
                          [alert |-> e, incident |-> alerts[e].incident,
                           status |-> "resolved"]]
    /\ Goto(r, "check")
    /\ UNCHANGED <<event, alerts, incidents, pendI, job, sideVars>>

\* Its second statement evaluates NOT EXISTS (an alert of the incident that
\* is not resolved) on the snapshot of the statement: committed rows and the
\* request's own write.
CheckSiblings(r) ==
    /\ pc[r] = "check"
    /\ LET i == target[r].incident
           visible == Merge(pendA[r], alerts)
           siblings == {e \in Event : visible[e] # None /\ visible[e].incident = i}
       IN Goto(r, IF /\ i # None
                     /\ IsOpen(incidents[i])
                     /\ \A e \in siblings : visible[e].status = "resolved"
                  THEN "close" ELSE "commit")
    /\ UNCHANGED <<event, alerts, incidents, pendA, pendI, job, target, sideVars>>

\* The row it found may be locked; when it is free only the columns of the
\* incident itself are evaluated again, never the subquery.
CloseIncident(r) ==
    /\ pc[r] = "close"
    /\ LET i == target[r].incident IN
       /\ ~IncidentLocked(i, r)
       /\ IF IsOpen(incidents[i])
          THEN pendI' = [pendI EXCEPT ![r][i] =
                           [incidents[i] EXCEPT !.status = "resolved"]]
          ELSE UNCHANGED pendI
    /\ Goto(r, "commit")
    /\ UNCHANGED <<event, alerts, incidents, pendA, job, target, sideVars>>

\* Fault: the UPDATE of the incident has no condition on its status.
FaultNoStatusGuard(r, kind, status) ==
    /\ Calls(r, kind)
    /\ \E i \in Incident :
          /\ ~IncidentLocked(i, r)
          /\ incidents[i] # None
          /\ pendI' = [pendI EXCEPT ![r][i] =
                         [incidents[i] EXCEPT !.status = status]]
          /\ target' = [target EXCEPT ![r] =
                          [alert |-> None, incident |-> i, status |-> status]]
    /\ Goto(r, "cascade")
    /\ UNCHANGED <<event, alerts, incidents, pendA, job, sideVars>>

\* Fault: the handler reads the incident and saves the whole row later.
FaultSaveWholeRow(r, kind, status) ==
    /\ Calls(r, kind)
    /\ \E i \in Incident :
          /\ IsOpen(incidents[i])
          /\ pendI' = [pendI EXCEPT ![r][i] =
                         [incidents[i] EXCEPT !.status = status]]
          /\ target' = [target EXCEPT ![r] =
                          [alert |-> None, incident |-> i, status |-> status]]
    /\ Goto(r, "cascade")
    /\ UNCHANGED <<event, alerts, incidents, pendA, job, sideVars>>

\* updateIncidentStatus (acknowledge and resolve of a group): the guarded
\* UPDATE of the incident.
ChangeIncident(r, kind, status) ==
    /\ Calls(r, kind)
    /\ \E i \in Incident :
          /\ ~IncidentLocked(i, r)
          /\ IsOpen(incidents[i])
          /\ pendI' = [pendI EXCEPT ![r][i] =
                         [incidents[i] EXCEPT !.status = status]]
          /\ target' = [target EXCEPT ![r] =
                          [alert |-> None, incident |-> i, status |-> status]]
    /\ Goto(r, "cascade")
    /\ UNCHANGED <<event, alerts, incidents, pendA, job, sideVars>>

AcknowledgeIncident(r) == ChangeIncident(r, "ack_incident", "acknowledged")
ResolveIncident(r) == ChangeIncident(r, "resolve_incident", "resolved")

\* The alerts of the incident whose status differs from the new one.
CascadeRows(r) ==
    {e \in Event : /\ alerts[e] # None
                   /\ alerts[e].incident = target[r].incident
                   /\ alerts[e].status # target[r].status}

\* The cascade waits for every one of those rows.
CascadeToAlerts(r) ==
    /\ pc[r] = "cascade"
    /\ \A e \in CascadeRows(r) : ~AlertLocked(e, r)
    /\ pendA' = [pendA EXCEPT ![r] =
                   [e \in Event |-> IF e \in CascadeRows(r)
                                    THEN [alerts[e] EXCEPT !.status = target[r].status]
                                    ELSE None]]
    /\ Goto(r, "commit")
    /\ UNCHANGED <<event, alerts, incidents, pendI, job, target, sideVars>>

CommitRequest(r) ==
    /\ pc[r] = "commit"
    /\ ApplyWrites(r)
    /\ DropWrites(r)
    /\ Goto(r, "done")
    /\ UNCHANGED <<event, job, target, sideVars>>

\* Fault: no deferred Rollback, the transaction stays open.
FaultLeaveOpen(r) ==
    /\ Goto(r, "done")
    /\ UNCHANGED <<event, alerts, incidents, pendA, pendI, job, target, sideVars>>

\* The deferred Rollback of ExecuteInTenantTx.
RollBack(r) ==
    /\ DropWrites(r)
    /\ Goto(r, "done")
    /\ UNCHANGED <<event, alerts, incidents, job, target, sideVars>>

\* The client goes away (r.Context() is cancelled), or the process crashes.
FailRequest(r) == pc[r] \notin {"new", "done"} /\ RollBack(r)

\* r waits for an incident whose transaction waits for an alert r has locked:
\* PostgreSQL aborts one of the two.
WaitCycle(r, q) ==
    /\ pc[r] = "close" /\ pendI[q][target[r].incident] # None
    /\ pc[q] = "cascade" /\ \E e \in CascadeRows(q) : pendA[r][e] # None

BreakDeadlock(r) ==
    /\ \E q \in Request : WaitCycle(r, q) \/ WaitCycle(q, r)
    /\ RollBack(r)

-----------------------------------------------------------------------------
(* Redis expiry, the Python AI worker, SOAR and retention.                 *)

\* The debounce pointer lives five minutes.
ExpireDebounce(f) ==
    /\ debounce[f] # None
    /\ debounce' = [debounce EXCEPT ![f] = None]
    /\ UNCHANGED <<event, alerts, incidents, pendA, pendI, pc, job, target,
                   aiQueue, aiJob, soar, aged, pruned>>

\* evaluate_alert: BRPOP and the SELECT.  The push precedes the commit of the
\* alert, so the row may not be there yet: the evaluation is then skipped
\* for good.  It also ends here when the heuristics change nothing.
AiTake(e) ==
    /\ "ai" \in Deployed
    /\ aiJob = None
    /\ e \in aiQueue
    /\ aiQueue' = aiQueue \ {e}
    /\ \/ UNCHANGED aiJob
       \/ /\ alerts[e] # None
          /\ aiJob' = [alert |-> e, row |-> alerts[e]]
    /\ UNCHANGED <<event, alerts, incidents, pendA, pendI, pc, job, target,
                   debounce, soar, aged, pruned>>

\* Heuristic B: one step down, info stays.
Downgrade(sev) == IF sev = 1 THEN 1 ELSE sev - 1

\* What the two heuristics make of the row that was read: suppression of a
\* flapping alert, or a severity one step down with the status as read.
Verdicts(row) == {[row EXCEPT !.status = "suppressed"],
                  [row EXCEPT !.sev = Downgrade(@)]}

\* Only the two columns of the verdict are written.
Judged(row, v) == [row EXCEPT !.sev = v.sev, !.status = v.status]

\* UPDATE alerts SET severity, status ... WHERE id, and commit.  A failure
\* before it leaves the alert as it is.
AiWrite ==
    /\ aiJob # None
    /\ \/ UNCHANGED alerts
       \/ LET e == aiJob.alert IN
          /\ \A p \in Process : pendA[p][e] = None
          /\ alerts[e] # None
          /\ \E v \in Verdicts(aiJob.row) :
                alerts' = [alerts EXCEPT ![e] = Judged(@, v)]
    /\ aiJob' = None
    /\ UNCHANGED <<event, incidents, pendA, pendI, pc, job, target, debounce,
                   aiQueue, soar, aged, pruned>>

\* The goroutine of an auto-trigger runbook ends: success resolves the alert
\* if its row is visible by then, and never looks at the incident.
SoarFinish(e) ==
    /\ e \in soar
    /\ SpareConnection
    /\ soar' = soar \ {e}
    /\ \/ UNCHANGED alerts
       \/ /\ alerts[e] # None
          /\ \A p \in Process : pendA[p][e] = None
          /\ alerts' = [alerts EXCEPT ![e].status = "resolved"]
    /\ UNCHANGED <<event, incidents, pendA, pendI, pc, job, target, debounce,
                   aiQueue, aiJob, aged, pruned>>

\* Every incident there is becomes older than the retention window.  No
\* transaction and no Redis key lives that long.
MonthPasses ==
    /\ "retention" \in Deployed
    /\ \A p \in Process : pc[p] \in {"idle", "new", "done"}
    /\ \A f \in Fingerprint : debounce[f] = None
    /\ aiJob = None /\ soar = {}
    /\ aged' = {i \in Incident : incidents[i] # None}
    /\ UNCHANGED <<event, alerts, incidents, pendA, pendI, pc, job, target,
                   debounce, aiQueue, aiJob, soar, pruned>>

\* Fault: retention deletes incidents whatever their status is.
FaultPruneAnyStatus == {i \in aged : incidents[i] # None}

\* EnforceIncidentsForTenant: resolved, and older than the window.
AgedIncidents ==
    {i \in aged : incidents[i] # None /\ incidents[i].status = "resolved"}

\* enforceRetention: EnforceForTenant and EnforceIncidentsForTenant in one
\* transaction; a locked row is waited for.  An alert is as old as the
\* timestamp its source put on the event, so any of them may be due.
EnforceRetention ==
    /\ "retention" \in Deployed
    /\ SpareConnection
    /\ \E due \in SUBSET {e \in Event : alerts[e] # None} :
          /\ \A p \in Process : /\ \A e \in due : pendA[p][e] = None
                                /\ \A i \in aged : pendI[p][i] = None
          /\ alerts' = [e \in Event |-> IF e \in due THEN None ELSE alerts[e]]
    /\ incidents' = [i \in Incident |->
                        IF i \in AgedIncidents THEN None ELSE incidents[i]]
    /\ pruned' = pruned \cup AgedIncidents
    /\ aged' = aged \ AgedIncidents
    /\ UNCHANGED <<event, pendA, pendI, pc, job, target, debounce, aiQueue,
                   aiJob, soar>>

-----------------------------------------------------------------------------
Create(w) == InsertAlert(w) \/ BumpIncident(w) \/ OpenIncident(w)
             \/ LeaveUngrouped(w) \/ Announce(w) \/ CommitAlert(w)

ProcessEvent(w) == ReadDebounce(w) \/ FetchAlert(w) \/ GroupIntoAlert(w) \/ Create(w)

WorkerLoop(w) == Pop(w) \/ Mute(w) \/ ProcessEvent(w)

Arrive(r) == AcknowledgeAlert(r) \/ ReopenAlert(r) \/ CleanupAlerts(r)
             \/ ResolveAlert(r) \/ AcknowledgeIncident(r) \/ ResolveIncident(r)

Handle(r) == CheckSiblings(r) \/ CloseIncident(r) \/ CascadeToAlerts(r)
             \/ CommitRequest(r)

Background ==
    \/ \E f \in Fingerprint : ExpireDebounce(f)
    \/ \E e \in Event : AiTake(e) \/ SoarFinish(e)
    \/ AiWrite
    \/ MonthPasses
    \/ EnforceRetention

Next ==
    \/ \E w \in Worker : WorkerLoop(w) \/ Fail(w)
    \/ \E r \in Request : Arrive(r) \/ Handle(r) \/ FailRequest(r) \/ BreakDeadlock(r)
    \/ Background

Spec == Init /\ [][Next]_vars

\* Goroutines are scheduled, a statement that waits for a row is served when
\* the row is free, and so is whoever waits for a connection (the pool serves
\* them in turn).  PostgreSQL always breaks a deadlock of row locks; nothing
\* breaks one of the pool.  Nothing obliges an operator to call, a key to
\* expire or a transaction to fail.
FairSpec ==
    /\ Spec
    /\ \A w \in Worker : WF_vars(WorkerLoop(w))
    /\ \A r \in Request : WF_vars(Handle(r)) /\ WF_vars(BreakDeadlock(r))

-----------------------------------------------------------------------------
(* Properties.                                                             *)

\* Every variable stays within the states the code can represent.
TypeOK ==
    /\ event \in [Event -> {"queued", "working", "recorded", "lost", "muted"}]
    /\ alerts \in [Event -> AlertRow \cup {None}]
    /\ incidents \in [Incident -> IncidentRow \cup {None}]
    /\ pendA \in [Process -> [Event -> AlertRow \cup {None}]]
    /\ pendI \in [Process -> [Incident -> IncidentRow \cup {None}]]
    /\ pc \in [Process -> WorkerStep \cup RequestStep]
    /\ job \in [Worker -> Job \cup {None}]
    /\ target \in [Request -> Target \cup {None}]
    /\ debounce \in [Fingerprint -> Event \cup {None}]
    /\ aiQueue \subseteq Event
    /\ aiJob \in [alert: Event, row: AlertRow] \cup {None}
    /\ soar \subseteq Event
    /\ aged \subseteq Incident /\ pruned \subseteq Incident

\* findOrCreateOpenIncident: however the workers race, a fingerprint has at
\* most one incident that is not resolved.
UniqueOpen ==
    \A f \in Fingerprint : \A i, j \in OpenIncidents(f) : i = j

Links(i) == {e \in Event : alerts[e] # None /\ alerts[e].incident = i}

NothingDeletes == "cleanup" \notin RequestKind /\ "retention" \notin Deployed

\* alert_count loses no increment and gains none from a rolled-back worker:
\* it covers the alerts linked to the incident, and equals their number as
\* long as nothing deletes alerts.
CountTracksLinks ==
    \A i \in Incident : incidents[i] # None =>
        LET n == Cardinality(Links(i)) IN
        /\ n <= incidents[i].count
        /\ NothingDeletes => n = incidents[i].count

\* alerts.incident_id has no foreign key.  All the same a linked incident
\* exists and groups the fingerprint of the alert, unless retention has
\* deleted it; and its id then names nothing.
LinkIntegrity ==
    \A e \in Event : alerts[e] # None =>
        LET i == alerts[e].incident IN
        i # None => IF i \in pruned
                    THEN incidents[i] = None
                    ELSE incidents[i] # None /\ incidents[i].fp = alerts[e].fp

\* A resolved incident never becomes open again: a worker that still adds to
\* its count, or an acknowledge that was waiting, does not change its status.
ResolvedIsFinal ==
    [][\A i \in Incident :
          incidents[i] # None /\ incidents[i].status = "resolved" =>
             incidents'[i] = None \/ incidents'[i].status = "resolved"]_vars

\* The worker w has dealt with event e in this step, without an error.
Records(w, e) ==
    /\ event[e] = "working" /\ event'[e] = "recorded"
    /\ job[w] # None /\ job[w].ev = e

\* An alert of the fingerprint that is in one of the states, after the step.
SurfacesAs(f, states) ==
    \E a \in Event : /\ alerts'[a] # None
                     /\ alerts'[a].fp = f
                     /\ alerts'[a].status \in states

\* When an event has been recorded its fingerprint has an alert that nobody
\* has resolved: however lookups, commits, expiries and resolutions
\* interleave, a repetition is not absorbed by a resolved alert.  (By one
\* that the AI worker has suppressed it is: see RecurrenceRevives.)
ResolvedNeverAbsorbs ==
    [][\A e \in Event, w \in Worker :
          Records(w, e) => SurfacesAs(job[w].fp, AlertStatus \ {"resolved"})]_vars

\* What the comment in processEvent says: an alert that "was
\* closed/suppressed" is revived "since it occurred again", so a recorded
\* event always surfaces as an active alert.  The code revives resolved ones.
RecurrenceRevives ==
    [][\A e \in Event, w \in Worker :
          Records(w, e) => SurfacesAs(job[w].fp, {"triggered", "acknowledged"})]_vars

\* The incident table as readers see it.
Public(row) == IF row = None THEN None
               ELSE [fp |-> row.fp, status |-> row.status, count |-> row.count]
registry == [i \in Incident |-> Public(incidents[i])]

Registry == INSTANCE IncidentRegistry WITH gone <- pruned

\* The pipeline implements the registry: every commit is one step of the life
\* of one incident, whatever the transactions read before they locked it.
ImplementsRegistry == Registry!RegistrySpec

\* A worker in a transaction that queries the pool before its next statement.
AwaitsConnection(w) ==
    /\ job[w] # None
    /\ \/ pc[w] = "insert" /\ FetchesLogs(job[w].sev)
       \/ pc[w] = "announce" /\ Escalates(job[w].sev)

\* A process whose next statement waits for a row another one has written.
AwaitsRow(p) ==
    \/ pc[p] = "update" /\ AlertLocked(job[p].alert, p)
    \/ pc[p] = "bump" /\ IncidentLocked(job[p].incident, p)
    \/ pc[p] = "open" /\ IndexEntryInFlight(job[p].fp, p)
    \/ pc[p] = "close" /\ IncidentLocked(target[p].incident, p)
    \/ pc[p] = "cascade" /\ \E e \in CascadeRows(p) : AlertLocked(e, p)

\* Every connection is held by a process that waits: for a second one, or for
\* a row of another process.
PoolExhausted ==
    /\ ~SpareConnection
    /\ \E w \in Worker : AwaitsConnection(w)
    /\ \A p \in Holders : (p \in Worker /\ AwaitsConnection(p)) \/ AwaitsRow(p)

\* Every event is dealt with in the end, whatever the transactions wait for,
\* unless the pool is exhausted for good: the locks of rows and of the index,
\* and the deadlocks between handlers, never keep a worker waiting for ever;
\* workers that ask for a second connection can.
EveryEventSettles ==
    \A e \in Event :
        \/ <>(event[e] \in {"recorded", "lost", "muted"})
        \/ <>[]PoolExhausted

=============================================================================
