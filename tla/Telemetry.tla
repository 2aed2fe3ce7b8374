------------------------------ MODULE Telemetry ------------------------------
(***************************************************************************)
(* One source of events of one tenant: the ingestion handlers              *)
(* (api/handler.go, api/cloudwatch_handler.go) and the Sentinel poller     *)
(* (connector/sentinel.go), the integrations of that type                  *)
(* (api/integration_handler.go), and the watchdog that raises an alarm when*)
(* the source falls silent (worker/watchdog.go).  They meet in Redis: the  *)
(* ingestion handlers write a heartbeat, the watchdog reads it and keeps a *)
(* flag that holds back further alarms.  Both are keyed by the type.       *)
(*                                                                         *)
(* Time is a clock of five-minute periods; a key with a TTL is the time it *)
(* is there until.  The watchdog scans once a period, or misses it.        *)
(***************************************************************************)
EXTENDS Connectors, FiniteSets

CONSTANTS
    Row,          \* ids of rows of tenant_integrations
    Watcher,      \* watchdogs, one per replica of the API process
    Silence,      \* WATCHDOG_SILENCE_SECONDS
    Grace,        \* WATCHDOG_GRACE_SECONDS
    Renotify,     \* WATCHDOG_RENOTIFY_SECONDS
    NeverRenotify,\* WATCHDOG_NEVER_CONNECTED_RENOTIFY_SECONDS
    BeatTTL,      \* TTL of a heartbeat, 24 hours
    MaxTime,      \* bound on the clock
    None, Deleted

ASSUME TelemetryAssumption ==
    /\ Silence \in Nat \ {0} /\ Grace \in Nat /\ Renotify \in Nat /\ NeverRenotify \in Nat
    /\ BeatTTL \in Nat /\ MaxTime \in Nat
    /\ Silence < Renotify /\ Silence + 1 < BeatTTL
    /\ {None, Deleted} \cap (Nat \cup Row) = {} /\ None # Deleted

VARIABLES
    source,    \* the type of the integration
    now,
    rows,      \* tenant_integrations: when each row was created, if it is active
    beat,      \* tenant:<id>:heartbeat:<type>, with the time it is there until
    flag,      \* tenant:<id>:watchdog:alarmed:<type> is there until
    last,      \* the incident this step put on the normalized queue
    pc, todo, start, alarm,  \* per watchdog: step, rows to do, its now, the alarm to raise
    scanned,   \* a scan has ended in this period
    missed,    \* a failed Redis call, alarm or scan has kept the watchdog from its work
    heard,     \* when the source was last heard, if ever
    sounded,   \* an alarm was raised since
    raised     \* the last alarm, when, for how long it holds back others and when its
               \* row was created, while it is about the one active row and no event
               \* or row has come since

redisVars == <<beat, flag>>
watchVars == <<pc, todo, start, alarm, scanned>>
noteVars == <<missed, heard, sounded, raised>>
vars == <<source, now, rows, redisVars, last, watchVars, noteVars>>

Never == [at |-> None, until |-> 0]
NoAlarm == [id |-> None, window |-> 0, severity |-> Info]
NotYet == [at |-> None, window |-> 0, created |-> 0]

\* A heartbeat may be left from before, under the legacy name of the key.
Init ==
    /\ source \in Source
    /\ now = 0
    /\ rows = [r \in Row |-> None]
    /\ beat \in {Never, [at |-> 0, until |-> BeatTTL]}
    /\ flag = 0 /\ last = None
    /\ pc = [w \in Watcher |-> "idle"] /\ todo = [w \in Watcher |-> {}]
    /\ start = [w \in Watcher |-> 0] /\ alarm = [w \in Watcher |-> NoAlarm]
    /\ scanned = FALSE /\ missed = FALSE
    /\ heard = beat.at
    /\ sounded = FALSE /\ raised = NotYet

Active == {r \in Row : rows[r] \notin {None, Deleted}}

\* Five minutes go by, in which the watchdog has scanned or missed it.
Tick ==
    /\ now < MaxTime
    /\ \A w \in Watcher : pc[w] = "idle"
    /\ now' = now + 1
    /\ missed' = ~scanned
    /\ scanned' = FALSE /\ last' = None
    /\ UNCHANGED <<source, rows, redisVars, pc, todo, start, alarm, heard, sounded, raised>>

-----------------------------------------------------------------------------
(* Ingestion.                                                              *)

\* SET of the heartbeat, whose error is ignored.  (webhook_error, the text of the
\* last error on the status page, decides nothing and is left out.)
RegisterHeartbeat ==
    \/ /\ beat' = [at |-> now, until |-> now + BeatTTL]
       /\ heard' = now /\ sounded' = FALSE /\ raised' = NotYet
       /\ UNCHANGED missed
    \/ /\ missed' = TRUE
       /\ UNCHANGED <<beat, heard, sounded, raised>>

\* The incident goes on the normalized queue, unless the connector dropped it.
Queue(level) ==
    last' = IF SeverityOf(source, level) = Dropped THEN None
            ELSE [level |-> level, severity |-> SeverityOf(source, level)]

Gate(s) ==
    /\ source = s /\ Active # {}
    /\ UNCHANGED <<source, now, rows, flag, watchVars>>

\* MapToUnified fails.
RejectPayload ==
    /\ last' = None
    /\ UNCHANGED <<beat, missed, heard, sounded, raised>>

\* LPUSH, or the pipeline of a batch, returns an error; the caller gets a 500
\* and the heartbeat stays as it is.
FailToQueue(level) ==
    /\ \/ Queue(level)
       \/ last' = None
    /\ UNCHANGED <<beat, missed, heard, sounded, raised>>

\* What the handlers of one incident, and those of a batch, have in common:
\* of a batch, the level is that of one event of it.
handleTypedIngest(s) ==
    /\ Gate(s)
    /\ \/ RejectPayload
       \/ \E level \in Levels(s) :
            \/ FailToQueue(level)
            \/ Queue(level) /\ RegisterHeartbeat

\* A batch without an event is queued by nobody, and is a heartbeat all the same.
EmptyBatch(s) ==
    /\ Gate(s)
    /\ last' = None /\ RegisterHeartbeat

HandlePrometheusIngest == handleTypedIngest("prometheus") \/ EmptyBatch("prometheus")
HandleGrafanaIngest == handleTypedIngest("grafana") \/ EmptyBatch("grafana")
HandleOTLPIngest == handleTypedIngest("otlp")
HandleWazuhIngest == handleTypedIngest("wazuh")
HandleUptimeKumaIngest == handleTypedIngest("uptimekuma")
HandleZabbixIngest == handleTypedIngest("zabbix")
HandleIcingaIngest == handleTypedIngest("icinga")
HandleAzureMonitorIngest == handleTypedIngest("azuremonitor")
HandlePagerDutyIngest == handleTypedIngest("pagerduty")
HandleOpsgenieIngest == handleTypedIngest("opsgenie")
HandleCrowdStrikeIngest == handleTypedIngest("crowdstrike")
HandlePaloAltoIngest == handleTypedIngest("paloalto")
HandleFortinetIngest == handleTypedIngest("fortinet")

\* A Notification; the confirmations of the topic change nothing here.
HandleCloudWatchIngest == handleTypedIngest("cloudwatch")

\* The generic endpoint keeps no heartbeat and no error.
HandleIngest ==
    /\ Gate("generic")
    /\ \E level \in Levels("generic") : Queue(level)
    /\ UNCHANGED <<beat, missed, heard, sounded, raised>>

\* The signed webhook takes any type from its path, asks for no active
\* integration and writes the heartbeat before it queues the event, which the
\* mapping engine turns into an incident (DeadLetter).
HandleGenericWebhook ==
    /\ RegisterHeartbeat
    /\ \/ \E level \in Levels(source) :
            /\ source \in Passthrough => SeverityOf(source, level) = Info
            /\ Queue(level)
       \/ last' = None
    /\ UNCHANGED <<source, now, rows, flag, watchVars>>

\* The poller works for every tenant that has credentials, with or without an
\* integration.  Its LPUSH errors are ignored; a poll without incidents is
\* a heartbeat too.
syncTenantSentinel ==
    /\ source = "sentinel"
    /\ \/ RejectPayload
       \/ /\ RegisterHeartbeat
          /\ \/ \E level \in Levels("sentinel") : Queue(level)
             \/ last' = None
    /\ UNCHANGED <<source, now, rows, flag, watchVars>>

-----------------------------------------------------------------------------
(* Integrations.                                                           *)

\* A row with an id of its own; nothing keeps the type from being there twice.
HandleCreateIntegration(r) ==
    /\ rows[r] = None
    /\ rows' = [rows EXCEPT ![r] = now]
    /\ raised' = NotYet
    /\ UNCHANGED <<source, now, redisVars, watchVars, missed, heard, sounded>>

\* The keys in Redis stay.
HandleDeleteIntegration(r) ==
    /\ r \in Active
    /\ rows' = [rows EXCEPT ![r] = Deleted]
    /\ UNCHANGED <<source, now, redisVars, watchVars, noteVars>>

\* The status page of Sentinel and of Loki tries the connection: the result
\* counts as a heartbeat, or as an error.
HandleGetIntegrationStatus ==
    /\ source \in {"sentinel", "loki"}
    /\ \/ RejectPayload
       \/ RegisterHeartbeat /\ last' = None
    /\ UNCHANGED <<source, now, rows, flag, watchVars>>

-----------------------------------------------------------------------------
(* The watchdog.                                                           *)

Monitored ==
    {"zabbix", "prometheus", "uptimekuma", "wazuh", "grafana", "sentinel", "loki", "otlp",
     "icinga", "azuremonitor", "cloudwatch", "crowdstrike", "paloalto", "fortinet"}

\* scanConnections: the time is read once, the active rows are listed.
scanConnections(w) ==
    /\ pc[w] = "idle" /\ source \in Monitored /\ ~scanned
    /\ start' = [start EXCEPT ![w] = now]
    /\ todo' = [todo EXCEPT ![w] = {[id |-> r, created |-> rows[r]] : r \in Active}]
    /\ pc' = [pc EXCEPT ![w] = "scan"]
    /\ UNCHANGED <<source, now, rows, redisVars, alarm, scanned, noteVars>>

endScan(w) ==
    /\ pc[w] = "scan" /\ todo[w] = {}
    /\ pc' = [pc EXCEPT ![w] = "idle"] /\ start' = [start EXCEPT ![w] = 0]
    /\ scanned' = TRUE
    /\ UNCHANGED <<source, now, rows, redisVars, todo, alarm, noteVars>>

\* evaluateSource, for the heartbeat and the flag that were read.
Silent(at, created, time) ==
    IF at # None THEN time - at > Silence ELSE time - created > Grace

\* watchdogAlarmParams.
AlarmParams(connected) ==
    IF connected THEN [severity |-> Critical, window |-> Renotify]
    ELSE [severity |-> Warning, window |-> NeverRenotify]

\* GET of the heartbeat, under either name, and of the flag: an error of Redis
\* reads as absence.
Heartbeat == IF now < beat.until THEN beat.at ELSE None
Alarmed == now < flag

\* Fault: the flag is left when the source is heard again.
FaultKeepFlag(w) ==
    /\ \E s \in todo[w] :
        /\ ~Silent(Heartbeat, s.created, start[w]) /\ Alarmed
        /\ todo' = [todo EXCEPT ![w] = @ \ {s}]
    /\ UNCHANGED <<flag, missed>>

\* decisionRecover: DEL of the flag, whose error is ignored.
Recover(w) ==
    /\ \E s \in todo[w] :
        /\ ~Silent(Heartbeat, s.created, start[w]) /\ Alarmed
        /\ todo' = [todo EXCEPT ![w] = @ \ {s}]
    /\ \/ flag' = 0 /\ UNCHANGED missed
       \/ missed' = TRUE /\ UNCHANGED flag

\* decisionNone.
Pass(w) ==
    \E s \in todo[w] :
        /\ Silent(Heartbeat, s.created, start[w]) <=> Alarmed
        /\ todo' = [todo EXCEPT ![w] = @ \ {s}]

\* decisionAlarm: which alarm, and how long it holds back the next.
Decide(w) ==
    \E s \in todo[w] :
        /\ Silent(Heartbeat, s.created, start[w]) /\ ~Alarmed
        /\ LET p == AlarmParams(Heartbeat # None) IN
           alarm' = [alarm EXCEPT ![w] =
                        [id |-> s.id, window |-> p.window, severity |-> p.severity]]

\* A Redis error hides the heartbeat, the flag, or both.
Misread(w) ==
    /\ pc[w] = "scan" /\ todo[w] # {}
    /\ \E s \in todo[w], at \in {Heartbeat, None}, alarmed \in {Alarmed, FALSE} :
        /\ Silent(at, s.created, start[w]) /\ ~alarmed
        /\ LET p == AlarmParams(at # None) IN
           alarm' = [alarm EXCEPT ![w] =
                        [id |-> s.id, window |-> p.window, severity |-> p.severity]]
    /\ pc' = [pc EXCEPT ![w] = "raise"]
    /\ missed' = TRUE
    /\ UNCHANGED <<source, now, rows, redisVars, todo, start, scanned, heard, sounded, raised>>

evaluateAndAct(w) ==
    /\ pc[w] = "scan"
    /\ \/ Recover(w) /\ UNCHANGED <<pc, alarm>>
       \/ Pass(w) /\ UNCHANGED <<pc, alarm, flag, missed>>
       \/ /\ Decide(w)
          /\ pc' = [pc EXCEPT ![w] = "raise"]
          /\ UNCHANGED <<flag, missed, todo>>
    /\ UNCHANGED <<source, now, rows, beat, start, scanned, heard, sounded, raised>>

\* The alarm is about the one active row, no scan has another in hand, and the
\* source has not been heard while the alarm was on its way.
Undisturbed(w) ==
    /\ Active = {alarm[w].id}
    /\ \A v \in Watcher : todo[v] \subseteq {[id |-> r, created |-> rows[r]] : r \in Active}
    /\ heard = None \/ start[w] - heard > Silence

\* raiseTelemetryLossAlarm: processEvent stores the alarm, or its error is logged.
raiseTelemetryLossAlarm(w) ==
    /\ pc[w] = "raise"
    /\ pc' = [pc EXCEPT ![w] = "flag"]
    /\ \/ /\ raised' = IF Undisturbed(w)
                       THEN [at |-> start[w], window |-> alarm[w].window,
                             created |-> rows[alarm[w].id]]
                       ELSE NotYet
          /\ sounded' = TRUE
          /\ UNCHANGED missed
       \/ missed' = TRUE /\ UNCHANGED <<raised, sounded>>
    /\ UNCHANGED <<source, now, rows, redisVars, todo, start, alarm, scanned, heard>>

\* Fault: the flag holds for one scan only.
FaultShortFlag(w) ==
    /\ pc[w] = "flag"
    /\ flag' = now + 1
    /\ todo' = [todo EXCEPT ![w] = {s \in @ : s.id # alarm[w].id}]
    /\ alarm' = [alarm EXCEPT ![w] = NoAlarm]
    /\ pc' = [pc EXCEPT ![w] = "scan"]
    /\ UNCHANGED <<source, now, rows, beat, start, scanned, noteVars>>

\* SET of the flag, raised or not; its error is ignored.
SetAlarmed(w) ==
    /\ pc[w] = "flag"
    /\ \/ flag' = now + alarm[w].window /\ UNCHANGED missed
       \/ missed' = TRUE /\ UNCHANGED flag
    /\ todo' = [todo EXCEPT ![w] = {s \in @ : s.id # alarm[w].id}]
    /\ alarm' = [alarm EXCEPT ![w] = NoAlarm]
    /\ pc' = [pc EXCEPT ![w] = "scan"]
    /\ UNCHANGED <<source, now, rows, beat, start, scanned, heard, sounded, raised>>

\* The process dies, or the listing of a tenant fails, in the middle of a scan.
AbandonScan(w) ==
    /\ pc[w] # "idle"
    /\ pc' = [pc EXCEPT ![w] = "idle"] /\ start' = [start EXCEPT ![w] = 0]
    /\ todo' = [todo EXCEPT ![w] = {}] /\ alarm' = [alarm EXCEPT ![w] = NoAlarm]
    /\ missed' = TRUE
    /\ UNCHANGED <<source, now, rows, redisVars, scanned, heard, sounded, raised>>

Ingest ==
    \/ HandlePrometheusIngest \/ HandleGrafanaIngest \/ HandleOTLPIngest
    \/ HandleWazuhIngest \/ HandleUptimeKumaIngest \/ HandleZabbixIngest
    \/ HandleIcingaIngest \/ HandleAzureMonitorIngest \/ HandlePagerDutyIngest
    \/ HandleOpsgenieIngest \/ HandleCrowdStrikeIngest \/ HandlePaloAltoIngest
    \/ HandleFortinetIngest \/ HandleCloudWatchIngest
    \/ HandleIngest \/ HandleGenericWebhook \/ syncTenantSentinel

Watch(w) ==
    \/ scanConnections(w) \/ endScan(w) \/ evaluateAndAct(w) \/ Misread(w)
    \/ raiseTelemetryLossAlarm(w) \/ SetAlarmed(w) \/ AbandonScan(w)

\* Only ingestion queues an incident.  A behaviour is followed up to the step
\* that keeps the watchdog from its work: nothing is promised after it.
Next ==
    /\ ~missed
    /\ \/ Tick \/ Ingest \/ HandleGetIntegrationStatus
       \/ /\ last' = None
          /\ \/ \E r \in Row : HandleCreateIntegration(r) \/ HandleDeleteIntegration(r)
             \/ \E w \in Watcher : Watch(w)

Spec == Init /\ [][Next]_vars

-----------------------------------------------------------------------------
(* Properties.                                                             *)

TypeOK ==
    /\ source \in Source /\ now \in Nat
    /\ rows \in [Row -> Nat \cup {None, Deleted}]
    /\ beat \in [at: Nat \cup {None}, until: Nat] /\ flag \in Nat
    /\ last = None \/ last.severity \in Severity
    /\ pc \in [Watcher -> {"idle", "scan", "raise", "flag"}]
    /\ todo \in [Watcher -> SUBSET [id: Row, created: Nat]]
    /\ start \in [Watcher -> Nat]
    /\ alarm \in [Watcher -> [id: Row \cup {None}, window: Nat, severity: Severity]]
    /\ scanned \in BOOLEAN /\ missed \in BOOLEAN
    /\ heard \in Nat \cup {None} /\ sounded \in BOOLEAN
    /\ raised \in [at: Nat \cup {None}, window: Nat, created: Nat]

\* When the scan began, the integration had sent something and then nothing
\* for longer than the silence allowed, or nobody had sent anything since
\* longer than the grace after it was created.
Blind(s, time) ==
    IF heard = None THEN time - s.created > Grace
    ELSE s.created <= heard /\ time - heard > Silence

\* "não ficar desconectado sem alarme": unless a Redis call, an alarm or a
\* whole scan failed, the watchdog does not pass over an integration that has
\* fallen silent without an alarm having been raised since the source was last
\* heard.  What it takes: a flag left from an earlier outage never outlives
\* the recovery, and an expired heartbeat does not look like a new integration.
BlindMeansAlarmed ==
    [][\A w \in Watcher :
         \A s \in todo[w] \ todo'[w] : Blind(s, start[w]) /\ ~missed' => sounded']_vars

\* The step raises a second alarm about an outage inside the window of the first,
\* and not one by replicas that read the flag in the same scan; other rows of
\* the same type, which share the flag, are left out.
AlarmsTwice ==
    /\ raised' # raised /\ raised # NotYet /\ raised' # NotYet /\ ~missed'
    /\ raised'.at < raised.at + raised.window

\* The flag "suppresses re-alarming a persistent outage more often than the
\* re-notify interval" (watchdog.go): of any integration.
RenotifyRespected == [][~AlarmsTwice]_vars

\* The same of an integration that was past its grace when the first alarm was
\* raised: no expiry of its heartbeat makes it look new again (evaluateSource).
RenotifyPastGrace ==
    [][AlarmsTwice => raised.at - raised.created <= Grace]_vars

\* Of two incidents that one source queues one after the other, the one its
\* vendor calls worse is not the less severe.
SeverityMonotone ==
    [][last # None /\ last' # None =>
        \/ last.level <= last'.level /\ last.severity <= last'.severity
        \/ last'.level <= last.level /\ last'.severity <= last.severity]_last
=============================================================================
