-------------------------- MODULE Telemetry_proofs --------------------------
(***************************************************************************)
(* The watchdog, for any rows and any number of replicas.  A scan sees the *)
(* time of its period, so that all that is remembered of an earlier period *)
(* is the heartbeat, the flag and the rows.                                *)
(***************************************************************************)
EXTENDS Telemetry, TLAPS

-----------------------------------------------------------------------------
(* Types.                                                                  *)

\* Each connector answers with a severity of the pipeline, or drops the event.
LEMMA SeverityTyped ==
  ASSUME NEW s \in Source, NEW l \in Levels(s)
  PROVE  SeverityOf(s, l) \in Severity \cup {Dropped}
<1> USE DEF Severity, Dropped, Fatal, Critical, Warning, Info
<1>1. \A word, f, c, m : ByWord(word, f, c, m) \in Severity
  BY DEF ByWord
<1>2. \A n, f, c, m \in Int : ByBand(n, f, c, m) \in Severity
  BY DEF ByBand
<1>3. CASE s = "wazuh"
  <2>1. l \in Int /\ SeverityOf(s, l) = Wazuh(l)
    BY <1>3 DEF Levels, Scale, SeverityOf
  <2> QED
    BY <1>2, <2>1 DEF Wazuh
<1>4. CASE s = "otlp"
  <2>1. l \in Int /\ SeverityOf(s, l) = OTLP(l)
    BY <1>4 DEF Levels, Scale, SeverityOf
  <2> QED
    BY <2>1 DEF OTLP
<1>5. CASE s = "uptimekuma"
  <2>1. SeverityOf(s, l) = UptimeKuma(2 - l)
    BY <1>5 DEF SeverityOf
  <2> QED
    BY <2>1 DEF UptimeKuma
<1>11. CASE s \in {"loki", "unknown"}
  <2>1. CASE s = "loki"
    BY <2>1 DEF SeverityOf
  <2>2. CASE s = "unknown"
    BY <2>2 DEF SeverityOf
  <2> QED
    BY <1>11, <2>1, <2>2
<1>6. CASE s = "generic"
  <2>1. l \in Severity /\ SeverityOf(s, l) = l
    BY <1>6 DEF Levels, Scale, SeverityOf
  <2> QED
    BY <2>1
<1>7. CASE s = "crowdstrike"
  <2>1. SeverityOf(s, l) = CrowdStrike(Scale.crowdstrike[l], 0)
    BY <1>7 DEF SeverityOf
  <2>2. \A name : CrowdStrike(name, 0) \in Severity
    BY <1>1, <1>2 DEF CrowdStrike
  <2> QED
    BY <2>1, <2>2
<1>8. CASE s \in {"zabbix", "prometheus", "grafana", "icinga"}
  BY <1>1, <1>8 DEF SeverityOf, Zabbix, Alertmanager, Icinga
<1>9. CASE s \in {"opsgenie", "pagerduty", "azuremonitor", "cloudwatch"}
  BY <1>1, <1>9 DEF SeverityOf, Opsgenie, PagerDuty, AzureMonitor, CloudWatch
<1>10. CASE s \in {"paloalto", "fortinet", "sentinel"}
  BY <1>1, <1>10 DEF SeverityOf, PaloAlto, Fortinet, Sentinel
<1> QED
  BY <1>3, <1>4, <1>5, <1>6, <1>7, <1>8, <1>9, <1>10, <1>11 DEF Source, Scale

\* What an ingestion handler, the poller and the status page change, but for
\* the incident they queue.
Listen ==
    /\ UNCHANGED <<source, now, rows, flag, watchVars>>
    /\ RegisterHeartbeat \/ UNCHANGED <<beat, missed, heard, sounded, raised>>
    /\ \/ last' = None
       \/ \E l \in Levels(source) : /\ SeverityOf(source, l) # Dropped
                                    /\ last' = [level |-> l, severity |-> SeverityOf(source, l)]

LEMMA Listens ==
  ASSUME Ingest \/ HandleGetIntegrationStatus
  PROVE  Listen
<1>1. ASSUME NEW s, handleTypedIngest(s) \/ EmptyBatch(s) PROVE Listen
  BY <1>1 DEF handleTypedIngest, EmptyBatch, Gate, RejectPayload, FailToQueue, Queue, Listen
<1>2. CASE HandleIngest \/ HandleGenericWebhook \/ syncTenantSentinel \/ HandleGetIntegrationStatus
  BY <1>2 DEF HandleIngest, HandleGenericWebhook, syncTenantSentinel, HandleGetIntegrationStatus,
              Gate, RejectPayload, Queue, Listen
<1> QED
  BY <1>1, <1>2 DEF Ingest, HandlePrometheusIngest, HandleGrafanaIngest, HandleOTLPIngest,
       HandleWazuhIngest, HandleUptimeKumaIngest, HandleZabbixIngest, HandleIcingaIngest,
       HandleAzureMonitorIngest, HandlePagerDutyIngest, HandleOpsgenieIngest,
       HandleCrowdStrikeIngest, HandlePaloAltoIngest, HandleFortinetIngest, HandleCloudWatchIngest

LEMMA ActiveRows == TypeOK => \A r \in Active : rows[r] \in Nat
  BY DEF TypeOK, Active

LEMMA AlarmTyped == \A b \in BOOLEAN : /\ AlarmParams(b).window \in Nat
                                       /\ AlarmParams(b).severity \in Severity
  BY TelemetryAssumption DEF AlarmParams, Severity, Critical, Warning, Fatal, Info

\* The parts of TypeOK.
Tables ==
    /\ source \in Source /\ now \in Nat
    /\ rows \in [Row -> Nat \cup {None, Deleted}]
    /\ beat \in [at: Nat \cup {None}, until: Nat] /\ flag \in Nat
Queued == last = None \/ last.severity \in Severity
Scans ==
    /\ pc \in [Watcher -> {"idle", "scan", "raise", "flag"}]
    /\ todo \in [Watcher -> SUBSET [id: Row, created: Nat]]
    /\ start \in [Watcher -> Nat]
AlarmRecord == [id: Row \cup {None}, window: Nat, severity: Severity]
Flags == scanned \in BOOLEAN /\ missed \in BOOLEAN /\ sounded \in BOOLEAN
Notes ==
    /\ heard \in Nat \cup {None}
    /\ raised \in [at: Nat \cup {None}, window: Nat, created: Nat]

LEMMA TypeParts ==
  TypeOK <=> /\ Tables /\ Queued /\ Scans /\ alarm \in [Watcher -> AlarmRecord]
             /\ Flags /\ Notes
  BY DEF TypeOK, Tables, Queued, Scans, AlarmRecord, Flags, Notes

LEMMA TypeNext ==
  /\ Tables' /\ Queued' /\ Scans' /\ alarm' \in [Watcher -> AlarmRecord] /\ Flags' /\ Notes'
  => TypeOK'
  BY DEF TypeOK, Tables, Queued, Scans, AlarmRecord, Flags, Notes

LEMMA Notices == NoAlarm \in AlarmRecord /\ NotYet \in [at: Nat \cup {None}, window: Nat, created: Nat]
  BY DEF NoAlarm, NotYet, AlarmRecord, Severity, Info, Fatal

LEMMA TypeInit == Init => TypeOK
<1> SUFFICES ASSUME Init PROVE TypeOK
  OBVIOUS
<1>1. Tables
  BY TelemetryAssumption DEF Init, Tables, Never
<1>2. Scans /\ Queued
  BY DEF Init, Scans, Queued
<1>3. alarm \in [Watcher -> AlarmRecord]
  BY Notices DEF Init
<1>4. Flags
  BY Zenon DEF Init, Flags
<1>5. Notes
  BY <1>1, Notices DEF Init, Notes, Tables
<1> QED
  BY <1>1, <1>2, <1>3, <1>4, <1>5, TypeParts

\* A step of one watchdog.
LEMMA TypeWatch ==
  ASSUME TypeOK, NEW w \in Watcher, last' = None, Watch(w)
  PROVE  TypeOK'
<1> USE TypeParts
<1>1. Queued' /\ Tables' /\ Scans'
  <2>1. CASE scanConnections(w)
    BY <2>1, ActiveRows DEF scanConnections, Active, Tables, Scans, Queued, redisVars, noteVars
  <2>2. CASE endScan(w)
    BY <2>2 DEF endScan, Tables, Scans, Queued, redisVars, noteVars
  <2>3. CASE evaluateAndAct(w)
    BY <2>3 DEF evaluateAndAct, Recover, Pass, Tables, Scans, Queued
  <2>4. CASE Misread(w) \/ raiseTelemetryLossAlarm(w)
    BY <2>4 DEF Misread, raiseTelemetryLossAlarm, Tables, Scans, Queued, redisVars
  <2>5. CASE SetAlarmed(w)
    <3>1. alarm[w].window \in Nat
      BY DEF AlarmRecord
    <3> QED
      BY <2>5, <3>1 DEF SetAlarmed, Tables, Scans, Queued
  <2>6. CASE AbandonScan(w)
    BY <2>6 DEF AbandonScan, Tables, Scans, Queued, redisVars
  <2> QED
    BY <2>1, <2>2, <2>3, <2>4, <2>5, <2>6 DEF Watch
<1>2. alarm' \in [Watcher -> AlarmRecord]
  <2>1. CASE Misread(w) \/ Decide(w)
    <3>1. PICK s \in todo[w], b \in BOOLEAN :
             alarm' = [alarm EXCEPT ![w] = [id |-> s.id, window |-> AlarmParams(b).window,
                                            severity |-> AlarmParams(b).severity]]
      BY <2>1 DEF Misread, Decide
    <3>2. s.id \in Row
      BY DEF Scans
    <3> QED
      BY <3>1, <3>2, AlarmTyped DEF AlarmRecord
  <2>2. CASE UNCHANGED alarm
    BY <2>2
  <2>3. CASE SetAlarmed(w) \/ AbandonScan(w)
    BY <2>3, Notices DEF SetAlarmed, AbandonScan
  <2> QED
    BY <2>1, <2>2, <2>3 DEF Watch, scanConnections, endScan, evaluateAndAct, raiseTelemetryLossAlarm
<1>3. Flags'
  <2>1. /\ scanned' = TRUE \/ scanned' = scanned
        /\ missed' = TRUE \/ missed' = missed
        /\ sounded' = TRUE \/ sounded' = sounded
    BY DEF Watch, scanConnections, endScan, evaluateAndAct, Recover, Pass, Misread,
           raiseTelemetryLossAlarm, SetAlarmed, AbandonScan, noteVars
  <2>2. Flags
    BY TypeParts
  <2> QED
    BY <2>1, <2>2, Zenon DEF Flags
<1>4. Notes'
  <2>1. CASE raiseTelemetryLossAlarm(w)
    <3>1. Undisturbed(w) => rows[alarm[w].id] \in Nat
      BY ActiveRows DEF Undisturbed
    <3>2. start[w] \in Nat /\ alarm[w].window \in Nat
      BY DEF Scans, AlarmRecord
    <3>3. heard' = heard
      BY <2>1 DEF raiseTelemetryLossAlarm
    <3>4. \/ raised' \in {raised, NotYet}
          \/ /\ Undisturbed(w)
             /\ raised' = [at |-> start[w], window |-> alarm[w].window,
                           created |-> rows[alarm[w].id]]
      BY <2>1 DEF raiseTelemetryLossAlarm
    <3> QED
      BY <3>1, <3>2, <3>3, <3>4, Notices DEF Notes
  <2>2. CASE UNCHANGED <<heard, raised>>
    BY <2>2 DEF Notes
  <2> QED
    BY <2>1, <2>2 DEF Watch, scanConnections, endScan, evaluateAndAct, Misread, SetAlarmed,
                      AbandonScan, noteVars
<1> QED
  BY <1>1, <1>2, <1>3, <1>4, TypeNext

LEMMA TypeStep == TypeOK /\ [Next]_vars => TypeOK'
<1> SUFFICES ASSUME TypeOK, [Next]_vars PROVE TypeOK'
  OBVIOUS
<1>1. CASE Tick
  <2>1. Tables' /\ Queued' /\ Scans' /\ Notes' /\ alarm' = alarm
    BY <1>1, TypeParts DEF Tick, Tables, Queued, Scans, Notes, redisVars
  <2>3. Flags
    BY TypeParts
  <2>2. Flags'
    BY <1>1, <2>3, Zenon DEF Tick, Flags
  <2> QED
    BY <2>1, <2>2, TypeParts, TypeNext
<1>2. CASE Ingest \/ HandleGetIntegrationStatus
  <2>1. Listen
    BY <1>2, Listens
  <2>2. Queued'
    BY <2>1, SeverityTyped, TypeParts DEF Listen, Queued, Tables
  <2>3. Tables'
    BY <2>1, TypeParts, TelemetryAssumption DEF Listen, RegisterHeartbeat, Tables
  <2>4. Scans' /\ alarm' = alarm
    BY <2>1, TypeParts DEF Listen, watchVars, Scans
  <2>7. Flags
    BY TypeParts
  <2>8. /\ scanned' = scanned
        /\ missed' = TRUE \/ missed' = missed
        /\ sounded' = FALSE \/ sounded' = sounded
    BY <2>1 DEF Listen, RegisterHeartbeat, watchVars
  <2>5. Flags'
    BY <2>7, <2>8, Zenon DEF Flags
  <2>6. Notes'
    BY <2>1, TypeParts, Notices DEF Listen, RegisterHeartbeat, Notes, Tables
  <2> QED
    BY <2>2, <2>3, <2>4, <2>5, <2>6, TypeParts, TypeNext
<1>3. ASSUME NEW r \in Row, last' = None, HandleCreateIntegration(r) \/ HandleDeleteIntegration(r)
      PROVE  TypeOK'
  <2>1. Tables' /\ Queued' /\ Scans' /\ alarm' = alarm
    BY <1>3, TypeParts DEF HandleCreateIntegration, HandleDeleteIntegration, Tables, Queued, Scans,
                           redisVars, watchVars
  <2>4. Flags
    BY TypeParts
  <2>5. UNCHANGED <<scanned, missed, sounded>>
    BY <1>3 DEF HandleCreateIntegration, HandleDeleteIntegration, watchVars, noteVars
  <2>2. Flags'
    BY <2>4, <2>5, Zenon DEF Flags
  <2>3. Notes'
    BY <1>3, TypeParts, Notices DEF HandleCreateIntegration, HandleDeleteIntegration, Notes, noteVars
  <2> QED
    BY <2>1, <2>2, <2>3, TypeParts, TypeNext
<1>4. ASSUME NEW w \in Watcher, last' = None, Watch(w) PROVE TypeOK'
  BY <1>4, TypeWatch
<1>5. CASE UNCHANGED vars
  BY <1>5 DEF vars, redisVars, watchVars, noteVars, TypeOK
<1> QED
  BY <1>1, <1>2, <1>3, <1>4, <1>5 DEF Next

-----------------------------------------------------------------------------
(* What the watchdog and the source have left for the next step.           *)

\* The source was heard so lately that it does not count as silent.
Recent == heard # None /\ now - heard <= Silence
\* How long an alarm that is decided upon now holds back others.
WindowNow == AlarmParams(Heartbeat # None).window
Entry(r) == [id |-> r, created |-> rows[r]]

\* A scan and its rows are of this period.
Clock ==
    /\ heard # None => heard <= now
    /\ \A r \in Active : rows[r] <= now
    /\ \A w \in Watcher : IF pc[w] = "idle" THEN todo[w] = {} ELSE start[w] = now
    /\ \A w \in Watcher : \A s \in todo[w] : s.created <= now

Beats == beat.at = heard /\ (heard # None => beat.until = heard + BeatTTL)

\* The row of the last alarm was past its grace; the time until which the
\* alarm holds back others.
Past == raised.at - raised.created > Grace
HeldBack == raised.at + raised.window

AlarmInHand(w) ==
    /\ pc[w] \in {"raise", "flag"} => Recent \/ alarm[w].window = WindowNow
    /\ pc[w] = "raise" => \/ Recent \/ raised = NotYet \/ raised.at = now
                          \/ Past => HeldBack <= now
    /\ pc[w] = "flag" => /\ raised = NotYet \/ raised.at = now
                         /\ sounded \/ heard = now

LastAlarm ==
    /\ raised.at \in Nat /\ raised.at <= now
    /\ heard # None => raised.at - heard > Silence
    /\ \A r \in Active : rows[r] = raised.created
    /\ \A w \in Watcher : \A s \in todo[w] : s.created = raised.created
    /\ raised.at = now => raised.window = WindowNow
    /\ Past => \/ HeldBack <= flag
               \/ raised.at = now /\ \E w \in Watcher : pc[w] = "flag"

NoRepeat == (raised # NotYet => LastAlarm) /\ \A w \in Watcher : AlarmInHand(w)

\* A row, or an entry of a scan, that was there when the source was last heard.
KnownSince ==
    /\ heard # None
    /\ \/ \E r \in Active : rows[r] <= heard
       \/ \E w \in Watcher : \E s \in todo[w] : s.created <= heard

\* A scan of this period has dealt with row r.
Evaluated(r) == scanned \/ \E w \in Watcher : pc[w] # "idle" /\ Entry(r) \notin todo[w]

\* No flag of an earlier outage is left once the scan after the recovery is over.
Unflagged ==
    /\ heard = None => flag = 0
    /\ KnownSince /\ heard + 1 < now => flag <= now
    /\ heard # None /\ now = heard + 1 =>
          \A r \in Active : rows[r] <= heard /\ Evaluated(r) => flag <= now

\* No scan is over in which the source was found silent.
NotSilent ==
    /\ KnownSince => now <= heard + Silence + 1
    /\ heard # None /\ now = heard + Silence + 1 =>
          \A r \in Active : rows[r] <= heard => ~Evaluated(r)

Alerted == sounded \/ (Unflagged /\ NotSilent)

Watching == Clock /\ Beats /\ NoRepeat /\ Alerted
WatchInv == missed \/ Watching

seen == <<now, rows, beat, flag, pc, todo, start, alarm, scanned, heard, sounded, raised>>

LEMMA Numbers ==
  /\ None \notin Nat /\ Deleted \notin Nat
  /\ Silence \in Nat /\ Silence >= 1 /\ BeatTTL \in Nat /\ Silence + 1 < BeatTTL
  /\ Grace \in Nat /\ Renotify \in Nat /\ NeverRenotify \in Nat
  BY TelemetryAssumption

LEMMA Typed ==
  ASSUME TypeOK
  PROVE  /\ now \in Nat /\ flag \in Nat /\ heard \in Nat \cup {None}
         /\ DOMAIN pc = Watcher /\ DOMAIN todo = Watcher /\ DOMAIN start = Watcher
         /\ DOMAIN alarm = Watcher
         /\ \A w \in Watcher : /\ start[w] \in Nat /\ alarm[w].window \in Nat
                               /\ pc[w] \in {"idle", "scan", "raise", "flag"}
                               /\ \A s \in todo[w] : /\ s = [id |-> s.id, created |-> s.created]
                                                     /\ s.id \in Row /\ s.created \in Nat
         /\ raised.at \in Nat \cup {None} /\ raised.window \in Nat /\ raised.created \in Nat
         /\ raised = [at |-> raised.at, window |-> raised.window, created |-> raised.created]
         /\ \A r \in Active : rows[r] \in Nat /\ r \in Row
         /\ DOMAIN rows = Row
<1> USE TypeParts
<1>1. \A w \in Watcher : \A s \in todo[w] : s \in [id: Row, created: Nat]
  BY DEF Scans
<1>2. \A w \in Watcher : alarm[w] \in AlarmRecord
  OBVIOUS
<1> QED
  BY <1>1, <1>2, ActiveRows DEF Tables, Scans, AlarmRecord, Notes, Active

\* What a scan makes of a row, by what was heard of the source.
LEMMA Seeing ==
  ASSUME TypeOK, Clock, Beats, NEW w \in Watcher, pc[w] # "idle", NEW s \in todo[w]
  PROVE  /\ start[w] = now
         /\ heard = None => /\ Heartbeat = None
                            /\ Silent(Heartbeat, s.created, start[w]) <=> now - s.created > Grace
         /\ heard # None /\ now < heard + BeatTTL =>
               /\ Heartbeat = heard
               /\ Silent(Heartbeat, s.created, start[w]) <=> now - heard > Silence
         /\ heard # None /\ now >= heard + BeatTTL =>
               /\ Heartbeat = None
               /\ Silent(Heartbeat, s.created, start[w]) <=> now - s.created > Grace
<1>1. start[w] = now
  BY DEF Clock
<1> QED
  BY <1>1, Numbers, Typed DEF Beats, Heartbeat, Silent

LEMMA Same ==
  ASSUME Watching, UNCHANGED seen
  PROVE  Watching'
<1>1. Active' = Active /\ Heartbeat' = Heartbeat /\ \A r : Entry(r)' = Entry(r)
  BY DEF seen, Active, Heartbeat, Entry
<1>2. Clock' /\ Beats'
  BY <1>1 DEF Watching, Clock, Beats, seen
<1>3. NoRepeat'
  BY <1>1 DEF Watching, NoRepeat, AlarmInHand, LastAlarm, Recent, WindowNow, Past, HeldBack, seen
<1>4. Alerted'
  BY <1>1 DEF Watching, Alerted, Unflagged, NotSilent, KnownSince, Evaluated, seen
<1> QED
  BY <1>2, <1>3, <1>4 DEF Watching

LEMMA WatchingInit == Init => WatchInv
<1> SUFFICES ASSUME Init PROVE Watching
  BY DEF WatchInv
<1>1. Active = {} /\ now = 0 /\ raised = NotYet /\ flag = 0 /\ scanned = FALSE
  BY DEF Init, Active
<1>2. \A w \in Watcher : pc[w] = "idle" /\ todo[w] = {}
  BY DEF Init
<1>3. heard = None \/ heard = 0
  BY DEF Init, Never
<1>4. Clock /\ Beats
  BY <1>1, <1>2, <1>3, Numbers DEF Clock, Beats, Init, Never
<1>5. NoRepeat
  BY <1>1, <1>2 DEF NoRepeat, AlarmInHand
<1>6. Alerted
  BY <1>1, <1>2, <1>3, Numbers DEF Alerted, Unflagged, NotSilent, KnownSince
<1> QED
  BY <1>4, <1>5, <1>6 DEF Watching

LEMMA ListenWatching ==
  ASSUME TypeOK, Watching, Listen, ~missed'
  PROVE  Watching'
<1>1. CASE UNCHANGED <<beat, missed, heard, sounded, raised>>
  BY <1>1, Same DEF Listen, seen, watchVars
<1>2. CASE beat' = [at |-> now, until |-> now + BeatTTL] /\ heard' = now /\ raised' = NotYet
  <2>1. UNCHANGED <<now, rows, flag, pc, todo, start, alarm, scanned>> /\ Active' = Active
    BY DEF Listen, watchVars, Active
  <2>2. Clock' /\ Beats'
    BY <1>2, <2>1, Numbers, Typed DEF Watching, Clock, Beats
  <2>3. Recent'
    BY <1>2, <2>1, Numbers, Typed DEF Recent
  <2>4. NoRepeat'
    BY <1>2, <2>1, <2>3 DEF NoRepeat, AlarmInHand
  <2>5. Alerted'
    BY <1>2, <2>1, Numbers, Typed DEF Alerted, Unflagged, NotSilent, KnownSince
  <2> QED
    BY <2>2, <2>4, <2>5 DEF Watching
<1> QED
  BY <1>1, <1>2 DEF Listen, RegisterHeartbeat

\* A period ends, in which a scan was completed.
LEMMA TickWatching ==
  ASSUME TypeOK, Watching, Tick, ~missed'
  PROVE  Watching'
<1>1. /\ now' = now + 1 /\ scanned = TRUE /\ Active' = Active
      /\ UNCHANGED <<rows, beat, flag, pc, todo, start, alarm, heard, sounded, raised>>
      /\ \A w \in Watcher : pc[w] = "idle" /\ todo[w] = {}
  <2>1. scanned = TRUE
    <3>1. missed' = ~scanned /\ scanned \in BOOLEAN
      BY Zenon, TypeParts DEF Tick, Flags
    <3> QED
      BY <3>1, Zenon
  <2> QED
    BY <2>1 DEF Tick, redisVars, Active, Watching, Clock
<1>2. Clock' /\ Beats'
  BY <1>1, Typed DEF Watching, Clock, Beats
<1>3. NoRepeat'
  <2>1. \A w \in Watcher : AlarmInHand(w)'
    BY <1>1 DEF AlarmInHand
  <2>2. ASSUME raised' # NotYet PROVE LastAlarm'
    <3>1. LastAlarm
      BY <2>2, <1>1 DEF Watching, NoRepeat
    <3>2. raised.at # now + 1
      BY <3>1, Typed DEF LastAlarm
    <3>3. Past => HeldBack <= flag
      BY <3>1, <1>1 DEF LastAlarm
    <3> QED
      BY <1>1, <3>1, <3>2, <3>3, Typed DEF LastAlarm, Past, HeldBack
  <2> QED
    BY <2>1, <2>2 DEF NoRepeat
<1>4. Alerted'
  <2> SUFFICES ASSUME ~sounded PROVE Unflagged' /\ NotSilent'
    BY <1>1 DEF Alerted
  <2>1. Unflagged /\ NotSilent
    BY DEF Watching, Alerted
  <2>2. \A r : Evaluated(r)
    BY <1>1 DEF Evaluated
  <2>3. \A r : ~Evaluated(r)'
    <3>1. scanned' = FALSE
      BY DEF Tick
    <3> QED
      BY <1>1, <3>1 DEF Evaluated
  <2>4. KnownSince' = KnownSince
    BY <1>1 DEF KnownSince
  <2>5. KnownSince => \E r \in Active : rows[r] <= heard
    BY <1>1 DEF KnownSince
  <2>6. Unflagged'
    <3>1. ASSUME KnownSince, heard + 1 < now + 1 PROVE flag <= now + 1
      <4>1. heard \in Nat /\ heard < now /\ now \in Nat /\ flag \in Nat
        BY <3>1, Typed DEF KnownSince
      <4>2. heard + 1 < now \/ now = heard + 1
        BY <4>1
      <4>3. flag <= now
        BY <4>2, <3>1, <2>1, <2>2, <2>5 DEF Unflagged, KnownSince
      <4> QED
        BY <4>1, <4>3
    <3> QED
      BY <1>1, <2>1, <2>3, <2>4, <3>1 DEF Unflagged
  <2>7. NotSilent'
    <3>1. ASSUME KnownSince PROVE now + 1 <= heard + Silence + 1
      <4>1. heard \in Nat /\ now \in Nat
        BY <3>1, Typed DEF KnownSince
      <4>2. now <= heard + Silence + 1
        BY <2>1, <3>1 DEF NotSilent
      <4>3. now # heard + Silence + 1
        BY <2>1, <2>2, <2>5, <3>1 DEF NotSilent, KnownSince
      <4> QED
        BY <4>1, <4>2, <4>3, Numbers
    <3> QED
      BY <1>1, <2>3, <2>4, <3>1 DEF NotSilent
  <2> QED
    BY <2>6, <2>7
<1> QED
  BY <1>2, <1>3, <1>4 DEF Watching

LEMMA CreateWatching ==
  ASSUME TypeOK, Watching, NEW r \in Row, HandleCreateIntegration(r)
  PROVE  Watching'
<1>1. /\ UNCHANGED <<now, beat, flag, pc, todo, start, alarm, scanned, heard, sounded>>
      /\ raised' = NotYet /\ rows' = [rows EXCEPT ![r] = now]
  BY DEF HandleCreateIntegration, redisVars, watchVars
<1>2. \A q \in Active' : \/ q = r /\ rows'[q] = now
                         \/ q \in Active /\ q # r /\ rows'[q] = rows[q]
  <2>1. \A q \in Row : rows'[q] = IF q = r THEN now ELSE rows[q]
    BY <1>1, Typed
  <2> QED
    BY <2>1 DEF Active
<1>3. \A q \in Active : q # r
  BY DEF Active, HandleCreateIntegration
<1>4. Clock' /\ Beats'
  BY <1>1, <1>2, Typed DEF Watching, Clock, Beats
<1>5. NoRepeat'
  BY <1>1 DEF Watching, NoRepeat, AlarmInHand, Recent, WindowNow, Heartbeat
<1>6. Alerted'
  <2>1. CASE heard = None \/ now <= heard
    BY <1>1, <2>1, Numbers, Typed DEF Watching, Alerted, Unflagged, NotSilent, KnownSince
  <2>2. CASE heard # None /\ heard < now
    <3>1. \A q \in Active' : rows'[q] <= heard => q \in Active /\ rows'[q] = rows[q] /\ q # r
      BY <1>2, <2>2, Typed
    <3>2. KnownSince' => KnownSince
      BY <3>1, <1>1 DEF KnownSince
    <3>3. \A q \in Active' : rows'[q] <= heard => (Evaluated(q)' => Evaluated(q))
      BY <3>1, <1>1 DEF Evaluated, Entry
    <3> QED
      BY <3>1, <3>2, <3>3, <1>1 DEF Watching, Alerted, Unflagged, NotSilent
  <2> QED
    BY <2>1, <2>2, Typed
<1> QED
  BY <1>4, <1>5, <1>6 DEF Watching

LEMMA DeleteWatching ==
  ASSUME TypeOK, Watching, NEW r \in Row, HandleDeleteIntegration(r)
  PROVE  Watching'
<1>1. /\ UNCHANGED <<now, beat, flag, pc, todo, start, alarm, scanned, heard, sounded, raised>>
      /\ rows' = [rows EXCEPT ![r] = Deleted]
  BY DEF HandleDeleteIntegration, redisVars, watchVars, noteVars
<1>2. \A q \in Active' : q \in Active /\ q # r /\ rows'[q] = rows[q]
  BY <1>1, Typed DEF Active
<1>3. Clock' /\ Beats'
  BY <1>1, <1>2 DEF Watching, Clock, Beats
<1>4. NoRepeat'
  BY <1>1, <1>2 DEF Watching, NoRepeat, LastAlarm, AlarmInHand, Recent, WindowNow, Heartbeat, Past,
                    HeldBack
<1>5. Alerted'
  <2>1. KnownSince' => KnownSince
    BY <1>1, <1>2 DEF KnownSince
  <2>2. \A q \in Active' : Evaluated(q)' => Evaluated(q)
    BY <1>1, <1>2 DEF Evaluated, Entry
  <2> QED
    BY <1>1, <1>2, <2>1, <2>2 DEF Watching, Alerted, Unflagged, NotSilent
<1> QED
  BY <1>3, <1>4, <1>5 DEF Watching

\* What a step of watchdog w leaves alone.
LEMMA Frame ==
  ASSUME TypeOK, NEW w \in Watcher, Watch(w)
  PROVE  /\ UNCHANGED <<now, rows, beat, heard>> /\ Active' = Active /\ Recent' = Recent
         /\ WindowNow' = WindowNow /\ (\A r : Entry(r)' = Entry(r)) /\ Heartbeat' = Heartbeat
         /\ \A v \in Watcher \ {w} :
               pc'[v] = pc[v] /\ todo'[v] = todo[v] /\ start'[v] = start[v] /\ alarm'[v] = alarm[v]
<1>1. /\ UNCHANGED <<now, rows, beat, heard>>
      /\ \A v \in Watcher \ {w} :
            pc'[v] = pc[v] /\ todo'[v] = todo[v] /\ start'[v] = start[v] /\ alarm'[v] = alarm[v]
  <2>1. CASE scanConnections(w) \/ endScan(w)
    BY <2>1, Typed DEF scanConnections, endScan, redisVars, noteVars
  <2>2. CASE evaluateAndAct(w)
    BY <2>2, Typed DEF evaluateAndAct, Recover, Pass, Decide
  <2>3. CASE Misread(w) \/ raiseTelemetryLossAlarm(w)
    BY <2>3, Typed DEF Misread, raiseTelemetryLossAlarm, redisVars
  <2>4. CASE SetAlarmed(w) \/ AbandonScan(w)
    BY <2>4, Typed DEF SetAlarmed, AbandonScan, redisVars
  <2> QED
    BY <2>1, <2>2, <2>3, <2>4 DEF Watch
<1> QED
  BY <1>1 DEF Active, Recent, WindowNow, Entry, Heartbeat

LEMMA ScanWatching ==
  ASSUME TypeOK, Watching, NEW w \in Watcher, scanConnections(w)
  PROVE  Watching'
<1>1. /\ UNCHANGED <<flag, alarm, scanned, sounded, raised>>
      /\ pc[w] = "idle" /\ pc'[w] = "scan" /\ start'[w] = now
      /\ todo'[w] = {Entry(r) : r \in Active}
  BY Typed DEF scanConnections, redisVars, noteVars, Entry
<1>2. Watch(w)
  BY DEF Watch
<1>3. \A s \in todo'[w] : \E r \in Active : s.created = rows[r]
  BY <1>1 DEF Entry
<1>4. Clock' /\ Beats'
  BY <1>1, <1>2, <1>3, Frame DEF Watching, Clock, Beats
<1>5. NoRepeat'
  <2>1. \A v \in Watcher : AlarmInHand(v)'
    <3>1. AlarmInHand(w)'
      BY <1>1 DEF AlarmInHand
    <3>2. ASSUME NEW v \in Watcher \ {w} PROVE AlarmInHand(v)'
      BY <1>1, <1>2, Frame DEF Watching, NoRepeat, AlarmInHand, Past, HeldBack
    <3> QED
      BY <3>1, <3>2
  <2>2. ASSUME raised # NotYet PROVE LastAlarm'
    <3>1. LastAlarm
      BY <2>2 DEF Watching, NoRepeat
    <3>2. \A v \in Watcher : \A s \in todo'[v] : s.created = raised.created
      BY <3>1, <1>2, <1>3, Frame DEF LastAlarm
    <3>3. (\E v \in Watcher : pc[v] = "flag") => \E v \in Watcher : pc'[v] = "flag"
      BY <1>1, <1>2, Frame
    <3> QED
      BY <3>1, <3>2, <3>3, <1>1, <1>2, Frame DEF LastAlarm, Past, HeldBack
  <2> QED
    BY <1>1, <2>1, <2>2 DEF NoRepeat
<1>6. Alerted'
  <2>1. KnownSince' => KnownSince
    BY <1>1, <1>2, <1>3, Frame DEF KnownSince
  <2>2. \A r \in Active : Evaluated(r)' => Evaluated(r)
    BY <1>1, <1>2, Frame DEF Evaluated
  <2> QED
    BY <2>1, <2>2, <1>1, <1>2, Frame DEF Watching, Alerted, Unflagged, NotSilent
<1> QED
  BY <1>4, <1>5, <1>6 DEF Watching

LEMMA EndWatching ==
  ASSUME TypeOK, Watching, NEW w \in Watcher, endScan(w)
  PROVE  Watching'
<1>1. /\ UNCHANGED <<flag, alarm, todo, sounded, raised>>
      /\ pc[w] = "scan" /\ pc'[w] = "idle" /\ todo[w] = {}
  BY Typed DEF endScan, redisVars, noteVars
<1>2. Watch(w)
  BY DEF Watch
<1>3. Clock' /\ Beats'
  BY <1>1, <1>2, Frame DEF Watching, Clock, Beats
<1>4. NoRepeat'
  <2>1. \A v \in Watcher : AlarmInHand(v)'
    <3>1. AlarmInHand(w)'
      BY <1>1 DEF AlarmInHand
    <3>2. ASSUME NEW v \in Watcher \ {w} PROVE AlarmInHand(v)'
      BY <1>1, <1>2, Frame DEF Watching, NoRepeat, AlarmInHand, Past, HeldBack
    <3> QED
      BY <3>1, <3>2
  <2>2. ASSUME raised # NotYet PROVE LastAlarm'
    <3>1. LastAlarm
      BY <2>2 DEF Watching, NoRepeat
    <3>3. (\E v \in Watcher : pc[v] = "flag") => \E v \in Watcher : pc'[v] = "flag"
      BY <1>1, <1>2, Frame
    <3> QED
      BY <3>1, <3>3, <1>1, <1>2, Frame DEF LastAlarm, Past, HeldBack
  <2> QED
    BY <1>1, <2>1, <2>2 DEF NoRepeat
<1>5. Alerted'
  <2>1. KnownSince' = KnownSince
    BY <1>1, <1>2, Frame DEF KnownSince
  <2>2. \A r \in Active : Evaluated(r)
    BY <1>1 DEF Evaluated
  <2> QED
    BY <2>1, <2>2, <1>1, <1>2, Frame DEF Watching, Alerted, Unflagged, NotSilent
<1> QED
  BY <1>3, <1>4, <1>5 DEF Watching

\* A row that is healthy, or whose alarm is held back, is done with; the flag
\* of a healthy one is deleted.
LEMMA PassWatching ==
  ASSUME TypeOK, Watching, NEW w \in Watcher, evaluateAndAct(w), ~missed',
         Recover(w) \/ (Pass(w) /\ UNCHANGED flag), UNCHANGED <<pc, alarm>>
  PROVE  Watching'
<1>1. PICK s \in todo[w] :
         /\ todo'[w] = todo[w] \ {s}
         /\ \/ flag' = 0 /\ ~Silent(Heartbeat, s.created, start[w])
            \/ flag' = flag /\ (Silent(Heartbeat, s.created, start[w]) <=> now < flag)
  <2>1. CASE Recover(w)
    <3>1. PICK s \in todo[w] : /\ ~Silent(Heartbeat, s.created, start[w])
                              /\ todo' = [todo EXCEPT ![w] = @ \ {s}]
      BY <2>1 DEF Recover
    <3>2. flag' = 0
      BY <2>1 DEF Recover
    <3> QED
      BY <3>1, <3>2, Typed
  <2>2. CASE Pass(w) /\ UNCHANGED flag
    <3>1. PICK s \in todo[w] : /\ Silent(Heartbeat, s.created, start[w]) <=> Alarmed
                              /\ todo' = [todo EXCEPT ![w] = @ \ {s}]
      BY <2>2 DEF Pass
    <3> QED
      BY <3>1, <2>2, Typed DEF Alarmed
  <2> QED
    BY <2>1, <2>2
<1>2. UNCHANGED <<start, sounded, raised, scanned>> /\ pc[w] = "scan" /\ Watch(w)
  <2>1. Watch(w)
    BY DEF Watch
  <2> QED
    BY <2>1 DEF evaluateAndAct
<1>3. Clock' /\ Beats'
  BY <1>1, <1>2, Frame, Typed DEF Watching, Clock, Beats
<1>4. NoRepeat'
  <2>1. \A v \in Watcher : AlarmInHand(v)'
    BY <1>2, Frame DEF Watching, NoRepeat, AlarmInHand, Past, HeldBack
  <2>2. ASSUME raised # NotYet PROVE LastAlarm'
    <3>1. LastAlarm
      BY <2>2 DEF Watching, NoRepeat
    <3>2. Past => flag' = flag
      <4>1. SUFFICES ASSUME Past PROVE Silent(Heartbeat, s.created, start[w])
        BY <1>1
      <4>2. s.created = raised.created /\ raised.at \in Nat /\ raised.at <= now
        BY <3>1 DEF LastAlarm
      <4>3. now - s.created > Grace
        BY <4>1, <4>2, Numbers, Typed DEF Past
      <4>4. heard # None => now - heard > Silence
        BY <3>1, <4>2, Numbers, Typed DEF LastAlarm
      <4>5. heard = None \/ now < heard + BeatTTL \/ now >= heard + BeatTTL
        BY Numbers, Typed
      <4> QED
        BY <1>2, <4>3, <4>4, <4>5, Seeing DEF Watching
    <3> QED
      BY <3>1, <3>2, <1>1, <1>2, Frame DEF LastAlarm, Past, HeldBack
  <2> QED
    BY <1>2, <2>1, <2>2 DEF NoRepeat
<1>5. Alerted'
  <2> SUFFICES ASSUME ~sounded PROVE Unflagged' /\ NotSilent'
    BY <1>2 DEF Alerted
  <2>1. Unflagged /\ NotSilent
    BY DEF Watching, Alerted
  <2>2. KnownSince' => KnownSince
    BY <1>1, <1>2, Frame DEF KnownSince
  <2>3. flag' \in {0, flag}
    BY <1>1
  <2>4. ASSUME NEW r \in Active, rows[r] <= heard, Evaluated(r)', ~Evaluated(r)
        PROVE  Entry(r) = s
    BY <2>4, <1>1, <1>2, Frame DEF Evaluated
  <2>5. ASSUME NEW r \in Active, heard # None, now = heard + 1, rows[r] <= heard, Evaluated(r)'
        PROVE  flag' <= now
    <3>1. CASE Evaluated(r)
      BY <3>1, <2>1, <2>3, <2>5, Typed DEF Unflagged
    <3>2. CASE ~Evaluated(r)
      <4>1. heard \in Nat /\ now < heard + BeatTTL /\ ~(now - heard > Silence)
        BY <2>5, Numbers, Typed
      <4>2. ~Silent(Heartbeat, s.created, start[w])
        BY <4>1, <2>5, <1>2, Seeing DEF Watching
      <4> QED
        BY <4>2, <1>1, Typed
    <3> QED
      BY <3>1, <3>2
  <2>6. Unflagged'
    BY <2>1, <2>2, <2>3, <2>5, <1>2, Frame, Typed DEF Unflagged
  <2>7. ASSUME NEW r \in Active, heard # None, now = heard + Silence + 1, rows[r] <= heard
        PROVE  ~Evaluated(r)'
    <3> SUFFICES ASSUME Evaluated(r)' PROVE FALSE
      OBVIOUS
    <3>1. heard \in Nat /\ heard + 1 < now /\ now < heard + BeatTTL /\ now - heard > Silence
      BY <2>7, Numbers, Typed
    <3>2. Silent(Heartbeat, s.created, start[w])
      BY <3>1, <2>7, <1>2, Seeing DEF Watching
    <3>3. now < flag
      BY <3>2, <1>1
    <3>4. KnownSince
      BY <2>7 DEF KnownSince
    <3> QED
      BY <3>1, <3>3, <3>4, <2>1, Typed DEF Unflagged
  <2>8. NotSilent'
    BY <2>1, <2>2, <2>7, <1>2, Frame DEF NotSilent
  <2> QED
    BY <2>6, <2>8
<1> QED
  BY <1>3, <1>4, <1>5 DEF Watching

\* An alarm is decided upon when no flag is seen.
LEMMA DecideWatching ==
  ASSUME TypeOK, Watching, NEW w \in Watcher, evaluateAndAct(w), Decide(w), UNCHANGED <<flag, todo>>,
         pc' = [pc EXCEPT ![w] = "raise"]
  PROVE  Watching'
<1>1. /\ ~(now < flag) /\ alarm'[w].window = WindowNow /\ pc[w] = "scan" /\ pc'[w] = "raise"
      /\ UNCHANGED <<sounded, raised, scanned, start>> /\ Watch(w)
  <2>1. Watch(w)
    BY DEF Watch
  <2>2. UNCHANGED <<sounded, raised, scanned, start>> /\ pc[w] = "scan" /\ pc'[w] = "raise"
    BY Typed DEF evaluateAndAct
  <2>3. ~(now < flag) /\ alarm'[w].window = WindowNow
    BY Typed DEF Decide, Alarmed, WindowNow
  <2> QED
    BY <2>1, <2>2, <2>3
<1>2. Clock' /\ Beats'
  BY <1>1, Frame DEF Watching, Clock, Beats
<1>3. raised # NotYet => LastAlarm
  BY DEF Watching, NoRepeat
<1>4. NoRepeat'
  <2>1. AlarmInHand(w)'
    <3>1. ASSUME raised # NotYet, raised.at # now, Past PROVE HeldBack <= now
      BY <3>1, <1>1, <1>3, Typed DEF LastAlarm, HeldBack
    <3> QED
      BY <3>1, <1>1, Frame DEF AlarmInHand, Past, HeldBack
  <2>2. ASSUME NEW v \in Watcher \ {w} PROVE AlarmInHand(v)'
    BY <1>1, Frame DEF Watching, NoRepeat, AlarmInHand, Past, HeldBack
  <2>3. ASSUME raised # NotYet PROVE LastAlarm'
    <3>1. (\E v \in Watcher : pc[v] = "flag") => \E v \in Watcher : pc'[v] = "flag"
      BY <1>1, Frame
    <3> QED
      BY <2>3, <1>3, <3>1, <1>1, Frame DEF LastAlarm, Past, HeldBack
  <2> QED
    BY <1>1, <2>1, <2>2, <2>3 DEF NoRepeat
<1>5. Alerted'
  <2>1. KnownSince' = KnownSince
    BY <1>1, Frame DEF KnownSince
  <2>2. \A r \in Active : Evaluated(r)' => Evaluated(r)
    BY <1>1, Frame DEF Evaluated
  <2> QED
    BY <1>1, <2>1, <2>2, Frame DEF Watching, Alerted, Unflagged, NotSilent
<1> QED
  BY <1>2, <1>4, <1>5 DEF Watching

LEMMA RaiseWatching ==
  ASSUME TypeOK, Watching, NEW w \in Watcher, raiseTelemetryLossAlarm(w), ~missed'
  PROVE  Watching'
<1>1. /\ UNCHANGED <<flag, todo, start, alarm, scanned>>
      /\ pc[w] = "raise" /\ pc'[w] = "flag" /\ Watch(w)
  BY Typed DEF raiseTelemetryLossAlarm, redisVars, Watch
<1>2. /\ sounded' = TRUE
      /\ raised' # NotYet =>
            /\ Undisturbed(w)
            /\ raised' = [at |-> start[w], window |-> alarm[w].window,
                          created |-> rows[alarm[w].id]]
  BY DEF raiseTelemetryLossAlarm
<1>3. start[w] = now
  BY <1>1 DEF Watching, Clock
<1>4. Clock' /\ Beats'
  BY <1>1, Frame DEF Watching, Clock, Beats
<1>5. raised' = NotYet \/ raised'.at = now
  BY <1>2, <1>3
<1>6. NoRepeat'
  <2>1. ASSUME NEW v \in Watcher PROVE AlarmInHand(v)'
    <3>1. pc'[v] = "raise" => pc[v] = "raise"
      BY <1>1, Frame
    <3>2. pc'[v] \in {"raise", "flag"} => pc[v] \in {"raise", "flag"}
      BY <1>1, Frame
    <3> QED
      BY <3>1, <3>2, <1>1, <1>2, <1>5, Frame DEF Watching, NoRepeat, AlarmInHand
  <2>2. ASSUME raised' # NotYet PROVE LastAlarm'
    <3>1. /\ Undisturbed(w)
          /\ raised'.at = now /\ raised'.window = alarm[w].window
          /\ raised'.created = rows[alarm[w].id]
      BY <2>2, <1>2, <1>3
    <3>2. heard # None => now - heard > Silence
      BY <3>1, <1>3 DEF Undisturbed
    <3>3. alarm[w].window = WindowNow
      BY <3>2, <1>1, Numbers, Typed DEF Watching, NoRepeat, AlarmInHand, Recent
    <3>4. \A r \in Active : rows[r] = raised'.created
      BY <3>1 DEF Undisturbed
    <3>5. \A v \in Watcher : \A s \in todo[v] : s.created = raised'.created
      <4>1. \A v \in Watcher : \A s \in todo[v] : \E r \in Active : s.created = rows[r]
        BY <3>1 DEF Undisturbed
      <4> QED
        BY <4>1, <3>4
    <3> QED
      BY <3>1, <3>2, <3>3, <3>4, <3>5, <1>1, Frame, Typed DEF LastAlarm
  <2> QED
    BY <2>1, <2>2 DEF NoRepeat
<1>7. Alerted'
  BY <1>2 DEF Alerted
<1> QED
  BY <1>4, <1>6, <1>7 DEF Watching

LEMMA FlagWatching ==
  ASSUME TypeOK, Watching, NEW w \in Watcher, SetAlarmed(w), ~missed'
  PROVE  Watching'
<1>1. /\ flag' = now + alarm[w].window /\ UNCHANGED <<start, scanned, sounded, raised>>
      /\ pc[w] = "flag" /\ pc'[w] = "scan" /\ todo'[w] \subseteq todo[w] /\ Watch(w)
  BY Typed DEF SetAlarmed, Watch
<1>2. Clock' /\ Beats'
  BY <1>1, Frame DEF Watching, Clock, Beats
<1>3. AlarmInHand(w)
  BY DEF Watching, NoRepeat
<1>4. NoRepeat'
  <2>1. AlarmInHand(w)'
    BY <1>1 DEF AlarmInHand
  <2>2. ASSUME NEW v \in Watcher \ {w} PROVE AlarmInHand(v)'
    BY <1>1, Frame DEF Watching, NoRepeat, AlarmInHand, Past, HeldBack
  <2>3. ASSUME raised # NotYet PROVE LastAlarm'
    <3>1. LastAlarm
      BY <2>3 DEF Watching, NoRepeat
    <3>2. raised.at = now /\ raised.window = WindowNow
      BY <3>1, <2>3, <1>1, <1>3 DEF AlarmInHand, LastAlarm
    <3>3. ~Recent
      BY <3>1, <3>2, Numbers, Typed DEF LastAlarm, Recent
    <3>4. alarm[w].window = WindowNow
      BY <3>3, <1>1, <1>3 DEF AlarmInHand
    <3>5. HeldBack' <= flag'
      BY <3>2, <3>4, <1>1, Typed DEF HeldBack
    <3>6. \A v \in Watcher : todo'[v] \subseteq todo[v]
      BY <1>1, Frame
    <3> QED
      BY <3>1, <3>5, <3>6, <1>1, Frame DEF LastAlarm, Past
  <2> QED
    BY <1>1, <2>1, <2>2, <2>3 DEF NoRepeat
<1>5. Alerted'
  <2>1. sounded \/ heard = now
    BY <1>1, <1>3 DEF AlarmInHand
  <2>2. CASE heard = now
    BY <2>2, <1>1, Frame, Numbers, Typed DEF Alerted, Unflagged, NotSilent
  <2> QED
    BY <2>1, <2>2, <1>1 DEF Alerted
<1> QED
  BY <1>2, <1>4, <1>5 DEF Watching

LEMMA WatchingStep == TypeOK /\ WatchInv /\ [Next]_vars => WatchInv'
<1> SUFFICES ASSUME TypeOK, WatchInv, [Next]_vars, ~missed' PROVE Watching'
  BY DEF WatchInv
<1>1. CASE UNCHANGED vars
  <2>1. Watching /\ UNCHANGED seen
    BY <1>1 DEF vars, seen, redisVars, watchVars, noteVars, WatchInv
  <2> QED
    BY <2>1, Same
<1>2. CASE Next
  <2>1. Watching
    BY <1>2 DEF Next, WatchInv
  <2>2. CASE Tick
    BY <2>1, <2>2, TickWatching
  <2>3. CASE Ingest \/ HandleGetIntegrationStatus
    BY <2>1, <2>3, Listens, ListenWatching
  <2>4. ASSUME NEW r \in Row, HandleCreateIntegration(r) \/ HandleDeleteIntegration(r)
        PROVE  Watching'
    BY <2>1, <2>4, CreateWatching, DeleteWatching
  <2>5. ASSUME NEW w \in Watcher, Watch(w) PROVE Watching'
    <3>1. ~Misread(w) /\ ~AbandonScan(w)
      BY DEF Misread, AbandonScan
    <3>2. CASE evaluateAndAct(w)
      BY <2>1, <3>2, PassWatching, DecideWatching DEF evaluateAndAct
    <3> QED
      BY <2>1, <2>5, <3>1, <3>2, ScanWatching, EndWatching, RaiseWatching, FlagWatching DEF Watch
  <2> QED
    BY <1>2, <2>2, <2>3, <2>4, <2>5 DEF Next
<1> QED
  BY <1>1, <1>2

LEMMA WatchInvariant == Spec => [](TypeOK /\ WatchInv)
<1>1. Init => TypeOK /\ WatchInv
  BY TypeInit, WatchingInit
<1>2. TypeOK /\ WatchInv /\ [Next]_vars => (TypeOK /\ WatchInv)'
  BY TypeStep, WatchingStep
<1> QED
  BY <1>1, <1>2, PTL DEF Spec

-----------------------------------------------------------------------------
(* The properties.                                                         *)

\* A row leaves a scan when it has been passed over, or its flag has been set.
LEMMA Leaves ==
  ASSUME TypeOK, Watching, Next, ~missed', NEW w \in Watcher, NEW s \in todo[w], s \notin todo'[w]
  PROVE  /\ sounded' = sounded /\ start[w] = now /\ pc[w] # "idle"
         /\ \/ pc[w] = "flag"
            \/ flag' = 0 /\ ~Silent(Heartbeat, s.created, start[w])
            \/ Silent(Heartbeat, s.created, start[w]) <=> now < flag
<1>1. pc[w] # "idle" /\ start[w] = now
  BY DEF Watching, Clock
<1>2. ~Tick
  BY <1>1 DEF Tick
<1>3. ASSUME Ingest \/ HandleGetIntegrationStatus PROVE FALSE
  BY <1>3, Listens DEF Listen, watchVars
<1>4. ASSUME NEW r \in Row, HandleCreateIntegration(r) \/ HandleDeleteIntegration(r) PROVE FALSE
  BY <1>4 DEF HandleCreateIntegration, HandleDeleteIntegration, watchVars
<1>5. PICK v \in Watcher : Watch(v)
  BY <1>2, <1>3, <1>4 DEF Next
<1>6. v = w
  BY <1>5, Frame
<1>7. CASE evaluateAndAct(w)
  <2>1. sounded' = sounded
    BY <1>7 DEF evaluateAndAct
  <2>2. CASE Recover(w)
    <3>1. PICK q \in todo[w] : /\ ~Silent(Heartbeat, q.created, start[w])
                              /\ todo' = [todo EXCEPT ![w] = @ \ {q}]
      BY <2>2 DEF Recover
    <3>2. flag' = 0
      BY <2>2 DEF Recover
    <3>3. q = s
      BY <3>1, Typed
    <3> QED
      BY <1>1, <2>1, <3>1, <3>2, <3>3
  <2>3. CASE Pass(w)
    <3>1. PICK q \in todo[w] : /\ Silent(Heartbeat, q.created, start[w]) <=> Alarmed
                              /\ todo' = [todo EXCEPT ![w] = @ \ {q}]
      BY <2>3 DEF Pass
    <3>2. q = s
      BY <3>1, Typed
    <3> QED
      BY <1>1, <2>1, <3>1, <3>2 DEF Alarmed
  <2> QED
    BY <1>7, <2>2, <2>3 DEF evaluateAndAct
<1>8. CASE SetAlarmed(w)
  BY <1>1, <1>8 DEF SetAlarmed
<1>9. ~scanConnections(w) /\ ~Misread(w) /\ ~AbandonScan(w)
  BY <1>1 DEF scanConnections, Misread, AbandonScan
<1>10. ~endScan(w) /\ ~raiseTelemetryLossAlarm(w)
  BY DEF endScan, raiseTelemetryLossAlarm, redisVars
<1> QED
  BY <1>5, <1>6, <1>7, <1>8, <1>9, <1>10 DEF Watch

\* "não ficar desconectado sem alarme", for any integrations, replicas and
\* settings: a scan that meets no fault does not pass over an integration that
\* has fallen silent unless an alarm was raised since the source was last heard.
THEOREM SilenceIsAlarmed == Spec => BlindMeansAlarmed
<1> DEFINE Alarm == \A w \in Watcher : \A s \in todo[w] \ todo'[w] :
                       Blind(s, start[w]) /\ ~missed' => sounded'
<1>1. ASSUME TypeOK, WatchInv, Next PROVE Alarm
  <2> SUFFICES ASSUME NEW w \in Watcher, NEW s \in todo[w], s \notin todo'[w],
                      Blind(s, start[w]), ~missed', ~sounded'
               PROVE  FALSE
    OBVIOUS
  <2>1. Watching
    BY <1>1 DEF WatchInv, Next
  <2>2. /\ ~sounded /\ start[w] = now /\ pc[w] # "idle"
        /\ \/ pc[w] = "flag" \/ ~Silent(Heartbeat, s.created, start[w]) \/ now < flag
    BY <1>1, <2>1, Leaves
  <2>3. Unflagged /\ NotSilent
    BY <2>1, <2>2 DEF Watching, Alerted
  <2>4. CASE heard = None
    <3>1. flag = 0 /\ Silent(Heartbeat, s.created, start[w])
      BY <1>1, <2>1, <2>2, <2>3, <2>4, Seeing DEF Unflagged, Blind, Watching
    <3>2. pc[w] = "flag"
      BY <1>1, <2>2, <3>1, Typed
    <3>3. heard = now
      BY <2>1, <2>2, <3>2 DEF Watching, NoRepeat, AlarmInHand
    <3> QED
      BY <1>1, <2>4, <3>3, Numbers, Typed
  <2>5. CASE heard # None
    <3>1. heard \in Nat /\ s.created <= heard /\ now - heard > Silence /\ now \in Nat /\ flag \in Nat
      BY <1>1, <2>2, <2>5, Typed DEF Blind
    <3>2. KnownSince
      BY <2>5, <3>1 DEF KnownSince
    <3>3. heard + 1 < now /\ flag <= now
      BY <2>3, <3>1, <3>2, Numbers DEF Unflagged
    <3>4. now <= heard + Silence + 1
      BY <2>3, <3>2 DEF NotSilent
    <3>5. Silent(Heartbeat, s.created, start[w])
      BY <1>1, <2>1, <2>2, <2>5, <3>1, <3>4, Numbers, Seeing DEF Watching
    <3>6. heard = now
      BY <2>1, <2>2, <3>1, <3>3, <3>5 DEF Watching, NoRepeat, AlarmInHand
    <3> QED
      BY <3>1, <3>3, <3>6
  <2> QED
    BY <2>4, <2>5
<1>2. ASSUME UNCHANGED vars PROVE Alarm
  BY <1>2 DEF vars, watchVars
<1>3. TypeOK /\ WatchInv /\ [Next]_vars => [Alarm]_vars
  BY <1>1, <1>2
<1> QED
  BY <1>3, WatchInvariant, PTL DEF Spec, BlindMeansAlarmed

\* The flag of an outage holds back further alarms about it for the whole of its
\* window, for any integrations, replicas and settings, of an integration that
\* was past its grace.
THEOREM AlarmsHeldBack == Spec => RenotifyPastGrace
<1>1. ASSUME TypeOK, WatchInv, Next, AlarmsTwice PROVE ~Past
  <2>1. Watching /\ raised # NotYet /\ raised' # NotYet /\ raised' # raised /\ ~missed'
        /\ raised'.at < HeldBack
    BY <1>1 DEF WatchInv, Next, AlarmsTwice, HeldBack
  <2>2. LastAlarm
    BY <2>1 DEF Watching, NoRepeat
  <2>3. PICK w \in Watcher : raiseTelemetryLossAlarm(w)
    <3>1. ASSUME Ingest \/ HandleGetIntegrationStatus PROVE FALSE
      BY <2>1, <3>1, Listens DEF Listen, RegisterHeartbeat
    <3>2. ASSUME NEW r \in Row, HandleCreateIntegration(r) \/ HandleDeleteIntegration(r)
          PROVE  FALSE
      BY <2>1, <3>2 DEF HandleCreateIntegration, HandleDeleteIntegration, noteVars
    <3>3. ~Tick
      BY <2>1 DEF Tick
    <3>4. ASSUME NEW w \in Watcher, Watch(w) PROVE raiseTelemetryLossAlarm(w)
      BY <2>1, <3>4 DEF Watch, scanConnections, endScan, evaluateAndAct, Misread, SetAlarmed,
                        AbandonScan, noteVars
    <3> QED
      BY <1>1, <3>1, <3>2, <3>3, <3>4 DEF Next
  <2>4. /\ pc[w] = "raise" /\ Undisturbed(w)
        /\ raised' = [at |-> start[w], window |-> alarm[w].window,
                      created |-> rows[alarm[w].id]]
    BY <2>1, <2>3 DEF raiseTelemetryLossAlarm
  <2>5. start[w] = now
    BY <2>1, <2>4 DEF Watching, Clock
  <2>6. ~Recent
    BY <1>1, <2>4, <2>5, Numbers, Typed DEF Undisturbed, Recent
  <2>7. alarm[w].window = WindowNow
    BY <2>1, <2>4, <2>6 DEF Watching, NoRepeat, AlarmInHand
  <2>8. raised.at # now
    <3> SUFFICES ASSUME raised.at = now PROVE FALSE
      OBVIOUS
    <3>1. raised.window = alarm[w].window
      BY <2>2, <2>7 DEF LastAlarm
    <3>2. raised.created = rows[alarm[w].id]
      BY <2>2, <2>4 DEF LastAlarm, Undisturbed
    <3> QED
      BY <1>1, <2>1, <2>4, <2>5, <3>1, <3>2, Typed
  <2>9. Past => HeldBack <= now
    BY <2>1, <2>4, <2>6, <2>8 DEF Watching, NoRepeat, AlarmInHand
  <2> QED
    BY <1>1, <2>1, <2>2, <2>4, <2>5, <2>9, Typed DEF HeldBack, LastAlarm
<1>2. ASSUME UNCHANGED vars PROVE ~AlarmsTwice
  BY <1>2 DEF vars, noteVars, AlarmsTwice
<1>3. TypeOK /\ WatchInv /\ [Next]_vars
        => [AlarmsTwice => raised.at - raised.created <= Grace]_vars
  <2> SUFFICES ASSUME TypeOK, WatchInv, Next, AlarmsTwice
               PROVE  raised.at - raised.created <= Grace
    BY <1>2
  <2>1. ~Past /\ raised # NotYet /\ WatchInv /\ ~missed
    BY <1>1 DEF AlarmsTwice, Next
  <2>2. raised.at \in Nat /\ raised.created \in Nat
    BY <2>1, Typed DEF WatchInv, Watching, NoRepeat, LastAlarm
  <2> QED
    BY <2>1, <2>2, Numbers DEF Past
<1> QED
  BY <1>3, WatchInvariant, PTL DEF Spec, RenotifyPastGrace

-----------------------------------------------------------------------------
(* The scales of the vendors.  Each is cut into bands, whose severities     *)
(* rise with the level; a vendor without a fatal level has an empty band.  *)

Bands(s, f, c, w) ==
    /\ f \in Int /\ c \in Int /\ w \in Int /\ w <= c /\ c <= f
    /\ \A l \in Levels(s) : l \in Int /\ SeverityOf(s, l) \in {Dropped, ByBand(l, f, c, w)}

LEMMA BandsRise ==
  ASSUME NEW f \in Int, NEW c \in Int, NEW w \in Int, w <= c, c <= f,
         NEW l \in Int, NEW m \in Int, l <= m
  PROVE  ByBand(l, f, c, w) <= ByBand(m, f, c, w)
  BY DEF ByBand, Fatal, Critical, Warning, Info

LEMMA ZabbixBands == Bands("zabbix", 6, 5, 3)
<1>1. Levels("zabbix") = 1 .. 6
  BY DEF Levels, Scale
<1>2. /\ Scale.zabbix[1] = "not classified" /\ Scale.zabbix[2] = "information"
      /\ Scale.zabbix[3] = "warning" /\ Scale.zabbix[4] = "average"
      /\ Scale.zabbix[5] = "high" /\ Scale.zabbix[6] = "disaster"
  BY DEF Scale
<1>3. ASSUME NEW l \in 1 .. 6 PROVE SeverityOf("zabbix", l) = ByBand(l, 6, 5, 3)
  <2>1. SeverityOf("zabbix", l) = Zabbix(Scale.zabbix[l])
    BY DEF SeverityOf
  <2>2. /\ Zabbix("not classified") = Info /\ Zabbix("information") = Info
        /\ Zabbix("warning") = Warning /\ Zabbix("average") = Warning
        /\ Zabbix("high") = Critical /\ Zabbix("disaster") = Fatal
    BY DEF Zabbix, ByWord
  <2>3. /\ ByBand(1, 6, 5, 3) = Info /\ ByBand(2, 6, 5, 3) = Info
        /\ ByBand(3, 6, 5, 3) = Warning /\ ByBand(4, 6, 5, 3) = Warning
        /\ ByBand(5, 6, 5, 3) = Critical /\ ByBand(6, 6, 5, 3) = Fatal
    BY DEF ByBand, Info, Warning, Critical, Fatal
  <2>4. l = 1 \/ l = 2 \/ l = 3 \/ l = 4 \/ l = 5 \/ l = 6
    OBVIOUS
  <2> QED
    BY <1>2, <2>1, <2>2, <2>3, <2>4
<1> QED
  BY <1>1, <1>3 DEF Bands

LEMMA PrometheusBands == Bands("prometheus", 6, 5, 3)
<1>1. Levels("prometheus") = 1 .. 6
  BY DEF Levels, Scale
<1>2. /\ Scale.prometheus[1] = "debug" /\ Scale.prometheus[2] = "info"
      /\ Scale.prometheus[3] = "warn" /\ Scale.prometheus[4] = "warning"
      /\ Scale.prometheus[5] = "critical" /\ Scale.prometheus[6] = "fatal"
  BY DEF Scale
<1>3. ASSUME NEW l \in 1 .. 6 PROVE SeverityOf("prometheus", l) = ByBand(l, 6, 5, 3)
  <2>1. SeverityOf("prometheus", l) = Alertmanager(Scale.prometheus[l])
    BY DEF SeverityOf
  <2>2. l = 1 \/ l = 2 \/ l = 3 \/ l = 4 \/ l = 5 \/ l = 6
    OBVIOUS
  <2> QED
    BY <1>2, <2>1, <2>2 DEF Alertmanager, ByWord, ByBand
<1> QED
  BY <1>1, <1>3 DEF Bands

LEMMA GrafanaBands == Bands("grafana", 6, 5, 3)
<1>1. Levels("grafana") = 1 .. 6
  BY DEF Levels, Scale
<1>2. /\ Scale.grafana[1] = "debug" /\ Scale.grafana[2] = "info" /\ Scale.grafana[3] = "warn"
      /\ Scale.grafana[4] = "warning" /\ Scale.grafana[5] = "critical"
      /\ Scale.grafana[6] = "fatal"
  BY DEF Scale
<1>3. ASSUME NEW l \in 1 .. 6 PROVE SeverityOf("grafana", l) = ByBand(l, 6, 5, 3)
  <2>1. SeverityOf("grafana", l) = Alertmanager(Scale.grafana[l])
    BY DEF SeverityOf
  <2>2. l = 1 \/ l = 2 \/ l = 3 \/ l = 4 \/ l = 5 \/ l = 6
    OBVIOUS
  <2> QED
    BY <1>2, <2>1, <2>2 DEF Alertmanager, ByWord, ByBand
<1> QED
  BY <1>1, <1>3 DEF Bands

LEMMA IcingaBands == Bands("icinga", 7, 5, 3)
<1>1. Levels("icinga") = 1 .. 6
  BY DEF Levels, Scale
<1>2. /\ Scale.icinga[1] = "ok" /\ Scale.icinga[2] = "up" /\ Scale.icinga[3] = "unknown"
      /\ Scale.icinga[4] = "warning" /\ Scale.icinga[5] = "critical"
      /\ Scale.icinga[6] = "down"
  BY DEF Scale
<1>3. ASSUME NEW l \in 1 .. 6 PROVE SeverityOf("icinga", l) = ByBand(l, 7, 5, 3)
  <2>1. SeverityOf("icinga", l) = Icinga(Scale.icinga[l])
    BY DEF SeverityOf
  <2>2. l = 1 \/ l = 2 \/ l = 3 \/ l = 4 \/ l = 5 \/ l = 6
    OBVIOUS
  <2> QED
    BY <1>2, <2>1, <2>2 DEF Icinga, ByWord, ByBand
<1> QED
  BY <1>1, <1>3 DEF Bands

LEMMA OpsgenieBands == Bands("opsgenie", 5, 4, 3)
<1>1. Levels("opsgenie") = 1 .. 5
  BY DEF Levels, Scale
<1>2. /\ Scale.opsgenie[1] = "p5" /\ Scale.opsgenie[2] = "p4" /\ Scale.opsgenie[3] = "p3"
      /\ Scale.opsgenie[4] = "p2" /\ Scale.opsgenie[5] = "p1"
  BY DEF Scale
<1>3. ASSUME NEW l \in 1 .. 5 PROVE SeverityOf("opsgenie", l) = ByBand(l, 5, 4, 3)
  <2>1. SeverityOf("opsgenie", l) = Opsgenie(Scale.opsgenie[l])
    BY DEF SeverityOf
  <2>2. l = 1 \/ l = 2 \/ l = 3 \/ l = 4 \/ l = 5
    OBVIOUS
  <2> QED
    BY <1>2, <2>1, <2>2 DEF Opsgenie, ByWord, ByBand
<1> QED
  BY <1>1, <1>3 DEF Bands

LEMMA PagerdutyBands == Bands("pagerduty", 3, 2, 1)
<1>1. Levels("pagerduty") = 1 .. 2
  BY DEF Levels, Scale
<1>2. /\ Scale.pagerduty[1] = "low" /\ Scale.pagerduty[2] = "high"
  BY DEF Scale
<1>3. ASSUME NEW l \in 1 .. 2 PROVE SeverityOf("pagerduty", l) = ByBand(l, 3, 2, 1)
  <2>1. SeverityOf("pagerduty", l) = PagerDuty(Scale.pagerduty[l], "")
    BY DEF SeverityOf
  <2>2. l = 1 \/ l = 2
    OBVIOUS
  <2> QED
    BY <1>2, <2>1, <2>2 DEF PagerDuty, ByWord, ByBand, Opsgenie
<1> QED
  BY <1>1, <1>3 DEF Bands

LEMMA AzuremonitorBands == Bands("azuremonitor", 5, 4, 3)
<1>1. Levels("azuremonitor") = 1 .. 5
  BY DEF Levels, Scale
<1>2. /\ Scale.azuremonitor[1] = "sev4" /\ Scale.azuremonitor[2] = "sev3"
      /\ Scale.azuremonitor[3] = "sev2" /\ Scale.azuremonitor[4] = "sev1"
      /\ Scale.azuremonitor[5] = "sev0"
  BY DEF Scale
<1>3. ASSUME NEW l \in 1 .. 5 PROVE SeverityOf("azuremonitor", l) = ByBand(l, 5, 4, 3)
  <2>1. SeverityOf("azuremonitor", l) = AzureMonitor(Scale.azuremonitor[l])
    BY DEF SeverityOf
  <2>2. l = 1 \/ l = 2 \/ l = 3 \/ l = 4 \/ l = 5
    OBVIOUS
  <2> QED
    BY <1>2, <2>1, <2>2 DEF AzureMonitor, ByWord, ByBand
<1> QED
  BY <1>1, <1>3 DEF Bands

LEMMA CloudwatchBands == Bands("cloudwatch", 4, 3, 2)
<1>1. Levels("cloudwatch") = 1 .. 3
  BY DEF Levels, Scale
<1>2. /\ Scale.cloudwatch[1] = "ok" /\ Scale.cloudwatch[2] = "insufficient_data"
      /\ Scale.cloudwatch[3] = "alarm"
  BY DEF Scale
<1>3. ASSUME NEW l \in 1 .. 3 PROVE SeverityOf("cloudwatch", l) = ByBand(l, 4, 3, 2)
  <2>1. SeverityOf("cloudwatch", l) = CloudWatch(Scale.cloudwatch[l])
    BY DEF SeverityOf
  <2>2. l = 1 \/ l = 2 \/ l = 3
    OBVIOUS
  <2> QED
    BY <1>2, <2>1, <2>2 DEF CloudWatch, ByWord, ByBand
<1> QED
  BY <1>1, <1>3 DEF Bands

LEMMA CrowdstrikeBands == Bands("crowdstrike", 5, 4, 3)
<1>1. Levels("crowdstrike") = 1 .. 5
  BY DEF Levels, Scale
<1>2. /\ Scale.crowdstrike[1] = "informational" /\ Scale.crowdstrike[2] = "low"
      /\ Scale.crowdstrike[3] = "medium" /\ Scale.crowdstrike[4] = "high"
      /\ Scale.crowdstrike[5] = "critical"
  BY DEF Scale
<1>3. ASSUME NEW l \in 1 .. 5 PROVE SeverityOf("crowdstrike", l) = ByBand(l, 5, 4, 3)
  <2>1. SeverityOf("crowdstrike", l) = CrowdStrike(Scale.crowdstrike[l], 0)
    BY DEF SeverityOf
  <2>2. l = 1 \/ l = 2 \/ l = 3 \/ l = 4 \/ l = 5
    OBVIOUS
  <2> QED
    BY <1>2, <2>1, <2>2 DEF CrowdStrike, ByWord, ByBand
<1> QED
  BY <1>1, <1>3 DEF Bands

LEMMA PaloaltoBands == Bands("paloalto", 5, 4, 3)
<1>1. Levels("paloalto") = 1 .. 5
  BY DEF Levels, Scale
<1>2. /\ Scale.paloalto[1] = "informational" /\ Scale.paloalto[2] = "low"
      /\ Scale.paloalto[3] = "medium" /\ Scale.paloalto[4] = "high"
      /\ Scale.paloalto[5] = "critical"
  BY DEF Scale
<1>3. ASSUME NEW l \in 1 .. 5 PROVE SeverityOf("paloalto", l) = ByBand(l, 5, 4, 3)
  <2>1. SeverityOf("paloalto", l) = PaloAlto(Scale.paloalto[l])
    BY DEF SeverityOf
  <2>2. l = 1 \/ l = 2 \/ l = 3 \/ l = 4 \/ l = 5
    OBVIOUS
  <2> QED
    BY <1>2, <2>1, <2>2 DEF PaloAlto, ByWord, ByBand
<1> QED
  BY <1>1, <1>3 DEF Bands

LEMMA FortinetBands == Bands("fortinet", 7, 5, 4)
<1>1. Levels("fortinet") = 1 .. 8
  BY DEF Levels, Scale
<1>2. /\ Scale.fortinet[1] = "debug" /\ Scale.fortinet[2] = "information"
      /\ Scale.fortinet[3] = "notification" /\ Scale.fortinet[4] = "warning"
      /\ Scale.fortinet[5] = "error" /\ Scale.fortinet[6] = "critical"
      /\ Scale.fortinet[7] = "alert" /\ Scale.fortinet[8] = "emergency"
  BY DEF Scale
<1>3. ASSUME NEW l \in 1 .. 8 PROVE SeverityOf("fortinet", l) = ByBand(l, 7, 5, 4)
  <2>1. SeverityOf("fortinet", l) = Fortinet(Scale.fortinet[l])
    BY DEF SeverityOf
  <2>2. l = 1 \/ l = 2 \/ l = 3 \/ l = 4 \/ l = 5 \/ l = 6 \/ l = 7 \/ l = 8
    OBVIOUS
  <2> QED
    BY <1>2, <2>1, <2>2 DEF Fortinet, ByWord, ByBand
<1> QED
  BY <1>1, <1>3 DEF Bands

LEMMA SentinelBands == Bands("sentinel", 5, 4, 3)
<1>1. Levels("sentinel") = 1 .. 4
  BY DEF Levels, Scale
<1>2. /\ Scale.sentinel[1] = "informational" /\ Scale.sentinel[2] = "low"
      /\ Scale.sentinel[3] = "medium" /\ Scale.sentinel[4] = "high"
  BY DEF Scale
<1>3. ASSUME NEW l \in 1 .. 4 PROVE SeverityOf("sentinel", l) = ByBand(l, 5, 4, 3)
  <2>1. SeverityOf("sentinel", l) = Sentinel(Scale.sentinel[l])
    BY DEF SeverityOf
  <2>2. l = 1 \/ l = 2 \/ l = 3 \/ l = 4
    OBVIOUS
  <2> QED
    BY <1>2, <2>1, <2>2 DEF Sentinel, ByWord, ByBand
<1> QED
  BY <1>1, <1>3 DEF Bands

LEMMA NumberBands ==
  /\ Bands("wazuh", 12, 8, 4) /\ Bands("otlp", 21, 17, 17) /\ Bands("uptimekuma", 3, 2, 2)
  /\ Bands("generic", 3, 2, 1) /\ Bands("loki", 1, 1, 1) /\ Bands("unknown", 1, 1, 1)
<1> USE DEF Levels, Scale, SeverityOf, Bands
<1>1. Bands("wazuh", 12, 8, 4)
  BY DEF Wazuh
<1>2. Bands("otlp", 21, 17, 17)
  BY DEF OTLP, ByBand
<1>3. Bands("uptimekuma", 3, 2, 2)
  BY DEF UptimeKuma, ByBand
<1>4. Bands("generic", 3, 2, 1)
  BY DEF Severity, Fatal, Critical, Warning, Info, ByBand
<1>5. Bands("loki", 1, 1, 1) /\ Bands("unknown", 1, 1, 1)
  BY DEF ByBand
<1> QED
  BY <1>1, <1>2, <1>3, <1>4, <1>5

LEMMA InBands == \A s \in Source : \E f, c, w : Bands(s, f, c, w)
  BY NumberBands, ZabbixBands, PrometheusBands, GrafanaBands, IcingaBands, OpsgenieBands,
     PagerdutyBands, AzuremonitorBands, CloudwatchBands, CrowdstrikeBands, PaloaltoBands,
     FortinetBands, SentinelBands DEF Source, Scale

\* An incident on its way has the severity of its level.
LastQueued ==
    last # None => /\ last.level \in Levels(source) /\ last.severity # Dropped
                   /\ last.severity = SeverityOf(source, last.level)

LEMMA QueuedStep ==
  ASSUME LastQueued, [Next]_vars
  PROVE  LastQueued' /\ source' = source
<1>1. CASE Ingest \/ HandleGetIntegrationStatus
  BY <1>1, Listens DEF Listen, LastQueued
<1>2. CASE Tick
  BY <1>2 DEF Tick, LastQueued
<1>3. ASSUME NEW r \in Row, last' = None, HandleCreateIntegration(r) \/ HandleDeleteIntegration(r)
      PROVE  LastQueued' /\ source' = source
  BY <1>3 DEF HandleCreateIntegration, HandleDeleteIntegration, LastQueued
<1>4. ASSUME NEW w \in Watcher, last' = None, Watch(w) PROVE LastQueued' /\ source' = source
  BY <1>4 DEF Watch, scanConnections, endScan, evaluateAndAct, Misread, raiseTelemetryLossAlarm,
              SetAlarmed, AbandonScan, LastQueued
<1>5. CASE UNCHANGED vars
  BY <1>5 DEF vars, LastQueued
<1> QED
  BY <1>1, <1>2, <1>3, <1>4, <1>5 DEF Next

\* Whatever a vendor's scale is like, of two of its events the one it calls worse
\* is not the less severe (the MapToUnified of every connector).
THEOREM WorseIsNotMilder == Spec => SeverityMonotone
<1> DEFINE Rises ==
        last # None /\ last' # None =>
            \/ last.level <= last'.level /\ last.severity <= last'.severity
            \/ last'.level <= last.level /\ last'.severity <= last.severity
<1>1. Init => source \in Source /\ LastQueued
  BY DEF Init, LastQueued
<1>2. source \in Source /\ LastQueued /\ [Next]_vars => (source \in Source /\ LastQueued)'
  BY QueuedStep
<1>3. source \in Source /\ LastQueued /\ [Next]_vars => [Rises]_last
  <2> SUFFICES ASSUME source \in Source, LastQueued, [Next]_vars, last # None, last' # None
               PROVE  \/ last.level <= last'.level /\ last.severity <= last'.severity
                      \/ last'.level <= last.level /\ last'.severity <= last.severity
    OBVIOUS
  <2>1. LastQueued' /\ source' = source
    BY QueuedStep
  <2>2. PICK f, c, w : Bands(source, f, c, w)
    BY InBands
  <2>3. /\ last.level \in Int /\ last.severity = ByBand(last.level, f, c, w)
        /\ last'.level \in Int /\ last'.severity = ByBand(last'.level, f, c, w)
    BY <2>1, <2>2 DEF LastQueued, Bands
  <2>4. f \in Int /\ c \in Int /\ w \in Int /\ w <= c /\ c <= f
    BY <2>2 DEF Bands
  <2>5. last.level <= last'.level \/ last'.level <= last.level
    BY <2>3
  <2> QED
    BY <2>3, <2>4, <2>5, BandsRise
<1> QED
  BY <1>1, <1>2, <1>3, PTL DEF Spec, SeverityMonotone
=============================================================================
