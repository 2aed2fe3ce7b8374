------------------------------ MODULE Connectors ------------------------------
(***************************************************************************)
(* The webhook connectors (internal/connector) and the Sentinel poller as  *)
(* functions: how each vendor's level of an event becomes a severity of the*)
(* pipeline.  Every other field of an incident is copied from the payload. *)
(* Names stand here in one spelling.  The connectors fold the case of what *)
(* they receive, except CloudWatch and Azure Monitor, which compare the    *)
(* vendor's own spelling: another one is Info there.                       *)
(***************************************************************************)
EXTENDS Integers, Sequences

\* model.AlertSeverity, ordered; Dropped is an event that yields no incident.
Dropped == -1
Info == 0
Warning == 1
Critical == 2
Fatal == 3
Severity == Info..Fatal

\* The severity whose set of names holds the word, else Info.
ByWord(word, fatal, critical, warning) ==
    CASE word \in fatal -> Fatal
      [] word \in critical -> Critical
      [] word \in warning -> Warning
      [] OTHER -> Info

\* The severity whose threshold the number reaches, else Info.
ByBand(n, fatal, critical, warning) ==
    CASE n >= fatal -> Fatal
      [] n >= critical /\ n < fatal -> Critical
      [] n >= warning /\ n < critical /\ n < fatal -> Warning
      [] n < warning /\ n < critical /\ n < fatal -> Info

\* Fault: the two upper thresholds of Wazuh swapped.
FaultWazuh(n) ==
    CASE n >= 12 -> Critical
      [] n >= 8 /\ n < 12 -> Fatal
      [] n >= 4 /\ n < 8 -> Warning
      [] n < 4 -> Info

Wazuh(n) == ByBand(n, 12, 8, 4)

\* Log records below ERROR are not incidents.
OTLP(n) == IF n < 17 THEN Dropped ELSE IF n >= 21 THEN Fatal ELSE Critical

\* The name of the severity counts; without one the number does.
CrowdStrike(name, n) ==
    IF name \in {"informational", "low", "medium", "high", "critical"}
    THEN ByWord(name, {"critical"}, {"high"}, {"medium"})
    ELSE ByBand(n, 90, 70, 40)

UptimeKuma(status) == IF status = 0 THEN Critical ELSE Info

Zabbix(word) == ByWord(word, {"disaster"}, {"high"}, {"warning", "average"})

\* Prometheus and Grafana share the Alertmanager form.
Alertmanager(label) == ByWord(label, {"fatal"}, {"critical"}, {"warning", "warn"})

Icinga(state) == ByWord(state, {}, {"critical", "down"}, {"warning", "unknown"})

Opsgenie(priority) == ByWord(priority, {"p1"}, {"p2"}, {"p3"})

\* The urgency counts; without one the priority does.
PagerDuty(urgency, priority) ==
    IF urgency \in {"high", "low"} THEN ByWord(urgency, {}, {"high"}, {"low"})
    ELSE Opsgenie(priority)

AzureMonitor(sev) == ByWord(sev, {"sev0"}, {"sev1"}, {"sev2"})

CloudWatch(state) == ByWord(state, {}, {"alarm"}, {"insufficient_data"})

PaloAlto(sev) == ByWord(sev, {"critical"}, {"high"}, {"medium"})

Fortinet(level) == ByWord(level, {"emergency", "alert"}, {"critical", "error"}, {"warning"})

Sentinel(sev) == ByWord(sev, {}, {"high"}, {"medium"})

\* The levels of each vendor that names them, from the mildest to the worst.
Scale ==
    [zabbix |-> <<"not classified", "information", "warning", "average", "high", "disaster">>,
     prometheus |-> <<"debug", "info", "warn", "warning", "critical", "fatal">>,
     grafana |-> <<"debug", "info", "warn", "warning", "critical", "fatal">>,
     icinga |-> <<"ok", "up", "unknown", "warning", "critical", "down">>,
     opsgenie |-> <<"p5", "p4", "p3", "p2", "p1">>,
     pagerduty |-> <<"low", "high">>,
     azuremonitor |-> <<"sev4", "sev3", "sev2", "sev1", "sev0">>,
     cloudwatch |-> <<"ok", "insufficient_data", "alarm">>,
     crowdstrike |-> <<"informational", "low", "medium", "high", "critical">>,
     paloalto |-> <<"informational", "low", "medium", "high", "critical">>,
     fortinet |-> <<"debug", "information", "notification", "warning", "error", "critical",
                    "alert", "emergency">>,
     sentinel |-> <<"informational", "low", "medium", "high">>]

\* The severity of an event of the given source.  A level is a place on the
\* scale of its vendor or, for Wazuh, OTLP and Uptime Kuma (1 up, 2 down), a
\* number; HandleIngest takes a severity; a type without a connector has none,
\* and Loki, which is only asked whether it is there, none either.
SeverityOf(source, level) ==
    CASE source = "wazuh" -> Wazuh(level)
      [] source = "otlp" -> OTLP(level)
      [] source = "uptimekuma" -> UptimeKuma(2 - level)
      [] source = "generic" -> level
      [] source \in {"loki", "unknown"} -> Info
      [] source = "zabbix" -> Zabbix(Scale.zabbix[level])
      [] source \in {"prometheus", "grafana"} -> Alertmanager(Scale[source][level])
      [] source = "icinga" -> Icinga(Scale.icinga[level])
      [] source = "opsgenie" -> Opsgenie(Scale.opsgenie[level])
      [] source = "pagerduty" -> PagerDuty(Scale.pagerduty[level], "")
      [] source = "azuremonitor" -> AzureMonitor(Scale.azuremonitor[level])
      [] source = "cloudwatch" -> CloudWatch(Scale.cloudwatch[level])
      [] source = "crowdstrike" -> CrowdStrike(Scale.crowdstrike[level], 0)
      [] source = "paloalto" -> PaloAlto(Scale.paloalto[level])
      [] source = "fortinet" -> Fortinet(Scale.fortinet[level])
      [] source = "sentinel" -> Sentinel(Scale.sentinel[level])

Source == DOMAIN Scale \cup {"wazuh", "otlp", "uptimekuma", "generic", "loki", "unknown"}

\* The types no connector of webhooks is registered for: MapRawPayload makes an
\* incident of the mildest severity of whatever they send.
Passthrough == {"sentinel", "generic", "loki", "unknown"}

\* The levels at which the severity changes, and their neighbours.
Levels(source) ==
    CASE source \in DOMAIN Scale -> DOMAIN Scale[source]
      [] source = "wazuh" -> {0, 3, 4, 7, 8, 11, 12, 15}
      [] source = "otlp" -> {9, 16, 17, 20, 21, 24}
      [] source = "uptimekuma" -> {1, 2}
      [] source = "generic" -> Severity
      [] source \in {"loki", "unknown"} -> {0}
=============================================================================
