------------------------------- MODULE EdgeAgent -------------------------------
(***************************************************************************)
(* The cycle of an enrolled noc-agent (cmd/noc-agent/main.go) and what the *)
(* server makes of it (api/agent_handler.go, agent_metrics.go,             *)
(* agent_interfaces.go, agent_discovery.go): poll the configuration, poll  *)
(* the device, push events, metrics and interface rates, and now and then  *)
(* sweep the network.                                                      *)
(*                                                                         *)
(* There is one device, with several checks and one interface, and one     *)
(* agent; what other agents of the tenant report of the same device arrives*)
(* at any time.  agents.last_seen, the agent heartbeat and the metric      *)
(* series are written only, and are left out.  Time is left out as well: a *)
(* rate is the octets it claims for the time since the previous sample.    *)
(***************************************************************************)
EXTENDS Naturals, FiniteSets

CONSTANTS
    Check,      \* checks of the device's SNMP target
    Width,      \* octet counters count modulo this, at least 1
    MaxOctets,  \* bound on the octets between two samples
    None

\* The events of a poll: a breached check, or unreachable.
Event == Check \cup {"unreachable"}

VARIABLES
    up, hot, counter,   \* the device: answers, its breached checks, its octets
    targets, ranges,    \* the SNMP target and the discovery range are configured
    fits,       \* the checks of the target fit one request of gosnmp (60 OIDs)
    at,         \* what the agent is doing
    cfg,        \* the configuration of this cycle
    events,     \* the events to push
    prev,       \* InterfaceCollector.prev: the counter of the previous walk
    due,        \* discoveryInterval has passed since lastDiscovery
    batch,      \* the discovery batch to push
    pushed,     \* events the last step queued
    rate,       \* the rate the last step wrote to agent_interfaces, or None
    row,        \* discovered_devices: the device's row, or None
    moved,      \* octets since the previous walk
    garbled     \* that walk could not read the counter, and noted a zero

device == <<up, hot, counter>>
config == <<targets, ranges, fits>>
collector == <<prev, moved, garbled>>
output == <<pushed, rate>>
vars == <<device, config, at, cfg, events, due, batch, output, row, collector>>

Init ==
    /\ up \in BOOLEAN /\ hot = {} /\ counter = 0
    /\ targets \in BOOLEAN /\ ranges \in BOOLEAN /\ fits \in BOOLEAN
    /\ at = "down"
    /\ cfg = None /\ events = {} /\ batch = None
    /\ prev = None /\ moved = 0 /\ garbled = FALSE
    /\ due = TRUE
    /\ pushed = {} /\ rate = None /\ row = None

\* Most steps queue nothing and write no rate.
NoOutput == pushed' = {} /\ rate' = None

-----------------------------------------------------------------------------
(* The device and the administrator.                                       *)

Change ==
    /\ \/ up' = ~up /\ UNCHANGED <<hot, counter>>
       \/ \E c \in Check : /\ hot' = (hot \cup {c}) \ (hot \cap {c})
                           /\ UNCHANGED <<up, counter>>
       \/ counter # 0 /\ counter' = 0 /\ UNCHANGED <<up, hot>>
    /\ NoOutput
    /\ UNCHANGED <<config, at, cfg, events, due, batch, row, collector>>

Traffic ==
    /\ moved < MaxOctets
    /\ counter' = (counter + 1) % Width
    /\ moved' = moved + 1
    /\ NoOutput
    /\ UNCHANGED <<up, hot, config, at, cfg, events, due, batch, row, prev, garbled>>

HandleMutateSNMPTargets ==
    /\ targets' = ~targets
    /\ NoOutput
    /\ UNCHANGED <<device, ranges, fits, at, cfg, events, due, batch, row, collector>>

HandleMutateDiscoveryTargets ==
    /\ ranges' = ~ranges
    /\ NoOutput
    /\ UNCHANGED <<device, targets, fits, at, cfg, events, due, batch, row, collector>>

-----------------------------------------------------------------------------
(* The agent.  A push may fail on its way, on the server, or on the way    *)
(* back, when it has had its effect.                                       *)

Start ==
    /\ at = "down"
    /\ at' = "idle" /\ due' = TRUE
    /\ NoOutput
    /\ UNCHANGED <<device, config, cfg, events, batch, row, collector>>

\* The process ends; the history of the collector with it.  An agent whose key is
\* revoked is as good as down: nothing it sends is accepted.
Crash ==
    /\ at # "down"
    /\ at' = "down" /\ cfg' = None /\ events' = {} /\ batch' = None
    /\ prev' = None /\ moved' = 0 /\ garbled' = FALSE
    /\ NoOutput
    /\ UNCHANGED <<device, config, due, row>>

\* runCycle: GetConfig, with HandleGetAgentConfig, which answers with an empty
\* list when it cannot read the targets, or the ranges.
GetConfig ==
    /\ at = "idle"
    /\ at' = "collect"
    /\ \E t \in {targets, FALSE}, d \in {ranges, FALSE} : cfg' = [snmp |-> t, discovery |-> d]
    /\ NoOutput
    /\ UNCHANGED <<device, config, events, due, batch, row, collector>>

\* Fault: a device that does not answer is passed over.
FaultSilent(answered, unread) ==
    IF cfg.snmp /\ answered /\ fits THEN hot \ unread ELSE {}

\* The events of a poll that is answered or not, and may lack some values.  One
\* Get asks for everything, and gosnmp refuses it when that is too much: nothing
\* caps the checks of a target, and one too large looks like a silent device.
Poll(answered, unread) ==
    CASE ~cfg.snmp                         -> {}
      [] cfg.snmp /\ ~(answered /\ fits)   -> {"unreachable"}
      [] cfg.snmp /\ answered /\ fits      -> hot \ unread

\* Collect: the answer of a device that is up may be lost.
Collect ==
    /\ at = "collect"
    /\ \E answered \in {up, FALSE}, unread \in SUBSET Check : events' = Poll(answered, unread)
    /\ at' = "events"
    /\ NoOutput
    /\ UNCHANGED <<device, config, cfg, due, batch, row, collector>>

\* SendEvents and HandleAgentEvents: the events are queued one by one until one
\* fails.  Unless all went well the cycle ends here.
SendEvents ==
    /\ at = "events"
    /\ \E queued \in SUBSET events, ok \in BOOLEAN :
        /\ ok => queued = events
        /\ pushed' = queued
        /\ at' = IF ok THEN "interfaces" ELSE "idle"
        /\ cfg' = IF ok THEN cfg ELSE None
    /\ events' = {} /\ rate' = None
    /\ UNCHANGED <<device, config, due, batch, row, collector>>

\* Fault: the counter is 64 bits wide, and so is the difference.
FaultWrap(p, c) == (c + Width - p) % Width

\* computeBps: a counter that went backwards is a reset.
ComputeBps(p, c) == IF c < p THEN 0 ELSE c - p

\* InterfaceCollector.Collect, SendInterfaces and HandleAgentInterfaces (after
\* SendMetrics, whose failure changes nothing): a walk that does not answer
\* drops the history; a column that cannot be read counts as zero.
Interfaces ==
    /\ at = "interfaces"
    /\ \/ ~cfg.snmp /\ rate' = None /\ UNCHANGED collector
       \/ /\ cfg.snmp
          /\ prev' = None /\ moved' = 0 /\ garbled' = FALSE
          /\ rate' = None
       \/ /\ cfg.snmp /\ up
          /\ \E readable \in BOOLEAN :
                LET c == IF readable THEN counter ELSE 0 IN
                /\ prev' = c /\ moved' = 0 /\ garbled' = ~readable
                /\ \/ rate' = None
                   \/ rate' = IF prev = None THEN 0 ELSE ComputeBps(prev, c)
    /\ at' = "discover"
    /\ pushed' = {}
    /\ UNCHANGED <<device, config, cfg, events, due, batch, row>>

\* What a device says of itself: Probe takes any of the three values it asks for.
Own == {"named", "partial"}

\* Discover, when it is due: the device answers a probe, with its name or with
\* part of what was asked; or it does not, and a neighbour may have it in its ARP
\* cache.
Sweep ==
    /\ at = "discover" /\ cfg.discovery /\ due
    /\ due' = FALSE
    /\ \/ up /\ batch' \in Own /\ at' = "push"
       \/ batch' = "endpoint" /\ at' = "push"
       \/ batch' = None /\ at' = "idle"
    /\ cfg' = None
    /\ NoOutput
    /\ UNCHANGED <<device, config, events, row, collector>>

SkipSweep ==
    /\ at = "discover" /\ ~(cfg.discovery /\ due)
    /\ at' = "idle" /\ cfg' = None
    /\ NoOutput
    /\ UNCHANGED <<device, config, events, due, batch, row, collector>>

DiscoveryDue ==
    /\ ~due
    /\ due' = TRUE
    /\ NoOutput
    /\ UNCHANGED <<device, config, at, cfg, events, batch, row, collector>>

\* Fault: an upsert is an upsert.
FaultOverwrite(r, s) == s

\* The upserts of HandleAgentDiscovery: an SNMP answer replaces the row, with a
\* partial one its name too; an ARP entry makes one only where there is none.
Upsert(r, s) == IF s \in Own \/ r = None THEN s ELSE r

\* SendDiscovery and HandleAgentDiscovery: in one transaction, or not at all.
SendDiscovery ==
    /\ at = "push"
    /\ row' \in {row, Upsert(row, batch)}
    /\ at' = "idle" /\ batch' = None
    /\ NoOutput
    /\ UNCHANGED <<device, config, cfg, events, due, collector>>

\* Another agent of the tenant reports what it once saw.
OtherAgent ==
    /\ \E sighting \in Own \cup {"endpoint"} : row' = Upsert(row, sighting)
    /\ NoOutput
    /\ UNCHANGED <<device, config, at, cfg, events, due, batch, collector>>

Cycle ==
    GetConfig \/ Collect \/ SendEvents \/ Interfaces \/ Sweep \/ SkipSweep \/ SendDiscovery

Next ==
    \/ Change \/ Traffic \/ OtherAgent
    \/ HandleMutateSNMPTargets \/ HandleMutateDiscoveryTargets
    \/ Start \/ Crash \/ Cycle \/ DiscoveryDue

\* The agent goes on as long as it runs; a configuration that is read, a poll by
\* it that loses no answer, and a push of an event that gets through, happen again
\* and again when tried again and again.
Fairness ==
    /\ WF_vars(Cycle)
    /\ SF_vars(GetConfig /\ cfg'.snmp = targets)
    /\ SF_vars(Collect /\ cfg.snmp = targets /\ events' = Poll(up, {}))
    /\ \A e \in Event : SF_vars(SendEvents /\ e \in events /\ at' = "interfaces")

Spec == Init /\ [][Next]_vars /\ Fairness

-----------------------------------------------------------------------------
(* Properties.                                                             *)

\* A device once known by its own answer stays known by one: an ARP entry of this
\* or another agent never turns it into an endpoint.  (A partial answer may well
\* overwrite its name.)
IdentityKept ==
    row \in Own => row' \in Own

\* A rate never claims more octets than passed, whatever resets, wraps and
\* missed walks lie between two samples; except just after a walk that answered
\* but could not read the counter.
RateHonest ==
    rate' # None /\ ~garbled => rate' <= moved

\* What the topology shows of a device is never worse than what is known of it
\* (HandleAgentDiscovery) and never made up (computeBps, buildInterfaceStats).
TopologyHonest == [][IdentityKept /\ RateHonest]_vars

Persistent(e) ==
    /\ targets /\ at # "down"
    /\ IF e = "unreachable" THEN ~(up /\ fits) ELSE up /\ fits /\ e \in hot

\* A condition that lasts, on a device that stays configured, is reported again
\* and again as long as the agent is up, whatever batches fail half way (Collect,
\* SendEvents, HandleAgentEvents): a cycle that is cut short does not lose it.  Of
\* a target too large for one request it is that it cannot be reached.
BreachReported ==
    \A e \in Event : <>[]Persistent(e) => []<>(e \in pushed)
=============================================================================
