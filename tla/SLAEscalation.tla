---------------------------- MODULE SLAEscalation ----------------------------
(***************************************************************************)
(* The SLA monitor of worker/sla_escalation.go: every minute it reads the  *)
(* tenant's targets (api/sla_config.go) and unresolved incidents in one    *)
(* transaction, and pages the escalation channels for each incident that is*)
(* over a target, naming who is on call (worker/oncall.go, api/oncall.go). *)
(* A Redis flag per incident and breach keeps it from paging again for     *)
(* Renotify.  Each channel is notified by a goroutine of its own           *)
(* (triggerEscalations), which outlives the step that started it.          *)
(*                                                                         *)
(* Time is counted in ticks.  An age stops counting once it is over every  *)
(* target, so a behaviour can go on for ever in finitely many states.      *)
(***************************************************************************)
EXTENDS Naturals, FiniteSets
LOCAL INSTANCE FiniteSetsExt

CONSTANTS
    Incident, Severity,
    SeverityOf,      \* the severity of each incident
    Default,         \* defaultSLATargets: severity -> [mtta, mttr]
    Custom,          \* target values an administrator may send, valid or not
    Monitor,         \* ids of monitors, one per replica of the API process
    Channel,         \* active escalation channels with a stored credential
    Schedule, Shift, \* on-call schedules and shifts
    ScheduleOf, UserOf,
    Renotify,        \* SLA_ESCALATION_RENOTIFY_SECONDS
    MaxFaults,       \* bound on the faults that can lose a page
    None

Label == {"MTTA", "MTTR"}
Breach == Incident \X Label
User == {UserOf[s] : s \in Shift}
Target == [mtta: Nat, mttr: Nat]

ASSUME SLAAssumption ==
    /\ SeverityOf \in [Incident -> Severity]
    /\ Default \in [Severity -> Target]
    /\ Custom \subseteq Target
    /\ \A s \in Severity : Default[s].mtta <= Default[s].mttr
    /\ ScheduleOf \in [Shift -> Schedule]
    /\ Renotify \in Nat \ {0} /\ MaxFaults \in Nat
    /\ None \notin Breach

VARIABLES
    replicas,   \* the monitors of this deployment: nothing elects one of them
    age,        \* ticks since first_seen
    status,     \* incidents.status, None before the incident exists
    override,   \* tenant_sla: a target or None for each severity
    ttl,        \* sla_escalated:<incident>:<label>: ticks left, 0 when absent
    schedules,  \* rows of oncall_schedules
    shift,      \* per shift: absent, or its window lies ahead, covers now, is over
    pc, snap, todo, cur, who,   \* per monitor: step, rows read, breaches left, breach, on-call
    outbox,     \* notifications a goroutine is about to send
    heard,      \* breaches some channel was notified of
    page,       \* the breach paged by the last step, with its monitor and names
    quiet,      \* ticks since each breach was last paged, up to Renotify
    excused,    \* breaches whose flag a fault has hit since they were paged
    crossed,    \* monitors that found no flag of a breach another one has in hand
                \* and has paged, before or since
    handled,    \* incidents acknowledged or resolved since a monitor read them
    gone,       \* people whose cover ended since a monitor looked them up
    faults

tenant == <<replicas, age, status, override>>
oncall == <<schedules, shift>>
monitor == <<pc, snap, todo, cur, who>>
vars == <<replicas, age, status, override, ttl, schedules, shift, pc, snap, todo, cur, who,
          outbox, heard, page, quiet, excused, crossed, handled, gone, faults>>

\* mergeSLATargets: an override replaces the default of a known severity.
Effective == [s \in Severity |-> IF override[s] = None THEN Default[s] ELSE override[s]]

\* An age over every target any configuration can hold.
Over == Max(UNION {{t.mtta, t.mttr} : t \in Custom \cup {Default[s] : s \in Severity}}) + 1

\* validateSLATarget.
Valid(t) == t.mtta > 0 /\ t.mttr > 0 /\ t.mtta <= t.mttr

\* Fault: an acknowledged incident breaches its MTTA like any other.
FaultIgnoreAck(a, st, t) ==
    IF st = "resolved" THEN "none"
    ELSE IF a > t.mttr THEN "MTTR"
    ELSE IF a > t.mtta THEN "MTTA"
    ELSE "none"

\* evaluateSLABreach: MTTR dominates, an acknowledged incident has met its MTTA.
Evaluate(a, st, t) ==
    IF st = "resolved" THEN "none"
    ELSE IF a > t.mttr THEN "MTTR"
    ELSE IF st # "acknowledged" /\ a > t.mtta THEN "MTTA"
    ELSE "none"

\* Fault: a shift counts until it is deleted, over or not.
FaultStarted == {UserOf[s] : s \in {x \in Shift : shift[x] \in {"now", "over"}}}

\* currentOnCall: everyone whose shift covers now, on any schedule.
OnCall == {UserOf[s] : s \in {x \in Shift : shift[x] = "now"}}

Init ==
    /\ replicas \in SUBSET Monitor \ {{}}
    /\ age = [i \in Incident |-> 0]
    /\ status = [i \in Incident |-> None]
    /\ override = [s \in Severity |-> None]
    /\ ttl = [b \in Breach |-> 0]
    /\ schedules = {} /\ shift = [s \in Shift |-> "absent"]
    /\ pc = [m \in Monitor |-> "idle"]
    /\ snap = [m \in Monitor |-> None]
    /\ todo = [m \in Monitor |-> {}]
    /\ cur = [m \in Monitor |-> None]
    /\ who = [m \in Monitor |-> {}]
    /\ outbox = {} /\ heard = {} /\ page = None
    /\ quiet = [b \in Breach |-> Renotify]
    /\ excused = {} /\ crossed = {}
    /\ handled = [m \in Monitor |-> {}]
    /\ gone = [m \in Monitor |-> {}]
    /\ faults = 0

-----------------------------------------------------------------------------
(* Time, operators and administrators.                                     *)

Tick ==
    /\ age' = [i \in Incident |-> IF status[i] # None /\ age[i] < Over
                                  THEN age[i] + 1 ELSE age[i]]
    /\ ttl' = [b \in Breach |-> IF ttl[b] > 0 THEN ttl[b] - 1 ELSE 0]
    /\ quiet' = [b \in Breach |-> IF quiet[b] < Renotify THEN quiet[b] + 1 ELSE Renotify]
    /\ page' = None
    /\ UNCHANGED <<replicas, status, override, oncall, monitor, outbox, heard, excused,
                   crossed, handled, gone, faults>>

\* The worker pool inserts an incident.
Open(i) ==
    /\ status[i] = None
    /\ status' = [status EXCEPT ![i] = "open"]
    /\ page' = None
    /\ UNCHANGED <<replicas, age, override, ttl, oncall, monitor, outbox, heard, quiet,
                   excused, crossed, handled, gone, faults>>

\* updateIncidentStatus: the UPDATE skips resolved incidents.
UpdateIncidentStatus(i, to) ==
    /\ status[i] \notin {None, "resolved"} /\ status[i] # to
    /\ status' = [status EXCEPT ![i] = to]
    /\ handled' = [m \in Monitor |-> IF pc[m] = "idle" THEN {} ELSE handled[m] \cup {i}]
    /\ page' = None
    /\ UNCHANGED <<replicas, age, override, ttl, oncall, monitor, outbox, heard, quiet,
                   excused, crossed, gone, faults>>

\* HandleSetSLAConfig: all targets of the body are valid, and all are upserted
\* in one transaction; severities not in the body keep theirs.
HandleSetSLAConfig(body) ==
    /\ \E s \in Severity : body[s] # None
    /\ \A s \in Severity : body[s] # None => Valid(body[s])
    /\ override' = [s \in Severity |-> IF body[s] # None THEN body[s] ELSE override[s]]
    /\ page' = None
    /\ UNCHANGED <<replicas, age, status, ttl, oncall, monitor, outbox, heard, quiet,
                   excused, crossed, handled, gone, faults>>

\* The on-call tables become sch and sh.
SetOnCall(sch, sh) ==
    LET ended == {UserOf[s] : s \in {x \in Shift : shift[x] = "now" /\ sh[x] # "now"}} IN
    /\ schedules' = sch /\ shift' = sh
    /\ gone' = [m \in Monitor |-> IF cur[m] = None THEN {} ELSE gone[m] \cup ended]
    /\ page' = None
    /\ UNCHANGED <<tenant, ttl, monitor, outbox, heard, quiet, excused, crossed, handled, faults>>

\* HandleMutateOncallSchedules: POST, and DELETE with its shifts (the cascade).
CreateSchedule(c) == c \notin schedules /\ SetOnCall(schedules \cup {c}, shift)

DeleteSchedule(c) ==
    /\ c \in schedules
    /\ SetOnCall(schedules \ {c},
                 [s \in Shift |-> IF ScheduleOf[s] = c THEN "absent" ELSE shift[s]])

\* HandleMutateOncallShifts: POST checks the schedule in the same transaction;
\* the window of the new shift lies anywhere.
CreateShift(s, window) ==
    /\ shift[s] = "absent" /\ ScheduleOf[s] \in schedules
    /\ SetOnCall(schedules, [shift EXCEPT ![s] = window])

DeleteShift(s) ==
    /\ shift[s] # "absent"
    /\ SetOnCall(schedules, [shift EXCEPT ![s] = "absent"])

\* Now passes a border of the shift's window [starts_at, ends_at).
ShiftBorder(s) ==
    \/ shift[s] = "ahead" /\ SetOnCall(schedules, [shift EXCEPT ![s] = "now"])
    \/ shift[s] = "now" /\ SetOnCall(schedules, [shift EXCEPT ![s] = "over"])

-----------------------------------------------------------------------------
(* The monitor.                                                            *)

\* A fault that can lose a page; MaxFaults bounds them.
Fault == faults < MaxFaults /\ faults' = faults + 1

Goto(m, step) == pc' = [pc EXCEPT ![m] = step]

\* Is another monitor past its page of the breach, with the flag yet to come?
Cross(m, b) ==
    crossed' = IF \E n \in Monitor : pc[n] = "flag" /\ cur[n] = b THEN crossed \cup {m}
               ELSE crossed

\* scanTenantSLABreaches: targets and unresolved incidents in one transaction.
Scan(m) ==
    /\ m \in replicas /\ pc[m] = "idle"
    /\ Goto(m, "read")
    /\ snap' = [snap EXCEPT ![m] =
          [target |-> Effective,
           st |-> [i \in Incident |-> IF status[i] = None THEN "resolved" ELSE status[i]]]]
    /\ handled' = [handled EXCEPT ![m] = {}]
    /\ page' = None
    /\ UNCHANGED <<tenant, ttl, oncall, todo, cur, who, outbox, heard, quiet,
                   excused, crossed, gone, faults>>

\* The clock is read after the transaction, once for all incidents.
EvaluateAll(m) ==
    /\ pc[m] = "read"
    /\ Goto(m, "next")
    /\ LET label(i) == Evaluate(age[i], snap[m].st[i], snap[m].target[SeverityOf[i]])
       IN  todo' = [todo EXCEPT ![m] =
                       {b \in Breach : b[2] = label(b[1])}]
    /\ snap' = [snap EXCEPT ![m] = None]
    /\ page' = None
    /\ UNCHANGED <<tenant, ttl, oncall, cur, who, outbox, heard, quiet, excused, crossed,
                   handled, gone, faults>>

\* Fault: a flag that is found is renewed.
FaultSliding(m, b) ==
    /\ pc[m] = "next" /\ b \in todo[m]
    /\ todo' = [todo EXCEPT ![m] = @ \ {b}]
    /\ \/ /\ ttl[b] > 0
          /\ ttl' = [ttl EXCEPT ![b] = Renotify]
          /\ UNCHANGED <<pc, cur, crossed>>
       \/ /\ ttl[b] = 0
          /\ Goto(m, "lookup") /\ cur' = [cur EXCEPT ![m] = b] /\ Cross(m, b)
          /\ UNCHANGED ttl
    /\ page' = None
    /\ UNCHANGED <<tenant, oncall, snap, who, outbox, heard, quiet, excused,
                   handled, gone, faults>>

\* escalateSLABreach: GET of the flag.
CheckFlag(m, b) ==
    /\ pc[m] = "next" /\ b \in todo[m]
    /\ todo' = [todo EXCEPT ![m] = @ \ {b}]
    /\ \/ ttl[b] > 0 /\ UNCHANGED <<pc, cur, crossed>>
       \/ ttl[b] = 0 /\ Goto(m, "lookup") /\ cur' = [cur EXCEPT ![m] = b] /\ Cross(m, b)
    /\ page' = None
    /\ UNCHANGED <<tenant, ttl, oncall, snap, who, outbox, heard, quiet, excused,
                   handled, gone, faults>>

\* A GET that fails reads as no flag.
MisreadFlag(m, b) ==
    /\ pc[m] = "next" /\ b \in todo[m] /\ ttl[b] > 0
    /\ Fault
    /\ todo' = [todo EXCEPT ![m] = @ \ {b}]
    /\ Goto(m, "lookup")
    /\ cur' = [cur EXCEPT ![m] = b] /\ Cross(m, b)
    /\ excused' = excused \cup {b}
    /\ page' = None
    /\ UNCHANGED <<tenant, ttl, oncall, snap, who, outbox, heard, quiet,
                   handled, gone>>

EndScan(m) ==
    /\ pc[m] = "next" /\ todo[m] = {}
    /\ Goto(m, "idle")
    /\ handled' = [handled EXCEPT ![m] = {}]
    /\ page' = None
    /\ UNCHANGED <<tenant, ttl, oncall, snap, todo, cur, who, outbox, heard,
                   quiet, excused, crossed, gone, faults>>

\* currentOnCall in a transaction of its own; a failure leaves nobody to name.
LookUp(m) ==
    /\ pc[m] = "lookup"
    /\ Goto(m, "page")
    /\ \E names \in {OnCall, {}} : who' = [who EXCEPT ![m] = names]
    /\ gone' = [gone EXCEPT ![m] = {}]
    /\ page' = None
    /\ UNCHANGED <<tenant, ttl, oncall, snap, todo, cur, outbox, heard, quiet,
                   excused, crossed, handled, faults>>

\* triggerEscalations: one goroutine per active channel, or none when the
\* SELECT of the channels fails.  The monitor goes on either way.
TriggerEscalations(m) ==
    /\ pc[m] = "page"
    /\ Goto(m, "flag")
    /\ \/ outbox' = outbox \cup {<<cur[m], c, m>> : c \in Channel} /\ UNCHANGED faults
       \/ Fault /\ UNCHANGED outbox
    /\ page' = [breach |-> cur[m], by |-> m, names |-> who[m]]
    /\ quiet' = [quiet EXCEPT ![cur[m]] = 0]
    /\ crossed' = crossed \cup {n \in Monitor \ {m} : cur[n] = cur[m]}
    /\ UNCHANGED <<tenant, ttl, oncall, snap, todo, cur, who, heard, excused,
                   handled, gone>>

\* Fault: the flag lasts less than the window.
FaultShortFlag(m) ==
    /\ pc[m] = "flag"
    /\ ttl' = [ttl EXCEPT ![cur[m]] = Renotify - 1]
    /\ excused' = excused \ {cur[m]}

\* The SET of the flag, after a comment whose failure is only logged.
StoreFlag(m) ==
    /\ pc[m] = "flag"
    /\ ttl' = [ttl EXCEPT ![cur[m]] = Renotify]
    /\ excused' = excused \ {cur[m]}

\* The SET fails; the error is dropped.
LoseFlag(m) ==
    /\ pc[m] = "flag" /\ Fault
    /\ excused' = excused \cup {cur[m]}
    /\ UNCHANGED ttl

SetFlag(m) ==
    /\ \/ StoreFlag(m) /\ UNCHANGED faults
       \/ LoseFlag(m)
    /\ Goto(m, "next")
    /\ cur' = [cur EXCEPT ![m] = None]
    /\ who' = [who EXCEPT ![m] = {}]
    /\ gone' = [gone EXCEPT ![m] = {}]
    /\ crossed' = crossed \ {m}
    /\ page' = None
    /\ UNCHANGED <<tenant, oncall, snap, todo, outbox, heard, quiet, handled>>

\* A notifier call ends: the vendor accepted it, or the credential, the call
\* or its five seconds failed, which is logged and not tried again.
Deliver(n) ==
    /\ n \in outbox
    /\ outbox' = outbox \ {n}
    /\ \/ heard' = heard \cup {n[1]} /\ UNCHANGED faults
       \/ Fault /\ UNCHANGED heard
    /\ page' = None
    /\ UNCHANGED <<tenant, ttl, oncall, monitor, quiet, excused, crossed, handled, gone>>

\* The process of a monitor dies with its goroutines; the ticker starts anew.
Crash(m) ==
    /\ m \in replicas /\ Fault
    /\ Goto(m, "idle")
    /\ snap' = [snap EXCEPT ![m] = None]
    /\ todo' = [todo EXCEPT ![m] = {}]
    /\ cur' = [cur EXCEPT ![m] = None]
    /\ who' = [who EXCEPT ![m] = {}]
    /\ outbox' = {n \in outbox : n[3] # m}
    /\ crossed' = crossed \ {m}
    /\ excused' = IF pc[m] = "flag" THEN excused \cup {cur[m]} ELSE excused
    /\ handled' = [handled EXCEPT ![m] = {}]
    /\ gone' = [gone EXCEPT ![m] = {}]
    /\ page' = None
    /\ UNCHANGED <<tenant, ttl, oncall, heard, quiet>>

MonitorStep(m) ==
    \/ Scan(m) \/ EvaluateAll(m) \/ EndScan(m)
    \/ \E b \in Breach : CheckFlag(m, b) \/ MisreadFlag(m, b)
    \/ LookUp(m) \/ TriggerEscalations(m) \/ SetFlag(m)

Next ==
    \/ Tick
    \/ \E i \in Incident : Open(i) \/ \E to \in {"acknowledged", "resolved"} : UpdateIncidentStatus(i, to)
    \/ \E body \in [Severity -> Custom \cup {None}] : HandleSetSLAConfig(body)
    \/ \E c \in Schedule : CreateSchedule(c) \/ DeleteSchedule(c)
    \/ \E s \in Shift : DeleteShift(s) \/ ShiftBorder(s)
                        \/ \E w \in {"ahead", "now", "over"} : CreateShift(s, w)
    \/ \E m \in Monitor : MonitorStep(m) \/ Crash(m)
    \/ \E n \in Breach \X Channel \X Monitor : Deliver(n)

Spec == Init /\ [][Next]_vars

\* Time passes, the monitor's loop runs (its ticker fires every minute), and
\* each notifier call ends, by its timeout at the latest.
Fairness ==
    /\ WF_vars(Tick)
    /\ \A m \in Monitor : WF_vars(MonitorStep(m))
    /\ WF_vars(\E n \in Breach \X Channel \X Monitor : Deliver(n))

-----------------------------------------------------------------------------
(* Properties.                                                             *)

\* The breach of incident i now, under the targets in force now.
BreachOf(i) ==
    IF status[i] = None THEN "none"
    ELSE Evaluate(age[i], status[i], Effective[SeverityOf[i]])

\* "once per breach, suppressing re-pages within the renotify window": a breach
\* is not paged again within the window, by this replica or by another, unless
\* its flag could not be written or read, or a monitor died before writing it, or
\* the two replicas crossed: one looked for the flag before the other, which
\* pages too, had written it.
QuietWindow ==
    [][page' # None => \/ quiet[page'.breach] = Renotify
                       \/ page'.breach \in excused
                       \/ page'.by \in crossed]_vars

\* Nobody is paged about an incident resolved, or for an acknowledgement that
\* was given, before the monitor read the incidents.
PageJustified ==
    [][page' # None =>
        LET i == page'.breach[1] IN
        \/ i \in handled[page'.by]
        \/ status[i] = "open"
        \/ status[i] = "acknowledged" /\ page'.breach[2] = "MTTR"]_vars

\* A page names only people on call, or whose cover ended while it was prepared.
NamesOnCall ==
    [][page' # None => \A u \in page'.names :
        u \in gone[page'.by] \/ \E s \in Shift : UserOf[s] = u /\ shift[s] = "now"]_vars

\* An incident that stays over a target is heard of by someone, whatever
\* single page is lost: the flag expires and the page is sent again.
BreachHeard ==
    \A i \in Incident :
        /\ BreachOf(i) # "none" ~> BreachOf(i) = "none" \/ \E l \in Label : <<i, l>> \in heard
        /\ BreachOf(i) = "MTTR" ~> BreachOf(i) # "MTTR" \/ <<i, "MTTR">> \in heard

=============================================================================
