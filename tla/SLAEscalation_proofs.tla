------------------------- MODULE SLAEscalation_proofs -------------------------
(***************************************************************************)
(* What a page may say and when it may come, for any number of incidents,  *)
(* shifts, channels and monitors, any targets and any number of faults.    *)
(***************************************************************************)
EXTENDS SLAEscalation, TLAPS

Step == {"idle", "read", "next", "lookup", "page", "flag"}
Paging == {"lookup", "page", "flag"}

\* A monitor has a breach in hand when it pages it.
MonitorTyped ==
    /\ pc \in [Monitor -> Step]
    /\ todo \in [Monitor -> SUBSET Breach]
    /\ DOMAIN cur = Monitor /\ DOMAIN who = Monitor /\ DOMAIN snap = Monitor
    /\ DOMAIN handled = Monitor /\ DOMAIN gone = Monitor
    /\ \A m \in Monitor : pc[m] \in Paging => cur[m] \in Breach

TablesTyped ==
    /\ DOMAIN status = Incident /\ DOMAIN shift = Shift
    /\ ttl \in [Breach -> Nat] /\ quiet \in [Breach -> 0..Renotify]

Typed == MonitorTyped /\ TablesTyped

\* The steps of the on-call tables.
Roster ==
    \/ \E c \in Schedule : CreateSchedule(c) \/ DeleteSchedule(c)
    \/ \E s \in Shift : DeleteShift(s) \/ ShiftBorder(s)
                        \/ \E w \in {"ahead", "now", "over"} : CreateShift(s, w)

LEMMA RosterSets ==
    ASSUME Roster, DOMAIN shift = Shift
    PROVE  \E sch, sh : DOMAIN sh = Shift /\ SetOnCall(sch, sh)
<1>1. ASSUME NEW c \in Schedule, CreateSchedule(c) \/ DeleteSchedule(c)
      PROVE  \E sch, sh : DOMAIN sh = Shift /\ SetOnCall(sch, sh)
  <2>1. CASE CreateSchedule(c)
    BY <2>1 DEF CreateSchedule
  <2>2. CASE DeleteSchedule(c)
    <3> DEFINE sh == [s \in Shift |-> IF ScheduleOf[s] = c THEN "absent" ELSE shift[s]]
    <3>1. DOMAIN sh = Shift /\ SetOnCall(schedules \ {c}, sh)
      BY <2>2 DEF DeleteSchedule
    <3> QED
      BY <3>1
  <2> QED
    BY <1>1, <2>1, <2>2
<1>2. ASSUME NEW s \in Shift, NEW w, SetOnCall(schedules, [shift EXCEPT ![s] = w])
      PROVE  \E sch, sh : DOMAIN sh = Shift /\ SetOnCall(sch, sh)
  <2>1. DOMAIN [shift EXCEPT ![s] = w] = Shift
    OBVIOUS
  <2> QED
    BY <1>2, <2>1
<1>3. ASSUME NEW s \in Shift,
             DeleteShift(s) \/ ShiftBorder(s) \/ \E w \in {"ahead", "now", "over"} : CreateShift(s, w)
      PROVE  \E w : SetOnCall(schedules, [shift EXCEPT ![s] = w])
  BY <1>3 DEF DeleteShift, ShiftBorder, CreateShift
<1> QED
  BY <1>1, <1>2, <1>3 DEF Roster

LEMMA InitTyped == Init => Typed
  BY SLAAssumption DEF Init, Typed, MonitorTyped, TablesTyped, Step, Paging

LEMMA StepTyped == Typed /\ [Next]_vars => Typed'
<1> SUFFICES ASSUME Typed, [Next]_vars PROVE Typed'
  OBVIOUS
<1> USE SLAAssumption
        DEF Typed, MonitorTyped, TablesTyped, Step, Paging, tenant, oncall, monitor, Goto
<1>1. CASE Tick
  BY <1>1 DEF Tick
<1>2. ASSUME NEW i \in Incident, Open(i) PROVE Typed'
  BY <1>2 DEF Open
<1>3. ASSUME NEW i \in Incident, NEW to, UpdateIncidentStatus(i, to) PROVE Typed'
  BY <1>3 DEF UpdateIncidentStatus
<1>4. ASSUME NEW body, HandleSetSLAConfig(body) PROVE Typed'
  BY <1>4 DEF HandleSetSLAConfig
<1>5. ASSUME NEW sch, NEW sh, DOMAIN sh = Shift, SetOnCall(sch, sh) PROVE Typed'
  BY <1>5 DEF SetOnCall
<1>6. ASSUME NEW m \in Monitor, Scan(m) \/ EndScan(m) PROVE Typed'
  BY <1>6 DEF Scan, EndScan
<1>7. ASSUME NEW m \in Monitor, EvaluateAll(m) PROVE Typed'
  BY <1>7 DEF EvaluateAll
<1>8. ASSUME NEW m \in Monitor, NEW b \in Breach, CheckFlag(m, b) \/ MisreadFlag(m, b)
      PROVE  Typed'
  BY <1>8 DEF CheckFlag, MisreadFlag
<1>9. ASSUME NEW m \in Monitor, LookUp(m) PROVE Typed'
  BY <1>9 DEF LookUp
<1>10. ASSUME NEW m \in Monitor, TriggerEscalations(m) PROVE Typed'
  BY <1>10 DEF TriggerEscalations
<1>11. ASSUME NEW m \in Monitor, SetFlag(m) PROVE Typed'
  BY <1>11 DEF SetFlag, StoreFlag, LoseFlag
<1>12. ASSUME NEW m \in Monitor, Crash(m) PROVE Typed'
  BY <1>12 DEF Crash
<1>13. ASSUME NEW n, Deliver(n) PROVE Typed'
  BY <1>13 DEF Deliver
<1>14. CASE UNCHANGED vars
  BY <1>14 DEF vars
<1>15. CASE Roster
  BY <1>5, <1>15, RosterSets
<1> QED
  BY <1>1, <1>2, <1>3, <1>4, <1>6, <1>7, <1>8, <1>9, <1>10, <1>11, <1>12, <1>13, <1>14, <1>15
     DEF Next, MonitorStep, Roster

-----------------------------------------------------------------------------
(* Why a page is sent.                                                     *)

\* A breach that deserves its page, or whose incident was handled since the
\* monitor read it.
Deserved(m, b) ==
    \/ b[1] \in handled[m]
    \/ status[b[1]] = "open"
    \/ status[b[1]] = "acknowledged" /\ b[2] = "MTTR"

\* The rows a monitor read, and the breaches it found in them.
Evidence ==
    \A m \in Monitor :
        /\ pc[m] = "read" => \A i \in Incident :
              /\ snap[m].st[i] \in {"resolved", "acknowledged", "open"}
              /\ snap[m].st[i] = "open" => i \in handled[m] \/ status[i] = "open"
              /\ snap[m].st[i] = "acknowledged" =>
                    i \in handled[m] \/ status[i] \in {"open", "acknowledged"}
        /\ pc[m] \notin {"idle", "read"} => \A b \in todo[m] : Deserved(m, b)
        /\ pc[m] \in {"lookup", "page"} => Deserved(m, cur[m])

StatusTyped == status \in [Incident -> {None, "open", "acknowledged", "resolved"}]

JustInv == Typed /\ StatusTyped /\ Evidence

LEMMA InitJust == Init => JustInv
  BY InitTyped DEF Init, JustInv, StatusTyped, Evidence, Breach

\* Where no table and no memory of a monitor changes, its evidence stands.
LEMMA EvidenceStands ==
    ASSUME Typed, StatusTyped, Evidence, UNCHANGED <<status, pc, snap, todo, cur, handled>>
    PROVE  StatusTyped' /\ Evidence'
  BY DEF StatusTyped, Evidence, Deserved

LEMMA StepJust == JustInv /\ [Next]_vars => JustInv'
<1> SUFFICES ASSUME JustInv, [Next]_vars PROVE JustInv'
  OBVIOUS
<1>0. Typed /\ Typed' /\ StatusTyped /\ Evidence
  BY StepTyped DEF JustInv
<1> SUFFICES StatusTyped' /\ Evidence'
  BY <1>0 DEF JustInv
<1> USE DEF tenant, oncall, monitor, Goto
<1>1. CASE Tick
  BY <1>0, <1>1, EvidenceStands DEF Tick
<1>2. ASSUME NEW i \in Incident, Open(i) PROVE StatusTyped' /\ Evidence'
  <2>1. StatusTyped' /\ status' = [status EXCEPT ![i] = "open"]
    BY <1>0, <1>2 DEF Open, StatusTyped
  <2> QED
    BY <2>1, <1>0, <1>2
       DEF Open, StatusTyped, Evidence, Deserved, Typed, MonitorTyped, Step, Paging, Breach
<1>3. ASSUME NEW i \in Incident, NEW to \in {"acknowledged", "resolved"},
             UpdateIncidentStatus(i, to)
      PROVE  StatusTyped' /\ Evidence'
  <2>1. StatusTyped' /\ \A j \in Incident : j # i => status'[j] = status[j]
    BY <1>0, <1>3 DEF UpdateIncidentStatus, StatusTyped
  <2>2. \A m \in Monitor : pc[m] # "idle" => handled'[m] = handled[m] \cup {i}
    BY <1>0, <1>3 DEF UpdateIncidentStatus
  <2>3. \A m \in Monitor, b \in Breach :
            pc[m] # "idle" /\ Deserved(m, b) => Deserved(m, b)'
    BY <2>1, <2>2 DEF Deserved, Breach
  <2> QED
    BY <2>1, <2>2, <2>3, <1>0, <1>3
       DEF UpdateIncidentStatus, Evidence, Typed, MonitorTyped, Step, Paging
<1>4. ASSUME NEW body, HandleSetSLAConfig(body) PROVE StatusTyped' /\ Evidence'
  BY <1>0, <1>4, EvidenceStands DEF HandleSetSLAConfig
<1>5. ASSUME NEW sch, NEW sh, SetOnCall(sch, sh) PROVE StatusTyped' /\ Evidence'
  BY <1>0, <1>5, EvidenceStands DEF SetOnCall
<1>6. ASSUME NEW m \in Monitor, Scan(m) PROVE StatusTyped' /\ Evidence'
  BY <1>0, <1>6 DEF Scan, StatusTyped, Evidence, Deserved, Typed, MonitorTyped, Step, Paging
<1>7. ASSUME NEW m \in Monitor, EvaluateAll(m) PROVE StatusTyped' /\ Evidence'
  <2>1. \A b \in todo'[m] : Deserved(m, b)
    <3> SUFFICES ASSUME NEW b \in todo'[m] PROVE Deserved(m, b)
      OBVIOUS
    <3>1. b \in Breach
      BY <1>0, <1>7 DEF EvaluateAll, Typed, MonitorTyped
    <3>2. b[1] \in Incident /\ b[2] \in {"MTTA", "MTTR"}
      BY <3>1 DEF Breach, Label
    <3>3. b[2] = Evaluate(age[b[1]], snap[m].st[b[1]], snap[m].target[SeverityOf[b[1]]])
      BY <1>0, <1>7 DEF EvaluateAll, Typed, MonitorTyped
    <3>4. \/ snap[m].st[b[1]] = "open"
          \/ snap[m].st[b[1]] = "acknowledged" /\ b[2] = "MTTR"
      BY <1>0, <1>7, <3>2, <3>3 DEF EvaluateAll, Evidence, Evaluate
    <3> QED
      BY <1>0, <1>7, <3>2, <3>4 DEF EvaluateAll, Evidence, Deserved
  <2>2. UNCHANGED <<status, handled, cur>>
    BY <1>7 DEF EvaluateAll
  <2>3. \A b \in todo'[m] : Deserved(m, b)'
    BY <2>1, <2>2 DEF Deserved
  <2> QED
    BY <2>2, <2>3, <1>0, <1>7
       DEF EvaluateAll, StatusTyped, Evidence, Deserved, Typed, MonitorTyped, Step, Paging
<1>8. ASSUME NEW m \in Monitor, NEW b \in Breach, CheckFlag(m, b) \/ MisreadFlag(m, b)
      PROVE  StatusTyped' /\ Evidence'
  BY <1>0, <1>8
     DEF CheckFlag, MisreadFlag, StatusTyped, Evidence, Deserved, Typed, MonitorTyped, Step, Paging
<1>9. ASSUME NEW m \in Monitor, LookUp(m) PROVE StatusTyped' /\ Evidence'
  BY <1>0, <1>9
     DEF LookUp, StatusTyped, Evidence, Deserved, Typed, MonitorTyped, Step, Paging
<1>15. ASSUME NEW m \in Monitor, TriggerEscalations(m) PROVE StatusTyped' /\ Evidence'
  BY <1>0, <1>15
     DEF TriggerEscalations, StatusTyped, Evidence, Deserved, Typed, MonitorTyped, Step, Paging
<1>10. ASSUME NEW m \in Monitor, SetFlag(m) PROVE StatusTyped' /\ Evidence'
  BY <1>0, <1>10
     DEF SetFlag, StoreFlag, LoseFlag, StatusTyped, Evidence, Deserved, Typed, MonitorTyped, Step,
         Paging
<1>11. ASSUME NEW m \in Monitor, EndScan(m) \/ Crash(m) PROVE StatusTyped' /\ Evidence'
  BY <1>0, <1>11
     DEF EndScan, Crash, StatusTyped, Evidence, Deserved, Typed, MonitorTyped, Step, Paging
<1>12. ASSUME NEW n, Deliver(n) PROVE StatusTyped' /\ Evidence'
  BY <1>0, <1>12, EvidenceStands DEF Deliver
<1>13. CASE UNCHANGED vars
  BY <1>0, <1>13, EvidenceStands DEF vars
<1>14. CASE Roster
  BY <1>0, <1>5, <1>14, RosterSets DEF Typed, TablesTyped
<1> QED
  BY <1>1, <1>2, <1>3, <1>4, <1>6, <1>7, <1>8, <1>9, <1>10, <1>11, <1>12, <1>13, <1>14, <1>15
     DEF Next, MonitorStep, Roster

\* Only triggerEscalations pages.
LEMMA OnlyTriggers ==
    ASSUME [Next]_vars, ~UNCHANGED vars, page' # None, DOMAIN shift = Shift
    PROVE  \E m \in Monitor : TriggerEscalations(m)
<1>1. ASSUME Roster PROVE FALSE
  BY <1>1, RosterSets DEF SetOnCall
<1> QED
  BY <1>1
     DEF Next, MonitorStep, Roster, Tick, Open, UpdateIncidentStatus, HandleSetSLAConfig, Scan,
         EvaluateAll, CheckFlag, MisreadFlag, EndScan, LookUp, SetFlag, Deliver, Crash

\* Nobody is paged about what had been acknowledged or resolved when the
\* monitor read it, with any number of monitors and incidents.
THEOREM PagesAreJustified == Spec => PageJustified
<1> DEFINE Justified ==
        page' # None =>
            LET i == page'.breach[1] IN
            \/ i \in handled[page'.by]
            \/ status[i] = "open"
            \/ status[i] = "acknowledged" /\ page'.breach[2] = "MTTR"
<1>1. JustInv /\ [Next]_vars => [Justified]_vars
  <2> SUFFICES ASSUME JustInv, [Next]_vars, page' # None, ~UNCHANGED vars PROVE Justified
    OBVIOUS
  <2>1. PICK m \in Monitor : TriggerEscalations(m)
    BY OnlyTriggers DEF JustInv, Typed, TablesTyped
  <2>2. page'.breach = cur[m] /\ page'.by = m /\ Deserved(m, cur[m])
    BY <2>1 DEF TriggerEscalations, JustInv, Evidence
  <2> QED
    BY <2>2 DEF Deserved
<1> QED
  BY <1>1, InitJust, StepJust, PTL DEF Spec, PageJustified

-----------------------------------------------------------------------------
(* Whom a page names.                                                      *)

Covered(u) == \E s \in Shift : UserOf[s] = u /\ shift[s] = "now"

\* The names a monitor holds are on call, or their cover ended meanwhile.
NamesInv ==
    Typed /\ \A m \in Monitor : pc[m] = "page" => \A u \in who[m] : u \in gone[m] \/ Covered(u)

LEMMA InitNames == Init => NamesInv
  BY InitTyped DEF Init, NamesInv

LEMMA NamesStand ==
    ASSUME NamesInv, Typed', UNCHANGED <<shift, gone, who>>,
           \A m \in Monitor : pc'[m] = "page" => pc[m] = "page"
    PROVE  NamesInv'
  BY DEF NamesInv, Covered

LEMMA StepNames == NamesInv /\ [Next]_vars => NamesInv'
<1> SUFFICES ASSUME NamesInv, [Next]_vars PROVE NamesInv'
  OBVIOUS
<1>0. Typed /\ Typed'
  BY StepTyped DEF NamesInv
<1> USE DEF tenant, oncall, monitor, Goto
<1>1. CASE Tick
  BY <1>0, <1>1, NamesStand DEF Tick
<1>2. ASSUME NEW i \in Incident, Open(i) PROVE NamesInv'
  BY <1>0, <1>2, NamesStand DEF Open
<1>3. ASSUME NEW i \in Incident, NEW to, UpdateIncidentStatus(i, to) PROVE NamesInv'
  BY <1>0, <1>3, NamesStand DEF UpdateIncidentStatus
<1>4. ASSUME NEW body, HandleSetSLAConfig(body) PROVE NamesInv'
  BY <1>0, <1>4, NamesStand DEF HandleSetSLAConfig
<1>5. ASSUME NEW sch, NEW sh, SetOnCall(sch, sh) PROVE NamesInv'
  <2> SUFFICES ASSUME NEW m \in Monitor, pc'[m] = "page", NEW u \in who'[m]
               PROVE  u \in gone'[m] \/ Covered(u)'
    BY <1>0 DEF NamesInv
  <2>1. pc[m] = "page" /\ u \in who[m] /\ cur[m] # None
    BY <1>0, <1>5, SLAAssumption DEF SetOnCall, Typed, MonitorTyped, Paging
  <2>2. CASE u \in gone[m]
    BY <1>0, <1>5, <2>1, <2>2 DEF SetOnCall, Typed, MonitorTyped
  <2>3. ASSUME NEW s \in Shift, UserOf[s] = u, shift[s] = "now"
        PROVE  u \in gone'[m] \/ Covered(u)'
    BY <1>0, <1>5, <2>1, <2>3 DEF SetOnCall, Covered, Typed, MonitorTyped
  <2> QED
    BY <2>1, <2>2, <2>3 DEF NamesInv, Covered
<1>6. ASSUME NEW m \in Monitor, Scan(m) \/ EvaluateAll(m) \/ EndScan(m) PROVE NamesInv'
  BY <1>0, <1>6, NamesStand DEF Scan, EvaluateAll, EndScan, Typed, MonitorTyped
<1>7. ASSUME NEW m \in Monitor, NEW b \in Breach, CheckFlag(m, b) \/ MisreadFlag(m, b)
      PROVE  NamesInv'
  BY <1>0, <1>7, NamesStand DEF CheckFlag, MisreadFlag, Typed, MonitorTyped
<1>8. ASSUME NEW m \in Monitor, LookUp(m) PROVE NamesInv'
  <2>1. who'[m] \in {OnCall, {}}
    BY <1>0, <1>8 DEF LookUp, Typed, MonitorTyped
  <2>2. \A u \in who'[m] : Covered(u)'
    BY <1>8, <2>1 DEF LookUp, OnCall, Covered
  <2>3. \A n \in Monitor : n # m =>
            pc'[n] = pc[n] /\ who'[n] = who[n] /\ gone'[n] = gone[n] /\ shift' = shift
    BY <1>0, <1>8 DEF LookUp, Typed, MonitorTyped
  <2> QED
    BY <1>0, <2>2, <2>3 DEF NamesInv, Covered
<1>9. ASSUME NEW m \in Monitor, TriggerEscalations(m) PROVE NamesInv'
  BY <1>0, <1>9, NamesStand DEF TriggerEscalations, Typed, MonitorTyped
<1>10. ASSUME NEW m \in Monitor, SetFlag(m) PROVE NamesInv'
  BY <1>0, <1>10 DEF SetFlag, StoreFlag, LoseFlag, NamesInv, Covered, Typed, MonitorTyped
<1>11. ASSUME NEW m \in Monitor, Crash(m) PROVE NamesInv'
  BY <1>0, <1>11 DEF Crash, NamesInv, Covered, Typed, MonitorTyped
<1>12. ASSUME NEW n, Deliver(n) PROVE NamesInv'
  BY <1>0, <1>12, NamesStand DEF Deliver
<1>13. CASE UNCHANGED vars
  BY <1>0, <1>13, NamesStand DEF vars
<1>14. CASE Roster
  BY <1>0, <1>5, <1>14, RosterSets DEF Typed, TablesTyped
<1> QED
  BY <1>1, <1>2, <1>3, <1>4, <1>6, <1>7, <1>8, <1>9, <1>10, <1>11, <1>12, <1>13, <1>14
     DEF Next, MonitorStep, Roster

\* A page names nobody who was not on call when it was prepared, whatever
\* happens to schedules and shifts and however many monitors page.
THEOREM NamesAreOnCall == Spec => NamesOnCall
<1> DEFINE Named(pg) ==
        \A u \in pg.names : u \in gone[pg.by] \/ Covered(u)
<1>1. NamesInv /\ [Next]_vars => [page' # None => Named(page')]_vars
  <2> SUFFICES ASSUME NamesInv, [Next]_vars, page' # None, ~UNCHANGED vars PROVE Named(page')
    OBVIOUS
  <2>1. PICK m \in Monitor : TriggerEscalations(m)
    BY OnlyTriggers DEF NamesInv, Typed, TablesTyped
  <2>2. page'.names = who[m] /\ page'.by = m /\ pc[m] = "page"
    BY <2>1 DEF TriggerEscalations
  <2> QED
    BY <2>2 DEF NamesInv
<1> QED
  BY <1>1, InitNames, StepNames, PTL DEF Spec, NamesOnCall, Covered

-----------------------------------------------------------------------------
(* The quiet window, for any number of replicas.                           *)

\* A breach that was paged keeps its flag until the window is over, or is about
\* to get it, or has lost it to a fault.
WindowKept ==
    \A b \in Breach :
        \/ b \in excused
        \/ \E m \in Monitor : pc[m] = "flag" /\ cur[m] = b
        \/ ttl[b] + quiet[b] >= Renotify

\* What a monitor is about to page was not paged within the window.
DueOnly ==
    \A m \in Monitor : pc[m] \in {"lookup", "page"} =>
        \/ cur[m] \in excused
        \/ quiet[cur[m]] = Renotify
        \/ m \in crossed

\* While a flag is about to be written, whoever else is about to page the same
\* breach has crossed its monitor: the writing of the flag excuses nothing more.
CrossedOnly ==
    \A m, n \in Monitor :
        pc[m] \in {"lookup", "page"} /\ pc[n] = "flag" /\ cur[m] = cur[n] => m \in crossed

Quiet == WindowKept /\ DueOnly /\ CrossedOnly
QuietInv == Typed /\ Quiet

LEMMA InitQuiet == Init => QuietInv
  BY InitTyped, SLAAssumption DEF Init, QuietInv, Quiet, WindowKept, DueOnly, CrossedOnly

LEMMA QuietStands ==
    ASSUME QuietInv, UNCHANGED <<pc, cur, ttl, quiet, excused, crossed>>
    PROVE  Quiet'
  BY DEF QuietInv, Quiet, WindowKept, DueOnly, CrossedOnly

\* A step of one monitor leaves the others where they are.
LEMMA FindsNoFlag ==
    ASSUME QuietInv, NEW m \in Monitor, NEW b \in Breach,
           pc[m] = "next", pc' = [pc EXCEPT ![m] = "lookup"], cur' = [cur EXCEPT ![m] = b],
           Cross(m, b), UNCHANGED <<ttl, quiet>>,
           \/ ttl[b] = 0 /\ excused' = excused
           \/ excused' = excused \cup {b}
    PROVE  Quiet'
<1>0. Typed /\ WindowKept /\ DueOnly /\ CrossedOnly
  BY DEF QuietInv, Quiet
<1>1. /\ pc'[m] = "lookup" /\ cur'[m] = b
      /\ \A n \in Monitor : n # m => pc'[n] = pc[n] /\ cur'[n] = cur[n]
      /\ \A n \in Monitor : pc'[n] = "flag" <=> pc[n] = "flag"
  BY <1>0 DEF Typed, MonitorTyped
<1>2. /\ excused \subseteq excused' /\ crossed \subseteq crossed' /\ crossed' \subseteq crossed \cup {m}
      /\ (\E n \in Monitor : pc[n] = "flag" /\ cur[n] = b) => m \in crossed'
  BY DEF Cross
<1>3. b \in excused' \/ quiet[b] = Renotify \/ m \in crossed'
  <2>1. ttl[b] = 0 /\ ttl[b] + quiet[b] >= Renotify => quiet[b] = Renotify
    BY <1>0, SLAAssumption DEF Typed, TablesTyped
  <2> QED
    BY <1>0, <1>2, <2>1 DEF WindowKept
<1>4. WindowKept'
  BY <1>0, <1>1, <1>2 DEF WindowKept
<1>5. DueOnly'
  BY <1>0, <1>1, <1>2, <1>3 DEF DueOnly
<1>6. CrossedOnly'
  BY <1>0, <1>1, <1>2 DEF CrossedOnly
<1> QED
  BY <1>4, <1>5, <1>6 DEF Quiet

LEMMA Pages ==
    ASSUME QuietInv, NEW m \in Monitor, TriggerEscalations(m)
    PROVE  Quiet'
<1>0. Typed /\ WindowKept /\ DueOnly /\ CrossedOnly
  BY DEF QuietInv, Quiet
<1>1. /\ UNCHANGED <<cur, ttl, excused>> /\ pc'[m] = "flag" /\ cur[m] \in Breach
      /\ \A n \in Monitor : n # m => pc'[n] = pc[n]
      /\ \A b \in Breach : b # cur[m] => quiet'[b] = quiet[b]
      /\ crossed' = crossed \cup {n \in Monitor \ {m} : cur[n] = cur[m]}
  BY <1>0 DEF TriggerEscalations, Goto, Typed, MonitorTyped, TablesTyped, Paging
<1>2. \A n \in Monitor : pc[n] \in {"lookup", "page"} => cur[n] \in Breach
  BY <1>0 DEF Typed, MonitorTyped, Paging
<1>3. WindowKept'
  <2> SUFFICES ASSUME NEW b \in Breach, b # cur[m]
               PROVE  \/ b \in excused'
                      \/ \E n \in Monitor : pc'[n] = "flag" /\ cur'[n] = b
                      \/ ttl'[b] + quiet'[b] >= Renotify
    BY <1>1 DEF WindowKept
  <2> QED
    BY <1>0, <1>1 DEF WindowKept
<1>4. DueOnly'
  BY <1>0, <1>1, <1>2 DEF DueOnly
<1>5. CrossedOnly'
  BY <1>0, <1>1 DEF CrossedOnly
<1> QED
  BY <1>3, <1>4, <1>5 DEF Quiet

LEMMA WritesFlag ==
    ASSUME QuietInv, NEW m \in Monitor, SetFlag(m)
    PROVE  Quiet'
<1>0. Typed /\ WindowKept /\ DueOnly /\ CrossedOnly
  BY DEF QuietInv, Quiet
<1>1. /\ UNCHANGED quiet /\ pc'[m] = "next" /\ pc[m] = "flag" /\ cur[m] \in Breach
      /\ \A n \in Monitor : n # m => pc'[n] = pc[n] /\ cur'[n] = cur[n]
      /\ crossed' = crossed \ {m}
      /\ \/ ttl' = [ttl EXCEPT ![cur[m]] = Renotify] /\ excused' = excused \ {cur[m]}
         \/ ttl' = ttl /\ excused' = excused \cup {cur[m]}
  BY <1>0 DEF SetFlag, StoreFlag, LoseFlag, Goto, Typed, MonitorTyped, Paging
<1>2. \A b \in Breach : ttl[b] \in Nat /\ quiet[b] \in Nat
  BY <1>0 DEF Typed, TablesTyped
<1>3. \/ cur[m] \in excused'
      \/ ttl'[cur[m]] + quiet'[cur[m]] >= Renotify
  BY <1>0, <1>1, <1>2, SLAAssumption DEF Typed, TablesTyped
<1>4. \A b \in Breach : b # cur[m] => ttl'[b] = ttl[b] /\ (b \in excused' <=> b \in excused)
  BY <1>0, <1>1 DEF Typed, TablesTyped
<1>5. WindowKept'
  <2> SUFFICES ASSUME NEW b \in Breach, b # cur[m]
               PROVE  \/ b \in excused'
                      \/ \E n \in Monitor : pc'[n] = "flag" /\ cur'[n] = b
                      \/ ttl'[b] + quiet'[b] >= Renotify
    BY <1>3 DEF WindowKept
  <2> QED
    BY <1>0, <1>1, <1>4 DEF WindowKept
<1>6. DueOnly'
  <2> SUFFICES ASSUME NEW n \in Monitor, n # m, pc[n] \in {"lookup", "page"}
               PROVE  cur[n] \in excused' \/ quiet[cur[n]] = Renotify \/ n \in crossed
    BY <1>1 DEF DueOnly
  <2>1. cur[n] \in Breach
    BY <1>0 DEF Typed, MonitorTyped, Paging
  <2>2. CASE cur[n] = cur[m]
    BY <1>0, <1>1, <2>2 DEF CrossedOnly
  <2>3. CASE cur[n] # cur[m]
    BY <1>0, <1>4, <2>1, <2>3 DEF DueOnly
  <2> QED
    BY <2>2, <2>3
<1>7. CrossedOnly'
  BY <1>0, <1>1 DEF CrossedOnly
<1> QED
  BY <1>5, <1>6, <1>7 DEF Quiet

LEMMA Dies ==
    ASSUME QuietInv, NEW m \in Monitor, Crash(m)
    PROVE  Quiet'
<1>0. Typed /\ WindowKept /\ DueOnly /\ CrossedOnly
  BY DEF QuietInv, Quiet
<1>1. /\ UNCHANGED <<ttl, quiet>> /\ pc'[m] = "idle"
      /\ \A n \in Monitor : n # m => pc'[n] = pc[n] /\ cur'[n] = cur[n]
      /\ crossed' = crossed \ {m}
      /\ excused' = IF pc[m] = "flag" THEN excused \cup {cur[m]} ELSE excused
  BY <1>0 DEF Crash, Goto, Typed, MonitorTyped
<1>2. WindowKept'
  BY <1>0, <1>1 DEF WindowKept
<1>3. DueOnly'
  BY <1>0, <1>1 DEF DueOnly
<1>4. CrossedOnly'
  BY <1>0, <1>1 DEF CrossedOnly
<1> QED
  BY <1>2, <1>3, <1>4 DEF Quiet

\* A step that changes only the place of a monitor, not to or from a page.
LEMMA QuietMoves ==
    ASSUME QuietInv, UNCHANGED <<cur, ttl, quiet, excused, crossed>>,
           \A n \in Monitor : /\ pc'[n] = "flag" <=> pc[n] = "flag"
                              /\ pc'[n] \in {"lookup", "page"} => pc[n] \in {"lookup", "page"}
    PROVE  Quiet'
  BY DEF QuietInv, Quiet, WindowKept, DueOnly, CrossedOnly

LEMMA TimePasses ==
    ASSUME QuietInv, Tick
    PROVE  Quiet'
<1>0. Typed /\ WindowKept /\ DueOnly /\ CrossedOnly
  BY DEF QuietInv, Quiet
<1>1. \A b \in Breach : /\ ttl[b] + quiet[b] >= Renotify => ttl'[b] + quiet'[b] >= Renotify
                        /\ quiet[b] = Renotify => quiet'[b] = Renotify
  BY <1>0, SLAAssumption DEF Tick, Typed, TablesTyped
<1>2. UNCHANGED <<pc, cur, excused, crossed>>
  BY DEF Tick, monitor
<1>3. \A n \in Monitor : pc[n] \in {"lookup", "page"} => cur[n] \in Breach
  BY <1>0 DEF Typed, MonitorTyped, Paging
<1> QED
  BY <1>0, <1>1, <1>2, <1>3 DEF Quiet, WindowKept, DueOnly, CrossedOnly

LEMMA StepQuiet == QuietInv /\ [Next]_vars => QuietInv'
<1> SUFFICES ASSUME QuietInv, [Next]_vars PROVE QuietInv'
  OBVIOUS
<1>0. Typed /\ Typed'
  BY StepTyped DEF QuietInv
<1> SUFFICES Quiet'
  BY <1>0 DEF QuietInv
<1> USE DEF tenant, oncall, monitor, Goto
<1>1. CASE Tick
  BY <1>1, TimePasses
<1>2. ASSUME NEW i \in Incident, Open(i) PROVE Quiet'
  BY <1>2, QuietStands DEF Open
<1>3. ASSUME NEW i \in Incident, NEW to, UpdateIncidentStatus(i, to) PROVE Quiet'
  BY <1>3, QuietStands DEF UpdateIncidentStatus
<1>4. ASSUME NEW body, HandleSetSLAConfig(body) PROVE Quiet'
  BY <1>4, QuietStands DEF HandleSetSLAConfig
<1>5. ASSUME NEW sch, NEW sh, SetOnCall(sch, sh) PROVE Quiet'
  BY <1>5, QuietStands DEF SetOnCall
<1>6. ASSUME NEW m \in Monitor, Scan(m) \/ EvaluateAll(m) \/ EndScan(m) \/ LookUp(m) PROVE Quiet'
  <2>1. /\ UNCHANGED <<cur, ttl, quiet, excused, crossed>>
        /\ \A n \in Monitor : /\ pc'[n] = "flag" <=> pc[n] = "flag"
                              /\ pc'[n] \in {"lookup", "page"} => pc[n] \in {"lookup", "page"}
    BY <1>0, <1>6 DEF Scan, EvaluateAll, EndScan, LookUp, Typed, MonitorTyped
  <2> QED
    BY <2>1, QuietMoves
<1>7. ASSUME NEW m \in Monitor, NEW b \in Breach, CheckFlag(m, b) PROVE Quiet'
  <2>1. CASE UNCHANGED <<pc, cur, crossed>>
    BY <1>7, <2>1, QuietStands DEF CheckFlag
  <2>2. CASE ttl[b] = 0 /\ Goto(m, "lookup") /\ cur' = [cur EXCEPT ![m] = b] /\ Cross(m, b)
    BY <1>7, <2>2, FindsNoFlag DEF CheckFlag
  <2> QED
    BY <1>7, <2>1, <2>2 DEF CheckFlag
<1>8. ASSUME NEW m \in Monitor, NEW b \in Breach, MisreadFlag(m, b) PROVE Quiet'
  BY <1>8, FindsNoFlag DEF MisreadFlag
<1>9. ASSUME NEW m \in Monitor, TriggerEscalations(m) PROVE Quiet'
  BY <1>9, Pages
<1>10. ASSUME NEW m \in Monitor, SetFlag(m) PROVE Quiet'
  BY <1>10, WritesFlag
<1>11. ASSUME NEW m \in Monitor, Crash(m) PROVE Quiet'
  BY <1>11, Dies
<1>12. ASSUME NEW n, Deliver(n) PROVE Quiet'
  BY <1>12, QuietStands DEF Deliver
<1>13. CASE UNCHANGED vars
  BY <1>13, QuietStands DEF vars
<1>14. CASE Roster
  BY <1>0, <1>5, <1>14, RosterSets DEF Typed, TablesTyped
<1> QED
  BY <1>1, <1>2, <1>3, <1>4, <1>6, <1>7, <1>8, <1>9, <1>10, <1>11, <1>12, <1>13, <1>14
     DEF Next, MonitorStep, Roster

\* However many replicas run, none of them pages a breach again within the
\* window, unless a fault hit its flag or two of them crossed: each looked for
\* the flag before the other had written it (escalateSLABreach).
THEOREM NotTwiceWithinWindow == Spec => QuietWindow
<1> DEFINE Due == page' # None => \/ quiet[page'.breach] = Renotify
                                  \/ page'.breach \in excused
                                  \/ page'.by \in crossed
<1>1. QuietInv /\ [Next]_vars => [Due]_vars
  <2> SUFFICES ASSUME QuietInv, [Next]_vars, page' # None, ~UNCHANGED vars PROVE Due
    OBVIOUS
  <2>1. PICK m \in Monitor : TriggerEscalations(m)
    BY OnlyTriggers DEF QuietInv, Typed, TablesTyped
  <2>2. page'.breach = cur[m] /\ page'.by = m /\ pc[m] = "page"
    BY <2>1 DEF TriggerEscalations
  <2> QED
    BY <2>2 DEF QuietInv, Quiet, DueOnly
<1> QED
  BY <1>1, InitQuiet, StepQuiet, PTL DEF Spec, QuietWindow
=============================================================================
