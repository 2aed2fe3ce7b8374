------------------------ MODULE AlertPipeline_proofs ------------------------
(***************************************************************************)
(* Theorems about AlertPipeline for any set of workers, requests, events,  *)
(* incidents and fingerprints.                                             *)
(***************************************************************************)
EXTENDS AlertPipeline, FiniteSetTheorems, TLAPS

-----------------------------------------------------------------------------
(* Typing.  What a program counter says about the memory and the           *)
(* uncommitted writes of its process is part of the induction.             *)

AlertTable == [Event -> AlertRow \cup {None}]
IncidentTable == [Incident -> IncidentRow \cup {None}]

\* step, job and uncommitted writes of a worker.
WorkerPhase(step, j, pa, pi) ==
    /\ step \in WorkerStep
    /\ step # "idle" => j \in Job
    /\ step = "update" => j.row # None
    /\ step = "bump" => j.incident # None
    /\ step \in {"bump", "open", "announce", "commit"} => pa[j.ev] # None
    /\ step \notin {"announce", "commit"} => pi = NoIncidents

\* step, target and uncommitted incidents of a request.
RequestPhase(step, t, pi) ==
    /\ step \in RequestStep
    /\ step \notin {"new", "done"} => t \in Target
    /\ step \in {"close", "cascade"} => t.incident # None
    /\ step \notin {"cascade", "commit"} => pi = NoIncidents

PhaseOK ==
    /\ \A w \in Worker : WorkerPhase(pc[w], job[w], pendA[w], pendI[w])
    /\ \A r \in Request : RequestPhase(pc[r], target[r], pendI[r])

TInv == TypeOK /\ PhaseOK

\* The variables that no process owns are typed.
SharedOK ==
    /\ event \in [Event -> {"queued", "working", "recorded", "lost", "muted"}]
    /\ alerts \in AlertTable
    /\ incidents \in IncidentTable
    /\ debounce \in [Fingerprint -> Event \cup {None}]
    /\ aiQueue \subseteq Event
    /\ aiJob \in [alert: Event, row: AlertRow] \cup {None}
    /\ soar \subseteq Event
    /\ aged \subseteq Incident /\ pruned \subseteq Incident

LEMMA RowsAreNotNone == /\ None \notin AlertRow /\ None \notin IncidentRow
                        /\ None \notin Job /\ None \notin Target
                        /\ None \notin Event /\ None \notin Incident
  BY PipelineAssumption

LEMMA InitTyped == Init => TInv
  BY PipelineAssumption
  DEF Init, TInv, TypeOK, PhaseOK, WorkerPhase, RequestPhase, NoAlerts, NoIncidents,
      WorkerStep, RequestStep, Process

\* The committed table after a commit is a table.
LEMMA MergeTyped ==
  ASSUME NEW S, NEW T, NEW new \in [S -> T \cup {None}], NEW old \in [S -> T \cup {None}]
  PROVE  /\ Merge(new, old) \in [S -> T \cup {None}]
         /\ \A k \in S : Merge(new, old)[k] = IF new[k] # None THEN new[k] ELSE old[k]
  BY DEF Merge

\* A step of one worker that leaves it in a good phase keeps the typing.
LEMMA WorkerMoves ==
  ASSUME TInv, SharedOK',
         NEW w \in Worker, NEW step, NEW j \in Job \cup {None},
         NEW pa \in AlertTable, NEW pi \in IncidentTable,
         WorkerPhase(step, j, pa, pi),
         pc' = [pc EXCEPT ![w] = step], job' = [job EXCEPT ![w] = j],
         pendA' = [pendA EXCEPT ![w] = pa], pendI' = [pendI EXCEPT ![w] = pi],
         target' = target
  PROVE  TInv'
<1> USE DEF TInv, TypeOK, SharedOK, AlertTable, IncidentTable, Process
<1>1. TypeOK'
  BY DEF WorkerPhase
<1>2. \A v \in Worker : WorkerPhase(pc'[v], job'[v], pendA'[v], pendI'[v])
  <2> SUFFICES ASSUME NEW v \in Worker
               PROVE  WorkerPhase(pc'[v], job'[v], pendA'[v], pendI'[v])
    OBVIOUS
  <2>1. CASE v = w
    BY <2>1
  <2>2. CASE v # w
    BY <2>2 DEF PhaseOK
  <2> QED
    BY <2>1, <2>2
<1>3. \A r \in Request : RequestPhase(pc'[r], target'[r], pendI'[r])
  BY PipelineAssumption DEF PhaseOK
<1> QED
  BY <1>1, <1>2, <1>3 DEF PhaseOK

\* The same for a request.
LEMMA RequestMoves ==
  ASSUME TInv, SharedOK',
         NEW r \in Request, NEW step, NEW t \in Target \cup {None},
         NEW pa \in AlertTable, NEW pi \in IncidentTable,
         RequestPhase(step, t, pi),
         pc' = [pc EXCEPT ![r] = step], target' = [target EXCEPT ![r] = t],
         pendA' = [pendA EXCEPT ![r] = pa], pendI' = [pendI EXCEPT ![r] = pi],
         job' = job
  PROVE  TInv'
<1> USE DEF TInv, TypeOK, SharedOK, AlertTable, IncidentTable, Process
<1>1. TypeOK'
  BY DEF RequestPhase
<1>2. \A q \in Request : RequestPhase(pc'[q], target'[q], pendI'[q])
  <2> SUFFICES ASSUME NEW q \in Request
               PROVE  RequestPhase(pc'[q], target'[q], pendI'[q])
    OBVIOUS
  <2>1. CASE q = r
    BY <2>1
  <2>2. CASE q # r
    BY <2>2 DEF PhaseOK
  <2> QED
    BY <2>1, <2>2
<1>3. \A w \in Worker : WorkerPhase(pc'[w], job'[w], pendA'[w], pendI'[w])
  BY PipelineAssumption DEF PhaseOK
<1> QED
  BY <1>1, <1>2, <1>3 DEF PhaseOK

\* A step of the environment touches no process.
LEMMA SharedMoves ==
  ASSUME TInv, SharedOK', UNCHANGED <<pendA, pendI, pc, job, target>>
  PROVE  TInv'
  BY DEF TInv, TypeOK, SharedOK, PhaseOK, AlertTable, IncidentTable

-----------------------------------------------------------------------------
(* Records: their fields, and what writing some of them keeps.             *)

LEMMA JobFields ==
  ASSUME NEW j \in Job
  PROVE  /\ j.ev \in Event /\ j.fp \in Fingerprint /\ j.sev \in Severity
         /\ j.alert \in Event /\ j.row \in AlertRow \cup {None}
         /\ j.incident \in Incident \cup {None} /\ j.worst \in Severity
  BY DEF Job

LEMMA JobUpdate ==
  ASSUME NEW j \in Job
  PROVE  /\ \A a \in Event : [j EXCEPT !.alert = a] \in Job
         /\ \A row \in AlertRow : /\ [j EXCEPT !.row = row] \in Job
                                 /\ [j EXCEPT !.row = row].row = row
  BY DEF Job

LEMMA ChosenJob ==
  ASSUME NEW j \in Job, NEW i \in Incident, NEW s \in Severity
  PROVE  LET k == Chosen(j, i, s) IN k \in Job /\ k.incident = i /\ k.ev = j.ev /\ k.fp = j.fp
<1> DEFINE k == [j EXCEPT !.incident = i]
<1>1. k \in Job /\ k.incident = i /\ k.ev = j.ev /\ k.fp = j.fp
  BY DEF Job
<1> HIDE DEF k
<1>2. LET m == [k EXCEPT !.worst = s]
      IN m \in Job /\ m.incident = k.incident /\ m.ev = k.ev /\ m.fp = k.fp
  BY <1>1 DEF Job
<1> QED
  BY <1>1, <1>2 DEF k, Chosen

LEMMA AlertRowFields ==
  ASSUME NEW row \in AlertRow
  PROVE  /\ row.fp \in Fingerprint /\ row.sev \in Severity
         /\ row.status \in AlertStatus /\ row.incident \in Incident \cup {None}
         /\ \A t \in AlertStatus : [row EXCEPT !.status = t] \in AlertRow
         /\ \A s \in Severity : [row EXCEPT !.sev = s] \in AlertRow
         /\ \A i \in Incident : [row EXCEPT !.incident = i] \in AlertRow
  BY DEF AlertRow

LEMMA IncidentRowFields ==
  ASSUME NEW row \in IncidentRow
  PROVE  /\ row.fp \in Fingerprint /\ row.sev \in Severity
         /\ row.status \in IncidentStatus /\ row.count \in Nat
         /\ \A t \in IncidentStatus :
               LET new == [row EXCEPT !.status = t]
               IN /\ new \in IncidentRow /\ new.status = t
                  /\ new.fp = row.fp /\ new.count = row.count
  BY DEF IncidentRow

\* The write of the bump.
LEMMA BumpedRow ==
  ASSUME NEW row \in IncidentRow, NEW s \in Severity
  PROVE  LET new == Bumped(row, s)
         IN /\ new \in IncidentRow /\ new.status = row.status
            /\ new.fp = row.fp /\ new.count = row.count + 1
<1> DEFINE k == [row EXCEPT !.count = @ + 1]
<1>1. k \in IncidentRow /\ k.status = row.status /\ k.fp = row.fp /\ k.count = row.count + 1
  BY DEF IncidentRow
<1> HIDE DEF k
<1>2. LET new == [k EXCEPT !.sev = s]
      IN new \in IncidentRow /\ new.status = k.status /\ new.fp = k.fp /\ new.count = k.count
  BY <1>1 DEF IncidentRow
<1> QED
  BY <1>1, <1>2 DEF k, Bumped

-----------------------------------------------------------------------------
(* Every action keeps the typing.                                          *)

LEMMA Rewrite ==
  ASSUME NEW S, NEW T, NEW f \in [S -> T], NEW x \in S
  PROVE  f = [f EXCEPT ![x] = f[x]]
  OBVIOUS

\* The worker reads and moves on: nothing but its step and its job changes.
LEMMA WorkerReads ==
  ASSUME TInv, NEW w \in Worker, NEW step, NEW j \in Job,
         WorkerPhase(step, j, pendA[w], pendI[w]),
         pc' = [pc EXCEPT ![w] = step], job' = [job EXCEPT ![w] = j], SharedOK',
         UNCHANGED <<pendA, pendI, target>>
  PROVE  TInv'
<1> DEFINE pa == pendA[w]
           pi == pendI[w]
<1>1. /\ pa \in AlertTable /\ pi \in IncidentTable
      /\ pendA' = [pendA EXCEPT ![w] = pa]
      /\ pendI' = [pendI EXCEPT ![w] = pi]
      /\ WorkerPhase(step, j, pa, pi)
      /\ target' = target /\ j \in Job \cup {None}
  BY DEF TInv, TypeOK, AlertTable, IncidentTable, Process
<1> HIDE DEF pa, pi
<1> QED
  BY <1>1, WorkerMoves

LEMMA PopTyped == ASSUME TInv, NEW w \in Worker, Pop(w) PROVE TInv'
<1>1. PICK e \in Event, f \in Fingerprint, s \in EventSeverity :
         /\ event' = [event EXCEPT ![e] = "working"]
         /\ job' = [job EXCEPT ![w] =
                      [ev |-> e, fp |-> f, sev |-> s, alert |-> e,
                       row |-> None, incident |-> None, worst |-> s]]
  BY DEF Pop
<1> DEFINE j == [ev |-> e, fp |-> f, sev |-> s, alert |-> e,
                 row |-> None, incident |-> None, worst |-> s]
<1>2. j \in Job
  BY PipelineAssumption DEF Job
<1>3. WorkerPhase("lookup", j, pendA[w], pendI[w])
  BY <1>2 DEF Pop, TInv, PhaseOK, WorkerPhase, WorkerStep
<1>4. SharedOK'
  BY <1>1 DEF Pop, TInv, TypeOK, SharedOK, AlertTable, IncidentTable, sideVars
<1>5. /\ pc' = [pc EXCEPT ![w] = "lookup"] /\ job' = [job EXCEPT ![w] = j]
      /\ UNCHANGED <<pendA, pendI, target>>
  BY <1>1 DEF Pop, Goto
<1> HIDE DEF j
<1> QED
  BY <1>2, <1>3, <1>4, <1>5, WorkerReads

LEMMA MuteTyped == ASSUME TInv, NEW w \in Worker, Mute(w) PROVE TInv'
<1>1. SharedOK'
  BY DEF Mute, TInv, TypeOK, SharedOK, AlertTable, IncidentTable, sideVars
<1> QED
  BY <1>1, SharedMoves DEF Mute

LEMMA ReadDebounceTyped == ASSUME TInv, NEW w \in Worker, ReadDebounce(w) PROVE TInv'
<1>1. job[w] \in Job /\ pendI[w] = NoIncidents
  BY DEF ReadDebounce, TInv, PhaseOK, WorkerPhase
<1>2. PICK j \in Job : pc' = [pc EXCEPT ![w] = "fetch"] /\ job' = [job EXCEPT ![w] = j]
  <2> PICK a : a = IF debounce[job[w].fp] = None THEN job[w].ev ELSE debounce[job[w].fp]
    OBVIOUS
  <2>1. a \in Event
    BY <1>1, JobFields DEF TInv, TypeOK
  <2>2. [job[w] EXCEPT !.alert = a] \in Job
    BY <1>1, <2>1, JobUpdate
  <2> QED
    BY <2>2 DEF ReadDebounce, Goto
<1>3. SharedOK'
  BY DEF ReadDebounce, TInv, TypeOK, SharedOK, AlertTable, IncidentTable, sideVars
<1>4. WorkerPhase("fetch", j, pendA[w], pendI[w])
  BY <1>1, <1>2 DEF WorkerPhase, WorkerStep
<1>5. UNCHANGED <<pendA, pendI, target>>
  BY DEF ReadDebounce
<1> QED
  BY <1>2, <1>3, <1>4, <1>5, WorkerReads

LEMMA FetchAlertTyped == ASSUME TInv, NEW w \in Worker, FetchAlert(w) PROVE TInv'
<1>1. job[w] \in Job /\ pendI[w] = NoIncidents
  BY DEF FetchAlert, TInv, PhaseOK, WorkerPhase
<1>2. alerts[job[w].alert] \in AlertRow \cup {None}
  BY <1>1, JobFields DEF TInv, TypeOK
<1>3. PICK step \in {"insert", "update"}, j \in Job :
         /\ pc' = [pc EXCEPT ![w] = step] /\ job' = [job EXCEPT ![w] = j]
         /\ step = "update" => j.row # None
  <2>1. CASE alerts[job[w].alert] = None
    <3>1. [job[w] EXCEPT !.alert = job[w].ev] \in Job
      BY <1>1, JobFields, JobUpdate
    <3> QED
      BY <2>1, <3>1 DEF FetchAlert, Goto
  <2>2. CASE alerts[job[w].alert] # None
    <3> DEFINE j == [job[w] EXCEPT !.row = alerts[job[w].alert]]
    <3>1. j \in Job /\ j.row # None
      BY <1>1, <1>2, <2>2, JobUpdate
    <3>2. pc' = [pc EXCEPT ![w] = "update"] /\ job' = [job EXCEPT ![w] = j]
      BY <2>2 DEF FetchAlert, Goto
    <3> HIDE DEF j
    <3> QED
      BY <3>1, <3>2
  <2> QED
    BY <2>1, <2>2
<1>4. SharedOK'
  BY DEF FetchAlert, TInv, TypeOK, SharedOK, AlertTable, IncidentTable, sideVars
<1>5. WorkerPhase(step, j, pendA[w], pendI[w])
  BY <1>1, <1>3 DEF WorkerPhase, WorkerStep
<1>6. UNCHANGED <<pendA, pendI, target>>
  BY DEF FetchAlert
<1> QED
  BY <1>3, <1>4, <1>5, <1>6, WorkerReads

\* The worker is done with its event: nothing of it is left uncommitted.
LEMMA WorkerSettles ==
  ASSUME TInv, NEW w \in Worker, SharedOK',
         pc' = [pc EXCEPT ![w] = "idle"], job' = [job EXCEPT ![w] = None],
         NEW pa \in AlertTable, pendA' = [pendA EXCEPT ![w] = pa],
         pendI' = [pendI EXCEPT ![w] = NoIncidents], target' = target
  PROVE  TInv'
<1>1. NoIncidents \in IncidentTable
  BY DEF NoIncidents, IncidentTable
<1>2. WorkerPhase("idle", None, pa, NoIncidents)
  BY DEF WorkerPhase, WorkerStep
<1> QED
  BY <1>1, <1>2, WorkerMoves

LEMMA GroupIntoAlertTyped == ASSUME TInv, NEW w \in Worker, GroupIntoAlert(w) PROVE TInv'
<1>1. job[w] \in Job /\ job[w].row # None /\ pendI[w] = NoIncidents
  BY DEF GroupIntoAlert, TInv, PhaseOK, WorkerPhase
<1>2. job[w].ev \in Event /\ job[w].alert \in Event /\ job[w].row \in AlertRow
  BY <1>1, JobFields
<1>3. alerts' \in AlertTable
  <2>1. CASE alerts[job[w].alert] = None
    BY <2>1 DEF GroupIntoAlert, TInv, TypeOK, AlertTable
  <2>2. CASE alerts[job[w].alert] # None
    <3>1. Revived(job[w].row.status) \in AlertStatus
      BY <1>2, AlertRowFields DEF Revived, AlertStatus
    <3>2. [alerts[job[w].alert] EXCEPT !.status = Revived(job[w].row.status)] \in AlertRow
      BY <1>2, <2>2, <3>1, AlertRowFields DEF TInv, TypeOK
    <3> QED
      BY <1>2, <2>2, <3>2 DEF GroupIntoAlert, TInv, TypeOK, AlertTable
  <2> QED
    BY <2>1, <2>2
<1>4. PICK outcome \in {"lost", "recorded"} : Settle(w, outcome)
  BY DEF GroupIntoAlert
<1>5. SharedOK'
  BY <1>2, <1>3, <1>4
  DEF GroupIntoAlert, Settle, TInv, TypeOK, SharedOK, AlertTable, IncidentTable, sideVars
<1>6. /\ pendA[w] \in AlertTable /\ pendA' = [pendA EXCEPT ![w] = pendA[w]]
      /\ pendI' = [pendI EXCEPT ![w] = NoIncidents]
  BY <1>1 DEF GroupIntoAlert, TInv, TypeOK, AlertTable, Process
<1> QED
  BY <1>4, <1>5, <1>6, WorkerSettles DEF Settle, Goto, GroupIntoAlert

LEMMA CommitAlertTyped == ASSUME TInv, NEW w \in Worker, CommitAlert(w) PROVE TInv'
<1>1. job[w] \in Job /\ job[w].ev \in Event
  BY JobFields DEF CommitAlert, TInv, PhaseOK, WorkerPhase
<1>2. alerts' \in AlertTable /\ incidents' \in IncidentTable
  BY MergeTyped DEF CommitAlert, ApplyWrites, TInv, TypeOK, AlertTable, IncidentTable, Process
<1>3. SharedOK'
  BY <1>1, <1>2 DEF CommitAlert, Settle, TInv, TypeOK, SharedOK, sideVars
<1>4. NoAlerts \in AlertTable
  BY DEF NoAlerts, AlertTable
<1> QED
  BY <1>3, <1>4, WorkerSettles DEF CommitAlert, DropWrites, Settle, Goto

LEMMA FailTyped == ASSUME TInv, NEW w \in Worker, Fail(w) PROVE TInv'
<1>1. job[w] \in Job /\ job[w].ev \in Event
  BY JobFields DEF Fail, TInv, PhaseOK, WorkerPhase
<1>2. SharedOK'
  BY <1>1 DEF Fail, Settle, TInv, TypeOK, SharedOK, AlertTable, IncidentTable, sideVars
<1>3. NoAlerts \in AlertTable
  BY DEF NoAlerts, AlertTable
<1> QED
  BY <1>2, <1>3, WorkerSettles DEF Fail, DropWrites, Settle, Goto

LEMMA InsertAlertTyped == ASSUME TInv, NEW w \in Worker, InsertAlert(w) PROVE TInv'
<1>1. job[w] \in Job /\ pendI[w] = NoIncidents
  BY DEF InsertAlert, TInv, PhaseOK, WorkerPhase
<1> DEFINE row == [fp |-> job[w].fp, sev |-> job[w].sev, status |-> "triggered",
                   incident |-> None]
           pa == [pendA[w] EXCEPT ![job[w].ev] = row]
<1>2. row \in AlertRow
  BY <1>1, JobFields DEF AlertRow, AlertStatus
<1>3. pa \in AlertTable /\ pa[job[w].ev] # None /\ pendA' = [pendA EXCEPT ![w] = pa]
  <2>1. pendA' = [pendA EXCEPT ![w] = pa]
    BY DEF InsertAlert
  <2>2. pendA[w] \in AlertTable /\ job[w].ev \in Event
    BY <1>1, JobFields DEF TInv, TypeOK, AlertTable, Process
  <2> QED
    BY <1>2, <2>1, <2>2, RowsAreNotNone DEF AlertTable
<1>4. PICK step \in {"bump", "open"}, j \in Job :
         /\ pc' = [pc EXCEPT ![w] = step] /\ job' = [job EXCEPT ![w] = j]
         /\ step = "bump" => j.incident # None
         /\ j.ev = job[w].ev
  <2>1. ASSUME NEW i \in OpenIncidents(job[w].fp), Goto(w, "bump"),
               job' = [job EXCEPT ![w] =
                         Chosen(@, i, Worse(incidents[i].sev, job[w].sev))]
        PROVE  \E step \in {"bump", "open"}, j \in Job :
                  /\ pc' = [pc EXCEPT ![w] = step] /\ job' = [job EXCEPT ![w] = j]
                  /\ step = "bump" => j.incident # None
                  /\ j.ev = job[w].ev
    <3> DEFINE j == Chosen(job[w], i, Worse(incidents[i].sev, job[w].sev))
    <3>1. i \in Incident /\ incidents[i] \in IncidentRow
      BY <2>1 DEF OpenIncidents, IsOpen, TInv, TypeOK
    <3>2. Worse(incidents[i].sev, job[w].sev) \in Severity
      BY <1>1, <3>1, JobFields, IncidentRowFields DEF Worse
    <3>3. j \in Job /\ j.incident = i /\ j.ev = job[w].ev
      BY <1>1, <3>1, <3>2, ChosenJob
    <3>4. job' = [job EXCEPT ![w] = j]
      BY <2>1
    <3> HIDE DEF j
    <3> QED
      BY <2>1, <3>1, <3>3, <3>4, RowsAreNotNone DEF Goto
  <2>2. CASE Goto(w, "open") /\ UNCHANGED job
    BY <1>1, <2>2 DEF Goto, TInv, TypeOK
  <2> QED
    BY <2>1, <2>2 DEF InsertAlert
<1>5. SharedOK'
  BY DEF InsertAlert, TInv, TypeOK, SharedOK, AlertTable, IncidentTable, sideVars
<1> HIDE DEF pa
<1>6. WorkerPhase(step, j, pa, NoIncidents)
  BY <1>3, <1>4 DEF WorkerPhase, WorkerStep
<1>7. /\ NoIncidents \in IncidentTable /\ pendI' = [pendI EXCEPT ![w] = NoIncidents]
      /\ target' = target
  BY <1>1 DEF InsertAlert, TInv, TypeOK, NoIncidents, IncidentTable, Process
<1> QED
  BY <1>3, <1>4, <1>5, <1>6, <1>7, WorkerMoves

\* Writing one alert row of the worker's own keeps the others.
LEMMA LinkedAlert ==
  ASSUME NEW pa \in AlertTable, NEW e \in Event, NEW i \in Incident, pa[e] # None
  PROVE  LET new == [pa EXCEPT ![e].incident = i] IN new \in AlertTable /\ new[e] # None
<1>1. pa[e] \in AlertRow
  BY DEF AlertTable
<1>2. [pa[e] EXCEPT !.incident = i] \in AlertRow
  BY <1>1, AlertRowFields
<1> QED
  BY <1>1, <1>2, RowsAreNotNone DEF AlertTable

LEMMA BumpIncidentTyped == ASSUME TInv, NEW w \in Worker, BumpIncident(w) PROVE TInv'
<1> DEFINE e == job[w].ev
           i == job[w].incident
           pa == [pendA[w] EXCEPT ![e].incident = i]
<1>1. /\ job[w] \in Job /\ i # None /\ pendA[w][e] # None /\ pendI[w] = NoIncidents
  BY DEF BumpIncident, TInv, PhaseOK, WorkerPhase
<1>2. e \in Event /\ i \in Incident /\ job[w].worst \in Severity
  BY <1>1, JobFields
<1>3. pa \in AlertTable /\ pa[e] # None /\ pendA' = [pendA EXCEPT ![w] = pa]
  <2>1. pendA[w] \in AlertTable
    BY DEF TInv, TypeOK, AlertTable, Process
  <2>2. pa \in AlertTable /\ pa[e] # None
    BY <1>1, <1>2, <2>1, LinkedAlert
  <2> QED
    BY <2>2 DEF BumpIncident
<1>4. PICK pi \in IncidentTable : pendI' = [pendI EXCEPT ![w] = pi]
  <2>0. pendI \in [Process -> IncidentTable] /\ w \in Process
    BY DEF TInv, TypeOK, IncidentTable, Process
  <2>1. CASE incidents[i] = None
    BY <2>0, <2>1 DEF BumpIncident
  <2>2. CASE incidents[i] # None
    <3>1. Bumped(incidents[i], job[w].worst) \in IncidentRow
      BY <1>2, <2>2, BumpedRow DEF TInv, TypeOK
    <3>2. [pendI[w] EXCEPT ![i] = Bumped(incidents[i], job[w].worst)] \in IncidentTable
      BY <1>2, <2>0, <3>1 DEF IncidentTable
    <3> QED
      BY <2>2, <3>2 DEF BumpIncident
  <2> QED
    BY <2>1, <2>2
<1>5. SharedOK'
  BY DEF BumpIncident, TInv, TypeOK, SharedOK, AlertTable, IncidentTable, sideVars
<1>6. /\ pc' = [pc EXCEPT ![w] = "announce"] /\ target' = target
      /\ job' = [job EXCEPT ![w] = job[w]] /\ job[w] \in Job \cup {None}
  BY <1>1 DEF BumpIncident, Goto, TInv, TypeOK
<1> HIDE DEF pa
<1>7. WorkerPhase("announce", job[w], pa, pi)
  BY <1>1, <1>3 DEF WorkerPhase, WorkerStep
<1> QED
  BY <1>3, <1>4, <1>5, <1>6, <1>7, WorkerMoves

LEMMA OpenIncidentTyped == ASSUME TInv, NEW w \in Worker, OpenIncident(w) PROVE TInv'
<1> DEFINE e == job[w].ev
<1>1. job[w] \in Job /\ pendA[w][e] # None
  BY DEF OpenIncident, TInv, PhaseOK, WorkerPhase
<1>2. e \in Event /\ job[w].fp \in Fingerprint /\ job[w].sev \in Severity
  BY <1>1, JobFields
<1>3. /\ pendI \in [Process -> IncidentTable] /\ pendA \in [Process -> AlertTable] /\ w \in Process
  BY DEF TInv, TypeOK, IncidentTable, AlertTable, Process
<1>4. PICK pa \in AlertTable, pi \in IncidentTable :
         /\ pa[e] # None
         /\ pendA' = [pendA EXCEPT ![w] = pa] /\ pendI' = [pendI EXCEPT ![w] = pi]
  <2>1. CASE OpenIncidents(job[w].fp) # {}
    BY <1>1, <1>3, <2>1 DEF OpenIncident
  <2>2. CASE OpenIncidents(job[w].fp) = {}
    <3> DEFINE row == [fp |-> job[w].fp, sev |-> job[w].sev, status |-> "open", count |-> 1]
    <3>1. PICK i \in Incident :
            /\ pendI' = [pendI EXCEPT ![w][i] = row]
            /\ pendA' = [pendA EXCEPT ![w][e].incident = i]
      BY <2>2 DEF OpenIncident
    <3>2. row \in IncidentRow
      BY <1>2 DEF IncidentRow, IncidentStatus
    <3> HIDE DEF row
    <3>3. [pendI[w] EXCEPT ![i] = row] \in IncidentTable
      BY <1>3, <3>2 DEF IncidentTable
    <3>4. /\ [pendA[w] EXCEPT ![e].incident = i] \in AlertTable
          /\ [pendA[w] EXCEPT ![e].incident = i][e] # None
      BY <1>1, <1>2, <1>3, LinkedAlert
    <3> QED
      BY <3>1, <3>3, <3>4
  <2> QED
    BY <2>1, <2>2
<1>5. SharedOK'
  BY DEF OpenIncident, TInv, TypeOK, SharedOK, AlertTable, IncidentTable, sideVars
<1>6. /\ pc' = [pc EXCEPT ![w] = "announce"] /\ target' = target
      /\ job' = [job EXCEPT ![w] = job[w]] /\ job[w] \in Job \cup {None}
  BY <1>1 DEF OpenIncident, Goto, TInv, TypeOK
<1>7. WorkerPhase("announce", job[w], pa, pi)
  BY <1>1, <1>4 DEF WorkerPhase, WorkerStep
<1> QED
  BY <1>4, <1>5, <1>6, <1>7, WorkerMoves

LEMMA LeaveUngroupedTyped == ASSUME TInv, NEW w \in Worker, LeaveUngrouped(w) PROVE TInv'
<1>1. job[w] \in Job /\ pendA[w][job[w].ev] # None
  BY DEF LeaveUngrouped, TInv, PhaseOK, WorkerPhase
<1>2. SharedOK'
  BY DEF LeaveUngrouped, TInv, TypeOK, SharedOK, AlertTable, IncidentTable, sideVars
<1>3. WorkerPhase("announce", job[w], pendA[w], pendI[w])
  BY <1>1 DEF WorkerPhase, WorkerStep
<1>4. /\ pc' = [pc EXCEPT ![w] = "announce"] /\ UNCHANGED <<pendA, pendI, target>>
      /\ job' = [job EXCEPT ![w] = job[w]]
  BY <1>1 DEF LeaveUngrouped, Goto, TInv, TypeOK
<1> QED
  BY <1>1, <1>2, <1>3, <1>4, WorkerReads

LEMMA AnnounceTyped == ASSUME TInv, NEW w \in Worker, Announce(w) PROVE TInv'
<1>1. job[w] \in Job /\ pendA[w][job[w].ev] # None
  BY DEF Announce, TInv, PhaseOK, WorkerPhase
<1>2. job[w].ev \in Event /\ job[w].fp \in Fingerprint
  BY <1>1, JobFields
<1>3. debounce' \in [Fingerprint -> Event \cup {None}] /\ aiQueue' \subseteq Event
      /\ soar' \subseteq Event
  BY <1>2 DEF Announce, TInv, TypeOK
<1>4. SharedOK'
  BY <1>3 DEF Announce, TInv, TypeOK, SharedOK, AlertTable, IncidentTable
<1>5. WorkerPhase("commit", job[w], pendA[w], pendI[w])
  BY <1>1 DEF WorkerPhase, WorkerStep
<1>6. /\ pc' = [pc EXCEPT ![w] = "commit"] /\ UNCHANGED <<pendA, pendI, target>>
      /\ job' = [job EXCEPT ![w] = job[w]]
  BY <1>1 DEF Announce, Goto, TInv, TypeOK
<1> QED
  BY <1>1, <1>4, <1>5, <1>6, WorkerReads

-----------------------------------------------------------------------------
(* The operators' requests.                                                *)

\* A request that ends without leaving anything uncommitted.
LEMMA RequestEnds ==
  ASSUME TInv, NEW r \in Request, SharedOK', pc' = [pc EXCEPT ![r] = "done"],
         NEW pa \in AlertTable, pendA' = [pendA EXCEPT ![r] = pa],
         pendI' = [pendI EXCEPT ![r] = NoIncidents], UNCHANGED <<target, job>>
  PROVE  TInv'
<1> DEFINE t == target[r]
<1>1. NoIncidents \in IncidentTable
  BY DEF NoIncidents, IncidentTable
<1>2. RequestPhase("done", t, NoIncidents)
  BY DEF RequestPhase, RequestStep
<1>3. /\ t \in Target \cup {None} /\ target' = [target EXCEPT ![r] = t] /\ job' = job
  BY DEF TInv, TypeOK
<1> HIDE DEF t
<1> QED
  BY <1>1, <1>2, <1>3, RequestMoves

\* A handler of one statement.
LEMMA OneStatement ==
  ASSUME TInv, NEW r \in Request, pc[r] = "new", Goto(r, "done"), alerts' \in AlertTable,
         UNCHANGED <<event, incidents, pendA, pendI, job, target, sideVars>>
  PROVE  TInv'
<1>1. SharedOK'
  BY DEF TInv, TypeOK, SharedOK, AlertTable, IncidentTable, sideVars
<1>2. /\ pendA[r] \in AlertTable /\ pendA' = [pendA EXCEPT ![r] = pendA[r]]
      /\ pendI' = [pendI EXCEPT ![r] = NoIncidents]
  BY DEF TInv, TypeOK, PhaseOK, RequestPhase, AlertTable, Process
<1> QED
  BY <1>1, <1>2, RequestEnds DEF Goto

LEMMA StatusWrite ==
  ASSUME TInv, NEW e \in Event, alerts[e] # None, NEW s \in AlertStatus
  PROVE  /\ [alerts[e] EXCEPT !.status = s] \in AlertRow
         /\ [alerts EXCEPT ![e].status = s] \in AlertTable
<1>1. [alerts[e] EXCEPT !.status = s] \in AlertRow
  BY AlertRowFields DEF TInv, TypeOK
<1> QED
  BY <1>1 DEF TInv, TypeOK, AlertTable

LEMMA AcknowledgeAlertTyped == ASSUME TInv, NEW r \in Request, AcknowledgeAlert(r) PROVE TInv'
<1>1. PICK e \in Event : alerts[e] # None /\ SetAlertStatus(r, e, "acknowledged")
  BY DEF AcknowledgeAlert
<1>2. alerts' \in AlertTable
  BY <1>1, StatusWrite DEF SetAlertStatus, AlertStatus
<1> QED
  BY <1>1, <1>2, OneStatement DEF AcknowledgeAlert, Calls, SetAlertStatus

LEMMA ReopenAlertTyped == ASSUME TInv, NEW r \in Request, ReopenAlert(r) PROVE TInv'
<1>1. PICK e \in Event : alerts[e] # None /\ SetAlertStatus(r, e, "triggered")
  BY DEF ReopenAlert
<1>2. alerts' \in AlertTable
  BY <1>1, StatusWrite DEF SetAlertStatus, AlertStatus
<1> QED
  BY <1>1, <1>2, OneStatement DEF ReopenAlert, Calls, SetAlertStatus

LEMMA CleanupAlertsTyped == ASSUME TInv, NEW r \in Request, CleanupAlerts(r) PROVE TInv'
<1>1. alerts' \in AlertTable
  BY DEF CleanupAlerts, TInv, TypeOK, AlertTable
<1> QED
  BY <1>1, OneStatement DEF CleanupAlerts, Calls

LEMMA ResolveAlertTyped == ASSUME TInv, NEW r \in Request, ResolveAlert(r) PROVE TInv'
<1>1. PICK e \in Event :
        /\ alerts[e] # None
        /\ pendA' = [pendA EXCEPT ![r][e] = [alerts[e] EXCEPT !.status = "resolved"]]
        /\ target' = [target EXCEPT ![r] =
                        [alert |-> e, incident |-> alerts[e].incident, status |-> "resolved"]]
  BY DEF ResolveAlert
<1> DEFINE t == [alert |-> e, incident |-> alerts[e].incident, status |-> "resolved"]
           pa == [pendA[r] EXCEPT ![e] = [alerts[e] EXCEPT !.status = "resolved"]]
<1>2. alerts[e].incident \in Incident \cup {None}
  BY <1>1, AlertRowFields DEF TInv, TypeOK
<1>3. t \in Target
  BY <1>2 DEF Target, AlertStatus, IncidentStatus
<1>4. pa \in AlertTable /\ pendA' = [pendA EXCEPT ![r] = pa]
  <2>1. [alerts[e] EXCEPT !.status = "resolved"] \in AlertRow
    BY <1>1, StatusWrite DEF AlertStatus
  <2>2. pendA[r] \in AlertTable
    BY DEF TInv, TypeOK, AlertTable, Process
  <2>3. pa \in AlertTable
    BY <2>1, <2>2 DEF AlertTable
  <2> QED
    BY <1>1, <2>3
<1>5. SharedOK'
  BY DEF ResolveAlert, TInv, TypeOK, SharedOK, AlertTable, IncidentTable, sideVars
<1>6. /\ NoIncidents \in IncidentTable /\ pendI' = [pendI EXCEPT ![r] = NoIncidents]
      /\ pc' = [pc EXCEPT ![r] = "check"] /\ job' = job
  <2>1. pendI[r] = NoIncidents
    BY DEF ResolveAlert, Calls, TInv, PhaseOK, RequestPhase
  <2>2. pendI' = pendI /\ pc' = [pc EXCEPT ![r] = "check"] /\ job' = job
    BY DEF ResolveAlert, Goto
  <2> QED
    BY <2>1, <2>2 DEF TInv, TypeOK, NoIncidents, IncidentTable, Process
<1>7. RequestPhase("check", t, NoIncidents) /\ t \in Target \cup {None}
      /\ target' = [target EXCEPT ![r] = t]
  BY <1>1, <1>3 DEF RequestPhase, RequestStep
<1> HIDE DEF t, pa
<1> QED
  BY <1>4, <1>5, <1>6, <1>7, RequestMoves

\* A request whose target and committed tables stay as they are.
LEMMA RequestSteps ==
  ASSUME TInv, NEW r \in Request, NEW step,
         NEW pa \in AlertTable, NEW pi \in IncidentTable,
         RequestPhase(step, target[r], pi), pc' = [pc EXCEPT ![r] = step],
         pendA' = [pendA EXCEPT ![r] = pa], pendI' = [pendI EXCEPT ![r] = pi],
         UNCHANGED <<event, alerts, incidents, job, target, sideVars>>
  PROVE  TInv'
<1> DEFINE t == target[r]
<1>1. SharedOK'
  BY DEF TInv, TypeOK, SharedOK, AlertTable, IncidentTable, sideVars
<1>2. /\ t \in Target \cup {None} /\ target' = [target EXCEPT ![r] = t] /\ job' = job
      /\ RequestPhase(step, t, pi)
  BY DEF TInv, TypeOK
<1> HIDE DEF t
<1> QED
  BY <1>1, <1>2, RequestMoves

LEMMA CheckSiblingsTyped == ASSUME TInv, NEW r \in Request, CheckSiblings(r) PROVE TInv'
<1>1. /\ pendA[r] \in AlertTable /\ pendI[r] \in IncidentTable
      /\ pendA' = [pendA EXCEPT ![r] = pendA[r]] /\ pendI' = [pendI EXCEPT ![r] = pendI[r]]
      /\ pendI[r] = NoIncidents /\ target[r] \in Target
  BY DEF CheckSiblings, TInv, TypeOK, PhaseOK, RequestPhase, AlertTable, IncidentTable, Process
<1>2. PICK step \in {"close", "commit"} :
        pc' = [pc EXCEPT ![r] = step] /\ (step = "close" => target[r].incident # None)
  BY DEF CheckSiblings, Goto
<1>3. RequestPhase(step, target[r], pendI[r])
  BY <1>1, <1>2 DEF RequestPhase, RequestStep
<1> QED
  BY <1>1, <1>2, <1>3, RequestSteps DEF CheckSiblings

\* A status written into one incident row.
LEMMA IncidentWrite ==
  ASSUME TInv, NEW r \in Request, NEW i \in Incident, incidents[i] # None,
         NEW s \in IncidentStatus
  PROVE  [pendI[r] EXCEPT ![i] = [incidents[i] EXCEPT !.status = s]] \in IncidentTable
<1>1. [incidents[i] EXCEPT !.status = s] \in IncidentRow
  BY IncidentRowFields DEF TInv, TypeOK
<1>2. pendI[r] \in IncidentTable
  BY DEF TInv, TypeOK, IncidentTable, Process
<1> QED
  BY <1>1, <1>2 DEF IncidentTable

LEMMA CloseIncidentTyped == ASSUME TInv, NEW r \in Request, CloseIncident(r) PROVE TInv'
<1> DEFINE i == target[r].incident
<1>1. /\ pendA[r] \in AlertTable /\ pendA' = [pendA EXCEPT ![r] = pendA[r]]
      /\ target[r] \in Target /\ i # None
  BY DEF CloseIncident, TInv, TypeOK, PhaseOK, RequestPhase, AlertTable, Process
<1>2. i \in Incident
  BY <1>1 DEF Target
<1>3. PICK pi \in IncidentTable : pendI' = [pendI EXCEPT ![r] = pi]
  <2>1. CASE IsOpen(incidents[i])
    <3>1. [pendI[r] EXCEPT ![i] = [incidents[i] EXCEPT !.status = "resolved"]] \in IncidentTable
      BY <1>2, <2>1, IncidentWrite DEF IsOpen, IncidentStatus
    <3> QED
      BY <2>1, <3>1 DEF CloseIncident
  <2>2. CASE ~IsOpen(incidents[i])
    BY <2>2 DEF CloseIncident, TInv, TypeOK, IncidentTable, Process
  <2> QED
    BY <2>1, <2>2
<1>4. RequestPhase("commit", target[r], pi)
  BY <1>1 DEF RequestPhase, RequestStep
<1> QED
  BY <1>1, <1>3, <1>4, RequestSteps DEF CloseIncident, Goto

LEMMA ChangeIncidentTyped ==
  ASSUME TInv, NEW r \in Request, NEW kind, NEW s \in {"acknowledged", "resolved"},
         ChangeIncident(r, kind, s)
  PROVE  TInv'
<1>1. PICK i \in Incident :
        /\ IsOpen(incidents[i])
        /\ pendI' = [pendI EXCEPT ![r][i] = [incidents[i] EXCEPT !.status = s]]
        /\ target' = [target EXCEPT ![r] = [alert |-> None, incident |-> i, status |-> s]]
  BY DEF ChangeIncident
<1> DEFINE t == [alert |-> None, incident |-> i, status |-> s]
           pi == [pendI[r] EXCEPT ![i] = [incidents[i] EXCEPT !.status = s]]
<1>2. t \in Target /\ t.incident # None
  BY RowsAreNotNone DEF Target, AlertStatus, IncidentStatus
<1>3. pi \in IncidentTable /\ pendI' = [pendI EXCEPT ![r] = pi]
  BY <1>1, IncidentWrite DEF IsOpen, IncidentStatus
<1>4. SharedOK'
  BY DEF ChangeIncident, TInv, TypeOK, SharedOK, AlertTable, IncidentTable, sideVars
<1>5. RequestPhase("cascade", t, pi)
  BY <1>2 DEF RequestPhase, RequestStep
<1>6. /\ pendA[r] \in AlertTable /\ pendA' = [pendA EXCEPT ![r] = pendA[r]]
      /\ pc' = [pc EXCEPT ![r] = "cascade"] /\ job' = job
      /\ target' = [target EXCEPT ![r] = t] /\ t \in Target \cup {None}
  BY <1>1, <1>2 DEF ChangeIncident, Goto, TInv, TypeOK, AlertTable, Process
<1> HIDE DEF t, pi
<1> QED
  BY <1>3, <1>4, <1>5, <1>6, RequestMoves

LEMMA CascadeToAlertsTyped == ASSUME TInv, NEW r \in Request, CascadeToAlerts(r) PROVE TInv'
<1>1. /\ pendI[r] \in IncidentTable /\ pendI' = [pendI EXCEPT ![r] = pendI[r]]
      /\ target[r] \in Target
  BY DEF CascadeToAlerts, TInv, TypeOK, PhaseOK, RequestPhase, IncidentTable, Process
<1>2. target[r].status \in AlertStatus
  BY <1>1 DEF Target
<1> DEFINE pa == [e \in Event |-> IF e \in CascadeRows(r)
                                  THEN [alerts[e] EXCEPT !.status = target[r].status]
                                  ELSE None]
<1>3. pa \in AlertTable
  <2>1. \A e \in CascadeRows(r) : [alerts[e] EXCEPT !.status = target[r].status] \in AlertRow
    BY <1>2, StatusWrite DEF CascadeRows
  <2> QED
    BY <2>1 DEF AlertTable
<1>4. pendA' = [pendA EXCEPT ![r] = pa] /\ pc' = [pc EXCEPT ![r] = "commit"]
  BY DEF CascadeToAlerts, Goto
<1>5. RequestPhase("commit", target[r], pendI[r])
  BY <1>1 DEF RequestPhase, RequestStep
<1> HIDE DEF pa
<1> QED
  BY <1>1, <1>3, <1>4, <1>5, RequestSteps DEF CascadeToAlerts

LEMMA CommitRequestTyped == ASSUME TInv, NEW r \in Request, CommitRequest(r) PROVE TInv'
<1>1. alerts' \in AlertTable /\ incidents' \in IncidentTable
  BY MergeTyped DEF CommitRequest, ApplyWrites, TInv, TypeOK, AlertTable, IncidentTable, Process
<1>2. SharedOK'
  BY <1>1 DEF CommitRequest, TInv, TypeOK, SharedOK, sideVars
<1>3. NoAlerts \in AlertTable
  BY DEF NoAlerts, AlertTable
<1> QED
  BY <1>2, <1>3, RequestEnds DEF CommitRequest, DropWrites, Goto

LEMMA RollBackTyped == ASSUME TInv, NEW r \in Request, RollBack(r) PROVE TInv'
<1>1. SharedOK'
  BY DEF RollBack, TInv, TypeOK, SharedOK, AlertTable, IncidentTable, sideVars
<1>2. NoAlerts \in AlertTable
  BY DEF NoAlerts, AlertTable
<1> QED
  BY <1>1, <1>2, RequestEnds DEF RollBack, DropWrites, Goto

-----------------------------------------------------------------------------
(* The environment.                                                        *)

LEMMA ExpireDebounceTyped ==
  ASSUME TInv, NEW f \in Fingerprint, ExpireDebounce(f) PROVE TInv'
<1>1. SharedOK'
  BY DEF ExpireDebounce, TInv, TypeOK, SharedOK, AlertTable, IncidentTable
<1> QED
  BY <1>1, SharedMoves DEF ExpireDebounce

LEMMA AiTakeTyped == ASSUME TInv, NEW e \in Event, AiTake(e) PROVE TInv'
<1>1. SharedOK'
  BY DEF AiTake, TInv, TypeOK, SharedOK, AlertTable, IncidentTable
<1> QED
  BY <1>1, SharedMoves DEF AiTake

\* What the heuristics decide, and the row they write it into, are alert rows.
LEMMA JudgedRow ==
  ASSUME NEW read \in AlertRow, NEW v \in Verdicts(read), NEW row \in AlertRow
  PROVE  Judged(row, v) \in AlertRow
<1>1. v \in AlertRow
  <2>1. [read EXCEPT !.status = "suppressed"] \in AlertRow
    BY AlertRowFields DEF AlertStatus
  <2>2. Downgrade(read.sev) \in Severity
    <3>1. read.sev \in Severity
      BY AlertRowFields
    <3> QED
      BY <3>1 DEF Downgrade, Severity
  <2>3. [read EXCEPT !.sev = Downgrade(@)] \in AlertRow
    BY <2>2, AlertRowFields
  <2> QED
    BY <2>1, <2>3 DEF Verdicts
<1> DEFINE k == [row EXCEPT !.sev = v.sev]
<1>2. k \in AlertRow /\ v.status \in AlertStatus
  BY <1>1, AlertRowFields
<1> HIDE DEF k
<1>3. [k EXCEPT !.status = v.status] \in AlertRow
  BY <1>2, AlertRowFields
<1> QED
  BY <1>3 DEF k, Judged

LEMMA AiWriteTyped == ASSUME TInv, AiWrite PROVE TInv'
<1>1. alerts' \in AlertTable
  <2>1. CASE UNCHANGED alerts
    BY <2>1 DEF TInv, TypeOK, AlertTable
  <2>2. CASE ~UNCHANGED alerts
    <3> DEFINE e == aiJob.alert
    <3>1. PICK v \in Verdicts(aiJob.row) :
            alerts[e] # None /\ alerts' = [alerts EXCEPT ![e] = Judged(alerts[e], v)]
      BY <2>2 DEF AiWrite
    <3>2. e \in Event /\ aiJob.row \in AlertRow
      BY DEF AiWrite, TInv, TypeOK
    <3>3. Judged(alerts[e], v) \in AlertRow
      BY <3>1, <3>2, JudgedRow DEF TInv, TypeOK
    <3> QED
      BY <3>1, <3>2, <3>3 DEF TInv, TypeOK, AlertTable
  <2> QED
    BY <2>1, <2>2
<1>2. SharedOK'
  BY <1>1 DEF AiWrite, TInv, TypeOK, SharedOK, IncidentTable
<1> QED
  BY <1>2, SharedMoves DEF AiWrite

LEMMA SoarFinishTyped == ASSUME TInv, NEW e \in Event, SoarFinish(e) PROVE TInv'
<1>1. alerts' \in AlertTable
  <2>1. CASE UNCHANGED alerts
    BY <2>1 DEF TInv, TypeOK, AlertTable
  <2>2. CASE ~UNCHANGED alerts
    BY <2>2, StatusWrite DEF SoarFinish, AlertStatus
  <2> QED
    BY <2>1, <2>2
<1>2. SharedOK'
  BY <1>1 DEF SoarFinish, TInv, TypeOK, SharedOK, IncidentTable
<1> QED
  BY <1>2, SharedMoves DEF SoarFinish

LEMMA MonthPassesTyped == ASSUME TInv, MonthPasses PROVE TInv'
<1>1. SharedOK'
  BY DEF MonthPasses, TInv, TypeOK, SharedOK, AlertTable, IncidentTable
<1> QED
  BY <1>1, SharedMoves DEF MonthPasses

LEMMA EnforceRetentionTyped == ASSUME TInv, EnforceRetention PROVE TInv'
<1>1. SharedOK'
  BY DEF EnforceRetention, AgedIncidents, TInv, TypeOK, SharedOK, AlertTable, IncidentTable
<1> QED
  BY <1>1, SharedMoves DEF EnforceRetention

-----------------------------------------------------------------------------
LEMMA NextTyped == TInv /\ [Next]_vars => TInv'
<1> SUFFICES ASSUME TInv, [Next]_vars PROVE TInv'
  OBVIOUS
<1>1. CASE \E w \in Worker : WorkerLoop(w) \/ Fail(w)
  BY <1>1, PopTyped, MuteTyped, ReadDebounceTyped, FetchAlertTyped, GroupIntoAlertTyped,
     InsertAlertTyped, BumpIncidentTyped, OpenIncidentTyped, LeaveUngroupedTyped,
     AnnounceTyped, CommitAlertTyped, FailTyped
  DEF WorkerLoop, ProcessEvent, Create
<1>2. CASE \E r \in Request : Arrive(r)
  BY <1>2, AcknowledgeAlertTyped, ReopenAlertTyped, CleanupAlertsTyped, ResolveAlertTyped,
     ChangeIncidentTyped
  DEF Arrive, AcknowledgeIncident, ResolveIncident
<1>3. CASE \E r \in Request : Handle(r) \/ FailRequest(r) \/ BreakDeadlock(r)
  BY <1>3, CheckSiblingsTyped, CloseIncidentTyped, CascadeToAlertsTyped,
     CommitRequestTyped, RollBackTyped
  DEF Handle, FailRequest, BreakDeadlock
<1>4. CASE Background
  BY <1>4, ExpireDebounceTyped, AiTakeTyped, SoarFinishTyped, AiWriteTyped,
     MonthPassesTyped, EnforceRetentionTyped
  DEF Background
<1>5. CASE UNCHANGED vars
  <2>1. SharedOK'
    BY <1>5 DEF vars, TInv, TypeOK, SharedOK, AlertTable, IncidentTable
  <2> QED
    BY <1>5, <2>1, SharedMoves DEF vars
<1> QED
  BY <1>1, <1>2, <1>3, <1>4, <1>5 DEF Next

LEMMA AlwaysTyped == Spec => []TInv
  BY InitTyped, NextTyped, PTL DEF Spec

\* Every row a worker, an operator, the AI worker or retention writes is a
\* row of the schema, and every pointer a statement follows leads to one.
THEOREM Typing == Spec => []TypeOK
<1>1. TInv => TypeOK
  BY DEF TInv
<1> QED
  BY <1>1, AlwaysTyped, PTL

-----------------------------------------------------------------------------
(* The incident table.  What an unfinished transaction has written about   *)
(* an incident, compared with the committed row, decides what its commit   *)
(* can do to the table.                                                    *)

\* The three writes a transaction can hold for incident i.
Inserts(p, i) ==
    /\ p \in Worker /\ incidents[i] = None /\ i \notin pruned
    /\ pendI[p][i].status = "open" /\ pendI[p][i].count = 1
    /\ OpenIncidents(pendI[p][i].fp) = {}
Attaches(p, i) ==
    /\ p \in Worker /\ incidents[i] # None
    /\ pendI[p][i].fp = incidents[i].fp
    /\ pendI[p][i].status = incidents[i].status
    /\ pendI[p][i].count = incidents[i].count + 1
Changes(p, i) ==
    /\ p \in Request /\ IsOpen(incidents[i])
    /\ pendI[p][i].fp = incidents[i].fp
    /\ pendI[p][i].status \in {"acknowledged", "resolved"}
    /\ pendI[p][i].count = incidents[i].count

PendingKinds ==
    \A p \in Process, i \in Incident :
        pendI[p][i] # None => Inserts(p, i) \/ Attaches(p, i) \/ Changes(p, i)

\* A transaction holds one incident, and an incident has one holder.
IncidentLocks ==
    \A p, q \in Process, i, j \in Incident :
        pendI[p][i] # None /\ pendI[q][j] # None => (p = q <=> i = j)

\* The wait for the index: two unfinished inserts differ in fingerprint.
InsertsDiffer ==
    \A p, q \in Process, i, j \in Incident :
        /\ pendI[p][i] # None /\ incidents[i] = None
        /\ pendI[q][j] # None /\ incidents[j] = None
        /\ p # q
        => pendI[p][i].fp # pendI[q][j].fp

PrunedAreGone == \A i \in pruned : incidents[i] = None

RegistryInv == PendingKinds /\ IncidentLocks /\ InsertsDiffer /\ UniqueOpen /\ PrunedAreGone

\* The incident tables, and the pending rows, are functions of their ids.
LEMMA Tables ==
  ASSUME TInv
  PROVE  /\ pendI \in [Process -> IncidentTable] /\ incidents \in IncidentTable
         /\ \A p \in Process : pendI[p] \in IncidentTable
  BY DEF TInv, TypeOK, IncidentTable

LEMMA Untouched ==
  ASSUME RegistryInv, UNCHANGED <<incidents, pendI, pruned>>
  PROVE  RegistryInv'
  BY DEF RegistryInv, PendingKinds, Inserts, Attaches, Changes, IncidentLocks, InsertsDiffer,
         UniqueOpen, OpenIncidents, PrunedAreGone

\* The end of a transaction that changes no table.
LEMMA Drops ==
  ASSUME TInv, RegistryInv, NEW p \in Process,
         pendI' = [pendI EXCEPT ![p] = NoIncidents], UNCHANGED <<incidents, pruned>>
  PROVE  RegistryInv'
<1>1. \A q \in Process, i \in Incident : pendI'[q][i] # None => pendI'[q] = pendI[q]
  BY Tables DEF NoIncidents
<1> QED
  BY <1>1 DEF RegistryInv, PendingKinds, Inserts, Attaches, Changes, IncidentLocks,
     InsertsDiffer, UniqueOpen, OpenIncidents, PrunedAreGone, IsOpen

\* A statement writes one incident row under its lock.
LEMMA Writes ==
  ASSUME TInv, RegistryInv, NEW p \in Process, NEW i \in Incident, NEW row \in IncidentRow,
         pendI[p] = NoIncidents, ~IncidentLocked(i, p),
         pendI' = [pendI EXCEPT ![p][i] = row], UNCHANGED <<incidents, pruned>>,
         (Inserts(p, i) \/ Attaches(p, i) \/ Changes(p, i))',
         incidents[i] = None => ~IndexEntryInFlight(row.fp, p)
  PROVE  RegistryInv'
<1>1. /\ \A q \in Process \ {p} : pendI'[q] = pendI[q]
      /\ \A j \in Incident \ {i} : pendI'[p][j] = None
      /\ pendI'[p][i] = row
  BY Tables DEF NoIncidents, IncidentTable
<1>2. PendingKinds'
  <2> SUFFICES ASSUME NEW q \in Process, NEW j \in Incident, pendI'[q][j] # None
               PROVE  (Inserts(q, j) \/ Attaches(q, j) \/ Changes(q, j))'
    BY DEF PendingKinds
  <2>1. CASE q = p
    BY <1>1, <2>1
  <2>2. CASE q # p
    <3>1. Inserts(q, j) \/ Attaches(q, j) \/ Changes(q, j)
      BY <1>1, <2>2 DEF RegistryInv, PendingKinds
    <3> QED
      BY <1>1, <2>2, <3>1 DEF Inserts, Attaches, Changes, OpenIncidents, IsOpen
  <2> QED
    BY <2>1, <2>2
<1>3. IncidentLocks'
  <2>1. \A q \in Process \ {p} : pendI[q][i] = None
    BY DEF IncidentLocked
  <2> QED
    BY <1>1, <2>1 DEF RegistryInv, IncidentLocks
<1>4. InsertsDiffer'
  <2>1. incidents[i] = None =>
          \A q \in Process \ {p}, j \in Incident :
             pendI[q][j] # None /\ incidents[j] = None => pendI[q][j].fp # row.fp
    BY DEF IndexEntryInFlight
  <2> QED
    BY <1>1, <2>1 DEF RegistryInv, InsertsDiffer
<1>5. UniqueOpen' /\ PrunedAreGone'
  BY DEF RegistryInv, UniqueOpen, OpenIncidents, PrunedAreGone
<1> QED
  BY <1>2, <1>3, <1>4, <1>5 DEF RegistryInv

\* What the commit of p does to the table: each row it holds replaces the
\* committed one, and a fingerprint gains an open incident by an insert only.
LEMMA CommittedTable ==
  ASSUME TInv, RegistryInv, NEW p \in Process, incidents' = Merge(pendI[p], incidents)
  PROVE  /\ \A i \in Incident :
               incidents'[i] = IF pendI[p][i] # None THEN pendI[p][i] ELSE incidents[i]
         /\ \A f, i : i \in OpenIncidents(f)' =>
               \/ i \in OpenIncidents(f)
               \/ pendI[p][i] # None /\ Inserts(p, i) /\ pendI[p][i].fp = f
         /\ \A q \in Process \ {p}, i \in Incident :
               pendI[q][i] # None => incidents'[i] = incidents[i]
<1>1. \A i \in Incident :
         incidents'[i] = IF pendI[p][i] # None THEN pendI[p][i] ELSE incidents[i]
  BY Tables DEF Merge, IncidentTable
<1>2. ASSUME NEW f, NEW i, i \in OpenIncidents(f)'
      PROVE  \/ i \in OpenIncidents(f)
             \/ pendI[p][i] # None /\ Inserts(p, i) /\ pendI[p][i].fp = f
  <2>1. i \in Incident /\ IsOpen(incidents'[i]) /\ incidents'[i].fp = f
    BY <1>2 DEF OpenIncidents, IsOpen
  <2>2. CASE pendI[p][i] = None
    BY <1>1, <2>1, <2>2 DEF OpenIncidents
  <2>3. CASE pendI[p][i] # None
    <3>1. incidents'[i] = pendI[p][i]
      BY <1>1, <2>1, <2>3
    <3>2. Inserts(p, i) \/ Attaches(p, i) \/ Changes(p, i)
      BY <2>1, <2>3 DEF RegistryInv, PendingKinds
    <3> QED
      BY <2>1, <2>3, <3>1, <3>2 DEF OpenIncidents, Attaches, Changes, IsOpen
  <2> QED
    BY <2>2, <2>3
<1>3. \A q \in Process \ {p}, i \in Incident :
         pendI[q][i] # None => incidents'[i] = incidents[i]
  BY <1>1 DEF RegistryInv, IncidentLocks
<1> QED
  BY <1>1, <1>2, <1>3

LEMMA Commits ==
  ASSUME TInv, RegistryInv, NEW p \in Process,
         incidents' = Merge(pendI[p], incidents),
         pendI' = [pendI EXCEPT ![p] = NoIncidents], UNCHANGED pruned
  PROVE  RegistryInv'
<1>1. /\ \A i \in Incident : pendI'[p][i] = None
      /\ \A q \in Process \ {p} : pendI'[q] = pendI[q]
  BY Tables DEF NoIncidents
<1>2. PendingKinds'
  <2> SUFFICES ASSUME NEW q \in Process, NEW j \in Incident, pendI'[q][j] # None
               PROVE  (Inserts(q, j) \/ Attaches(q, j) \/ Changes(q, j))'
    BY DEF PendingKinds
  <2>1. q # p /\ pendI'[q] = pendI[q] /\ pendI[q][j] # None
    BY <1>1
  <2>2. incidents'[j] = incidents[j]
    BY <2>1, CommittedTable
  <2>3. CASE Inserts(q, j)
    <3> PICK f : f = pendI[q][j].fp
      OBVIOUS
    <3>1. ASSUME NEW i \in OpenIncidents(f)' PROVE FALSE
      <4>1. OpenIncidents(f) = {}
        BY <2>3 DEF Inserts
      <4>2. pendI[p][i] # None /\ Inserts(p, i) /\ pendI[p][i].fp = f
        BY <3>1, <4>1, CommittedTable
      <4>3. i \in Incident
        BY DEF OpenIncidents
      <4> QED
        BY <2>1, <2>3, <4>2, <4>3 DEF RegistryInv, InsertsDiffer, Inserts
    <3>2. OpenIncidents(f)' = {}
      BY <3>1
    <3> QED
      BY <2>1, <2>2, <2>3, <3>2 DEF Inserts
  <2>4. CASE Attaches(q, j) \/ Changes(q, j)
    BY <2>1, <2>2, <2>4 DEF Attaches, Changes
  <2> QED
    BY <2>1, <2>3, <2>4 DEF RegistryInv, PendingKinds
<1>3. IncidentLocks'
  BY <1>1 DEF RegistryInv, IncidentLocks
<1>4. InsertsDiffer'
  BY <1>1, CommittedTable DEF RegistryInv, InsertsDiffer
<1>5. UniqueOpen'
  <2> SUFFICES ASSUME NEW f \in Fingerprint,
                      NEW i \in OpenIncidents(f)', NEW j \in OpenIncidents(f)'
               PROVE  i = j
    BY DEF UniqueOpen
  <2>1. CASE i \in OpenIncidents(f) /\ j \in OpenIncidents(f)
    BY <2>1 DEF RegistryInv, UniqueOpen
  <2>2. CASE i \notin OpenIncidents(f) \/ j \notin OpenIncidents(f)
    <3>1. OpenIncidents(f) = {}
      BY <2>2, CommittedTable DEF Inserts
    <3>2. pendI[p][i] # None /\ pendI[p][j] # None
      BY <3>1, CommittedTable
    <3>3. i \in Incident /\ j \in Incident
      BY DEF OpenIncidents
    <3> QED
      BY <3>2, <3>3 DEF RegistryInv, IncidentLocks
  <2> QED
    BY <2>1, <2>2
<1>6. PrunedAreGone'
  <2> SUFFICES ASSUME NEW i \in pruned PROVE incidents'[i] = None
    BY DEF PrunedAreGone
  <2>1. i \in Incident /\ incidents[i] = None
    BY DEF RegistryInv, PrunedAreGone, TInv, TypeOK
  <2>2. pendI[p][i] = None
    BY <2>1 DEF RegistryInv, PendingKinds, Inserts, Attaches, Changes, IsOpen
  <2> QED
    BY <2>1, <2>2, CommittedTable
<1> QED
  BY <1>2, <1>3, <1>4, <1>5, <1>6 DEF RegistryInv

\* Retention waits for every row it deletes, and deletes resolved ones.
LEMMA Retains == ASSUME TInv, RegistryInv, EnforceRetention PROVE RegistryInv'
<1>1. /\ \A i \in Incident : incidents'[i] = IF i \in AgedIncidents THEN None ELSE incidents[i]
      /\ pruned' = pruned \cup AgedIncidents /\ pendI' = pendI
      /\ \A p \in Process : \A i \in aged : pendI[p][i] = None
  BY DEF EnforceRetention
<1>2. \A i \in AgedIncidents :
         /\ i \in Incident /\ i \in aged
         /\ incidents[i] # None /\ incidents[i].status = "resolved"
  BY DEF AgedIncidents, TInv, TypeOK
<1>3. \A f : OpenIncidents(f)' \subseteq OpenIncidents(f)
  BY <1>1 DEF OpenIncidents, IsOpen
<1>4. PendingKinds'
  <2> SUFFICES ASSUME NEW q \in Process, NEW j \in Incident, pendI[q][j] # None
               PROVE  (Inserts(q, j) \/ Attaches(q, j) \/ Changes(q, j))'
    BY <1>1 DEF PendingKinds
  <2>1. j \notin AgedIncidents /\ incidents'[j] = incidents[j]
    BY <1>1, <1>2
  <2>2. Inserts(q, j) \/ Attaches(q, j) \/ Changes(q, j)
    BY DEF RegistryInv, PendingKinds
  <2> PICK f : f = pendI[q][j].fp
    OBVIOUS
  <2>3. OpenIncidents(f)' \subseteq OpenIncidents(f)
    BY <1>3
  <2>4. CASE Inserts(q, j)
    BY <1>1, <2>1, <2>3, <2>4 DEF Inserts
  <2>5. CASE Attaches(q, j) \/ Changes(q, j)
    BY <1>1, <2>1, <2>5 DEF Attaches, Changes
  <2> QED
    BY <2>2, <2>4, <2>5
<1>5. IncidentLocks' /\ UniqueOpen'
  BY <1>1, <1>3 DEF RegistryInv, IncidentLocks, UniqueOpen
<1>6. InsertsDiffer'
  BY <1>1, <1>2 DEF RegistryInv, InsertsDiffer
<1>7. PrunedAreGone'
  BY <1>1, <1>2 DEF RegistryInv, PrunedAreGone, TInv, TypeOK
<1> QED
  BY <1>4, <1>5, <1>6, <1>7 DEF RegistryInv

\* The four statements that write an incident.
LEMMA BumpIncidentRegistry ==
  ASSUME TInv, RegistryInv, NEW w \in Worker, BumpIncident(w) PROVE RegistryInv'
<1>1. /\ job[w] \in Job /\ job[w].incident # None /\ pendI[w] = NoIncidents /\ w \in Process
      /\ UNCHANGED <<incidents, pruned>> /\ ~IncidentLocked(job[w].incident, w)
  BY DEF BumpIncident, sideVars, TInv, PhaseOK, WorkerPhase, Process
<1>2. PICK i \in Incident, s \in Severity : i = job[w].incident /\ s = job[w].worst
  BY <1>1, JobFields
<1> DEFINE row == Bumped(incidents[i], s)
<1>3. CASE incidents[i] = None
  BY <1>1, <1>2, <1>3, Untouched DEF BumpIncident
<1>4. CASE incidents[i] # None
  <2>1. incidents[i] \in IncidentRow
    BY <1>2, <1>4 DEF TInv, TypeOK
  <2>2. /\ row \in IncidentRow /\ row.status = incidents[i].status
        /\ row.fp = incidents[i].fp /\ row.count = incidents[i].count + 1
    BY <1>2, <2>1, BumpedRow
  <2>3. pendI' = [pendI EXCEPT ![w][i] = row]
    BY <1>2, <1>4 DEF BumpIncident
  <2> HIDE DEF row
  <2>4. pendI'[w][i] = row
    BY <1>1, <1>2, <2>3, Tables DEF IncidentTable
  <2>5. Attaches(w, i)'
    BY <1>1, <1>4, <2>2, <2>4 DEF Attaches
  <2> QED
    BY <1>1, <1>2, <1>4, <2>2, <2>3, <2>5, Writes
<1> QED
  BY <1>3, <1>4

LEMMA OpenIncidentRegistry ==
  ASSUME TInv, RegistryInv, NEW w \in Worker, OpenIncident(w) PROVE RegistryInv'
<1>1. /\ job[w] \in Job /\ pendI[w] = NoIncidents /\ w \in Process
      /\ UNCHANGED <<incidents, pruned>> /\ ~IndexEntryInFlight(job[w].fp, w)
  BY DEF OpenIncident, sideVars, TInv, PhaseOK, WorkerPhase, Process
<1>2. CASE OpenIncidents(job[w].fp) # {}
  BY <1>1, <1>2, Untouched DEF OpenIncident
<1>3. CASE OpenIncidents(job[w].fp) = {}
  <2> DEFINE row == [fp |-> job[w].fp, sev |-> job[w].sev, status |-> "open", count |-> 1]
  <2>1. PICK i \in Incident \ pruned :
          /\ incidents[i] = None /\ ~IncidentLocked(i, w)
          /\ pendI' = [pendI EXCEPT ![w][i] = row]
    BY <1>3 DEF OpenIncident
  <2>2. row \in IncidentRow
    BY <1>1, JobFields DEF IncidentRow, IncidentStatus
  <2>3. row.fp = job[w].fp /\ row.status = "open" /\ row.count = 1
    OBVIOUS
  <2> HIDE DEF row
  <2>4. pendI'[w][i] = row
    BY <1>1, <2>1, Tables DEF IncidentTable
  <2> PICK f : f = job[w].fp
    OBVIOUS
  <2>5. OpenIncidents(f)' = OpenIncidents(f)
    BY <1>1 DEF OpenIncidents, IsOpen
  <2>6. Inserts(w, i)'
    BY <1>1, <1>3, <2>1, <2>3, <2>4, <2>5 DEF Inserts
  <2> QED
    BY <1>1, <2>1, <2>2, <2>3, <2>6, Writes
<1> QED
  BY <1>2, <1>3

\* An operator's write: a new status in the row of an open incident.
LEMMA StatusChange ==
  ASSUME TInv, RegistryInv, NEW r \in Request, NEW i \in Incident,
         NEW s \in {"acknowledged", "resolved"},
         IsOpen(incidents[i]), ~IncidentLocked(i, r), pendI[r] = NoIncidents,
         pendI' = [pendI EXCEPT ![r][i] = [incidents[i] EXCEPT !.status = s]],
         UNCHANGED <<incidents, pruned>>
  PROVE  RegistryInv'
<1> DEFINE row == [incidents[i] EXCEPT !.status = s]
<1>1. incidents[i] \in IncidentRow /\ incidents[i] # None
  BY DEF TInv, TypeOK, IsOpen
<1>2. /\ row \in IncidentRow /\ row.status = s
      /\ row.fp = incidents[i].fp /\ row.count = incidents[i].count
  <2>1. s \in IncidentStatus
    BY DEF IncidentStatus
  <2> QED
    BY <1>1, <2>1, IncidentRowFields
<1>3. pendI' = [pendI EXCEPT ![r][i] = row]
  OBVIOUS
<1> HIDE DEF row
<1>4. pendI'[r][i] = row /\ r \in Process
  BY <1>3, Tables DEF IncidentTable, Process
<1>5. Changes(r, i)'
  BY <1>2, <1>4 DEF Changes, IsOpen
<1> QED
  BY <1>1, <1>2, <1>3, <1>4, <1>5, Writes

LEMMA CloseIncidentRegistry ==
  ASSUME TInv, RegistryInv, NEW r \in Request, CloseIncident(r) PROVE RegistryInv'
<1> DEFINE i == target[r].incident
<1>1. /\ i # None /\ target[r] \in Target /\ pendI[r] = NoIncidents
      /\ UNCHANGED <<incidents, pruned>> /\ ~IncidentLocked(i, r)
  BY DEF CloseIncident, sideVars, TInv, PhaseOK, RequestPhase
<1>2. i \in Incident
  BY <1>1 DEF Target
<1>3. CASE IsOpen(incidents[i])
  <2>1. pendI' = [pendI EXCEPT ![r][i] = [incidents[i] EXCEPT !.status = "resolved"]]
    BY <1>3 DEF CloseIncident
  <2> QED
    BY <1>1, <1>2, <1>3, <2>1, StatusChange
<1>4. CASE ~IsOpen(incidents[i])
  BY <1>1, <1>4, Untouched DEF CloseIncident
<1> QED
  BY <1>3, <1>4

LEMMA ChangeIncidentRegistry ==
  ASSUME TInv, RegistryInv, NEW r \in Request, NEW kind,
         NEW s \in {"acknowledged", "resolved"}, ChangeIncident(r, kind, s)
  PROVE  RegistryInv'
<1>1. PICK i \in Incident :
        /\ ~IncidentLocked(i, r) /\ IsOpen(incidents[i])
        /\ pendI' = [pendI EXCEPT ![r][i] = [incidents[i] EXCEPT !.status = s]]
  BY DEF ChangeIncident
<1>2. pendI[r] = NoIncidents /\ UNCHANGED <<incidents, pruned>>
  BY DEF ChangeIncident, Calls, sideVars, TInv, PhaseOK, RequestPhase
<1> QED
  BY <1>1, <1>2, StatusChange

\* The commits, the rollbacks and retention are the only other steps that
\* touch the incident table or what is written for it.
LEMMA OtherSteps ==
  ASSUME TInv, [Next]_vars
  PROVE  \/ UNCHANGED <<incidents, pendI, pruned>>
         \/ \E w \in Worker : CommitAlert(w) \/ Fail(w) \/ BumpIncident(w) \/ OpenIncident(w)
         \/ \E r \in Request : CommitRequest(r) \/ RollBack(r) \/ CloseIncident(r)
                               \/ AcknowledgeIncident(r) \/ ResolveIncident(r)
         \/ EnforceRetention
<1>1. CASE \E w \in Worker : WorkerLoop(w) \/ Fail(w)
  BY <1>1 DEF WorkerLoop, ProcessEvent, Create, Pop, Mute, ReadDebounce, FetchAlert,
              GroupIntoAlert, InsertAlert, LeaveUngrouped, Announce, sideVars
<1>2. CASE \E r \in Request : Arrive(r)
  BY <1>2 DEF Arrive, AcknowledgeAlert, ReopenAlert, SetAlertStatus, CleanupAlerts,
              ResolveAlert, sideVars
<1>3. CASE \E r \in Request : Handle(r) \/ FailRequest(r) \/ BreakDeadlock(r)
  BY <1>3 DEF Handle, FailRequest, BreakDeadlock, CheckSiblings, CascadeToAlerts, sideVars
<1>4. CASE Background
  BY <1>4 DEF Background, ExpireDebounce, AiTake, SoarFinish, AiWrite, MonthPasses
<1>5. CASE UNCHANGED vars
  BY <1>5 DEF vars
<1> QED
  BY <1>1, <1>2, <1>3, <1>4, <1>5 DEF Next

LEMMA NextRegistry ==
  ASSUME TInv, RegistryInv, [Next]_vars PROVE RegistryInv'
<1>1. CASE \E w \in Worker : CommitAlert(w) \/ Fail(w) \/ BumpIncident(w) \/ OpenIncident(w)
  <2> PICK w \in Worker : CommitAlert(w) \/ Fail(w) \/ BumpIncident(w) \/ OpenIncident(w)
    BY <1>1
  <2>0. w \in Process
    BY DEF Process
  <2>1. CASE CommitAlert(w)
    BY <2>0, <2>1, Commits DEF CommitAlert, ApplyWrites, DropWrites, sideVars
  <2>2. CASE Fail(w)
    BY <2>0, <2>2, Drops DEF Fail, DropWrites, sideVars
  <2> QED
    BY <2>1, <2>2, BumpIncidentRegistry, OpenIncidentRegistry
<1>2. CASE \E r \in Request : CommitRequest(r) \/ RollBack(r) \/ CloseIncident(r)
                              \/ AcknowledgeIncident(r) \/ ResolveIncident(r)
  <2> PICK r \in Request : CommitRequest(r) \/ RollBack(r) \/ CloseIncident(r)
                           \/ AcknowledgeIncident(r) \/ ResolveIncident(r)
    BY <1>2
  <2>0. r \in Process
    BY DEF Process
  <2>1. CASE CommitRequest(r)
    BY <2>0, <2>1, Commits DEF CommitRequest, ApplyWrites, DropWrites, sideVars
  <2>2. CASE RollBack(r)
    BY <2>0, <2>2, Drops DEF RollBack, DropWrites, sideVars
  <2> QED
    BY <2>1, <2>2, CloseIncidentRegistry, ChangeIncidentRegistry
    DEF AcknowledgeIncident, ResolveIncident
<1> QED
  BY <1>1, <1>2, OtherSteps, Untouched, Retains

LEMMA InitRegistry == Init => RegistryInv
  BY DEF Init, RegistryInv, PendingKinds, IncidentLocks, InsertsDiffer, UniqueOpen,
         OpenIncidents, IsOpen, PrunedAreGone, NoIncidents

LEMMA AlwaysRegistry == Spec => [](TInv /\ RegistryInv)
<1>1. TInv /\ RegistryInv /\ [Next]_vars => (TInv /\ RegistryInv)'
  BY NextTyped, NextRegistry
<1> QED
  BY <1>1, InitTyped, InitRegistry, PTL DEF Spec

\* findOrCreateOpenIncident: any number of workers, failing or not, never
\* leave a fingerprint with two incidents that are not resolved.
THEOREM OneOpenIncident == Spec => []UniqueOpen
<1>1. RegistryInv => UniqueOpen
  BY DEF RegistryInv
<1> QED
  BY <1>1, AlwaysRegistry, PTL

\* updateIncidentStatus, HandleResolveIncident and the bump: no step reopens
\* a resolved incident, whatever the writer read before it had the lock.
THEOREM ResolvedStaysResolved == Spec => ResolvedIsFinal
<1> DEFINE Final == \A i \in Incident :
                      incidents[i] # None /\ incidents[i].status = "resolved" =>
                         incidents'[i] = None \/ incidents'[i].status = "resolved"
<1>1. ASSUME TInv, RegistryInv, [Next]_vars PROVE [Final]_vars
  <2>1. ASSUME NEW p \in Process, incidents' = Merge(pendI[p], incidents) PROVE Final
    <3> SUFFICES ASSUME NEW i \in Incident, incidents[i] # None,
                        incidents[i].status = "resolved"
                 PROVE  incidents'[i].status = "resolved"
      OBVIOUS
    <3>1. CASE pendI[p][i] = None
      BY <1>1, <2>1, <3>1, CommittedTable
    <3>2. CASE pendI[p][i] # None
      <4>1. Attaches(p, i)
        BY <1>1, <3>2 DEF RegistryInv, PendingKinds, Inserts, Changes, IsOpen
      <4> QED
        BY <1>1, <2>1, <3>2, <4>1, CommittedTable DEF Attaches
    <3> QED
      BY <3>1, <3>2
  <2>2. CASE EnforceRetention
    BY <2>2 DEF EnforceRetention
  <2>3. CASE UNCHANGED incidents
    BY <2>3
  <2>4. \/ UNCHANGED incidents \/ EnforceRetention
        \/ \E p \in Process : incidents' = Merge(pendI[p], incidents)
    BY <1>1, OtherSteps
    DEF CommitAlert, CommitRequest, ApplyWrites, Fail, RollBack, BumpIncident, OpenIncident,
        CloseIncident, AcknowledgeIncident, ResolveIncident, ChangeIncident, Process
  <2> QED
    BY <2>1, <2>2, <2>3, <2>4
<1> QED
  BY <1>1, AlwaysRegistry, PTL DEF Spec, ResolvedIsFinal

-----------------------------------------------------------------------------
(* The refinement.                                                         *)

\* The fields a reader sees of an incident, and that every row has them.
LEMMA PublicFields ==
  ASSUME NEW row \in IncidentRow
  PROVE  /\ Public(row) # None
         /\ Public(row).fp = row.fp /\ Public(row).status = row.status
         /\ Public(row).count = row.count
         /\ Public(row) = [fp |-> row.fp, status |-> row.status, count |-> row.count]
<1>1. [fp |-> row.fp, status |-> row.status, count |-> row.count] \in PublicRow
  BY IncidentRowFields DEF PublicRow
<1>2. row # None /\ None \notin PublicRow
  BY PipelineAssumption
<1> QED
  BY <1>1, <1>2 DEF Public

\* The commit of a transaction that holds incident i is one step of i.
LEMMA CommitRefines ==
  ASSUME TInv, RegistryInv, NEW p \in Process, NEW i \in Incident, pendI[p][i] # None,
         incidents' = Merge(pendI[p], incidents), UNCHANGED pruned
  PROVE  Registry!RegistryNext
<1> DEFINE new == pendI[p][i]
           old == incidents[i]
<1>1. incidents' = [incidents EXCEPT ![i] = new]
  <2>1. \A j \in Incident \ {i} : pendI[p][j] = None
    BY DEF RegistryInv, IncidentLocks
  <2> QED
    <3>1. /\ \A j \in Incident :
               incidents'[j] = IF pendI[p][j] # None THEN pendI[p][j] ELSE incidents[j]
          /\ DOMAIN incidents = Incident /\ incidents' = [j \in Incident |-> incidents'[j]]
      BY CommittedTable, Tables DEF Merge, IncidentTable
    <3> QED
      BY <2>1, <3>1
<1>2. registry' = [registry EXCEPT ![i] = Public(new)]
  BY <1>1, Tables DEF registry, IncidentTable
<1>3. new \in IncidentRow /\ registry[i] = Public(old)
  BY Tables DEF IncidentTable, registry
<1>4. Public(new) = [fp |-> new.fp, status |-> new.status, count |-> new.count]
  BY <1>3, PublicFields
<1>5. old # None => old \in IncidentRow
  BY Tables DEF IncidentTable
<1>6. CASE Inserts(p, i)
  <2>1. \A j \in Incident : Registry!Active(j) => registry[j].fp # new.fp
    BY <1>6, Tables, PublicFields DEF Inserts, OpenIncidents, IsOpen, Registry!Active, registry, IncidentTable, Public
  <2>2. Registry!Open(i, new.fp)
    BY <1>2, <1>3, <1>4, <1>6, <2>1 DEF Inserts, Registry!Open, Public
  <2>3. new.fp \in Fingerprint
    BY <1>3, IncidentRowFields
  <2> QED
    BY <2>2, <2>3 DEF Registry!RegistryNext
<1>7. CASE Attaches(p, i)
  <2>1. old \in IncidentRow
    BY <1>5, <1>7 DEF Attaches
  <2>2. Public(new) = [registry[i] EXCEPT !.count = registry[i].count + 1]
    BY <1>3, <1>4, <1>7, <2>1, PublicFields DEF Attaches
  <2>3. Registry!Attach(i)
    BY <1>2, <1>3, <2>1, <2>2, PublicFields DEF Registry!Attach
  <2> QED
    BY <2>3 DEF Registry!RegistryNext
<1>8. CASE Changes(p, i)
  <2>1. old \in IncidentRow
    BY <1>5, <1>8 DEF Changes, IsOpen
  <2>2. Registry!Active(i)
    BY <1>3, <1>8, <2>1, PublicFields DEF Changes, IsOpen, Registry!Active
  <2>3. Public(new) = [registry[i] EXCEPT !.status = new.status]
    BY <1>3, <1>4, <1>8, <2>1, PublicFields DEF Changes
  <2>4. Registry!Acknowledge(i) \/ Registry!Resolve(i)
    BY <1>2, <1>8, <2>2, <2>3 DEF Changes, Registry!Acknowledge, Registry!Resolve
  <2> QED
    BY <2>4 DEF Registry!RegistryNext
<1> QED
  BY <1>6, <1>7, <1>8 DEF RegistryInv, PendingKinds

LEMMA RetentionRefines ==
  ASSUME TInv, EnforceRetention PROVE Registry!RegistryNext
<1>1. \A i \in AgedIncidents : i \in Incident /\ registry[i] # None /\ ~Registry!Active(i)
  BY Tables, PublicFields DEF AgedIncidents, registry, Registry!Active, IncidentTable, TInv, TypeOK
<1>2. registry' = [i \in Incident |-> IF i \in AgedIncidents THEN None ELSE registry[i]]
  BY DEF EnforceRetention, registry, Public
<1>3. AgedIncidents \in SUBSET Incident
  BY DEF AgedIncidents, TInv, TypeOK
<1>4. Registry!Prune(AgedIncidents)
  BY <1>1, <1>2 DEF EnforceRetention, Registry!Prune
<1> QED
  BY <1>3, <1>4 DEF Registry!RegistryNext

\* The pipeline implements the registry of incidents: seen from outside its
\* transactions, an incident opens when its fingerprint has none, gains one
\* alert at a time, moves forward, and leaves when it is old and resolved.
THEOREM Refinement == Spec => ImplementsRegistry
<1>1. Init => Registry!RegistryInit
  BY DEF Init, Registry!RegistryInit, registry, NoIncidents, Public
<1>2. ASSUME TInv, RegistryInv, [Next]_vars PROVE [Registry!RegistryNext]_(Registry!rvars)
  <2>1. CASE UNCHANGED <<incidents, pruned>>
    BY <2>1 DEF Registry!rvars, registry
  <2>2. CASE EnforceRetention
    BY <1>2, <2>2, RetentionRefines
  <2>3. ASSUME NEW p \in Process, incidents' = Merge(pendI[p], incidents), UNCHANGED pruned
        PROVE  [Registry!RegistryNext]_(Registry!rvars)
    <3>1. CASE \E i \in Incident : pendI[p][i] # None
      BY <1>2, <2>3, <3>1, CommitRefines
    <3>2. CASE \A i \in Incident : pendI[p][i] = None
      <4>1. incidents' = incidents
        BY <1>2, <2>3, <3>2, Tables DEF Merge, IncidentTable
      <4> QED
        BY <2>1, <2>3, <4>1
    <3> QED
      BY <3>1, <3>2
  <2>4. \/ UNCHANGED <<incidents, pruned>> \/ EnforceRetention
        \/ \E p \in Process : incidents' = Merge(pendI[p], incidents) /\ UNCHANGED pruned
    BY <1>2, OtherSteps
    DEF CommitAlert, CommitRequest, ApplyWrites, Fail, RollBack, BumpIncident, OpenIncident,
        CloseIncident, AcknowledgeIncident, ResolveIncident, ChangeIncident, Process, sideVars
  <2> QED
    BY <2>1, <2>2, <2>3, <2>4
<1> QED
  BY <1>1, <1>2, AlwaysRegistry, PTL DEF Spec, ImplementsRegistry, Registry!RegistrySpec

-----------------------------------------------------------------------------
(* The alert table.  What an unfinished transaction has written about an   *)
(* alert, compared with the committed row and with the event in hand.      *)

\* A worker at one of these steps has inserted its alert.
InTransaction == {"bump", "open", "announce", "commit"}

Recorded == \A e \in Event : alerts[e] # None => event[e] = "recorded"

\* A worker works on an event that nobody else has popped.
OwnEvents ==
    /\ \A w \in Worker : pc[w] # "idle" => event[job[w].ev] = "working"
    /\ \A v, w \in Worker :
          pc[v] # "idle" /\ pc[w] # "idle" /\ job[v].ev = job[w].ev => v = w

WorkerRows ==
    \A w \in Worker, e \in Event : pendA[w][e] # None =>
        /\ pc[w] \in InTransaction /\ e = job[w].ev
        /\ pendA[w][e].fp = job[w].fp /\ pendA[w][e].sev = job[w].sev
        /\ pendA[w][e].status = "triggered"

\* A request holds committed rows, of which it has changed the status only.
RequestRows ==
    \A r \in Request, e \in Event : pendA[r][e] # None =>
        /\ pc[r] \notin {"new", "done"} /\ alerts[e] # None
        /\ pendA[r][e].fp = alerts[e].fp /\ pendA[r][e].sev = alerts[e].sev
        /\ pendA[r][e].incident = alerts[e].incident

AlertLocks ==
    \A p, q \in Process, e \in Event :
        pendA[p][e] # None /\ pendA[q][e] # None => p = q

RowsInv == Recorded /\ OwnEvents /\ WorkerRows /\ RequestRows /\ AlertLocks

\* The tables, and what a phase says of a worker, in the form the steps use.
LEMMA AlertTables ==
  ASSUME TInv
  PROVE  /\ alerts \in AlertTable /\ pendA \in [Process -> AlertTable]
         /\ pendI \in [Process -> IncidentTable] /\ incidents \in IncidentTable
         /\ job \in [Worker -> Job \cup {None}] /\ DOMAIN event = Event
         /\ \A w \in Worker : pc[w] # "idle" =>
               /\ job[w] \in Job /\ job[w].ev \in Event /\ job[w].fp \in Fingerprint
               /\ job[w].alert \in Event
         /\ Worker \subseteq Process /\ Request \subseteq Process
         /\ Worker \cap Request = {}
         /\ \A p \in Process : p \in Worker \/ p \in Request
  BY PipelineAssumption, JobFields
  DEF TInv, TypeOK, PhaseOK, WorkerPhase, AlertTable, IncidentTable, Process

\* A step of worker w leaves the other workers, and all requests, as they are.
Alone(w) ==
    /\ \A v \in Worker \ {w} : job'[v] = job[v]
    /\ \A p \in Process \ {w} : pc'[p] = pc[p] /\ pendA'[p] = pendA[p]

LEMMA WorkerAlone ==
  ASSUME TInv, NEW w \in Worker, NEW step, NEW j,
         pc' = [pc EXCEPT ![w] = step], job' = [job EXCEPT ![w] = j],
         NEW pa, pendA' = [pendA EXCEPT ![w] = pa]
  PROVE  Alone(w) /\ pc'[w] = step /\ job'[w] = j /\ pendA'[w] = pa
  BY AlertTables DEF Alone, TInv, TypeOK, Process

\* The committed rows that operators hold keep what identifies them.
HeldRowsKept ==
    \A r \in Request, e \in Event : pendA[r][e] # None =>
        /\ alerts'[e] # None
        /\ alerts'[e].fp = alerts[e].fp /\ alerts'[e].sev = alerts[e].sev
        /\ alerts'[e].incident = alerts[e].incident

\* No two operators hold the same row.
RequestsApart ==
    \A r, q \in Request, e \in Event :
        pendA[r][e] # None /\ pendA[q][e] # None => r = q

\* The other conflicts cannot arise: a worker holds the row of an event that
\* is not recorded, an operator holds a committed row.
LEMMA LocksFollow ==
  Recorded /\ OwnEvents /\ WorkerRows /\ RequestRows /\ RequestsApart => AlertLocks
<1> SUFFICES ASSUME Recorded, OwnEvents, WorkerRows, RequestRows, RequestsApart,
                    NEW p \in Process, NEW q \in Process, NEW e \in Event,
                    pendA[p][e] # None, pendA[q][e] # None
             PROVE  p = q
  BY DEF AlertLocks
<1>1. \A w \in Worker : pendA[w][e] # None =>
         pc[w] # "idle" /\ job[w].ev = e /\ alerts[e] = None
  BY DEF WorkerRows, OwnEvents, Recorded, InTransaction
<1>2. \A r \in Request : pendA[r][e] # None => alerts[e] # None
  BY DEF RequestRows
<1> QED
  BY <1>1, <1>2 DEF Process, OwnEvents, RequestsApart

LEMMA LocksFollowNext ==
  Recorded' /\ OwnEvents' /\ WorkerRows' /\ RequestRows' /\ RequestsApart' => AlertLocks'
  BY LocksFollow, PTL

\* The worker goes on with its event.
LEMMA WorkerGoesOn ==
  ASSUME TInv, RowsInv, NEW w \in Worker, Alone(w), UNCHANGED <<event, alerts>>,
         pc[w] # "idle", job'[w].ev = job[w].ev,
         \A e \in Event : pendA'[w][e] # None =>
            /\ pc'[w] \in InTransaction /\ e = job'[w].ev
            /\ pendA'[w][e].fp = job'[w].fp /\ pendA'[w][e].sev = job'[w].sev
            /\ pendA'[w][e].status = "triggered"
  PROVE  RowsInv'
<1> USE DEF RowsInv, Alone
<1>1. Recorded' /\ OwnEvents'
  <2>1. \A v \in Worker : job'[v].ev = job[v].ev /\ (pc'[v] # "idle" => pc[v] # "idle")
    BY AlertTables
  <2> QED
    BY <2>1 DEF Recorded, OwnEvents
<1>2. WorkerRows'
  <2> SUFFICES ASSUME NEW v \in Worker, NEW e \in Event, pendA'[v][e] # None
               PROVE  /\ pc'[v] \in InTransaction /\ e = job'[v].ev
                      /\ pendA'[v][e].fp = job'[v].fp /\ pendA'[v][e].sev = job'[v].sev
                      /\ pendA'[v][e].status = "triggered"
    BY DEF WorkerRows
  <2>1. CASE v = w
    BY <2>1
  <2>2. CASE v # w
    BY <2>2, AlertTables DEF WorkerRows
  <2> QED
    BY <2>1, <2>2
<1>3. RequestRows'
  BY AlertTables DEF RequestRows
<1>4. RequestsApart'
  BY AlertTables DEF RequestsApart, AlertLocks
<1>5. AlertLocks'
  BY <1>1, <1>2, <1>3, <1>4, LocksFollowNext
<1> QED
  BY <1>1, <1>2, <1>3, <1>5

\* The worker is done with its event.
LEMMA WorkerEnds ==
  ASSUME TInv, RowsInv, NEW w \in Worker, Alone(w), HeldRowsKept,
         pc[w] # "idle", pc'[w] = "idle", \A e \in Event : pendA'[w][e] = None,
         NEW outcome, event' = [event EXCEPT ![job[w].ev] = outcome],
         \A e \in Event : alerts'[e] # None =>
            alerts[e] # None \/ (e = job[w].ev /\ outcome = "recorded")
  PROVE  RowsInv'
<1> USE DEF RowsInv, Alone
<1>0. job[w].ev \in Event /\ event[job[w].ev] = "working" /\ alerts[job[w].ev] = None
  BY AlertTables DEF OwnEvents, Recorded
<1>1. Recorded' /\ OwnEvents'
  <2>1. Recorded'
    BY <1>0, AlertTables DEF Recorded
  <2>2. OwnEvents'
    BY <1>0, AlertTables DEF OwnEvents
  <2> QED
    BY <2>1, <2>2
<1>2. WorkerRows'
  BY AlertTables DEF WorkerRows
<1>3. RequestRows'
  BY AlertTables DEF RequestRows, HeldRowsKept
<1>4. AlertLocks'
  BY AlertTables DEF AlertLocks
<1> QED
  BY <1>1, <1>2, <1>3, <1>4

\* Everybody but the workers: operators, the AI worker, SOAR, retention.
LEMMA OutsidersStep ==
  ASSUME TInv, RowsInv, UNCHANGED <<event, job>>,
         \A w \in Worker : pc'[w] = pc[w] /\ pendA'[w] = pendA[w],
         \A e \in Event : alerts'[e] # None => alerts[e] # None,
         RequestRows', RequestsApart'
  PROVE  RowsInv'
<1> USE DEF RowsInv
<1>1. Recorded' /\ OwnEvents' /\ WorkerRows'
  BY DEF Recorded, OwnEvents, WorkerRows
<1>2. AlertLocks'
  BY <1>1, LocksFollowNext
<1> QED
  BY <1>1, <1>2

-----------------------------------------------------------------------------
LEMMA PopRows == ASSUME TInv, RowsInv, NEW w \in Worker, Pop(w) PROVE RowsInv'
<1>1. PICK e \in Event, f \in Fingerprint, s \in EventSeverity :
         /\ event[e] = "queued" /\ event' = [event EXCEPT ![e] = "working"]
         /\ job' = [job EXCEPT ![w] =
                      [ev |-> e, fp |-> f, sev |-> s, alert |-> e,
                       row |-> None, incident |-> None, worst |-> s]]
  BY DEF Pop
<1>2. /\ pc[w] = "idle" /\ Alone(w) /\ job'[w].ev = e /\ pc'[w] = "lookup"
      /\ UNCHANGED <<alerts, pendA>>
  BY <1>1, AlertTables DEF Pop, Goto, Alone, TInv, TypeOK, Process
<1> USE DEF RowsInv, Alone
<1>3. Recorded' /\ OwnEvents'
  <2>1. Recorded'
    BY <1>1, <1>2, AlertTables DEF Recorded
  <2>2. OwnEvents'
    BY <1>1, <1>2, AlertTables DEF OwnEvents
  <2> QED
    BY <2>1, <2>2
<1>4. WorkerRows'
  BY <1>2, AlertTables DEF WorkerRows, InTransaction
<1>5. RequestRows' /\ AlertLocks'
  BY <1>2, AlertTables DEF RequestRows, AlertLocks
<1> QED
  BY <1>3, <1>4, <1>5

LEMMA MuteRows == ASSUME TInv, RowsInv, NEW w \in Worker, Mute(w) PROVE RowsInv'
<1> USE DEF RowsInv, Recorded, OwnEvents, WorkerRows, RequestRows, AlertLocks
<1>1. PICK e \in Event : event[e] = "queued" /\ event' = [event EXCEPT ![e] = "muted"]
  BY DEF Mute
<1> QED
  BY <1>1, AlertTables DEF Mute

-----------------------------------------------------------------------------
(* What each step of a worker does to its own row and job.                 *)

SameEvent(j, k) == j.ev = k.ev /\ j.fp = k.fp /\ j.sev = k.sev

LEMMA JobKeeps ==
  ASSUME NEW j \in Job
  PROVE  /\ \A a : SameEvent([j EXCEPT !.alert = a], j) /\ [j EXCEPT !.alert = a].alert = a
         /\ \A row : SameEvent([j EXCEPT !.row = row], j) /\ [j EXCEPT !.row = row].alert = j.alert
         /\ \A i, s : SameEvent(Chosen(j, i, s), j) /\ Chosen(j, i, s).incident = i
  BY DEF Job, SameEvent, Chosen

LEMMA LookupShape ==
  ASSUME TInv, NEW w \in Worker, ReadDebounce(w) \/ FetchAlert(w)
  PROVE  /\ Alone(w) /\ SameEvent(job'[w], job[w]) /\ pendA'[w] = pendA[w]
         /\ \/ pc[w] = "lookup" /\ pc'[w] = "fetch"
               /\ job'[w].alert \in {job[w].ev, debounce[job[w].fp]} \ {None}
            \/ pc[w] = "fetch" /\ pc'[w] = "insert"
            \/ pc[w] = "fetch" /\ pc'[w] = "update" /\ job'[w].alert = job[w].alert
         /\ UNCHANGED <<event, alerts, incidents, pendA, pendI, sideVars>>
<1>1. pc[w] # "idle" /\ job[w] \in Job
  BY AlertTables DEF ReadDebounce, FetchAlert
<1>2. \A step, j : Goto(w, step) /\ job' = [job EXCEPT ![w] = j] /\ UNCHANGED pendA
         => Alone(w) /\ pc'[w] = step /\ job'[w] = j
  BY AlertTables DEF Goto, Alone, TInv, TypeOK, Process
<1>3. \A a : SameEvent([job[w] EXCEPT !.alert = a], job[w])
            /\ [job[w] EXCEPT !.alert = a].alert = a
  BY <1>1, JobKeeps
<1>4. CASE ReadDebounce(w)
  <2>1. pc[w] = "lookup" /\ UNCHANGED <<event, alerts, incidents, pendA, pendI, sideVars>>
    BY <1>4 DEF ReadDebounce
  <2> PICK a : a = IF debounce[job[w].fp] = None THEN job[w].ev ELSE debounce[job[w].fp]
    OBVIOUS
  <2> DEFINE j == [job[w] EXCEPT !.alert = a]
  <2>2. Goto(w, "fetch") /\ job' = [job EXCEPT ![w] = j] /\ UNCHANGED pendA
    BY <1>4 DEF ReadDebounce
  <2>3. SameEvent(j, job[w]) /\ j.alert = a
    BY <1>3
  <2>4. a \in {job[w].ev, debounce[job[w].fp]} \ {None}
    BY <1>1, JobFields, RowsAreNotNone
  <2> HIDE DEF j
  <2> QED
    BY <1>2, <2>1, <2>2, <2>3, <2>4
<1>5. CASE FetchAlert(w)
  <2>1. pc[w] = "fetch" /\ UNCHANGED <<event, alerts, incidents, pendA, pendI, sideVars>>
    BY <1>5 DEF FetchAlert
  <2>2. CASE Goto(w, "insert") /\ job' = [job EXCEPT ![w].alert = job[w].ev]
    <3> DEFINE j == [job[w] EXCEPT !.alert = job[w].ev]
    <3>1. job' = [job EXCEPT ![w] = j]
      BY <2>2
    <3>2. SameEvent(j, job[w]) /\ j.alert = job[w].ev
      BY <1>1, JobKeeps
    <3> HIDE DEF j
    <3> QED
      BY <1>1, <1>2, <2>1, <2>2, <3>1, <3>2
  <2>3. CASE Goto(w, "update") /\ job' = [job EXCEPT ![w].row = alerts[job[w].alert]]
    <3> DEFINE j == [job[w] EXCEPT !.row = alerts[job[w].alert]]
    <3>1. job' = [job EXCEPT ![w] = j]
      BY <2>3
    <3>2. SameEvent(j, job[w]) /\ j.alert = job[w].alert
      BY <1>1, JobKeeps
    <3> HIDE DEF j
    <3> QED
      BY <1>1, <1>2, <2>1, <2>3, <3>1, <3>2
  <2> QED
    BY <1>5, <2>2, <2>3 DEF FetchAlert
<1> QED
  BY <1>4, <1>5

LEMMA InsertShape ==
  ASSUME TInv, NEW w \in Worker, InsertAlert(w)
  PROVE  /\ Alone(w) /\ SameEvent(job'[w], job[w])
         /\ pc[w] = "insert" /\ pc'[w] \in {"bump", "open"}
         /\ pc'[w] = "bump" => job'[w].incident \in OpenIncidents(job[w].fp)
         /\ \A e \in Event : pendA'[w][e] =
               IF e = job[w].ev
               THEN [fp |-> job[w].fp, sev |-> job[w].sev, status |-> "triggered",
                     incident |-> None]
               ELSE pendA[w][e]
         /\ UNCHANGED <<event, alerts, incidents, pendI, sideVars>>
<1>1. job[w] \in Job /\ pc[w] = "insert"
  BY AlertTables DEF InsertAlert
<1> DEFINE row == [fp |-> job[w].fp, sev |-> job[w].sev, status |-> "triggered",
                   incident |-> None]
<1>2. pendA' = [pendA EXCEPT ![w][job[w].ev] = row]
  BY DEF InsertAlert
<1> HIDE DEF row
<1>3. /\ \A p \in Process \ {w} : pendA'[p] = pendA[p]
      /\ \A e \in Event : pendA'[w][e] = IF e = job[w].ev THEN row ELSE pendA[w][e]
  BY <1>1, <1>2, AlertTables DEF AlertTable
<1>4. ASSUME NEW i \in OpenIncidents(job[w].fp), Goto(w, "bump"),
             job' = [job EXCEPT ![w] = Chosen(@, i, Worse(incidents[i].sev, job[w].sev))]
      PROVE  /\ Alone(w) /\ SameEvent(job'[w], job[w]) /\ pc'[w] = "bump"
             /\ job'[w].incident \in OpenIncidents(job[w].fp)
  BY <1>1, <1>3, <1>4, AlertTables, JobKeeps DEF Goto, Alone, TInv, TypeOK, Process
<1>5. ASSUME Goto(w, "open"), UNCHANGED job
      PROVE  Alone(w) /\ SameEvent(job'[w], job[w]) /\ pc'[w] = "open"
  BY <1>1, <1>3, <1>5, AlertTables DEF Goto, Alone, TInv, TypeOK, Process, SameEvent
<1>6. (\E i \in OpenIncidents(job[w].fp) :
         /\ Goto(w, "bump")
         /\ job' = [job EXCEPT ![w] = Chosen(@, i, Worse(incidents[i].sev, job[w].sev))])
      \/ (Goto(w, "open") /\ UNCHANGED job)
  BY DEF InsertAlert
<1>7. UNCHANGED <<event, alerts, incidents, pendI, sideVars>>
  BY DEF InsertAlert
<1> QED
  BY <1>1, <1>3, <1>4, <1>5, <1>6, <1>7 DEF row

\* A worker links its alert to incident i.
LinksTo(w, i) ==
    \A e \in Event : pendA'[w][e] =
        IF e = job[w].ev THEN [pendA[w][e] EXCEPT !.incident = i] ELSE pendA[w][e]

LEMMA LinkWrite ==
  ASSUME TInv, NEW w \in Worker, pc[w] \in {"bump", "open"}, NEW i,
         pendA' = [pendA EXCEPT ![w][job[w].ev].incident = i]
  PROVE  LinksTo(w, i) /\ \A p \in Process \ {w} : pendA'[p] = pendA[p]
<1>1. job[w].ev \in Event /\ w \in Process /\ pendA \in [Process -> AlertTable]
  BY AlertTables
<1> QED
  BY <1>1 DEF LinksTo, AlertTable

LEMMA BumpShape ==
  ASSUME TInv, NEW w \in Worker, BumpIncident(w)
  PROVE  /\ Alone(w) /\ job' = job /\ pc[w] = "bump" /\ pc'[w] = "announce"
         /\ LinksTo(w, job[w].incident)
         /\ UNCHANGED <<event, alerts, incidents, sideVars>>
<1>1. /\ pc[w] = "bump" /\ Goto(w, "announce")
      /\ pendA' = [pendA EXCEPT ![w][job[w].ev].incident = job[w].incident]
      /\ UNCHANGED <<event, alerts, incidents, job, sideVars>>
  BY DEF BumpIncident
<1> QED
  BY <1>1, LinkWrite, AlertTables DEF Goto, Alone, TInv, TypeOK, Process

LEMMA OpenShape ==
  ASSUME TInv, NEW w \in Worker, OpenIncident(w)
  PROVE  /\ Alone(w) /\ job' = job /\ pc[w] = "open" /\ pc'[w] = "announce"
         /\ \/ pendA'[w] = pendA[w] /\ UNCHANGED pendI
            \/ \E i \in Incident : LinksTo(w, i)
         /\ UNCHANGED <<event, alerts, incidents, sideVars>>
<1>1. /\ pc[w] = "open" /\ Goto(w, "announce")
      /\ UNCHANGED <<event, alerts, incidents, job, sideVars>>
  BY DEF OpenIncident
<1>2. UNCHANGED <<pendA, pendI>>
      \/ \E i \in Incident : pendA' = [pendA EXCEPT ![w][job[w].ev].incident = i]
  BY DEF OpenIncident
<1>3. CASE UNCHANGED <<pendA, pendI>>
  BY <1>1, <1>3, AlertTables DEF Goto, Alone, TInv, TypeOK, Process
<1>4. CASE \E i \in Incident : pendA' = [pendA EXCEPT ![w][job[w].ev].incident = i]
  BY <1>1, <1>4, LinkWrite, AlertTables DEF Goto, Alone, TInv, TypeOK, Process
<1> QED
  BY <1>2, <1>3, <1>4

LEMMA LeaveShape ==
  ASSUME TInv, NEW w \in Worker, LeaveUngrouped(w)
  PROVE  /\ Alone(w) /\ job' = job /\ pc[w] \in {"bump", "open"} /\ pc'[w] = "announce"
         /\ UNCHANGED <<event, alerts, incidents, pendA, pendI, sideVars>>
  BY AlertTables DEF LeaveUngrouped, Goto, Alone, TInv, TypeOK, Process

LEMMA AnnounceShape ==
  ASSUME TInv, NEW w \in Worker, Announce(w)
  PROVE  /\ Alone(w) /\ job' = job /\ pc[w] = "announce" /\ pc'[w] = "commit"
         /\ debounce' = [debounce EXCEPT ![job[w].fp] = job[w].ev]
         /\ UNCHANGED <<event, alerts, incidents, pendA, pendI, aiJob, pruned>>
  BY AlertTables DEF Announce, Goto, Alone, TInv, TypeOK, Process

\* The end of an event.
LEMMA SettleShape ==
  ASSUME TInv, NEW w \in Worker, NEW outcome, Settle(w, outcome),
         \/ UNCHANGED pendA
         \/ pendA' = [pendA EXCEPT ![w] = NoAlerts]
  PROVE  /\ Alone(w) /\ pc'[w] = "idle"
         /\ event' = [event EXCEPT ![job[w].ev] = outcome]
  BY AlertTables DEF Settle, Goto, Alone, TInv, TypeOK, Process

-----------------------------------------------------------------------------
(* Every action keeps RowsInv.                                             *)

LEMMA LookupRows ==
  ASSUME TInv, RowsInv, NEW w \in Worker, ReadDebounce(w) \/ FetchAlert(w) PROVE RowsInv'
<1>1. \A e \in Event : pendA[w][e] = None
  BY LookupShape DEF RowsInv, WorkerRows, InTransaction
<1> QED
  BY <1>1, LookupShape, WorkerGoesOn DEF SameEvent

LEMMA InsertRows == ASSUME TInv, RowsInv, NEW w \in Worker, InsertAlert(w) PROVE RowsInv'
<1>1. \A e \in Event : pendA[w][e] = None
  BY InsertShape DEF RowsInv, WorkerRows, InTransaction
<1>2. \A e \in Event : pendA'[w][e] # None =>
         /\ pc'[w] \in InTransaction /\ e = job'[w].ev
         /\ pendA'[w][e].fp = job'[w].fp /\ pendA'[w][e].sev = job'[w].sev
         /\ pendA'[w][e].status = "triggered"
  <2>1. \A e \in Event : pendA'[w][e] # None =>
           /\ e = job[w].ev
           /\ pendA'[w][e] = [fp |-> job[w].fp, sev |-> job[w].sev, status |-> "triggered",
                              incident |-> None]
    BY <1>1, InsertShape
  <2>2. pc'[w] \in {"bump", "open"} /\ SameEvent(job'[w], job[w])
    BY InsertShape
  <2> QED
    BY <2>1, <2>2 DEF InTransaction, SameEvent
<1>3. /\ Alone(w) /\ UNCHANGED <<event, alerts>> /\ pc[w] # "idle"
      /\ job'[w].ev = job[w].ev
  BY InsertShape DEF SameEvent
<1> QED
  BY <1>2, <1>3, WorkerGoesOn

\* Linking the alert changes one column of it.
LEMMA LinkKeeps ==
  ASSUME TInv, RowsInv, NEW w \in Worker, NEW i, LinksTo(w, i), pc[w] # "idle"
  PROVE  \A e \in Event : pendA'[w][e] # None /\ pendA[w][e] # None =>
            /\ pc[w] \in InTransaction /\ e = job[w].ev
            /\ pendA'[w][e].fp = job[w].fp /\ pendA'[w][e].sev = job[w].sev
            /\ pendA'[w][e].status = "triggered" /\ pendA'[w][e].incident = i
<1>1. ASSUME NEW row \in AlertRow
      PROVE  LET new == [row EXCEPT !.incident = i]
             IN /\ new.fp = row.fp /\ new.sev = row.sev
                /\ new.status = row.status /\ new.incident = i
  BY DEF AlertRow
<1>2. \A e \in Event : pendA[w][e] # None => pendA[w][e] \in AlertRow
  BY AlertTables DEF AlertTable
<1> SUFFICES ASSUME NEW e \in Event, pendA'[w][e] # None, pendA[w][e] # None
             PROVE  /\ pc[w] \in InTransaction /\ e = job[w].ev
                    /\ pendA'[w][e].fp = job[w].fp /\ pendA'[w][e].sev = job[w].sev
                    /\ pendA'[w][e].status = "triggered" /\ pendA'[w][e].incident = i
  OBVIOUS
<1>3. /\ pc[w] \in InTransaction /\ e = job[w].ev
      /\ pendA[w][e].fp = job[w].fp /\ pendA[w][e].sev = job[w].sev
      /\ pendA[w][e].status = "triggered"
  BY DEF RowsInv, WorkerRows
<1>4. pendA'[w][e] = [pendA[w][e] EXCEPT !.incident = i]
  BY <1>3 DEF LinksTo
<1> QED
  BY <1>1, <1>2, <1>3, <1>4

LEMMA LinkRows ==
  ASSUME TInv, RowsInv, NEW w \in Worker, BumpIncident(w) \/ OpenIncident(w) PROVE RowsInv'
<1>1. /\ Alone(w) /\ job' = job /\ pc'[w] = "announce" /\ pc[w] \in {"bump", "open"}
      /\ UNCHANGED <<event, alerts>>
  BY BumpShape, OpenShape
<1>2. pendA'[w] = pendA[w] \/ \E i : LinksTo(w, i)
  BY BumpShape, OpenShape
<1>3. pendA[w][job[w].ev] # None
  BY <1>1 DEF TInv, PhaseOK, WorkerPhase
<1>4. \A e \in Event : pendA'[w][e] # None =>
         /\ pc'[w] \in InTransaction /\ e = job[w].ev
         /\ pendA'[w][e].fp = job[w].fp /\ pendA'[w][e].sev = job[w].sev
         /\ pendA'[w][e].status = "triggered"
  <2>1. CASE pendA'[w] = pendA[w]
    BY <1>1, <2>1 DEF RowsInv, WorkerRows, InTransaction
  <2>2. ASSUME NEW i, LinksTo(w, i)
        PROVE  \A e \in Event : pendA'[w][e] # None =>
                 /\ pc'[w] \in InTransaction /\ e = job[w].ev
                 /\ pendA'[w][e].fp = job[w].fp /\ pendA'[w][e].sev = job[w].sev
                 /\ pendA'[w][e].status = "triggered"
    <3>1. \A e \in Event : pendA'[w][e] # None => pendA[w][e] # None
      BY <1>3, <2>2 DEF LinksTo
    <3> QED
      BY <1>1, <2>2, <3>1, LinkKeeps DEF InTransaction
  <2> QED
    BY <1>2, <2>1, <2>2
<1> QED
  BY <1>1, <1>4, WorkerGoesOn

LEMMA LeaveRows == ASSUME TInv, RowsInv, NEW w \in Worker, LeaveUngrouped(w) PROVE RowsInv'
<1>1. \A e \in Event : pendA'[w][e] # None =>
         /\ pc'[w] \in InTransaction /\ e = job'[w].ev
         /\ pendA'[w][e].fp = job'[w].fp /\ pendA'[w][e].sev = job'[w].sev
         /\ pendA'[w][e].status = "triggered"
  BY LeaveShape DEF RowsInv, WorkerRows, InTransaction
<1> QED
  BY <1>1, LeaveShape, WorkerGoesOn

LEMMA AnnounceRows == ASSUME TInv, RowsInv, NEW w \in Worker, Announce(w) PROVE RowsInv'
<1>1. \A e \in Event : pendA'[w][e] # None =>
         /\ pc'[w] \in InTransaction /\ e = job'[w].ev
         /\ pendA'[w][e].fp = job'[w].fp /\ pendA'[w][e].sev = job'[w].sev
         /\ pendA'[w][e].status = "triggered"
  BY AnnounceShape DEF RowsInv, WorkerRows, InTransaction
<1> QED
  BY <1>1, AnnounceShape, WorkerGoesOn

\* A new status is all that a status write changes.
LEMMA StatusOnly ==
  ASSUME NEW row \in AlertRow, NEW s
  PROVE  LET new == [row EXCEPT !.status = s]
         IN /\ new.fp = row.fp /\ new.sev = row.sev /\ new.incident = row.incident
            /\ new.status = s
  BY DEF AlertRow

LEMMA StatusWritten ==
  ASSUME TInv, NEW e \in Event, alerts[e] # None, NEW s \in AlertStatus,
         alerts' = [alerts EXCEPT ![e].status = s]
  PROVE  /\ \A d \in Event \ {e} : alerts'[d] = alerts[d]
         /\ alerts'[e] # None /\ alerts'[e].status = s
         /\ alerts'[e].fp = alerts[e].fp /\ alerts'[e].sev = alerts[e].sev
         /\ alerts'[e].incident = alerts[e].incident
<1>0. alerts \in AlertTable
  BY AlertTables
<1>1. alerts[e] \in AlertRow /\ alerts'[e] = [alerts[e] EXCEPT !.status = s]
      /\ \A d \in Event \ {e} : alerts'[d] = alerts[d]
  BY <1>0 DEF AlertTable
<1>2. alerts'[e] \in AlertRow
  BY <1>1, AlertRowFields
<1>3. LET new == [alerts[e] EXCEPT !.status = s]
      IN /\ new.fp = alerts[e].fp /\ new.sev = alerts[e].sev
         /\ new.incident = alerts[e].incident /\ new.status = s
  BY <1>1, StatusOnly
<1> QED
  BY <1>1, <1>2, <1>3, RowsAreNotNone

LEMMA GroupShape ==
  ASSUME TInv, NEW w \in Worker, GroupIntoAlert(w)
  PROVE  /\ Alone(w) /\ pc[w] = "update" /\ pc'[w] = "idle"
         /\ ~AlertLocked(job[w].alert, w)
         /\ UNCHANGED <<incidents, pendA, pendI, sideVars>>
         /\ \/ /\ UNCHANGED alerts /\ event' = [event EXCEPT ![job[w].ev] = "lost"]
            \/ /\ alerts[job[w].alert] # None
               /\ alerts' = [alerts EXCEPT ![job[w].alert].status = Revived(job[w].row.status)]
               /\ Revived(job[w].row.status) \in AlertStatus \ {"resolved"}
               /\ event' = [event EXCEPT ![job[w].ev] = "recorded"]
<1>1. pc[w] = "update" /\ UNCHANGED <<incidents, pendA, pendI, sideVars>>
      /\ ~AlertLocked(job[w].alert, w)
  BY DEF GroupIntoAlert
<1>2. job[w] \in Job /\ job[w].row # None
  BY <1>1 DEF TInv, PhaseOK, WorkerPhase
<1>3. Revived(job[w].row.status) \in AlertStatus \ {"resolved"}
  <2>1. job[w].row \in AlertRow
    BY <1>2, JobFields
  <2> QED
    BY <2>1, AlertRowFields DEF Revived, AlertStatus
<1>4. CASE Settle(w, "lost") /\ UNCHANGED alerts
  BY <1>1, <1>4, SettleShape
<1>5. CASE /\ alerts[job[w].alert] # None /\ Settle(w, "recorded")
           /\ alerts' = [alerts EXCEPT ![job[w].alert].status = Revived(job[w].row.status)]
  <2>1. /\ Alone(w) /\ pc'[w] = "idle" /\ event' = [event EXCEPT ![job[w].ev] = "recorded"]
    BY <1>1, <1>5, SettleShape
  <2> QED
    BY <1>1, <1>3, <1>5, <2>1
<1> QED
  BY <1>4, <1>5 DEF GroupIntoAlert

LEMMA GroupRows == ASSUME TInv, RowsInv, NEW w \in Worker, GroupIntoAlert(w) PROVE RowsInv'
<1> DEFINE a == job[w].alert
<1>1. a \in Event /\ pc[w] # "idle"
  BY AlertTables, GroupShape
<1>2. \A e \in Event : pendA'[w][e] = None
  <2>1. pc[w] = "update" /\ pendA' = pendA
    BY GroupShape
  <2> QED
    BY <2>1 DEF RowsInv, WorkerRows, InTransaction
<1>3. (\A e \in Event : alerts'[e] # None => alerts[e] # None) /\ HeldRowsKept
  <2>1. CASE UNCHANGED alerts
    BY <2>1 DEF HeldRowsKept, RowsInv, RequestRows
  <2>2. CASE /\ alerts[a] # None
             /\ alerts' = [alerts EXCEPT ![a].status = Revived(job[w].row.status)]
             /\ Revived(job[w].row.status) \in AlertStatus
    <3> PICK s : s = Revived(job[w].row.status)
      OBVIOUS
    <3>1. /\ \A d \in Event \ {a} : alerts'[d] = alerts[d]
          /\ alerts'[a] # None
          /\ alerts'[a].fp = alerts[a].fp /\ alerts'[a].sev = alerts[a].sev
          /\ alerts'[a].incident = alerts[a].incident
      BY <1>1, <2>2, StatusWritten
    <3> QED
      BY <2>2, <3>1 DEF HeldRowsKept, RowsInv, RequestRows
  <2> QED
    BY <2>1, <2>2, GroupShape
<1>4. Alone(w) /\ pc'[w] = "idle"
      /\ \E outcome \in {"lost", "recorded"} : event' = [event EXCEPT ![job[w].ev] = outcome]
  BY GroupShape
<1> HIDE DEF a
<1> QED
  BY <1>1, <1>2, <1>3, <1>4, WorkerEnds

\* The alert table after a commit.
LEMMA CommittedAlerts ==
  ASSUME TInv, NEW p \in Process, alerts' = Merge(pendA[p], alerts)
  PROVE  \A e \in Event : alerts'[e] = IF pendA[p][e] # None THEN pendA[p][e] ELSE alerts[e]
  BY AlertTables DEF Merge, AlertTable

LEMMA CommitAlertShape ==
  ASSUME TInv, NEW w \in Worker, CommitAlert(w)
  PROVE  /\ Alone(w) /\ pc[w] = "commit" /\ pc'[w] = "idle"
         /\ pendA' = [pendA EXCEPT ![w] = NoAlerts]
         /\ pendI' = [pendI EXCEPT ![w] = NoIncidents]
         /\ event' = [event EXCEPT ![job[w].ev] = "recorded"]
         /\ alerts' = Merge(pendA[w], alerts) /\ incidents' = Merge(pendI[w], incidents)
         /\ UNCHANGED sideVars
  BY SettleShape DEF CommitAlert, ApplyWrites, DropWrites

LEMMA FailShape ==
  ASSUME TInv, NEW w \in Worker, Fail(w)
  PROVE  /\ Alone(w) /\ pc[w] # "idle" /\ pc'[w] = "idle"
         /\ pendA' = [pendA EXCEPT ![w] = NoAlerts]
         /\ pendI' = [pendI EXCEPT ![w] = NoIncidents]
         /\ event' = [event EXCEPT ![job[w].ev] = "lost"]
         /\ UNCHANGED <<alerts, incidents, sideVars>>
  BY SettleShape DEF Fail, DropWrites

LEMMA CommitAlertRows == ASSUME TInv, RowsInv, NEW w \in Worker, CommitAlert(w) PROVE RowsInv'
<1>1. \A e \in Event : pendA'[w][e] = None
  BY CommitAlertShape, AlertTables DEF NoAlerts
<1>2. \A e \in Event : alerts'[e] = IF pendA[w][e] # None THEN pendA[w][e] ELSE alerts[e]
  BY CommitAlertShape, CommittedAlerts, AlertTables
<1>3. HeldRowsKept
  BY <1>2, AlertTables DEF HeldRowsKept, RowsInv, RequestRows, AlertLocks
<1>4. \A e \in Event : alerts'[e] # None => alerts[e] # None \/ e = job[w].ev
  BY <1>2 DEF RowsInv, WorkerRows
<1> QED
  BY <1>1, <1>3, <1>4, CommitAlertShape, WorkerEnds

LEMMA FailRows == ASSUME TInv, RowsInv, NEW w \in Worker, Fail(w) PROVE RowsInv'
<1>1. \A e \in Event : pendA'[w][e] = None
  BY FailShape, AlertTables DEF NoAlerts
<1>2. HeldRowsKept
  BY FailShape DEF HeldRowsKept, RowsInv, RequestRows
<1>3. /\ Alone(w) /\ pc[w] # "idle" /\ pc'[w] = "idle"
      /\ event' = [event EXCEPT ![job[w].ev] = "lost"]
      /\ \A e \in Event : alerts'[e] # None => alerts[e] # None
  BY FailShape
<1> QED
  BY <1>1, <1>2, <1>3, WorkerEnds

\* The rows that anybody but request r holds keep what identifies them.
OthersKept(r) ==
    \A q \in Request \ {r}, e \in Event : pendA[q][e] # None =>
        /\ alerts'[e] # None
        /\ alerts'[e].fp = alerts[e].fp /\ alerts'[e].sev = alerts[e].sev
        /\ alerts'[e].incident = alerts[e].incident

\* A step of request r.
LEMMA RequestRowsStep ==
  ASSUME TInv, RowsInv, NEW r \in Request, UNCHANGED <<event, job>>,
         \A p \in Process \ {r} : pc'[p] = pc[p] /\ pendA'[p] = pendA[p],
         \A e \in Event : alerts'[e] # None => alerts[e] # None,
         OthersKept(r),
         \A e \in Event : pendA'[r][e] # None =>
            /\ pc'[r] \notin {"new", "done"} /\ alerts'[e] # None
            /\ pendA'[r][e].fp = alerts'[e].fp /\ pendA'[r][e].sev = alerts'[e].sev
            /\ pendA'[r][e].incident = alerts'[e].incident
            /\ \A q \in Request \ {r} : pendA[q][e] = None
  PROVE  RowsInv'
<1> USE DEF RowsInv
<1>1. \A w \in Worker : pc'[w] = pc[w] /\ pendA'[w] = pendA[w]
  BY AlertTables
<1>2. RequestRows'
  <2> SUFFICES ASSUME NEW q \in Request, NEW e \in Event, pendA'[q][e] # None
               PROVE  /\ pc'[q] \notin {"new", "done"} /\ alerts'[e] # None
                      /\ pendA'[q][e].fp = alerts'[e].fp /\ pendA'[q][e].sev = alerts'[e].sev
                      /\ pendA'[q][e].incident = alerts'[e].incident
    BY DEF RequestRows
  <2>1. CASE q = r
    BY <2>1
  <2>2. CASE q # r
    BY <2>2, AlertTables DEF RequestRows, OthersKept
  <2> QED
    BY <2>1, <2>2
<1>3. RequestsApart'
  BY AlertTables DEF RequestsApart, AlertLocks
<1> QED
  BY <1>1, <1>2, <1>3, OutsidersStep

\* A request that has not begun holds nothing.
LEMMA NewHoldsNothing ==
  ASSUME RowsInv, NEW r \in Request, pc[r] = "new"
  PROVE  \A e \in Event : pendA[r][e] = None
  BY DEF RowsInv, RequestRows

LEMMA RequestAlone ==
  ASSUME TInv, NEW r \in Request, NEW step, Goto(r, step)
  PROVE  pc'[r] = step /\ \A p \in Process \ {r} : pc'[p] = pc[p]
  BY AlertTables DEF Goto, TInv, TypeOK, Process

LEMMA SetStatusRows ==
  ASSUME TInv, RowsInv, NEW r \in Request, pc[r] = "new", NEW e \in Event, alerts[e] # None,
         NEW s \in AlertStatus, SetAlertStatus(r, e, s)
  PROVE  RowsInv'
<1>1. /\ alerts' = [alerts EXCEPT ![e].status = s] /\ Goto(r, "done")
      /\ UNCHANGED <<event, job, pendA>>
  BY DEF SetAlertStatus
<1>2. /\ \A d \in Event \ {e} : alerts'[d] = alerts[d]
      /\ alerts'[e] # None
      /\ alerts'[e].fp = alerts[e].fp /\ alerts'[e].sev = alerts[e].sev
      /\ alerts'[e].incident = alerts[e].incident
  BY <1>1, StatusWritten
<1>3. OthersKept(r)
  BY <1>2 DEF OthersKept, RowsInv, RequestRows
<1>4. \A d \in Event : alerts'[d] # None => alerts[d] # None
  BY <1>2
<1> QED
  BY <1>1, <1>3, <1>4, NewHoldsNothing, RequestAlone, RequestRowsStep

LEMMA CleanupRows == ASSUME TInv, RowsInv, NEW r \in Request, CleanupAlerts(r) PROVE RowsInv'
<1>1. pc[r] = "new" /\ Goto(r, "done") /\ UNCHANGED <<event, job, pendA>>
  BY DEF CleanupAlerts, Calls
<1>2. PICK mocks \in SUBSET Event :
        /\ \A e \in mocks : ~AlertLocked(e, r)
        /\ alerts' = [e \in Event |-> IF e \in mocks THEN None ELSE alerts[e]]
  BY DEF CleanupAlerts
<1>3. OthersKept(r)
  BY <1>2, AlertTables DEF OthersKept, AlertLocked, RowsInv, RequestRows
<1>4. \A d \in Event : alerts'[d] # None => alerts[d] # None
  BY <1>2
<1> QED
  BY <1>1, <1>3, <1>4, NewHoldsNothing, RequestAlone, RequestRowsStep

LEMMA ResolveAlertRows ==
  ASSUME TInv, RowsInv, NEW r \in Request, ResolveAlert(r) PROVE RowsInv'
<1>1. pc[r] = "new" /\ Goto(r, "check") /\ UNCHANGED <<event, alerts, job>>
  BY DEF ResolveAlert, Calls
<1>2. PICK e \in Event :
        /\ alerts[e] # None /\ ~AlertLocked(e, r)
        /\ pendA' = [pendA EXCEPT ![r][e] = [alerts[e] EXCEPT !.status = "resolved"]]
  BY DEF ResolveAlert
<1>3. alerts[e] \in AlertRow
  BY <1>2, AlertTables DEF AlertTable
<1> DEFINE new == [alerts[e] EXCEPT !.status = "resolved"]
<1>4. /\ \A p \in Process \ {r} : pendA'[p] = pendA[p]
      /\ \A d \in Event : pendA'[r][d] = IF d = e THEN new ELSE None
  <2>1. pendA \in [Process -> AlertTable] /\ r \in Process
    BY AlertTables
  <2>2. \A d \in Event : pendA[r][d] = None
    BY <1>1, NewHoldsNothing
  <2> QED
    BY <1>2, <2>1, <2>2 DEF AlertTable
<1>5. new.fp = alerts[e].fp /\ new.sev = alerts[e].sev /\ new.incident = alerts[e].incident
  BY <1>3, StatusOnly
<1>6. \A q \in Request \ {r} : pendA[q][e] = None
  BY <1>2, AlertTables DEF AlertLocked
<1>7. OthersKept(r)
  BY <1>1 DEF OthersKept, RowsInv, RequestRows
<1> HIDE DEF new
<1>8. \A d \in Event : pendA'[r][d] # None =>
        /\ pc'[r] \notin {"new", "done"} /\ alerts'[d] # None
        /\ pendA'[r][d].fp = alerts'[d].fp /\ pendA'[r][d].sev = alerts'[d].sev
        /\ pendA'[r][d].incident = alerts'[d].incident
        /\ \A q \in Request \ {r} : pendA[q][d] = None
  BY <1>1, <1>2, <1>4, <1>5, <1>6, RequestAlone
<1> QED
  BY <1>1, <1>4, <1>7, <1>8, RequestAlone, RequestRowsStep

\* The request moves on with the alert rows it holds.
LEMMA RequestGoesOn ==
  ASSUME TInv, RowsInv, NEW r \in Request, NEW step, step \notin {"new", "done"}, Goto(r, step),
         UNCHANGED <<event, alerts, job, pendA>>
  PROVE  RowsInv'
<1>1. OthersKept(r)
  BY DEF OthersKept, RowsInv, RequestRows
<1>2. \A d \in Event : pendA'[r][d] # None =>
        /\ pc'[r] \notin {"new", "done"} /\ alerts'[d] # None
        /\ pendA'[r][d].fp = alerts'[d].fp /\ pendA'[r][d].sev = alerts'[d].sev
        /\ pendA'[r][d].incident = alerts'[d].incident
        /\ \A q \in Request \ {r} : pendA[q][d] = None
  BY RequestAlone, AlertTables DEF RowsInv, RequestRows, AlertLocks
<1> QED
  BY <1>1, <1>2, RequestAlone, RequestRowsStep

LEMMA CascadeRowsKept ==
  ASSUME TInv, RowsInv, NEW r \in Request, CascadeToAlerts(r) PROVE RowsInv'
<1>1. Goto(r, "commit") /\ UNCHANGED <<event, alerts, job>>
  BY DEF CascadeToAlerts
<1>2. /\ \A p \in Process \ {r} : pendA'[p] = pendA[p]
      /\ \A e \in Event : pendA'[r][e] =
            IF e \in CascadeRows(r) THEN [alerts[e] EXCEPT !.status = target[r].status] ELSE None
  BY AlertTables DEF CascadeToAlerts
<1>3. OthersKept(r)
  BY <1>1 DEF OthersKept, RowsInv, RequestRows
<1>4. \A d \in Event : pendA'[r][d] # None =>
        /\ pc'[r] \notin {"new", "done"} /\ alerts'[d] # None
        /\ pendA'[r][d].fp = alerts'[d].fp /\ pendA'[r][d].sev = alerts'[d].sev
        /\ pendA'[r][d].incident = alerts'[d].incident
        /\ \A q \in Request \ {r} : pendA[q][d] = None
  <2>0. pc'[r] = "commit" /\ \A d \in Event \ CascadeRows(r) : pendA'[r][d] = None
    BY <1>1, <1>2, RequestAlone
  <2> SUFFICES ASSUME NEW d \in Event, d \in CascadeRows(r)
               PROVE  LET new == [alerts[d] EXCEPT !.status = target[r].status]
                      IN /\ alerts[d] # None
                         /\ new.fp = alerts[d].fp /\ new.sev = alerts[d].sev
                         /\ new.incident = alerts[d].incident
                         /\ \A q \in Request \ {r} : pendA[q][d] = None
    BY <1>1, <1>2, <2>0
  <2>1. alerts[d] # None /\ alerts[d] \in AlertRow
    BY AlertTables DEF CascadeRows, AlertTable
  <2>2. \A q \in Request \ {r} : pendA[q][d] = None
    BY AlertTables DEF CascadeToAlerts, AlertLocked
  <2> QED
    BY <2>1, <2>2, StatusOnly
<1> QED
  BY <1>1, <1>2, <1>3, <1>4, RequestAlone, RequestRowsStep

\* The end of a request: what it held is in the table, or dropped.
LEMMA RequestEndRows ==
  ASSUME TInv, RowsInv, NEW r \in Request, UNCHANGED <<event, job>>, Goto(r, "done"),
         pendA' = [pendA EXCEPT ![r] = NoAlerts],
         UNCHANGED alerts \/ alerts' = Merge(pendA[r], alerts)
  PROVE  RowsInv'
<1>1. /\ \A p \in Process \ {r} : pendA'[p] = pendA[p]
      /\ \A e \in Event : pendA'[r][e] = None
  BY AlertTables DEF NoAlerts
<1>2. \A e \in Event : alerts'[e] = alerts[e] \/ (pendA[r][e] # None /\ alerts'[e] = pendA[r][e])
  BY CommittedAlerts, AlertTables
<1>3. \A e \in Event : alerts'[e] # None => alerts[e] # None
  BY <1>2 DEF RowsInv, RequestRows
<1>4. OthersKept(r)
  BY <1>2, AlertTables DEF OthersKept, RowsInv, RequestRows, AlertLocks
<1> QED
  BY <1>1, <1>3, <1>4, RequestAlone, RequestRowsStep

\* A step that no process takes, and that changes no held row.
LEMMA EnvironmentRows ==
  ASSUME TInv, RowsInv, UNCHANGED <<event, job, pc, pendA>>,
         \A e \in Event :
            \/ alerts'[e] = alerts[e]
            \/ /\ alerts[e] # None \/ alerts'[e] = None
               /\ \A p \in Process : pendA[p][e] = None
  PROVE  RowsInv'
<1>1. \A e \in Event : alerts'[e] # None => alerts[e] # None
  OBVIOUS
<1>2. RequestRows'
  BY AlertTables DEF RowsInv, RequestRows
<1>3. RequestsApart'
  BY AlertTables DEF RowsInv, AlertLocks, RequestsApart
<1> QED
  BY <1>1, <1>2, <1>3, OutsidersStep

LEMMA AiWriteRows == ASSUME TInv, RowsInv, AiWrite PROVE RowsInv'
<1>1. UNCHANGED <<event, job, pc, pendA>>
  BY DEF AiWrite
<1>2. \A e \in Event : alerts'[e] = alerts[e]
         \/ (alerts[e] # None /\ \A p \in Process : pendA[p][e] = None)
  BY AlertTables DEF AiWrite, AlertTable
<1> QED
  BY <1>1, <1>2, EnvironmentRows

LEMMA SoarFinishRows == ASSUME TInv, RowsInv, NEW e \in Event, SoarFinish(e) PROVE RowsInv'
<1>1. UNCHANGED <<event, job, pc, pendA>>
  BY DEF SoarFinish
<1>2. \A d \in Event : alerts'[d] = alerts[d]
         \/ (alerts[d] # None /\ \A p \in Process : pendA[p][d] = None)
  BY AlertTables DEF SoarFinish, AlertTable
<1> QED
  BY <1>1, <1>2, EnvironmentRows

LEMMA RetentionRows == ASSUME TInv, RowsInv, EnforceRetention PROVE RowsInv'
<1>1. UNCHANGED <<event, job, pc, pendA>>
  BY DEF EnforceRetention
<1>2. \A d \in Event : alerts'[d] = alerts[d]
         \/ (alerts'[d] = None /\ \A p \in Process : pendA[p][d] = None)
  BY DEF EnforceRetention
<1> QED
  BY <1>1, <1>2, EnvironmentRows

-----------------------------------------------------------------------------
LEMMA NextRows == ASSUME TInv, RowsInv, [Next]_vars PROVE RowsInv'
<1>1. CASE \E w \in Worker : WorkerLoop(w) \/ Fail(w)
  BY <1>1, PopRows, MuteRows, LookupRows, GroupRows, InsertRows, LinkRows, LeaveRows,
     AnnounceRows, CommitAlertRows, FailRows
  DEF WorkerLoop, ProcessEvent, Create
<1>2. ASSUME NEW r \in Request, Arrive(r) PROVE RowsInv'
  <2>1. CASE AcknowledgeAlert(r) \/ ReopenAlert(r)
    BY <2>1, SetStatusRows DEF AcknowledgeAlert, ReopenAlert, Calls, AlertStatus
  <2>2. CASE AcknowledgeIncident(r) \/ ResolveIncident(r)
    BY <2>2, RequestGoesOn
    DEF AcknowledgeIncident, ResolveIncident, ChangeIncident
  <2> QED
    BY <1>2, <2>1, <2>2, CleanupRows, ResolveAlertRows DEF Arrive
<1>3. ASSUME NEW r \in Request, Handle(r) \/ FailRequest(r) \/ BreakDeadlock(r) PROVE RowsInv'
  <2>1. CASE CheckSiblings(r)
    <3>1. \E step \in {"close", "commit"} : Goto(r, step)
      BY <2>1 DEF CheckSiblings
    <3> QED
      BY <2>1, <3>1, RequestGoesOn DEF CheckSiblings
  <2>2. CASE CloseIncident(r)
    BY <2>2, RequestGoesOn DEF CloseIncident
  <2>3. CASE CommitRequest(r)
    BY <2>3, RequestEndRows DEF CommitRequest, ApplyWrites, DropWrites
  <2>4. CASE RollBack(r)
    BY <2>4, RequestEndRows DEF RollBack, DropWrites
  <2> QED
    BY <1>3, <2>1, <2>2, <2>3, <2>4, CascadeRowsKept DEF Handle, FailRequest, BreakDeadlock
<1>4. CASE Background
  <2>1. ASSUME UNCHANGED <<event, job, pc, pendA, alerts>> PROVE RowsInv'
    BY <2>1, EnvironmentRows
  <2> QED
    BY <1>4, <2>1, AiWriteRows, SoarFinishRows, RetentionRows
    DEF Background, ExpireDebounce, AiTake, MonthPasses
<1>5. CASE UNCHANGED vars
  BY <1>5, EnvironmentRows DEF vars
<1> QED
  BY <1>1, <1>2, <1>3, <1>4, <1>5 DEF Next

LEMMA InitRows == Init => RowsInv
<1> SUFFICES ASSUME Init PROVE RowsInv
  OBVIOUS
<1>1. \A p \in Process, e \in Event : pendA[p][e] = None
  BY DEF Init, NoAlerts
<1>2. \A w \in Worker : pc[w] = "idle" /\ w \in Process
  BY DEF Init, Process
<1>3. \A e \in Event : alerts[e] = None
  BY DEF Init, NoAlerts
<1> QED
  BY <1>1, <1>2, <1>3 DEF RowsInv, Recorded, OwnEvents, WorkerRows, RequestRows, AlertLocks, Process

LEMMA AlwaysRows == Spec => [](TInv /\ RegistryInv /\ RowsInv)
<1>1. TInv /\ RegistryInv /\ RowsInv /\ [Next]_vars => (TInv /\ RegistryInv /\ RowsInv)'
  BY NextTyped, NextRegistry, NextRows
<1> QED
  BY <1>1, InitTyped, InitRegistry, InitRows, PTL DEF Spec

-----------------------------------------------------------------------------
(* What a step can do to the alert table, to the incident table and to the *)
(* incident a worker has chosen, said once for the invariants that follow. *)

\* What is left of alert e after a step that does not commit a new alert.
SameAlert(e) ==
    /\ alerts[e] # None
    /\ alerts'[e].fp = alerts[e].fp /\ alerts'[e].incident = alerts[e].incident

\* Judged writes two columns.
LEMMA JudgedKeeps ==
  ASSUME NEW row \in AlertRow, NEW v
  PROVE  LET new == Judged(row, v)
         IN new.fp = row.fp /\ new.incident = row.incident /\ new.sev = v.sev
<1> DEFINE k == [row EXCEPT !.sev = v.sev]
<1>1. k.fp = row.fp /\ k.incident = row.incident /\ k.sev = v.sev /\ k = [k EXCEPT !.fp = row.fp]
      /\ DOMAIN k = {"fp", "sev", "status", "incident"}
  BY DEF AlertRow
<1> HIDE DEF k
<1>2. LET new == [k EXCEPT !.status = v.status]
      IN new.fp = k.fp /\ new.incident = k.incident /\ new.sev = k.sev
  BY <1>1
<1> QED
  BY <1>1, <1>2 DEF k, Judged

\* The UPDATE of the AI worker.
LEMMA AiWriteShape ==
  ASSUME TInv, AiWrite, ~UNCHANGED alerts
  PROVE  \E e \in Event, v \in Verdicts(aiJob.row) :
            /\ e = aiJob.alert /\ aiJob # None /\ aiJob.row \in AlertRow
            /\ alerts[e] # None /\ alerts'[e] # None
            /\ \A d \in Event \ {e} : alerts'[d] = alerts[d]
            /\ alerts'[e].fp = alerts[e].fp /\ alerts'[e].incident = alerts[e].incident
            /\ alerts'[e].sev = v.sev
<1> DEFINE e == aiJob.alert
<1>1. PICK v \in Verdicts(aiJob.row) :
        alerts[e] # None /\ alerts' = [alerts EXCEPT ![e] = Judged(alerts[e], v)]
  BY DEF AiWrite
<1>2. e \in Event /\ aiJob.row \in AlertRow /\ aiJob # None
  BY DEF AiWrite, TInv, TypeOK
<1>3. alerts[e] \in AlertRow /\ alerts'[e] = Judged(alerts[e], v)
      /\ \A d \in Event \ {e} : alerts'[d] = alerts[d]
  BY <1>1, <1>2, AlertTables DEF AlertTable
<1>4. alerts'[e] \in AlertRow
  BY <1>2, <1>3, JudgedRow
<1>5. LET new == Judged(alerts[e], v)
      IN new.fp = alerts[e].fp /\ new.incident = alerts[e].incident /\ new.sev = v.sev
  BY <1>3, JudgedKeeps
<1> HIDE DEF e
<1>6. alerts'[e] # None
  BY <1>4, RowsAreNotNone
<1> QED
  BY <1>1, <1>2, <1>3, <1>5, <1>6 DEF e

\* The statements that write the alert table.
LEMMA AlertWriters ==
  ASSUME TInv, [Next]_vars
  PROVE  \/ UNCHANGED alerts
         \/ \E w \in Worker : CommitAlert(w)
         \/ \E e \in Event, s \in AlertStatus :
               alerts[e] # None /\ alerts' = [alerts EXCEPT ![e].status = s]
         \/ ~NothingDeletes /\ \A e \in Event : alerts'[e] \in {alerts[e], None}
         \/ \E r \in Request : CommitRequest(r)
         \/ AiWrite
<1>1. CASE \E w \in Worker : WorkerLoop(w) \/ Fail(w)
  <2>1. ASSUME NEW w \in Worker, GroupIntoAlert(w)
        PROVE  \/ UNCHANGED alerts
               \/ \E e \in Event, s \in AlertStatus :
                     alerts[e] # None /\ alerts' = [alerts EXCEPT ![e].status = s]
    <3>1. job[w].alert \in Event
      BY <2>1, GroupShape, AlertTables
    <3> QED
      BY <2>1, <3>1, GroupShape
  <2> QED
    BY <1>1, <2>1 DEF WorkerLoop, ProcessEvent, Create, Pop, Mute, ReadDebounce, FetchAlert,
                InsertAlert, BumpIncident, OpenIncident, LeaveUngrouped, Announce, Fail
<1>2. ASSUME NEW r \in Request, Arrive(r)
      PROVE  \/ UNCHANGED alerts
             \/ \E e \in Event, s \in AlertStatus :
                   alerts[e] # None /\ alerts' = [alerts EXCEPT ![e].status = s]
             \/ ~NothingDeletes /\ \A e \in Event : alerts'[e] \in {alerts[e], None}
  <2>1. CASE AcknowledgeAlert(r) \/ ReopenAlert(r)
    BY <2>1 DEF AcknowledgeAlert, ReopenAlert, SetAlertStatus, AlertStatus
  <2>2. CASE CleanupAlerts(r)
    BY <2>2 DEF CleanupAlerts, Calls, NothingDeletes
  <2> QED
    BY <1>2, <2>1, <2>2 DEF Arrive, ResolveAlert, AcknowledgeIncident, ResolveIncident, ChangeIncident
<1>3. CASE \E r \in Request : Handle(r) \/ FailRequest(r) \/ BreakDeadlock(r)
  BY <1>3 DEF Handle, FailRequest, BreakDeadlock, CheckSiblings, CloseIncident, CascadeToAlerts,
              RollBack
<1>4. CASE Background
  <2>1. ASSUME NEW e \in Event, SoarFinish(e)
        PROVE  \/ UNCHANGED alerts
               \/ alerts[e] # None /\ alerts' = [alerts EXCEPT ![e].status = "resolved"]
    BY <2>1 DEF SoarFinish
  <2>2. "resolved" \in AlertStatus
    BY DEF AlertStatus
  <2>3. CASE EnforceRetention
    BY <2>3 DEF EnforceRetention, NothingDeletes
  <2> QED
    BY <1>4, <2>1, <2>2, <2>3 DEF Background, ExpireDebounce, AiTake, MonthPasses
<1>5. CASE UNCHANGED vars
  BY <1>5 DEF vars
<1> QED
  BY <1>1, <1>2, <1>3, <1>4, <1>5 DEF Next

\* Only the commit of a worker adds an alert; the other steps keep its
\* fingerprint and its link, and only the AI worker writes its severity.
LEMMA AlertSteps ==
  ASSUME TInv, RowsInv, [Next]_vars, \A w \in Worker : ~CommitAlert(w)
  PROVE  /\ \A e \in Event : alerts'[e] # None =>
               SameAlert(e) /\ (alerts'[e].sev = alerts[e].sev \/ AiWrite)
         /\ NothingDeletes => \A e \in Event : alerts[e] # None => alerts'[e] # None
<1>1. CASE UNCHANGED alerts
  BY <1>1 DEF SameAlert
<1>2. ASSUME NEW d \in Event, NEW s \in AlertStatus, alerts[d] # None,
             alerts' = [alerts EXCEPT ![d].status = s]
      PROVE  \A e \in Event : /\ alerts'[e] # None => SameAlert(e) /\ alerts'[e].sev = alerts[e].sev
                              /\ alerts[e] # None => alerts'[e] # None
  BY <1>2, StatusWritten DEF SameAlert
<1>3. CASE ~NothingDeletes /\ \A e \in Event : alerts'[e] \in {alerts[e], None}
  BY <1>3 DEF SameAlert
<1>4. ASSUME NEW r \in Request, CommitRequest(r)
      PROVE  \A e \in Event : /\ alerts'[e] # None => SameAlert(e) /\ alerts'[e].sev = alerts[e].sev
                              /\ alerts[e] # None => alerts'[e] # None
  <2>1. \A e \in Event : alerts'[e] = IF pendA[r][e] # None THEN pendA[r][e] ELSE alerts[e]
    BY <1>4, CommittedAlerts, AlertTables DEF CommitRequest, ApplyWrites
  <2> QED
    BY <2>1 DEF RowsInv, RequestRows, SameAlert
<1>5. CASE AiWrite /\ ~UNCHANGED alerts
  BY <1>5, AiWriteShape DEF SameAlert
<1> QED
  BY <1>1, <1>2, <1>3, <1>4, <1>5, AlertWriters

\* The commit of a worker adds the alert of its event and no other.
LEMMA CommitAdds ==
  ASSUME TInv, RowsInv, NEW w \in Worker, CommitAlert(w)
  PROVE  /\ job[w].ev \in Event /\ alerts[job[w].ev] = None
         /\ pendA[w][job[w].ev] # None
         /\ alerts'[job[w].ev] = pendA[w][job[w].ev]
         /\ pendA[w][job[w].ev].fp = job[w].fp /\ pendA[w][job[w].ev].sev = job[w].sev
         /\ pendA[w][job[w].ev].status = "triggered"
         /\ \A e \in Event \ {job[w].ev} : alerts'[e] = alerts[e]
<1>1. pc[w] = "commit" /\ alerts' = Merge(pendA[w], alerts)
  BY CommitAlertShape
<1>2. job[w].ev \in Event /\ alerts[job[w].ev] = None
  BY <1>1, AlertTables DEF RowsInv, Recorded, OwnEvents
<1>3. pendA[w][job[w].ev] # None
  BY <1>1 DEF TInv, PhaseOK, WorkerPhase
<1>4. \A e \in Event : alerts'[e] = IF pendA[w][e] # None THEN pendA[w][e] ELSE alerts[e]
  BY <1>1, CommittedAlerts, AlertTables
<1> QED
  BY <1>2, <1>3, <1>4 DEF RowsInv, WorkerRows

\* A worker changes only by its own steps.
LEMMA WorkerUndisturbed ==
  ASSUME TInv, [Next]_vars, NEW w \in Worker, ~WorkerLoop(w), ~Fail(w)
  PROVE  /\ pc'[w] = pc[w] /\ job'[w] = job[w]
         /\ pendA'[w] = pendA[w] /\ pendI'[w] = pendI[w]
<1>0. /\ DOMAIN pc = Process /\ DOMAIN pendA = Process /\ DOMAIN pendI = Process
      /\ DOMAIN job = Worker /\ w \in Process /\ w \notin Request
  BY AlertTables DEF TInv, TypeOK
<1>1. ASSUME NEW v \in Worker, v # w, WorkerLoop(v) \/ Fail(v)
      PROVE  /\ pc'[w] = pc[w] /\ job'[w] = job[w]
             /\ pendA'[w] = pendA[w] /\ pendI'[w] = pendI[w]
  BY <1>0, <1>1
  DEF WorkerLoop, ProcessEvent, Create, Pop, Mute, ReadDebounce, FetchAlert, GroupIntoAlert,
      InsertAlert, BumpIncident, OpenIncident, LeaveUngrouped, Announce, CommitAlert, Fail,
      Settle, Goto, DropWrites
<1>2. ASSUME NEW r \in Request, Arrive(r)
      PROVE  /\ pc'[w] = pc[w] /\ job'[w] = job[w]
             /\ pendA'[w] = pendA[w] /\ pendI'[w] = pendI[w]
  BY <1>0, <1>2
  DEF Arrive, AcknowledgeAlert, ReopenAlert, SetAlertStatus, CleanupAlerts, ResolveAlert,
      AcknowledgeIncident, ResolveIncident, ChangeIncident, Goto
<1>3. ASSUME NEW r \in Request, Handle(r) \/ FailRequest(r) \/ BreakDeadlock(r)
      PROVE  /\ pc'[w] = pc[w] /\ job'[w] = job[w]
             /\ pendA'[w] = pendA[w] /\ pendI'[w] = pendI[w]
  BY <1>0, <1>3
  DEF Handle, FailRequest, BreakDeadlock, CheckSiblings, CloseIncident, CascadeToAlerts,
      CommitRequest, RollBack, Goto, DropWrites
<1>4. CASE Background
  BY <1>4 DEF Background, ExpireDebounce, AiTake, SoarFinish, AiWrite, MonthPasses, EnforceRetention
<1>5. CASE UNCHANGED vars
  BY <1>5 DEF vars
<1> QED
  BY <1>1, <1>2, <1>3, <1>4, <1>5 DEF Next

-----------------------------------------------------------------------------
(* The link of an alert.  Incident i groups fingerprint f, or has been     *)
(* deleted by retention.                                                   *)

Grouped(i, f) == i \in pruned \/ (incidents[i] # None /\ incidents[i].fp = f)
\* ... and still does after the step.
StillGrouped(i, f) == i \in pruned' \/ (incidents'[i] # None /\ incidents'[i].fp = f)

CommittedLinks ==
    \A e \in Event : alerts[e] # None /\ alerts[e].incident # None =>
        Grouped(alerts[e].incident, alerts[e].fp)

\* The incident a worker is about to bump groups its fingerprint; the one it
\* has linked its alert to is the one it has written, unless that is gone.
WorkerLink(w) ==
    /\ pc[w] = "bump" => Grouped(job[w].incident, job[w].fp)
    /\ pc[w] \in {"bump", "open"} => pendA[w][job[w].ev].incident = None
    /\ pc[w] \in {"announce", "commit"} =>
          LET i == pendA[w][job[w].ev].incident
          IN /\ i # None => \/ i \in pruned
                            \/ pendI[w][i] # None /\ pendI[w][i].fp = job[w].fp
             /\ \A k \in Incident : pendI[w][k] # None => k = i

LinksInv == CommittedLinks /\ \A w \in Worker : WorkerLink(w)

\* An incident keeps its fingerprint until retention deletes it.
LEMMA GroupedStays ==
  ASSUME TInv, RegistryInv, [Next]_vars, NEW i \in Incident, NEW f, Grouped(i, f)
  PROVE  StillGrouped(i, f)
<1>1. CASE UNCHANGED <<incidents, pruned>>
  BY <1>1 DEF Grouped, StillGrouped
<1>2. CASE EnforceRetention
  BY <1>2 DEF EnforceRetention, Grouped, StillGrouped
<1>3. ASSUME NEW p \in Process, incidents' = Merge(pendI[p], incidents), UNCHANGED pruned
      PROVE  StillGrouped(i, f)
  <2>1. pendI[p][i] # None => Inserts(p, i) \/ Attaches(p, i) \/ Changes(p, i)
    BY DEF RegistryInv, PendingKinds
  <2>2. incidents'[i] = IF pendI[p][i] # None THEN pendI[p][i] ELSE incidents[i]
    BY <1>3, CommittedTable
  <2> QED
    BY <1>3, <2>1, <2>2 DEF Grouped, StillGrouped, Inserts, Attaches, Changes, RegistryInv, PrunedAreGone
<1>4. \/ UNCHANGED <<incidents, pruned>> \/ EnforceRetention
      \/ \E p \in Process : incidents' = Merge(pendI[p], incidents) /\ UNCHANGED pruned
  BY OtherSteps
  DEF CommitAlert, CommitRequest, ApplyWrites, Fail, RollBack, BumpIncident, OpenIncident,
      CloseIncident, AcknowledgeIncident, ResolveIncident, ChangeIncident, Process, sideVars
<1> QED
  BY <1>1, <1>2, <1>3, <1>4

LEMMA PrunedStays == ASSUME TInv, [Next]_vars PROVE pruned \subseteq pruned'
  BY OtherSteps
  DEF CommitAlert, CommitRequest, Fail, RollBack, BumpIncident, OpenIncident, CloseIncident,
      AcknowledgeIncident, ResolveIncident, ChangeIncident, EnforceRetention, sideVars

\* The rows a link speaks of.
LEMMA LinkTypes ==
  ASSUME TInv
  PROVE  /\ \A e \in Event : alerts[e] # None /\ alerts[e].incident # None =>
                               alerts[e].incident \in Incident
         /\ \A w \in Worker : pc[w] = "bump" => job[w].incident \in Incident
         /\ \A w \in Worker, e \in Event :
               pendA[w][e] # None /\ pendA[w][e].incident # None => pendA[w][e].incident \in Incident
<1>1. \A e \in Event : alerts[e] # None => alerts[e] \in AlertRow
  BY AlertTables DEF AlertTable
<1>2. \A w \in Worker, e \in Event : pendA[w][e] # None => pendA[w][e] \in AlertRow
  BY AlertTables DEF AlertTable
<1>3. \A w \in Worker : pc[w] = "bump" => job[w] \in Job /\ job[w].incident # None
  BY DEF TInv, PhaseOK, WorkerPhase
<1> QED
  BY <1>1, <1>2, <1>3, AlertRowFields, JobFields

\* UPDATE incidents ... alert_count + 1, then the link.
LEMMA BumpLink ==
  ASSUME TInv, RegistryInv, RowsInv, LinksInv, NEW w \in Worker, BumpIncident(w)
  PROVE  WorkerLink(w)'
<1>1. /\ pc[w] = "bump" /\ job' = job /\ pc'[w] = "announce" /\ LinksTo(w, job[w].incident)
      /\ UNCHANGED <<incidents, pruned>>
  BY BumpShape DEF sideVars
<1> DEFINE e == job[w].ev
           i == job[w].incident
<1>2. /\ e \in Event /\ i \in Incident /\ pendA[w][e] # None /\ pendI[w] = NoIncidents
      /\ job[w].worst \in Severity
  BY <1>1, LinkTypes, AlertTables, JobFields DEF TInv, PhaseOK, WorkerPhase
<1>3. pendA'[w][e].incident = i
  <2>1. pendA[w][e] \in AlertRow /\ pendA'[w][e] = [pendA[w][e] EXCEPT !.incident = i]
    BY <1>1, <1>2, AlertTables DEF LinksTo, AlertTable
  <2> HIDE DEF e, i
  <2> QED
    BY <2>1 DEF AlertRow
<1>4. CASE incidents[i] = None
  <2>1. i \in pruned /\ pendI' = pendI
    BY <1>1, <1>4 DEF LinksInv, WorkerLink, Grouped, BumpIncident
  <2> QED
    BY <1>1, <1>2, <1>3, <2>1 DEF WorkerLink, NoIncidents
<1>5. CASE incidents[i] # None
  <2>1. incidents[i].fp = job[w].fp /\ incidents[i] \in IncidentRow
    BY <1>1, <1>2, <1>5, Tables
    DEF LinksInv, WorkerLink, Grouped, RegistryInv, PrunedAreGone, IncidentTable
  <2> DEFINE row == Bumped(incidents[i], job[w].worst)
  <2>2. row \in IncidentRow /\ row.fp = job[w].fp
    BY <1>2, <2>1, BumpedRow
  <2>3. pendI' = [pendI EXCEPT ![w][i] = row]
    BY <1>5 DEF BumpIncident
  <2> HIDE DEF row
  <2>4. pendI'[w][i] = row /\ \A k \in Incident \ {i} : pendI'[w][k] = None
    BY <1>2, <2>3, AlertTables DEF NoIncidents, IncidentTable
  <2> QED
    BY <1>1, <1>3, <2>2, <2>4, RowsAreNotNone DEF WorkerLink
<1> QED
  BY <1>4, <1>5

\* INSERT INTO incidents, then the link; or a conflict, and no link.
LEMMA OpenLink ==
  ASSUME TInv, RegistryInv, RowsInv, LinksInv, NEW w \in Worker, OpenIncident(w)
  PROVE  WorkerLink(w)'
<1>1. pc[w] = "open" /\ job' = job /\ pc'[w] = "announce" /\ UNCHANGED <<incidents, pruned>>
  BY OpenShape DEF sideVars
<1> DEFINE e == job[w].ev
<1>2. /\ e \in Event /\ pendA[w][e] # None /\ pendI[w] = NoIncidents /\ job[w] \in Job
      /\ pendA[w][e].incident = None
  BY <1>1, AlertTables DEF TInv, PhaseOK, WorkerPhase, LinksInv, WorkerLink
<1>3. CASE UNCHANGED <<pendA, pendI>>
  BY <1>1, <1>2, <1>3 DEF WorkerLink, NoIncidents
<1>4. CASE \E i \in Incident :
             /\ pendI' = [pendI EXCEPT ![w][i] =
                    [fp |-> job[w].fp, sev |-> job[w].sev, status |-> "open", count |-> 1]]
             /\ pendA' = [pendA EXCEPT ![w][job[w].ev].incident = i]
  <2> DEFINE row == [fp |-> job[w].fp, sev |-> job[w].sev, status |-> "open", count |-> 1]
  <2>1. PICK i \in Incident : /\ pendI' = [pendI EXCEPT ![w][i] = row]
                              /\ pendA' = [pendA EXCEPT ![w][job[w].ev].incident = i]
    BY <1>4
  <2>2. row \in IncidentRow /\ row.fp = job[w].fp
    BY <1>2, JobFields DEF IncidentRow, IncidentStatus
  <2> HIDE DEF row
  <2>3. pendI'[w][i] = row /\ \A k \in Incident \ {i} : pendI'[w][k] = None
    BY <1>2, <2>1, AlertTables DEF NoIncidents, IncidentTable
  <2>4. pendA'[w][e].incident = i
    <3>1. pendA[w][e] \in AlertRow /\ pendA'[w][e] = [pendA[w][e] EXCEPT !.incident = i]
      BY <1>1, <1>2, <2>1, LinkWrite, AlertTables DEF LinksTo, AlertTable
    <3> HIDE DEF e
    <3> QED
      BY <3>1 DEF AlertRow
  <2> QED
    BY <1>1, <2>2, <2>3, <2>4, RowsAreNotNone DEF WorkerLink
<1> QED
  BY <1>3, <1>4 DEF OpenIncident

LEMMA NextWorkerLink ==
  ASSUME TInv, RegistryInv, RowsInv, LinksInv, [Next]_vars, NEW w \in Worker
  PROVE  WorkerLink(w)'
<1>1. CASE ~WorkerLoop(w) /\ ~Fail(w)
  <2>1. /\ pc'[w] = pc[w] /\ job'[w] = job[w]
        /\ pendA'[w] = pendA[w] /\ pendI'[w] = pendI[w]
    BY <1>1, WorkerUndisturbed
  <2>2. pc[w] = "bump" => StillGrouped(job[w].incident, job[w].fp)
    BY LinkTypes, GroupedStays DEF LinksInv, WorkerLink
  <2>3. pc'[w] = "bump" => StillGrouped(job'[w].incident, job'[w].fp)
    BY <2>1, <2>2
  <2> QED
    BY <2>1, <2>3, PrunedStays DEF LinksInv, WorkerLink, Grouped, StillGrouped
<1>2. CASE InsertAlert(w)
  <2>1. /\ pc'[w] \in {"bump", "open"} /\ SameEvent(job'[w], job[w])
        /\ pc'[w] = "bump" => job'[w].incident \in OpenIncidents(job[w].fp)
        /\ UNCHANGED <<incidents, pruned>>
    BY <1>2, InsertShape DEF sideVars
  <2>2. pendA'[w][job[w].ev].incident = None
    <3>1. job[w].ev \in Event
      BY <1>2, InsertShape, AlertTables
    <3>2. pendA'[w][job[w].ev] = [fp |-> job[w].fp, sev |-> job[w].sev, status |-> "triggered",
                                  incident |-> None]
      BY <1>2, <3>1, InsertShape
    <3> QED
      BY <3>2
  <2> QED
    BY <2>1, <2>2 DEF WorkerLink, Grouped, OpenIncidents, IsOpen, SameEvent
<1>3. CASE Announce(w)
  <2>1. /\ pc[w] = "announce" /\ pc'[w] = "commit"
        /\ UNCHANGED <<job, pendA, pendI, pruned>>
    BY <1>3, AnnounceShape
  <2>2. WorkerLink(w)
    BY DEF LinksInv
  <2> QED
    BY <2>1, <2>2 DEF WorkerLink
<1>4. CASE Pop(w) \/ Mute(w) \/ ReadDebounce(w) \/ FetchAlert(w)
  <2>1. pc'[w] \notin {"bump", "open", "announce", "commit"}
    BY <1>4, LookupShape, AlertTables DEF Pop, Mute, Goto, TInv, TypeOK
  <2> QED
    BY <2>1 DEF WorkerLink
<1>5. CASE GroupIntoAlert(w) \/ CommitAlert(w) \/ Fail(w)
  BY <1>5, GroupShape, CommitAlertShape, FailShape DEF WorkerLink
<1>6. CASE LeaveUngrouped(w)
  <2>1. /\ pc[w] \in {"bump", "open"} /\ pc'[w] = "announce"
        /\ UNCHANGED <<job, pendA, pendI, pruned>> /\ pendI[w] = NoIncidents
    BY <1>6, LeaveShape DEF sideVars, TInv, PhaseOK, WorkerPhase
  <2>2. WorkerLink(w)
    BY DEF LinksInv
  <2> QED
    BY <2>1, <2>2 DEF WorkerLink, NoIncidents
<1> QED
  BY <1>1, <1>2, <1>3, <1>4, <1>5, <1>6, BumpLink, OpenLink DEF WorkerLoop, ProcessEvent, Create

LEMMA NextCommittedLinks ==
  ASSUME TInv, RegistryInv, RowsInv, LinksInv, [Next]_vars PROVE CommittedLinks'
<1>1. \A e \in Event : alerts[e] # None /\ alerts[e].incident # None =>
         StillGrouped(alerts[e].incident, alerts[e].fp)
  BY LinkTypes, GroupedStays DEF LinksInv, CommittedLinks
<1>2. ASSUME NEW e \in Event, SameAlert(e), alerts'[e].incident # None
      PROVE  StillGrouped(alerts'[e].incident, alerts'[e].fp)
  BY <1>1, <1>2 DEF SameAlert
<1>3. CASE \A w \in Worker : ~CommitAlert(w)
  BY <1>2, <1>3, AlertSteps DEF CommittedLinks, Grouped, StillGrouped
<1>4. ASSUME NEW w \in Worker, CommitAlert(w) PROVE CommittedLinks'
  <2> DEFINE i == pendA[w][job[w].ev].incident
  <2>1. pc[w] = "commit" /\ incidents' = Merge(pendI[w], incidents) /\ UNCHANGED pruned
    BY <1>4, CommitAlertShape DEF sideVars
  <2>2. i # None => StillGrouped(i, job[w].fp)
    <3>1. i # None => i \in Incident
      BY <1>4, CommitAdds, LinkTypes
    <3>2. i # None => i \in pruned \/ (pendI[w][i] # None /\ pendI[w][i].fp = job[w].fp)
      BY <2>1 DEF LinksInv, WorkerLink
    <3>3. \A k \in Incident :
            incidents'[k] = IF pendI[w][k] # None THEN pendI[w][k] ELSE incidents[k]
      BY <2>1, CommittedTable, AlertTables
    <3> QED
      BY <2>1, <3>1, <3>2, <3>3 DEF Grouped, StillGrouped
  <2>3. /\ alerts'[job[w].ev].incident = i /\ alerts'[job[w].ev].fp = job[w].fp
        /\ \A e \in Event \ {job[w].ev} : alerts'[e] = alerts[e]
    BY <1>4, CommitAdds
  <2> HIDE DEF i
  <2>4. \A e \in Event \ {job[w].ev} : alerts'[e] # None => SameAlert(e)
    BY <2>3 DEF SameAlert
  <2>5. i # None => StillGrouped(alerts'[job[w].ev].incident, alerts'[job[w].ev].fp)
    BY <2>2, <2>3
  <2> QED
    BY <1>2, <2>3, <2>4, <2>5 DEF CommittedLinks, Grouped, StillGrouped
<1> QED
  BY <1>3, <1>4

LEMMA InitLinks == Init => LinksInv
  BY DEF Init, LinksInv, CommittedLinks, WorkerLink, NoAlerts, Process

PipelineInv == TInv /\ RegistryInv /\ RowsInv /\ LinksInv

LEMMA AlwaysLinks == Spec => []PipelineInv
<1>1. PipelineInv /\ [Next]_vars => PipelineInv'
  BY NextTyped, NextRegistry, NextRows, NextWorkerLink, NextCommittedLinks DEF PipelineInv, LinksInv
<1> QED
  BY <1>1, InitTyped, InitRegistry, InitRows, InitLinks, PTL DEF Spec, PipelineInv

\* alerts.incident_id without a foreign key: the incident of a committed alert
\* exists and has its fingerprint, or has been deleted by retention for good.
THEOREM LinksHold == Spec => []LinkIntegrity
<1>1. PipelineInv => LinkIntegrity
  BY LinkTypes DEF PipelineInv, LinksInv, CommittedLinks, Grouped, LinkIntegrity, RegistryInv,
                   PrunedAreGone
<1> QED
  BY <1>1, AlwaysLinks, PTL

-----------------------------------------------------------------------------
(* The count of an incident.                                               *)

FiniteLinks == \A i \in Incident : incidents[i] # None => IsFiniteSet(Links(i))

CountInv == FiniteLinks /\ CountTracksLinks

\* The row of an incident that a step leaves: it stays, with its count, or is
\* what a worker commits.
LEMMA CountSteps ==
  ASSUME TInv, RegistryInv, [Next]_vars, \A w \in Worker : ~CommitAlert(w),
         NEW i \in Incident, incidents'[i] # None
  PROVE  incidents[i] # None /\ incidents'[i].count = incidents[i].count
<1>1. CASE UNCHANGED incidents \/ EnforceRetention
  BY <1>1 DEF EnforceRetention
<1>2. ASSUME NEW r \in Request, incidents' = Merge(pendI[r], incidents)
      PROVE  incidents[i] # None /\ incidents'[i].count = incidents[i].count
  <2>1. r \in Process /\ r \notin Worker
    BY AlertTables
  <2>2. pendI[r][i] # None => Changes(r, i)
    BY <2>1 DEF RegistryInv, PendingKinds, Inserts, Attaches
  <2>3. incidents'[i] = IF pendI[r][i] # None THEN pendI[r][i] ELSE incidents[i]
    BY <1>2, <2>1, CommittedTable
  <2> QED
    BY <2>2, <2>3 DEF Changes, IsOpen
<1>3. \/ UNCHANGED incidents \/ EnforceRetention
      \/ \E r \in Request : incidents' = Merge(pendI[r], incidents)
  BY OtherSteps
  DEF CommitRequest, ApplyWrites, Fail, RollBack, BumpIncident, OpenIncident,
      CloseIncident, AcknowledgeIncident, ResolveIncident, ChangeIncident
<1> QED
  BY <1>1, <1>2, <1>3

\* No step but the commit of a worker links an alert.
LEMMA LinkSteps ==
  ASSUME TInv, RowsInv, [Next]_vars, \A w \in Worker : ~CommitAlert(w), NEW i \in Incident
  PROVE  Links(i)' \subseteq Links(i) /\ (NothingDeletes => Links(i)' = Links(i))
  BY AlertSteps DEF Links, SameAlert

\* The commit of a worker links its alert to the incident it holds.
LEMMA LinkCommitted ==
  ASSUME TInv, RowsInv, NEW w \in Worker, CommitAlert(w), NEW i \in Incident
  PROVE  /\ job[w].ev \notin Links(i)
         /\ Links(i)' = IF pendA[w][job[w].ev].incident = i
                        THEN Links(i) \cup {job[w].ev} ELSE Links(i)
  BY CommitAdds DEF Links

LEMMA CommitCounts ==
  ASSUME PipelineInv, CountInv, NEW w \in Worker, CommitAlert(w) PROVE CountInv'
<1> USE DEF PipelineInv
<1> SUFFICES ASSUME NEW i \in Incident, incidents'[i] # None
             PROVE  /\ IsFiniteSet(Links(i)')
                    /\ Cardinality(Links(i)') <= incidents'[i].count
                    /\ NothingDeletes => Cardinality(Links(i)') = incidents'[i].count
  BY DEF CountInv, FiniteLinks, CountTracksLinks
<1> DEFINE link == pendA[w][job[w].ev].incident
<1>1. /\ pc[w] = "commit" /\ w \in Process /\ w \notin Request
      /\ incidents' = Merge(pendI[w], incidents) /\ UNCHANGED pruned
  BY CommitAlertShape, AlertTables DEF sideVars
<1>2. incidents'[i] = IF pendI[w][i] # None THEN pendI[w][i] ELSE incidents[i]
  BY <1>1, CommittedTable
<1>3. /\ pendI[w][i] # None => i = link
      /\ link # None => link \in pruned \/ pendI[w][link] # None
  BY <1>1 DEF LinksInv, WorkerLink
<1>4. /\ job[w].ev \notin Links(i)
      /\ Links(i)' = IF link = i THEN Links(i) \cup {job[w].ev} ELSE Links(i)
  BY LinkCommitted
<1> HIDE DEF link
<1>5. CASE pendI[w][i] = None
  <2>1. incidents'[i] = incidents[i] /\ i \notin pruned
    BY <1>2, <1>5 DEF RegistryInv, PrunedAreGone
  <2>2. link # i
    BY <1>3, <1>5, <2>1, RowsAreNotNone
  <2> QED
    BY <1>4, <2>1, <2>2 DEF CountInv, FiniteLinks, CountTracksLinks
<1>6. CASE pendI[w][i] # None /\ Inserts(w, i)
  <2>1. Links(i) = {}
    BY <1>6, RowsAreNotNone DEF Links, LinksInv, CommittedLinks, Grouped, Inserts
  <2>2. Links(i)' = {job[w].ev}
    BY <1>3, <1>4, <1>6, <2>1
  <2>3. IsFiniteSet(Links(i)') /\ Cardinality(Links(i)') = 1
    BY <2>2, FS_Singleton
  <2> QED
    BY <1>2, <1>6, <2>3 DEF Inserts
<1>7. CASE pendI[w][i] # None /\ Attaches(w, i)
  <2>1. Links(i)' = Links(i) \cup {job[w].ev} /\ incidents[i] # None
    BY <1>3, <1>4, <1>7 DEF Attaches
  <2>2. IsFiniteSet(Links(i))
    BY <2>1 DEF CountInv, FiniteLinks
  <2>3. /\ IsFiniteSet(Links(i)') /\ Cardinality(Links(i)') = Cardinality(Links(i)) + 1
        /\ Cardinality(Links(i)) \in Nat
    <3> DEFINE S == Links(i)
               x == job[w].ev
    <3>1. x \notin S /\ Links(i)' = S \cup {x} /\ IsFiniteSet(S)
      BY <1>4, <2>1, <2>2
    <3> HIDE DEF S, x
    <3>2. IsFiniteSet(S \cup {x}) /\ Cardinality(S \cup {x}) = Cardinality(S) + 1
          /\ Cardinality(S) \in Nat
      BY <3>1, FS_AddElement, FS_CardinalityType
    <3> QED
      BY <3>1, <3>2 DEF S
  <2>4. incidents'[i].count = incidents[i].count + 1 /\ incidents[i].count \in Nat
    <3>1. incidents[i] \in IncidentRow
      BY <2>1, Tables DEF IncidentTable
    <3> QED
      BY <1>2, <1>7, <3>1, IncidentRowFields DEF Attaches
  <2>5. /\ Cardinality(Links(i)) <= incidents[i].count
        /\ NothingDeletes => Cardinality(Links(i)) = incidents[i].count
    BY <2>1 DEF CountInv, CountTracksLinks
  <2> QED
    BY <2>3, <2>4, <2>5
<1>8. pendI[w][i] # None => Inserts(w, i) \/ Attaches(w, i)
  BY <1>1 DEF RegistryInv, PendingKinds, Changes
<1> QED
  BY <1>5, <1>6, <1>7, <1>8

LEMMA NextCounts == PipelineInv /\ CountInv /\ [Next]_vars => CountInv'
<1> SUFFICES ASSUME PipelineInv, CountInv, [Next]_vars PROVE CountInv'
  OBVIOUS
<1>1. CASE \E w \in Worker : CommitAlert(w)
  BY <1>1, CommitCounts
<1>2. CASE \A w \in Worker : ~CommitAlert(w)
  <2> SUFFICES ASSUME NEW i \in Incident, incidents'[i] # None
               PROVE  /\ IsFiniteSet(Links(i)')
                      /\ Cardinality(Links(i)') <= incidents'[i].count
                      /\ NothingDeletes => Cardinality(Links(i)') = incidents'[i].count
    BY DEF CountInv, FiniteLinks, CountTracksLinks
  <2>1. incidents[i] # None /\ incidents'[i].count = incidents[i].count
    BY <1>2, CountSteps DEF PipelineInv
  <2>2. Links(i)' \subseteq Links(i) /\ (NothingDeletes => Links(i)' = Links(i))
    BY <1>2, LinkSteps DEF PipelineInv
  <2>3. IsFiniteSet(Links(i)) /\ Cardinality(Links(i)) <= incidents[i].count
        /\ (NothingDeletes => Cardinality(Links(i)) = incidents[i].count)
    BY <2>1 DEF CountInv, FiniteLinks, CountTracksLinks
  <2>4. /\ IsFiniteSet(Links(i)') /\ Cardinality(Links(i)') <= Cardinality(Links(i))
        /\ Cardinality(Links(i)') \in Nat /\ Cardinality(Links(i)) \in Nat
    BY <2>2, <2>3, FS_Subset, FS_CardinalityType
  <2>5. incidents[i].count \in Nat
    <3>1. incidents[i] \in IncidentRow
      BY <2>1, Tables DEF IncidentTable, PipelineInv
    <3> QED
      BY <3>1, IncidentRowFields
  <2> QED
    BY <2>1, <2>2, <2>3, <2>4, <2>5
<1> QED
  BY <1>1, <1>2

\* alert_count: whatever the workers race for, and whoever fails, it is never
\* less than the number of alerts linked, and equals it unless alerts are deleted.
THEOREM CountsHold == Spec => []CountTracksLinks
<1>1. Init => CountInv
  BY DEF Init, CountInv, FiniteLinks, CountTracksLinks, NoIncidents
<1>2. CountInv => CountTracksLinks
  BY DEF CountInv
<1> QED
  BY <1>1, <1>2, AlwaysLinks, NextCounts, PTL DEF Spec

-----------------------------------------------------------------------------
(* Recurrence.  What the debounce pointer of a fingerprint names.          *)

\* Alert a is, or will be if its transaction commits, one of fingerprint f.
Represents(a, f) ==
    /\ event[a] # "queued"
    /\ alerts[a] # None => alerts[a].fp = f
    /\ \A w \in Worker : pc[w] # "idle" /\ job[w].ev = a => job[w].fp = f

PointersInv ==
    /\ \A f \in Fingerprint : debounce[f] # None => Represents(debounce[f], f)
    /\ \A w \in Worker : pc[w] \in {"fetch", "update"} => Represents(job[w].alert, job[w].fp)
    /\ \A w \in Worker : pc[w] = "idle" => job[w] = None

StillRepresents(a, f) ==
    /\ event'[a] # "queued"
    /\ alerts'[a] # None => alerts'[a].fp = f
    /\ \A w \in Worker : pc'[w] # "idle" /\ job'[w].ev = a => job'[w].fp = f

\* Where an event goes.
LEMMA EventSteps ==
  ASSUME TInv, [Next]_vars, NEW e \in Event
  PROVE  \/ event'[e] = event[e]
         \/ event'[e] # "queued" /\ event[e] = "queued"
         \/ \E w \in Worker : /\ pc[w] # "idle" /\ job[w].ev = e /\ event'[e] # "queued"
                              /\ GroupIntoAlert(w) \/ CommitAlert(w) \/ Fail(w)
<1>0. DOMAIN event = Event
  BY AlertTables
<1>1. ASSUME NEW w \in Worker, Pop(w) \/ Mute(w)
      PROVE  event'[e] = event[e] \/ (event'[e] # "queued" /\ event[e] = "queued")
  BY <1>0, <1>1 DEF Pop, Mute
<1>2. ASSUME NEW w \in Worker, GroupIntoAlert(w) \/ CommitAlert(w) \/ Fail(w)
      PROVE  \/ event'[e] = event[e]
             \/ pc[w] # "idle" /\ job[w].ev = e /\ event'[e] # "queued"
  BY <1>0, <1>2, GroupShape, CommitAlertShape, FailShape
<1>3. CASE \E w \in Worker : WorkerLoop(w) \/ Fail(w)
  BY <1>1, <1>2, <1>3 DEF WorkerLoop, ProcessEvent, Create, ReadDebounce, FetchAlert,
     InsertAlert, BumpIncident, OpenIncident, LeaveUngrouped, Announce
<1>4. CASE \E r \in Request : Arrive(r) \/ Handle(r) \/ FailRequest(r) \/ BreakDeadlock(r)
  BY <1>4
  DEF Arrive, AcknowledgeAlert, ReopenAlert, SetAlertStatus, CleanupAlerts, ResolveAlert,
      AcknowledgeIncident, ResolveIncident, ChangeIncident, Handle, FailRequest, BreakDeadlock,
      CheckSiblings, CloseIncident, CascadeToAlerts, CommitRequest, RollBack
<1>5. CASE Background
  BY <1>5 DEF Background, ExpireDebounce, AiTake, SoarFinish, AiWrite, MonthPasses, EnforceRetention
<1>6. CASE UNCHANGED vars
  BY <1>6 DEF vars
<1> QED
  BY <1>3, <1>4, <1>5, <1>6 DEF Next

\* The worker keeps its event, takes a queued one, or has none.
LEMMA JobSteps ==
  ASSUME TInv, [Next]_vars, NEW w \in Worker, pc'[w] # "idle"
  PROVE  \/ pc[w] # "idle" /\ SameEvent(job'[w], job[w])
         \/ pc[w] = "idle" /\ pc'[w] = "lookup" /\ job'[w].ev \in Event
            /\ event[job'[w].ev] = "queued"
<1>1. CASE ~WorkerLoop(w) /\ ~Fail(w)
  BY <1>1, WorkerUndisturbed DEF SameEvent
<1>2. CASE Pop(w)
  BY <1>2, AlertTables DEF Pop, Goto, TInv, TypeOK, Process
<1>3. CASE Mute(w)
  BY <1>3 DEF Mute
<1> QED
  BY <1>1, <1>2, <1>3, LookupShape, InsertShape, BumpShape, OpenShape, LeaveShape, AnnounceShape, GroupShape,
     CommitAlertShape, FailShape DEF WorkerLoop, ProcessEvent, Create, SameEvent

LEMMA RepresentsStays ==
  ASSUME TInv, RowsInv, [Next]_vars, NEW a \in Event, NEW f, Represents(a, f)
  PROVE  StillRepresents(a, f)
<1>1. event'[a] # "queued"
  BY EventSteps DEF Represents
<1>2. alerts'[a] # None => alerts'[a].fp = f
  <2>1. ASSUME NEW w \in Worker, CommitAlert(w) PROVE alerts'[a] # None => alerts'[a].fp = f
    BY <2>1, CommitAdds, CommitAlertShape DEF Represents
  <2> QED
    BY <2>1, AlertSteps DEF Represents, SameAlert
<1>3. \A w \in Worker : pc'[w] # "idle" /\ job'[w].ev = a => job'[w].fp = f
  BY JobSteps DEF Represents, SameEvent
<1> QED
  BY <1>1, <1>2, <1>3 DEF StillRepresents

\* SET of the pointer, before the commit.
LEMMA AnnouncedPointer ==
  ASSUME TInv, RowsInv, NEW w \in Worker, Announce(w)
  PROVE  StillRepresents(job[w].ev, job[w].fp)
<1>1. /\ pc[w] = "announce" /\ pc'[w] = "commit" /\ Alone(w) /\ job' = job
      /\ UNCHANGED <<event, alerts>>
  BY AnnounceShape
<1>2. /\ event[job[w].ev] = "working" /\ alerts[job[w].ev] = None
      /\ \A v \in Worker : pc[v] # "idle" /\ job[v].ev = job[w].ev => v = w
  BY <1>1, AlertTables DEF RowsInv, OwnEvents, Recorded
<1> QED
  BY <1>1, <1>2, AlertTables DEF StillRepresents, Alone

\* Who writes the debounce pointers.
LEMMA PointerWriters ==
  ASSUME TInv, [Next]_vars
  PROVE  \/ UNCHANGED debounce \/ \E w \in Worker : Announce(w)
         \/ \E f \in Fingerprint : debounce' = [debounce EXCEPT ![f] = None]
<1>1. CASE \E w \in Worker : WorkerLoop(w) \/ Fail(w)
  BY <1>1 DEF WorkerLoop, ProcessEvent, Create, Pop, Mute, ReadDebounce, FetchAlert, GroupIntoAlert,
              InsertAlert, BumpIncident, OpenIncident, LeaveUngrouped, CommitAlert, Fail, sideVars
<1>2. CASE \E r \in Request : Arrive(r) \/ Handle(r) \/ FailRequest(r) \/ BreakDeadlock(r)
  BY <1>2
  DEF Arrive, AcknowledgeAlert, ReopenAlert, SetAlertStatus, CleanupAlerts, ResolveAlert,
      AcknowledgeIncident, ResolveIncident, ChangeIncident, Handle, FailRequest, BreakDeadlock,
      CheckSiblings, CloseIncident, CascadeToAlerts, CommitRequest, RollBack, sideVars
<1>3. CASE Background
  BY <1>3 DEF Background, ExpireDebounce, AiTake, SoarFinish, AiWrite, MonthPasses, EnforceRetention
<1>4. CASE UNCHANGED vars
  BY <1>4 DEF vars
<1> QED
  BY <1>1, <1>2, <1>3, <1>4 DEF Next

LEMMA NextPointers ==
  ASSUME TInv, RowsInv, PointersInv, [Next]_vars PROVE PointersInv'
<1>1. ASSUME NEW f \in Fingerprint, debounce'[f] # None
      PROVE  StillRepresents(debounce'[f], f)
  <2>1. DOMAIN debounce = Fingerprint /\ (debounce[f] # None => debounce[f] \in Event)
    BY DEF TInv, TypeOK
  <2>2. debounce[f] # None => StillRepresents(debounce[f], f)
    BY <2>1, RepresentsStays DEF PointersInv
  <2>3. ASSUME NEW w \in Worker, Announce(w) PROVE StillRepresents(debounce'[f], f)
    BY <1>1, <2>1, <2>2, <2>3, AnnounceShape, AnnouncedPointer
  <2>4. ASSUME NEW g \in Fingerprint, debounce' = [debounce EXCEPT ![g] = None]
        PROVE  debounce'[f] = debounce[f]
    BY <1>1, <2>1, <2>4
  <2> QED
    BY <1>1, <2>2, <2>3, <2>4, PointerWriters
<1>2. ASSUME NEW w \in Worker, pc'[w] \in {"fetch", "update"}
      PROVE  StillRepresents(job'[w].alert, job'[w].fp)
  <2>1. CASE (~WorkerLoop(w) /\ ~Fail(w)) \/ Mute(w)
    <3>1. pc'[w] = pc[w] /\ job'[w] = job[w]
      BY <2>1, WorkerUndisturbed DEF Mute
    <3>2. Represents(job[w].alert, job[w].fp) /\ job[w].alert \in Event
      BY <1>2, <3>1, AlertTables DEF PointersInv
    <3> QED
      BY <3>1, <3>2, RepresentsStays
  <2>2. CASE ReadDebounce(w) \/ FetchAlert(w)
    <3>1. /\ SameEvent(job'[w], job[w]) /\ pc[w] # "idle"
          /\ \/ pc[w] = "fetch" /\ job'[w].alert = job[w].alert
             \/ job'[w].alert \in {job[w].ev, debounce[job[w].fp]} \ {None}
      BY <1>2, <2>2, LookupShape
    <3>2. Represents(job[w].ev, job[w].fp)
      BY <3>1, AlertTables DEF RowsInv, OwnEvents, Recorded, Represents
    <3>5. Represents(job'[w].alert, job[w].fp) /\ job'[w].alert \in Event
      BY <3>1, <3>2, AlertTables DEF PointersInv, TInv, TypeOK
    <3>3. PICK a \in Event : a = job'[w].alert
      BY <3>5
    <3>4. StillRepresents(a, job[w].fp)
      BY <3>3, <3>5, RepresentsStays
    <3> QED
      BY <3>1, <3>3, <3>4 DEF SameEvent
  <2>3. ~Pop(w)
    BY <1>2, AlertTables DEF Pop, Goto, TInv, TypeOK
  <2> QED
    BY <1>2, <2>1, <2>2, <2>3, InsertShape, BumpShape, OpenShape, LeaveShape, AnnounceShape, GroupShape,
       CommitAlertShape, FailShape DEF WorkerLoop, ProcessEvent, Create
<1>3. ASSUME NEW w \in Worker, pc'[w] = "idle" PROVE job'[w] = None
  <2>1. CASE (~WorkerLoop(w) /\ ~Fail(w)) \/ Mute(w)
    BY <1>3, <2>1, WorkerUndisturbed DEF PointersInv, Mute
  <2>2. CASE GroupIntoAlert(w) \/ CommitAlert(w) \/ Fail(w)
    BY <2>2 DEF GroupIntoAlert, CommitAlert, Fail, Settle, TInv, TypeOK
  <2>3. ~Pop(w)
    BY <1>3, AlertTables DEF Pop, Goto, TInv, TypeOK
  <2> QED
    BY <1>3, <2>1, <2>2, <2>3, LookupShape, InsertShape, BumpShape, OpenShape, LeaveShape, AnnounceShape
    DEF WorkerLoop, ProcessEvent, Create
<1> QED
  BY <1>1, <1>2, <1>3 DEF PointersInv, Represents, StillRepresents

LEMMA InitPointers == Init => PointersInv
  BY DEF Init, PointersInv, Process

\* The step that records an event.
LEMMA RecordedSurfaces ==
  ASSUME TInv, RowsInv, PointersInv, [Next]_vars, NEW e \in Event, NEW w \in Worker,
         Records(w, e)
  PROVE  SurfacesAs(job[w].fp, AlertStatus \ {"resolved"})
<1>0. event[e] = "working" /\ event'[e] = "recorded" /\ job[w] # None /\ job[w].ev = e
  BY DEF Records
<1>1. pc[w] # "idle"
  BY <1>0 DEF PointersInv
<1>2. GroupIntoAlert(w) \/ CommitAlert(w) \/ Fail(w)
  BY <1>0, <1>1, EventSteps DEF RowsInv, OwnEvents
<1>3. ~Fail(w)
  BY <1>0, FailShape, AlertTables
<1>4. CASE CommitAlert(w)
  <2>1. /\ alerts'[e] # None /\ alerts'[e].fp = job[w].fp /\ alerts'[e].status = "triggered"
    BY <1>0, <1>4, CommitAdds
  <2> QED
    BY <2>1 DEF SurfacesAs, AlertStatus
<1>5. CASE GroupIntoAlert(w)
  <2> DEFINE a == job[w].alert
             s == Revived(job[w].row.status)
  <2>1. /\ alerts[a] # None /\ s \in AlertStatus /\ s # "resolved" /\ pc[w] = "update"
        /\ alerts' = [alerts EXCEPT ![a].status = s] /\ a \in Event
    BY <1>0, <1>5, GroupShape, AlertTables
  <2> HIDE DEF s
  <2>2. alerts'[a] # None /\ alerts'[a].status = s /\ alerts'[a].fp = alerts[a].fp
    BY <2>1, StatusWritten
  <2>3. alerts[a].fp = job[w].fp
    BY <2>1 DEF PointersInv, Represents
  <2> QED
    BY <2>1, <2>2, <2>3 DEF SurfacesAs
<1> QED
  BY <1>2, <1>3, <1>4, <1>5

\* processEvent: when a worker has recorded an event, new or repeated, there is
\* an alert of its fingerprint that is not resolved, whatever operators, the AI
\* worker and runbooks did to the alert the debounce pointer named.
THEOREM ResolvedAlertsRevive == Spec => ResolvedNeverAbsorbs
<1>1. TInv /\ RegistryInv /\ RowsInv /\ PointersInv /\ [Next]_vars => PointersInv'
  BY NextPointers
<1>2. TInv /\ RowsInv /\ PointersInv /\ [Next]_vars =>
        [\A e \in Event, w \in Worker :
            Records(w, e) => SurfacesAs(job[w].fp, AlertStatus \ {"resolved"})]_vars
  BY RecordedSurfaces
<1> QED
  BY <1>1, <1>2, AlwaysRows, InitPointers, PTL DEF Spec, ResolvedNeverAbsorbs
=============================================================================
