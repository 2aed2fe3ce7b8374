---------------------------- MODULE PlaybookEngine ----------------------------
(***************************************************************************)
(* One run of a playbook (api/playbook_engine.go): its steps are taken in  *)
(* order, and a response_action pauses the run until somebody approves it. *)
(* Every statement group is a transaction of its own: between two of them  *)
(* a call holds no lock, only the step index it has read, so two calls on  *)
(* one run can interleave and a call can stop half-way.                    *)
(***************************************************************************)
EXTENDS Naturals, FiniteSets

CONSTANTS
    Last,           \* number of steps of the playbook; they are 0 .. Last - 1
    Gated,          \* the response_action steps
    Caller,         \* HTTP calls on this run: one start, approvals, rejections
    Concurrent      \* how many of them may be in progress at once

Step == 0 .. Last - 1

ASSUME PlaybookAssumption ==
    /\ Last \in Nat \ {0}       \* ValidateSteps: at least one step
    /\ Gated \subseteq Step
    /\ Concurrent \in Nat \ {0}

RunStatus == {"absent", "running", "awaiting_approval", "completed", "failed",
              "rejected"}
StepStatus == {"pending", "awaiting_approval", "succeeded", "failed", "skipped"}
Outcome == {"succeeded", "failed"}
CallStep == {"idle", "loaded", "execute", "called", "unsent", "unresolved",
             "failing", "next", "load", "advance", "done", "abandoned"}

VARIABLES
    run,        \* status and current_step of the run
    step,       \* status of each of its steps
    resolvable, \* the gated steps whose target the context of the run gives
    pc,         \* per call: the next transaction
    at,         \* per call: the step index it has read or advanced to
    outcome,    \* per call: what executeResponderAction returned
    calls       \* vendor calls made for each step, by their outcome

vars == <<run, step, resolvable, pc, at, outcome, calls>>

Init ==
    /\ run = [status |-> "absent", current |-> 0]
    /\ step = [k \in Step |-> "pending"]
    /\ resolvable = {}
    /\ pc = [c \in Caller |-> "idle"]
    /\ at = [c \in Caller |-> 0]
    /\ outcome = [c \in Caller |-> "failed"]
    /\ calls = [k \in Step |-> [s \in Outcome |-> 0]]

Goto(c, s) == pc' = [pc EXCEPT ![c] = s]
SetRun(s, k) == run' = [status |-> s, current |-> k]
SetStep(k, s) == step' = [step EXCEPT ![k] = s]

InProgress == {c \in Caller : pc[c] \notin {"idle", "done", "abandoned"}}

\* A call of an operator begins.
Arrives(c) == pc[c] = "idle" /\ Cardinality(InProgress) < Concurrent

\* startPlaybookRun: the run and all its steps, in one transaction.
Start(c) ==
    /\ Arrives(c) /\ run.status = "absent"
    /\ SetRun("running", 0)
    /\ resolvable' \in SUBSET Gated
    /\ Goto(c, "load")
    /\ UNCHANGED <<step, at, outcome, calls>>

\* The call of an approval begins with loadRunState: the run row ...
Approve(c) ==
    /\ Arrives(c) /\ run.status # "absent"
    /\ at' = [at EXCEPT ![c] = run.current]
    /\ Goto(c, "loaded")
    /\ UNCHANGED <<resolvable, run, step, outcome, calls>>

\* Fault: any step that needs approval is executed, whatever its status.
FaultUncheckedStatus(c) ==
    /\ pc[c] = "loaded"
    /\ Goto(c, IF at[c] \notin Gated THEN "done"
               ELSE IF at[c] \in resolvable THEN "execute" ELSE "unresolved")
    /\ UNCHANGED <<resolvable, run, step, at, outcome, calls>>

\* ... then its steps, which a later statement reads.  Only the status of
\* the step is checked, not that of the run.
CheckStep(c) ==
    /\ pc[c] = "loaded"
    /\ Goto(c, IF at[c] \notin Gated \/ step[at[c]] # "awaiting_approval" THEN "done"
               ELSE IF at[c] \in resolvable THEN "execute" ELSE "unresolved")
    /\ UNCHANGED <<resolvable, run, step, at, outcome, calls>>

\* The target cannot be resolved: the step fails, then the run.  The errors
\* of both updates are ignored.
FailUnresolved(c) ==
    /\ pc[c] = "unresolved"
    /\ SetStep(at[c], "failed") \/ UNCHANGED step
    /\ Goto(c, "failing")
    /\ UNCHANGED <<resolvable, run, at, outcome, calls>>

\* executeResponderAction, inside a transaction that has locked nothing yet.
Execute(c, s) ==
    /\ pc[c] = "execute"
    /\ calls' = [calls EXCEPT ![at[c]][s] = @ + 1]
    /\ outcome' = [outcome EXCEPT ![c] = s]
    /\ Goto(c, "called")
    /\ UNCHANGED <<resolvable, run, step, at>>

\* No responder, no key, no credentials: failed without a call.
ExecuteUnsent(c) ==
    /\ pc[c] = "execute"
    /\ outcome' = [outcome EXCEPT ![c] = "failed"]
    /\ Goto(c, "unsent")
    /\ UNCHANGED <<resolvable, run, step, at, calls>>

\* Fault: a failed action is treated like a failed notification.
FaultGoOn(c) ==
    /\ pc[c] \in {"called", "unsent"}
    /\ SetStep(at[c], outcome[c])
    /\ Goto(c, "next")
    /\ UNCHANGED <<resolvable, run, at, outcome, calls>>

\* The UPDATE of the step by id, the comment on the incident, the COMMIT.
RecordStep(c) ==
    /\ pc[c] \in {"called", "unsent"}
    /\ SetStep(at[c], outcome[c])
    /\ Goto(c, IF outcome[c] = "succeeded" THEN "next" ELSE "failing")
    /\ UNCHANGED <<resolvable, run, at, outcome, calls>>

\* setRunStatus: an UPDATE by id, whatever the run has become.
FailRun(c) ==
    /\ pc[c] = "failing"
    /\ SetRun("failed", at[c])
    /\ Goto(c, "done")
    /\ UNCHANGED <<resolvable, step, at, outcome, calls>>

\* Fault: the index is raised here and again where the run is loaded.
FaultRaisedTwice(c) ==
    /\ pc[c] = "next"
    /\ SetRun("running", IF at[c] + 2 > Last THEN Last ELSE at[c] + 2)
    /\ Goto(c, "load")
    /\ UNCHANGED <<resolvable, step, at, outcome, calls>>

\* Fault: nobody advances the run after an approval.
FaultNoAdvance(c) ==
    /\ pc[c] = "next"
    /\ SetRun("running", at[c] + 1)
    /\ Goto(c, "done")
    /\ UNCHANGED <<resolvable, step, at, outcome, calls>>

NextStep(c) ==
    /\ pc[c] = "next"
    /\ SetRun("running", at[c] + 1)
    /\ Goto(c, "load")
    /\ UNCHANGED <<resolvable, step, at, outcome, calls>>

\* advancePlaybookRun loads the run anew and walks on from its current step.
Load(c) ==
    /\ pc[c] = "load"
    /\ at' = [at EXCEPT ![c] = run.current]
    /\ Goto(c, "advance")
    /\ UNCHANGED <<resolvable, run, step, outcome, calls>>

\* A notify or comment step: best effort, the run goes on.
AutoStep(c) ==
    /\ pc[c] = "advance" /\ at[c] \in Step \ Gated
    /\ \E s \in {"succeeded", "failed", "skipped"} : SetStep(at[c], s)
    /\ at' = [at EXCEPT ![c] = @ + 1]
    /\ UNCHANGED <<resolvable, run, pc, outcome, calls>>

\* setRunPaused: the step and the run, in one transaction.
Pause(c) ==
    /\ pc[c] = "advance" /\ at[c] \in Gated
    /\ SetStep(at[c], "awaiting_approval")
    /\ SetRun("awaiting_approval", at[c])
    /\ Goto(c, "done")
    /\ UNCHANGED <<resolvable, at, outcome, calls>>

\* Fault: a completed run points past its end.
FaultPastTheEnd(c) ==
    /\ pc[c] = "advance" /\ at[c] = Last
    /\ SetRun("completed", at[c] + 1)
    /\ Goto(c, "done")
    /\ UNCHANGED <<resolvable, step, at, outcome, calls>>

Complete(c) ==
    /\ pc[c] = "advance" /\ at[c] = Last
    /\ SetRun("completed", Last)
    /\ Goto(c, "done")
    /\ UNCHANGED <<resolvable, step, at, outcome, calls>>

\* rejectPlaybookRun: both UPDATEs in one transaction, the first conditional.
Reject(c) ==
    /\ Arrives(c) /\ run.status = "awaiting_approval"
    /\ run' = [run EXCEPT !.status = "rejected"]
    /\ step' = [k \in Step |->
                    IF step[k] = "awaiting_approval" THEN "skipped" ELSE step[k]]
    /\ Goto(c, "done")
    /\ UNCHANGED <<resolvable, at, outcome, calls>>

\* A statement fails, the client goes away, or the process dies: nothing
\* carries the run on.
Abandon(c) ==
    /\ c \in InProgress
    /\ Goto(c, "abandoned")
    /\ UNCHANGED <<resolvable, run, step, at, outcome, calls>>

Proceed(c) ==
    \/ CheckStep(c) \/ FailUnresolved(c)
    \/ \E s \in Outcome : Execute(c, s)
    \/ ExecuteUnsent(c) \/ RecordStep(c) \/ FailRun(c) \/ NextStep(c)
    \/ Load(c) \/ AutoStep(c) \/ Pause(c) \/ Complete(c)

Next ==
    \E c \in Caller :
        \/ Start(c) \/ Approve(c) \/ Reject(c) \/ Proceed(c) \/ Abandon(c)

Spec == Init /\ [][Next]_vars

\* A call in progress goes on: its clients and the database have timeouts.
Fairness == \A c \in Caller : WF_vars(Proceed(c))

-----------------------------------------------------------------------------
(* Properties.                                                             *)

\* Rows and calls stay within the schema and the variables of the code.
TypeOK ==
    /\ run \in [status: RunStatus, current: 0 .. Last]
    /\ step \in [Step -> StepStatus]
    /\ resolvable \subseteq Gated
    /\ pc \in [Caller -> CallStep]
    /\ at \in [Caller -> 0 .. Last]
    /\ outcome \in [Caller -> Outcome]
    /\ calls \in [Step -> [Outcome -> Nat]]

CallsOf(k) == calls[k]["succeeded"] + calls[k]["failed"]

\* A step is taken only after all the steps before it: whatever calls race on
\* the run or stop half-way, no vendor is called for a step while an earlier
\* one is still untouched.
EarlierStepsTaken ==
    \A k \in Step : CallsOf(k) > 0 => \A j \in 0 .. k - 1 : step[j] # "pending"

\* A run is reported as completed only after the vendor of every gated step
\* has reported a success to one of its approvals, and every other step was
\* tried: no call that stopped half-way, failed or raced another is skipped.
\* (What the row of a step says by then is another matter: an overlapping
\* approval or rejection may have overwritten it.)
CompletedMeansDone ==
    run.status = "completed" =>
        \A k \in Step : step[k] # "pending" /\ (k \in Gated => calls[k]["succeeded"] > 0)

\* A run does not stay "running": it pauses, ends, or its call was abandoned
\* half-way, which leaves the run to nobody.
RunSettles ==
    run.status = "running" ~>
        (run.status # "running" \/ \E c \in Caller : pc[c] = "abandoned")

Unanswered == {"execute", "unsent", "unresolved"}

Tickets == INSTANCE ApprovalTickets WITH
    Item <- Gated,
    Approver <- Caller,
    decision <- [k \in Gated |-> step[k]],
    holding <- [k \in Gated |-> {c \in Caller : at[c] = k /\ pc[c] \in Unanswered}],
    used <- [k \in Gated |-> {c \in Caller : at[c] = k /\ pc[c] = "called"}],
    calls <- [k \in Gated |-> CallsOf(k)]

\* Approvals, rejections and half-finished calls overlap on one run, and still
\* each vendor call belongs to an approval that found its step awaiting, no
\* approval makes two, and a step is recorded as succeeded by an approval
\* that called.  A rejection in between does not stop such an approval.
ImplementsTickets == Tickets!TicketSpec

\* What a rejection and the pause promise: the vendor is called for a step
\* that still awaits approval, not for one rejected or executed meanwhile.
FiredWhileAwaiting ==
    [][\A k \in Step : calls'[k] # calls[k] => step[k] = "awaiting_approval"]_vars
=============================================================================
