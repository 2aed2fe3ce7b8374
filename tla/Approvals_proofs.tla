-------------------------- MODULE Approvals_proofs --------------------------
(***************************************************************************)
(* What waits for a human, for any playbook, requests and calls.           *)
(*                                                                         *)
(* PlaybookEngine: whatever calls race on a run or stop half-way, no vendor*)
(* is called for a step before all earlier steps were taken.  A step never *)
(* becomes "pending" again, and the index a call works at, like the current*)
(* step of the run, lies beyond taken steps only, of which the gated ones  *)
(* have had a successful vendor call.  The calls a run keeps in progress   *)
(* hold the tickets of ApprovalTickets.                                    *)
(*                                                                         *)
(* ActionQueue: containment implements ApprovalGate, and no action of      *)
(* either queue is executed for a row that is not pending.  QueueInv says  *)
(* that the calls between their SELECT ... FOR UPDATE and the end of their *)
(* transaction are exactly the lock holders, and a locked row is pending.  *)
(***************************************************************************)
EXTENDS MCApprovals, FiniteSetTheorems, TLAPS

\* The steps before k have been taken.
TakenBefore(k) == \A j \in Step : j < k => step[j] # "pending"

\* From here on a call works at a step that was found awaiting approval.
AtTakenStep == {"execute", "called", "unsent", "unresolved", "failing", "next"}

Order ==
    /\ TakenBefore(run.current)
    /\ \A c \in Caller : TakenBefore(at[c])
    /\ \A c \in Caller : pc[c] \in AtTakenStep => step[at[c]] # "pending"
    /\ \A k \in Step : CallsOf(k) > 0 => TakenBefore(k)

\* An approval works at a gated step.
InRange == \A c \in Caller : pc[c] \in AtTakenStep => at[c] \in Gated

TInv == TypeOK /\ InRange

LEMMA InitTyped == Init => TInv
  BY PlaybookAssumption
  DEF Init, TInv, TypeOK, InRange, AtTakenStep, Step, RunStatus, StepStatus, CallStep, Outcome

LEMMA StepTyped == TInv /\ [Next]_vars => TInv'
<1> SUFFICES ASSUME TInv, [Next]_vars PROVE TInv'
  OBVIOUS
<1> USE PlaybookAssumption
        DEF TInv, TypeOK, InRange, AtTakenStep, Step, RunStatus, StepStatus, CallStep,
            Goto, SetRun, SetStep
<1>1. ASSUME NEW c \in Caller, Start(c) PROVE TInv'
  BY <1>1 DEF Start, Arrives
<1>2. ASSUME NEW c \in Caller, Approve(c) PROVE TInv'
  BY <1>2 DEF Approve, Arrives
<1>3. ASSUME NEW c \in Caller, Reject(c) PROVE TInv'
  BY <1>3 DEF Reject, Arrives
<1>4. ASSUME NEW c \in Caller, Abandon(c) PROVE TInv'
  BY <1>4 DEF Abandon
<1>5. ASSUME NEW c \in Caller, CheckStep(c) PROVE TInv'
  BY <1>5 DEF CheckStep
<1>6. ASSUME NEW c \in Caller, FailUnresolved(c) PROVE TInv'
  BY <1>6 DEF FailUnresolved, Outcome
<1>7. ASSUME NEW c \in Caller, NEW s \in Outcome, Execute(c, s) PROVE TInv'
  BY <1>7 DEF Execute
<1>8. ASSUME NEW c \in Caller, ExecuteUnsent(c) PROVE TInv'
  BY <1>8 DEF ExecuteUnsent, Outcome
<1>9. ASSUME NEW c \in Caller, RecordStep(c) PROVE TInv'
  BY <1>9 DEF RecordStep, Outcome
<1>10. ASSUME NEW c \in Caller, FailRun(c) PROVE TInv'
  BY <1>10 DEF FailRun
<1>11. ASSUME NEW c \in Caller, NextStep(c) PROVE TInv'
  <2>1. at[c] \in Gated /\ at[c] + 1 \in 0 .. Last
    BY <1>11 DEF NextStep
  <2>2. pc' = [pc EXCEPT ![c] = "load"]
    BY <1>11 DEF NextStep
  <2> QED
    BY <1>11, <2>1, <2>2 DEF NextStep
<1>12. ASSUME NEW c \in Caller, Load(c) PROVE TInv'
  BY <1>12 DEF Load
<1>13. ASSUME NEW c \in Caller, AutoStep(c) PROVE TInv'
  BY <1>13 DEF AutoStep
<1>14. ASSUME NEW c \in Caller, Pause(c) PROVE TInv'
  BY <1>14 DEF Pause
<1>15. ASSUME NEW c \in Caller, Complete(c) PROVE TInv'
  BY <1>15 DEF Complete
<1>16. CASE UNCHANGED vars
  BY <1>16 DEF vars
<1> QED
  BY <1>1, <1>2, <1>3, <1>4, <1>5, <1>6, <1>7, <1>8, <1>9, <1>10, <1>11, <1>12, <1>13,
     <1>14, <1>15, <1>16 DEF Next, Proceed

\* The type invariant, with the index of a call in the playbook: an approval
\* works at a gated step, and no call walks past the end.
THEOREM PlaybookTyping == Spec => []TypeOK
  BY InitTyped, StepTyped, PTL DEF Spec, TInv
-----------------------------------------------------------------------------
(* The order of the steps.                                                 *)

LEMMA InitOrdered == Init => Order
  BY PlaybookAssumption DEF Init, Order, TakenBefore, AtTakenStep, Step, CallsOf, Outcome

\* A step that was taken stays taken.
LEMMA StaysTaken ==
  ASSUME TInv, Order, [Next]_vars
  PROVE  \A k \in Step : step[k] # "pending" => step'[k] # "pending"
<1> USE DEF TInv, TypeOK, SetStep, Outcome
<1> QED
  BY DEF Next, Proceed, vars, Start, Approve, Reject, Abandon, CheckStep, FailUnresolved,
     Execute, ExecuteUnsent, RecordStep, FailRun, NextStep, Load, AutoStep, Pause, Complete

LEMMA StepOrdered == TInv /\ TInv' /\ Order /\ [Next]_vars => Order'
<1> SUFFICES ASSUME TInv, TInv', Order, [Next]_vars PROVE Order'
  OBVIOUS
<1>0. \A k \in 0 .. Last : TakenBefore(k) => TakenBefore(k)'
  BY StaysTaken DEF TakenBefore
<1>a. UNCHANGED calls => \A k \in Step : CallsOf(k)' = CallsOf(k)
  BY DEF CallsOf
<1> USE PlaybookAssumption
        DEF TInv, TypeOK, InRange, Order, TakenBefore, AtTakenStep, Step, Goto, SetRun, SetStep
<1>1. ASSUME NEW c \in Caller, Start(c) PROVE Order'
  BY <1>0, <1>a, <1>1 DEF Start, Arrives
<1>2. ASSUME NEW c \in Caller, Approve(c) PROVE Order'
  BY <1>0, <1>a, <1>2 DEF Approve, Arrives
<1>3. ASSUME NEW c \in Caller, Reject(c) PROVE Order'
  BY <1>0, <1>a, <1>3 DEF Reject, Arrives
<1>4. ASSUME NEW c \in Caller, Abandon(c) PROVE Order'
  BY <1>0, <1>a, <1>4 DEF Abandon
<1>5. ASSUME NEW c \in Caller, CheckStep(c) PROVE Order'
  BY <1>0, <1>a, <1>5 DEF CheckStep
<1>6. ASSUME NEW c \in Caller, FailUnresolved(c) PROVE Order'
  BY <1>0, <1>a, <1>6 DEF FailUnresolved
<1>7. ASSUME NEW c \in Caller, NEW s \in Outcome, Execute(c, s) PROVE Order'
  <2>1. at[c] \in Gated /\ \A k \in Step \ {at[c]} : CallsOf(k)' = CallsOf(k)
    BY <1>7 DEF Execute, CallsOf
  <2>2. UNCHANGED <<run, step, at>> /\ pc[c] = "execute"
    BY <1>7 DEF Execute
  <2>3. \A k \in Step : CallsOf(k)' > 0 => TakenBefore(k)'
    <3>1. TakenBefore(at[c])'
      BY <2>2
    <3> QED
      BY <2>1, <2>2, <3>1
  <2>4. \A d \in Caller : pc'[d] \in AtTakenStep => pc[d] \in AtTakenStep
    BY <1>7 DEF Execute
  <2> QED
    BY <2>2, <2>3, <2>4
<1>8. ASSUME NEW c \in Caller, ExecuteUnsent(c) PROVE Order'
  BY <1>0, <1>a, <1>8 DEF ExecuteUnsent
<1>9. ASSUME NEW c \in Caller, RecordStep(c) PROVE Order'
  <2>1. UNCHANGED <<run, at, calls>>
    BY <1>9 DEF RecordStep
  <2>2. \A d \in Caller : pc'[d] \in AtTakenStep => pc[d] \in AtTakenStep
    BY <1>9 DEF RecordStep
  <2>3. \A d \in Caller : pc[d] \in AtTakenStep => step'[at[d]] # "pending"
    BY StaysTaken
  <2>4. TakenBefore(run.current)' /\ \A d \in Caller : TakenBefore(at[d])'
    <3> HIDE DEF TakenBefore
    <3>1. TakenBefore(run.current) /\ \A d \in Caller : TakenBefore(at[d])
      OBVIOUS
    <3>2. run.current \in 0 .. Last /\ \A d \in Caller : at[d] \in 0 .. Last
      OBVIOUS
    <3>3. TakenBefore(run.current)'
      BY <2>1, <3>1, <3>2, StaysTaken DEF TakenBefore
    <3> QED
      BY <2>1, <3>1, <3>2, <3>3, StaysTaken DEF TakenBefore
  <2>5. \A k \in Step : CallsOf(k)' > 0 => TakenBefore(k)'
    <3>1. \A k \in Step : CallsOf(k) > 0 => TakenBefore(k)
      OBVIOUS
    <3> QED
      BY <1>a, <2>1, <3>1, StaysTaken DEF TakenBefore
  <2> QED
    BY <2>1, <2>2, <2>3, <2>4, <2>5
<1>10. ASSUME NEW c \in Caller, FailRun(c) PROVE Order'
  BY <1>0, <1>a, <1>10 DEF FailRun
<1>11. ASSUME NEW c \in Caller, NextStep(c) PROVE Order'
  BY <1>0, <1>a, <1>11 DEF NextStep
<1>12. ASSUME NEW c \in Caller, Load(c) PROVE Order'
  BY <1>0, <1>a, <1>12 DEF Load
<1>13. ASSUME NEW c \in Caller, AutoStep(c) PROVE Order'
  BY <1>0, <1>a, <1>13 DEF AutoStep
<1>14. ASSUME NEW c \in Caller, Pause(c) PROVE Order'
  BY <1>0, <1>a, <1>14 DEF Pause
<1>15. ASSUME NEW c \in Caller, Complete(c) PROVE Order'
  BY <1>0, <1>a, <1>15 DEF Complete
<1>16. CASE UNCHANGED vars
  BY <1>0, <1>a, <1>16 DEF vars
<1> QED
  BY <1>1, <1>2, <1>3, <1>4, <1>5, <1>6, <1>7, <1>8, <1>9, <1>10, <1>11, <1>12, <1>13,
     <1>14, <1>15, <1>16 DEF Next, Proceed

\* The vendor is never called for a step while an earlier one is untouched,
\* however many approvals race on the run and wherever they stop.
THEOREM StepsInOrder == Spec => []EarlierStepsTaken
<1>1. TInv /\ Order => EarlierStepsTaken
  BY PlaybookAssumption DEF TInv, TypeOK, EarlierStepsTaken, Order, TakenBefore, Step
<1> QED
  BY <1>1, InitTyped, StepTyped, InitOrdered, StepOrdered, PTL DEF Spec
-----------------------------------------------------------------------------
(* The calls of the gated steps.  The index moves past a gated step only   *)
(* where a vendor has reported success, and successes are never forgotten. *)

Succeeded(k) == calls[k]["succeeded"] > 0
CalledBefore(k) == \A j \in Gated : j < k => Succeeded(j)

Called ==
    /\ CalledBefore(run.current)
    /\ run.status = "completed" => run.current = Last
    /\ \A c \in Caller :
        /\ CalledBefore(at[c])
        /\ pc[c] = "called" /\ outcome[c] = "succeeded" => Succeeded(at[c])
        /\ pc[c] = "unsent" => outcome[c] = "failed"
        /\ pc[c] = "next" => Succeeded(at[c])

LEMMA InitCalled == Init => Called
  BY PlaybookAssumption DEF Init, Called, CalledBefore, Step

\* A success stays.
LEMMA StaysSucceeded ==
  ASSUME TInv, [Next]_vars
  PROVE  \A k \in Gated : Succeeded(k) => Succeeded(k)'
<1>1. ASSUME NEW c \in Caller, NEW s \in Outcome, Execute(c, s), NEW k \in Gated, Succeeded(k)
      PROVE  Succeeded(k)'
  BY <1>1, PlaybookAssumption DEF TInv, TypeOK, Execute, Succeeded, Outcome
<1>2. CASE UNCHANGED calls
  BY <1>2 DEF Succeeded
<1> QED
  BY <1>1, <1>2 DEF Next, Proceed, vars, Start, Approve, Reject, Abandon, CheckStep,
     FailUnresolved, ExecuteUnsent, RecordStep, FailRun, NextStep, Load, AutoStep, Pause,
     Complete

LEMMA StepCalled == TInv /\ TInv' /\ Called /\ [Next]_vars => Called'
<1> SUFFICES ASSUME TInv, TInv', Called, [Next]_vars PROVE Called'
  OBVIOUS
<1>0. /\ \A k \in 0 .. Last : CalledBefore(k) => CalledBefore(k)'
      /\ \A k \in Gated : Succeeded(k) => Succeeded(k)'
  BY StaysSucceeded DEF CalledBefore
<1>a. \A c \in Caller : pc[c] \in AtTakenStep => at[c] \in Gated
  BY DEF TInv, InRange
<1>b. \A k \in Gated : CalledBefore(k) /\ Succeeded(k) => CalledBefore(k + 1)
  BY PlaybookAssumption DEF CalledBefore, Step
<1>c. \A k \in Step \ Gated : CalledBefore(k) => CalledBefore(k + 1)
  BY PlaybookAssumption DEF CalledBefore, Step
<1> USE PlaybookAssumption
        DEF TInv, TypeOK, Called, AtTakenStep, Step, Goto, SetRun, SetStep
<1>1. ASSUME NEW c \in Caller, Start(c) PROVE Called'
  BY <1>0, <1>a, <1>1 DEF Start, Arrives, CalledBefore
<1>2. ASSUME NEW c \in Caller, Approve(c) PROVE Called'
  BY <1>0, <1>a, <1>2 DEF Approve, Arrives
<1>3. ASSUME NEW c \in Caller, Reject(c) PROVE Called'
  BY <1>0, <1>a, <1>3 DEF Reject, Arrives
<1>4. ASSUME NEW c \in Caller, Abandon(c) PROVE Called'
  BY <1>0, <1>a, <1>4 DEF Abandon
<1>5. ASSUME NEW c \in Caller, CheckStep(c) PROVE Called'
  BY <1>0, <1>a, <1>5 DEF CheckStep
<1>6. ASSUME NEW c \in Caller, FailUnresolved(c) PROVE Called'
  BY <1>0, <1>a, <1>6 DEF FailUnresolved
<1>7. ASSUME NEW c \in Caller, NEW s \in Outcome, Execute(c, s) PROVE Called'
  <2>1. at[c] \in Gated /\ (s = "succeeded" => Succeeded(at[c])')
    BY <1>a, <1>7 DEF Execute, Succeeded, Outcome
  <2> QED
    BY <1>0, <1>a, <1>7, <2>1 DEF Execute
<1>8. ASSUME NEW c \in Caller, ExecuteUnsent(c) PROVE Called'
  BY <1>0, <1>a, <1>8 DEF ExecuteUnsent
<1>9. ASSUME NEW c \in Caller, RecordStep(c) PROVE Called'
  BY <1>0, <1>a, <1>9 DEF RecordStep, Outcome
<1>10. ASSUME NEW c \in Caller, FailRun(c) PROVE Called'
  BY <1>0, <1>a, <1>10 DEF FailRun
<1>11. ASSUME NEW c \in Caller, NextStep(c) PROVE Called'
  BY <1>0, <1>a, <1>b, <1>11 DEF NextStep
<1>12. ASSUME NEW c \in Caller, Load(c) PROVE Called'
  BY <1>0, <1>a, <1>12 DEF Load
<1>13. ASSUME NEW c \in Caller, AutoStep(c) PROVE Called'
  BY <1>0, <1>a, <1>c, <1>13 DEF AutoStep
<1>14. ASSUME NEW c \in Caller, Pause(c) PROVE Called'
  BY <1>0, <1>a, <1>14 DEF Pause
<1>15. ASSUME NEW c \in Caller, Complete(c) PROVE Called'
  BY <1>0, <1>a, <1>15 DEF Complete
<1>16. CASE UNCHANGED vars
  BY <1>0, <1>a, <1>16 DEF vars
<1> QED
  BY <1>1, <1>2, <1>3, <1>4, <1>5, <1>6, <1>7, <1>8, <1>9, <1>10, <1>11, <1>12, <1>13,
     <1>14, <1>15, <1>16 DEF Next, Proceed

\* A completed run has had the calls of all its gated steps and has tried the
\* others, whatever calls raced on it and wherever they were abandoned.
THEOREM CompletedRuns == Spec => []CompletedMeansDone
<1>1. TInv /\ Order /\ Called => CompletedMeansDone
  BY PlaybookAssumption
  DEF TInv, TypeOK, Order, TakenBefore, Called, CalledBefore, Succeeded, CompletedMeansDone, Step
<1> QED
  BY <1>1, InitTyped, StepTyped, InitOrdered, StepOrdered, InitCalled, StepCalled, PTL DEF Spec
-----------------------------------------------------------------------------
(* Refinement.  Seen from outside, a step of one call moves the ticket of  *)
(* one gated step as ApprovalTickets allows, or none.                      *)

Decisions == [k \in Gated |-> step[k]]
Holding == [k \in Gated |-> {c \in Caller : at[c] = k /\ pc[c] \in Unanswered}]
Used == [k \in Gated |-> {c \in Caller : at[c] = k /\ pc[c] = "called"}]
Bought == [k \in Gated |-> CallsOf(k)]
View == <<Decisions, Holding, Used, Bought>>

Ticketed == Unanswered \cup {"called"}

\* What one call does to the tickets of the step it works at.
LEMMA OneTicketMoves ==
    ASSUME TypeOK, NEW c \in Caller, NEW s, Goto(c, s), at' = at, at[c] \in Gated
    PROVE  /\ Holding' = [Holding EXCEPT ![at[c]] =
                             IF s \in Unanswered THEN @ \cup {c} ELSE @ \ {c}]
           /\ Used' = [Used EXCEPT ![at[c]] = IF s = "called" THEN @ \cup {c} ELSE @ \ {c}]
           /\ c \in Holding[at[c]] <=> pc[c] \in Unanswered
           /\ c \in Used[at[c]] <=> pc[c] = "called"
<1>1. pc'[c] = s /\ \A d \in Caller \ {c} : pc'[d] = pc[d]
  BY DEF Goto, TypeOK
<1>2. Holding' = [Holding EXCEPT ![at[c]] = IF s \in Unanswered THEN @ \cup {c} ELSE @ \ {c}]
  <2>1. \A k \in Gated \ {at[c]} : Holding'[k] = Holding[k]
    BY <1>1 DEF Holding
  <2>2. Holding'[at[c]] = IF s \in Unanswered THEN Holding[at[c]] \cup {c}
                          ELSE Holding[at[c]] \ {c}
    BY <1>1 DEF Holding
  <2> QED
    BY <2>1, <2>2 DEF Holding
<1>3. Used' = [Used EXCEPT ![at[c]] = IF s = "called" THEN @ \cup {c} ELSE @ \ {c}]
  BY <1>1 DEF Used
<1>4. /\ c \in Holding[at[c]] <=> pc[c] \in Unanswered
      /\ c \in Used[at[c]] <=> pc[c] = "called"
  BY DEF Holding, Used
<1> QED
  BY <1>2, <1>3, <1>4

\* A call that holds a ticket neither before nor after, or goes on holding it.
LEMMA NoTicketMoves ==
    ASSUME TypeOK, NEW c \in Caller, NEW s, Goto(c, s),
           \A d \in Caller \ {c} : at'[d] = at[d],
           \/ pc[c] \notin Ticketed /\ s \notin Ticketed
           \/ pc[c] \in Unanswered /\ s \in Unanswered /\ at' = at
    PROVE  Holding' = Holding /\ Used' = Used
<1>1. pc'[c] = s /\ \A d \in Caller \ {c} : pc'[d] = pc[d]
  BY DEF Goto, TypeOK
<1>2. \A k \in Gated, d \in Caller :
        /\ (at'[d] = k /\ pc'[d] \in Unanswered) <=> (at[d] = k /\ pc[d] \in Unanswered)
        /\ (at'[d] = k /\ pc'[d] = "called") <=> (at[d] = k /\ pc[d] = "called")
  BY <1>1 DEF Ticketed, Unanswered
<1> QED
  BY <1>2 DEF Holding, Used

LEMMA OneStepChanges ==
    ASSUME NEW k \in Gated, NEW v, step' = [step EXCEPT ![k] = v],
           TypeOK, Gated \subseteq Step
    PROVE  Decisions' = [Decisions EXCEPT ![k] = v]
  BY DEF Decisions, TypeOK

\* What the acts of ApprovalTickets say of the view.
LEMMA TicketActs ==
    ASSUME NEW k \in Gated, NEW c \in Caller, NEW v
    PROVE  /\ /\ Decisions' = [Decisions EXCEPT ![k] = "awaiting_approval"]
              /\ Holding' = Holding /\ Used' = Used /\ Bought' = Bought
              => Tickets!Ask(k)
           /\ /\ Decisions[k] = "awaiting_approval"
              /\ Holding' = [Holding EXCEPT ![k] = @ \cup {c}]
              /\ Decisions' = Decisions /\ Used' = Used /\ Bought' = Bought
              => Tickets!Grant(k, c)
           /\ /\ c \in Holding[k] /\ Holding' = [Holding EXCEPT ![k] = @ \ {c}]
              /\ Used' = [Used EXCEPT ![k] = @ \cup {c}]
              /\ Bought' = [Bought EXCEPT ![k] = @ + 1] /\ Decisions' = Decisions
              => Tickets!Spend(k, c)
           /\ /\ \/ v = "failed" /\ c \in Holding[k] \cup Used[k]
                 \/ v = "succeeded" /\ c \in Used[k]
              /\ Decisions' = [Decisions EXCEPT ![k] = v]
              /\ Holding' = [Holding EXCEPT ![k] = @ \ {c}]
              /\ Used' = [Used EXCEPT ![k] = @ \ {c}] /\ Bought' = Bought
              => Tickets!Settle(k, c, v)
           /\ /\ Holding' = [Holding EXCEPT ![k] = @ \ {c}]
              /\ Used' = [Used EXCEPT ![k] = @ \ {c}]
              /\ Decisions' = Decisions /\ Bought' = Bought
              => Tickets!Drop(k, c)
           /\ /\ Decisions' = [i \in Gated |-> IF Decisions[i] = "awaiting_approval"
                                             THEN "skipped" ELSE Decisions[i]]
              /\ Holding' = Holding /\ Used' = Used /\ Bought' = Bought
              => Tickets!Reject
  BY DEF Decisions, Holding, Used, Bought, Tickets!Ask, Tickets!Grant, Tickets!Spend,
     Tickets!Settle, Tickets!Drop, Tickets!Reject

LEMMA StepRefines ==
    ASSUME TInv, Called, Next
    PROVE  Tickets!TicketNext \/ UNCHANGED View
<1> DEFINE Goal == Tickets!TicketNext \/ UNCHANGED View
<1> USE PlaybookAssumption
<1>a. UNCHANGED step => Decisions' = Decisions
  BY DEF Decisions
<1>b. UNCHANGED calls => Bought' = Bought
  BY DEF Bought, CallsOf
<1>c. TypeOK /\ InRange /\ Gated \subseteq Step
  BY DEF TInv
<1>1. ASSUME NEW c \in Caller,
             Start(c) \/ Approve(c) \/ FailRun(c) \/ NextStep(c) \/ Load(c) \/ Complete(c)
      PROVE  Goal
  <2>1. PICK s : Goto(c, s) /\ s \in {"load", "loaded", "done", "advance"}
    BY <1>1 DEF Start, Approve, FailRun, NextStep, Load, Complete
  <2>2. /\ pc[c] \in {"idle", "failing", "next", "load", "advance"}
        /\ \A d \in Caller \ {c} : at'[d] = at[d]
        /\ UNCHANGED <<step, calls>>
    BY <1>c, <1>1 DEF Start, Approve, FailRun, NextStep, Load, Complete, Arrives, TypeOK
  <2>3. Holding' = Holding /\ Used' = Used
    BY <1>c, <2>1, <2>2, NoTicketMoves DEF Ticketed, Unanswered
  <2> QED
    BY <1>a, <1>b, <2>2, <2>3 DEF View
<1>2. ASSUME NEW c \in Caller, Reject(c) PROVE Goal
  <2>1. Goto(c, "done") /\ pc[c] = "idle" /\ at' = at /\ Bought' = Bought
    BY <1>b, <1>2 DEF Reject, Arrives
  <2>2. Holding' = Holding /\ Used' = Used
    BY <1>c, <2>1, NoTicketMoves DEF Ticketed, Unanswered
  <2>3. Decisions' = [i \in Gated |-> IF Decisions[i] = "awaiting_approval"
                                     THEN "skipped" ELSE Decisions[i]]
    BY <1>c, <1>2 DEF Reject, Decisions
  <2>4. ASSUME NEW k \in Gated PROVE Tickets!Reject
    BY <2>1, <2>2, <2>3, TicketActs
  <2>5. CASE Gated = {}
    BY <2>1, <2>2, <2>5 DEF View, Decisions
  <2> QED
    BY <2>4, <2>5 DEF Tickets!TicketNext
<1>3. ASSUME NEW c \in Caller, Abandon(c) PROVE Goal
  <2>1. /\ Goto(c, "abandoned") /\ at' = at
        /\ Decisions' = Decisions /\ Bought' = Bought
    BY <1>a, <1>b, <1>3 DEF Abandon
  <2>2. CASE pc[c] \in Ticketed
    <3>1. PICK k \in Gated : k = at[c]
      BY <1>c, <2>2 DEF InRange, AtTakenStep, Ticketed, Unanswered
    <3>2. /\ Holding' = [Holding EXCEPT ![k] = @ \ {c}]
          /\ Used' = [Used EXCEPT ![k] = @ \ {c}]
      <4>1. "abandoned" \notin Unanswered /\ "abandoned" # "called"
        BY DEF Unanswered
      <4> QED
        BY <1>c, <2>1, <3>1, <4>1, OneTicketMoves
    <3>3. Tickets!Drop(k, c)
      BY <2>1, <3>1, <3>2, TicketActs
    <3> QED
      BY <3>1, <3>3 DEF Tickets!TicketNext
  <2>3. CASE pc[c] \notin Ticketed
    BY <1>c, <2>1, <2>3, NoTicketMoves DEF Ticketed, Unanswered, View
  <2> QED
    BY <2>2, <2>3
<1>4. ASSUME NEW c \in Caller, CheckStep(c) PROVE Goal
  <2>1. PICK s : Goto(c, s) /\ s = IF at[c] \notin Gated \/ step[at[c]] # "awaiting_approval"
                                   THEN "done"
                                   ELSE IF at[c] \in resolvable THEN "execute" ELSE "unresolved"
    BY <1>4 DEF CheckStep
  <2>2. /\ pc[c] = "loaded" /\ at' = at
        /\ Decisions' = Decisions /\ Bought' = Bought
    BY <1>a, <1>b, <1>4 DEF CheckStep
  <2>3. CASE s = "done"
    BY <1>c, <2>1, <2>2, <2>3, NoTicketMoves DEF Ticketed, Unanswered, View
  <2>4. CASE s # "done"
    <3>1. PICK k \in Gated : /\ k = at[c] /\ Decisions[k] = "awaiting_approval"
                            /\ s \in Unanswered
      BY <2>1, <2>4 DEF Decisions, Unanswered
    <3>2. Holding' = [Holding EXCEPT ![k] = @ \cup {c}]
      BY <1>c, <2>1, <2>2, <3>1, OneTicketMoves
    <3>3. Used' = Used
      BY <1>c, <2>1, <2>2, <3>1 DEF Used, Goto, TypeOK, Unanswered
    <3>4. Tickets!Grant(k, c)
      BY <2>2, <3>1, <3>2, <3>3, TicketActs
    <3> QED
      BY <3>1, <3>4 DEF Tickets!TicketNext
  <2> QED
    BY <2>3, <2>4
<1>5. ASSUME NEW c \in Caller, FailUnresolved(c) PROVE Goal
  <2>1. Goto(c, "failing") /\ pc[c] = "unresolved" /\ at' = at /\ Bought' = Bought
    BY <1>b, <1>5 DEF FailUnresolved
  <2>2. PICK k \in Gated : k = at[c]
    BY <1>c, <2>1 DEF InRange, AtTakenStep
  <2>3. /\ Holding' = [Holding EXCEPT ![k] = @ \ {c}]
        /\ Used' = [Used EXCEPT ![k] = @ \ {c}]
        /\ c \in Holding[k]
    <3>1. "failing" \notin Unanswered /\ "unresolved" \in Unanswered
      BY DEF Unanswered
    <3> QED
      BY <1>c, <2>1, <2>2, <3>1, OneTicketMoves
  <2>4. CASE SetStep(at[c], "failed")
    <3>1. Decisions' = [Decisions EXCEPT ![k] = "failed"]
      BY <1>c, <2>2, <2>4, OneStepChanges DEF SetStep
    <3>2. Tickets!Settle(k, c, "failed")
      BY <2>1, <2>2, <2>3, <3>1, TicketActs
    <3> QED
      BY <2>2, <3>2 DEF Tickets!TicketNext
  <2>5. CASE UNCHANGED step
    <3>1. Tickets!Drop(k, c)
      BY <1>a, <2>1, <2>2, <2>3, <2>5, TicketActs
    <3> QED
      BY <2>2, <3>1 DEF Tickets!TicketNext
  <2> QED
    BY <1>5, <2>4, <2>5 DEF FailUnresolved
<1>6. ASSUME NEW c \in Caller, NEW s \in Outcome, Execute(c, s) PROVE Goal
  <2>1. Goto(c, "called") /\ pc[c] = "execute" /\ at' = at /\ Decisions' = Decisions
    BY <1>a, <1>6 DEF Execute
  <2>2. PICK k \in Gated : k = at[c]
    BY <1>c, <2>1 DEF InRange, AtTakenStep
  <2>3. /\ Holding' = [Holding EXCEPT ![k] = @ \ {c}]
        /\ Used' = [Used EXCEPT ![k] = @ \cup {c}]
        /\ c \in Holding[k]
    <3>1. "called" \notin Unanswered /\ "execute" \in Unanswered
      BY DEF Unanswered
    <3> QED
      BY <1>c, <2>1, <2>2, <3>1, OneTicketMoves
  <2>4. /\ \A j \in Gated \ {k} : calls'[j] = calls[j]
        /\ CallsOf(k)' = CallsOf(k) + 1
    <3>1. /\ calls[k] \in [Outcome -> Nat] /\ k \in Step
          /\ calls' = [calls EXCEPT ![k][s] = @ + 1]
      BY <1>c, <1>6, <2>2 DEF Execute, TypeOK
    <3>2. calls'[k] = [calls[k] EXCEPT ![s] = @ + 1]
      BY <1>c, <3>1 DEF TypeOK
    <3>3. CallsOf(k)' = calls'[k]["succeeded"] + calls'[k]["failed"]
      BY DEF CallsOf
    <3> QED
      BY <1>c, <3>1, <3>2, <3>3 DEF CallsOf, TypeOK, Outcome
  <2>5. Bought' = [Bought EXCEPT ![k] = @ + 1]
    <3>1. \A j \in Gated \ {k} : CallsOf(j)' = CallsOf(j)
      BY <2>4 DEF CallsOf
    <3> QED
      BY <2>1, <2>2, <2>4, <3>1 DEF Bought
  <2>6. Tickets!Spend(k, c)
    BY <2>1, <2>2, <2>3, <2>5, TicketActs
  <2> QED
    BY <2>2, <2>6 DEF Tickets!TicketNext
<1>7. ASSUME NEW c \in Caller, ExecuteUnsent(c) PROVE Goal
  <2>1. /\ Goto(c, "unsent") /\ pc[c] = "execute" /\ at' = at
        /\ Decisions' = Decisions /\ Bought' = Bought
    BY <1>a, <1>b, <1>7 DEF ExecuteUnsent
  <2> QED
    BY <1>c, <2>1, NoTicketMoves DEF Unanswered, View
<1>8. ASSUME NEW c \in Caller, RecordStep(c) PROVE Goal
  <2>1. PICK s : Goto(c, s) /\ s \in {"next", "failing"}
    BY <1>8 DEF RecordStep
  <2>2. /\ pc[c] \in {"called", "unsent"} /\ at' = at /\ Bought' = Bought
        /\ step' = [step EXCEPT ![at[c]] = outcome[c]]
        /\ outcome[c] \in {"succeeded", "failed"}
        /\ pc[c] = "unsent" => outcome[c] = "failed"
    BY <1>b, <1>c, <1>8 DEF RecordStep, SetStep, TypeOK, Outcome, Called
  <2>3. PICK k \in Gated : k = at[c]
    BY <1>c, <2>2 DEF InRange, AtTakenStep
  <2>4. /\ Holding' = [Holding EXCEPT ![k] = @ \ {c}]
        /\ Used' = [Used EXCEPT ![k] = @ \ {c}]
        /\ c \in Holding[k] <=> pc[c] \in Unanswered
        /\ c \in Used[k] <=> pc[c] = "called"
    <3>1. s \notin Unanswered /\ s # "called"
      BY <2>1 DEF Unanswered
    <3> QED
      BY <1>c, <2>1, <2>2, <2>3, <3>1, OneTicketMoves
  <2>5. PICK v \in {"succeeded", "failed"} : v = outcome[c]
    BY <2>2
  <2>6. \/ v = "failed" /\ c \in Holding[k] \cup Used[k]
        \/ v = "succeeded" /\ c \in Used[k]
    BY <2>2, <2>3, <2>4, <2>5 DEF Unanswered
  <2>7. Decisions' = [Decisions EXCEPT ![k] = v]
    BY <1>c, <2>2, <2>3, <2>5, OneStepChanges
  <2>8. Tickets!Settle(k, c, v)
    BY <2>2, <2>3, <2>4, <2>6, <2>7, TicketActs
  <2> QED
    BY <2>3, <2>5, <2>8 DEF Tickets!TicketNext
<1>9. ASSUME NEW c \in Caller, AutoStep(c) PROVE Goal
  <2>1. /\ pc' = pc /\ pc[c] = "advance" /\ Bought' = Bought
        /\ \A d \in Caller \ {c} : at'[d] = at[d]
        /\ \A k \in Gated : step'[k] = step[k]
    BY <1>b, <1>c, <1>9 DEF AutoStep, SetStep, TypeOK
  <2>2. Goto(c, "advance")
    BY <1>c, <2>1 DEF Goto, TypeOK
  <2>3. Holding' = Holding /\ Used' = Used
    BY <1>c, <2>1, <2>2, NoTicketMoves DEF Ticketed, Unanswered
  <2> QED
    BY <2>1, <2>3 DEF View, Decisions
<1>10. ASSUME NEW c \in Caller, Pause(c) PROVE Goal
  <2>1. /\ Goto(c, "done") /\ pc[c] = "advance" /\ at' = at /\ Bought' = Bought
        /\ step' = [step EXCEPT ![at[c]] = "awaiting_approval"] /\ at[c] \in Gated
    BY <1>b, <1>10 DEF Pause, SetStep
  <2>2. Holding' = Holding /\ Used' = Used
    BY <1>c, <2>1, NoTicketMoves DEF Ticketed, Unanswered
  <2>3. PICK k \in Gated : k = at[c]
    BY <2>1
  <2>4. Decisions' = [Decisions EXCEPT ![k] = "awaiting_approval"]
    BY <1>c, <2>1, <2>3, OneStepChanges
  <2>5. Tickets!Ask(k)
    BY <2>1, <2>2, <2>3, <2>4, TicketActs
  <2> QED
    BY <2>3, <2>5 DEF Tickets!TicketNext
<1> QED
  <2> HIDE DEF Goal
  <2>1. Goal
    BY <1>1, <1>2, <1>3, <1>4, <1>5, <1>6, <1>7, <1>8, <1>9, <1>10 DEF Next, Proceed
  <2> QED
    BY <2>1 DEF Goal

LEMMA InitRefines == Init => Tickets!TicketInit
  BY PlaybookAssumption DEF Init, Tickets!TicketInit, CallsOf, Step, Outcome, Unanswered

\* However calls overlap on a run or stop half-way, every vendor call belongs
\* to an approval that found its step awaiting, no approval makes two, and
\* only an approval that called records a success.
THEOREM PlaybookRefinement == Spec => ImplementsTickets
<1>1. TInv /\ Called /\ [Next]_vars => [Tickets!TicketNext]_(Tickets!tvars)
  <2>1. UNCHANGED View => UNCHANGED Tickets!tvars
    BY DEF View, Decisions, Holding, Used, Bought, Tickets!tvars
  <2>2. UNCHANGED vars => UNCHANGED Tickets!tvars
    BY DEF vars, Tickets!tvars, CallsOf
  <2> QED
    BY <2>1, <2>2, StepRefines
<1> QED
  BY <1>1, InitTyped, StepTyped, InitCalled, StepCalled, InitRefines, PTL
  DEF Spec, ImplementsTickets, Tickets!TicketSpec

-----------------------------------------------------------------------------
(* The queues of actions: typing.                                          *)

\* A call inside its transaction holds the lock of the row it names.
LockHeld ==
    \A c \in Operator : stage[c] \in Queue!InTransaction => holder[request[c].item] = c

\* A lock is held by a call inside its transaction, and the row is pending.
LockUsed ==
    \A i \in Queue!Item : holder[i] # None =>
        /\ stage[holder[i]] \in Queue!InTransaction
        /\ request[holder[i]].item = i
        /\ status[i] = "pending"

\* Only a call that reached the vendor can have succeeded.
UnsentFailed == \A c \in Operator : stage[c] = "unsent" => result[c] = "failed"

\* Only the rejection of a runbook reads before it writes.
ReadsRunbook == \A c \in Operator : stage[c] = "read" => request[c].item \in Runbook

QueueInv == Queue!TypeOK /\ LockHeld /\ LockUsed /\ UnsentFailed /\ ReadsRunbook

\* The type invariant holds at first and every handler keeps it: the
\* statements of response_handler.go and runbook_handler.go write rows of the
\* schema only.
THEOREM QueueTyping == Queue!Spec => []QueueTypeOK
<1> USE QueueAssumption DEF Queue!Status, Queue!CallStep, Queue!InTransaction, Queue!Call,
     Queue!Operation
<1>1. Queue!Init => Queue!TypeOK
  BY DEF Queue!Init, Queue!TypeOK
<1>2. Queue!TypeOK /\ [Queue!Next]_Queue!vars => Queue!TypeOK'
  <2> SUFFICES ASSUME Queue!TypeOK, [Queue!Next]_Queue!vars PROVE Queue!TypeOK'
    OBVIOUS
  <2> USE DEF Queue!TypeOK, Queue!Goto
  <2>1. ASSUME NEW i \in Queue!Item, Queue!Create(i) PROVE Queue!TypeOK'
    BY <2>1 DEF Queue!Create
  <2>2. ASSUME NEW i \in Queue!Item, Queue!DeleteRunbook(i) PROVE Queue!TypeOK'
    BY <2>2 DEF Queue!DeleteRunbook
  <2>3. ASSUME NEW c \in Operator, NEW o \in Queue!Operation, NEW i \in Queue!Item,
               Queue!Receive(c, o, i)
        PROVE Queue!TypeOK'
    BY <2>3 DEF Queue!Receive
  <2>4. ASSUME NEW c \in Operator, NEW i \in Queue!Item, Queue!Claim(c, i) PROVE Queue!TypeOK'
    BY <2>4 DEF Queue!Claim
  <2>5. ASSUME NEW c \in Operator, NEW i \in Queue!Item, Queue!Refuse(c, i) PROVE Queue!TypeOK'
    BY <2>5 DEF Queue!Refuse
  <2>6. ASSUME NEW c \in Operator, NEW i \in Queue!Item, NEW s \in {"approved", "failed"},
               Queue!Execute(c, i, s)
        PROVE Queue!TypeOK'
    BY <2>6 DEF Queue!Execute
  <2>7. ASSUME NEW c \in Operator, NEW i \in Queue!Item, Queue!ExecuteUnsent(c, i)
        PROVE Queue!TypeOK'
    BY <2>7 DEF Queue!ExecuteUnsent
  <2>8. ASSUME NEW c \in Operator, NEW i \in Queue!Item, Queue!Commit(c, i) PROVE Queue!TypeOK'
    BY <2>8 DEF Queue!Commit
  <2>9. ASSUME NEW c \in Operator, NEW i \in Queue!Item, Queue!RollBack(c, i) PROVE Queue!TypeOK'
    BY <2>9 DEF Queue!RollBack
  <2>10. ASSUME NEW c \in Operator, NEW i \in Queue!Item, Queue!RejectResponse(c, i)
         PROVE Queue!TypeOK'
    BY <2>10 DEF Queue!RejectResponse
  <2>11. ASSUME NEW c \in Operator, NEW i \in Queue!Item, Queue!ReadPending(c, i)
         PROVE Queue!TypeOK'
    BY <2>11 DEF Queue!ReadPending
  <2>12. ASSUME NEW c \in Operator, NEW i \in Queue!Item, Queue!RejectRunbook(c, i)
         PROVE Queue!TypeOK'
    BY <2>12 DEF Queue!RejectRunbook
  <2>13. CASE UNCHANGED Queue!vars
    BY <2>13 DEF Queue!vars
  <2> QED
    BY <2>1, <2>2, <2>3, <2>4, <2>5, <2>6, <2>7, <2>8, <2>9, <2>10, <2>11,
       <2>12, <2>13 DEF Queue!Next, Queue!Handle
<1> QED
  BY <1>1, <1>2, PTL DEF Queue!Spec, QueueTypeOK
-----------------------------------------------------------------------------
(* Their locks.                                                            *)

LEMMA InitLocked == Queue!Init => QueueInv
  BY QueueAssumption
  DEF Queue!Init, QueueInv, Queue!TypeOK, LockHeld, LockUsed, UnsentFailed, ReadsRunbook,
       Queue!Status, Queue!CallStep,
      Queue!InTransaction, Queue!Call, Queue!Operation

\* The invariant without the typing, which QueueTyping gives.
Locks == LockHeld /\ LockUsed /\ UnsentFailed /\ ReadsRunbook

LEMMA StepLocked ==
  ASSUME Queue!TypeOK, Queue!TypeOK', Locks, [Queue!Next]_Queue!vars
  PROVE  Locks'
<1> USE QueueAssumption DEF Queue!InTransaction, Locks, LockHeld, LockUsed, UnsentFailed,
     ReadsRunbook,
        Queue!TypeOK, Queue!Goto, Queue!Unlocked
<1>1. ASSUME NEW i \in Queue!Item, Queue!Create(i) PROVE Locks'
  BY <1>1 DEF Queue!Create
<1>2. ASSUME NEW i \in Queue!Item, Queue!DeleteRunbook(i) PROVE Locks'
  BY <1>2 DEF Queue!DeleteRunbook
<1>3. ASSUME NEW c \in Operator, NEW o \in Queue!Operation, NEW i \in Queue!Item,
             Queue!Receive(c, o, i)
      PROVE Locks'
  BY <1>3 DEF Queue!Receive
<1>4. ASSUME NEW c \in Operator, NEW i \in Queue!Item, Queue!Claim(c, i) PROVE Locks'
  BY <1>4 DEF Queue!Claim
<1>5. ASSUME NEW c \in Operator, NEW i \in Queue!Item, Queue!Refuse(c, i) PROVE Locks'
  BY <1>5 DEF Queue!Refuse
<1>6. ASSUME NEW c \in Operator, NEW i \in Queue!Item, NEW s \in {"approved", "failed"},
             Queue!Execute(c, i, s)
      PROVE Locks'
  BY <1>6 DEF Queue!Execute
<1>7. ASSUME NEW c \in Operator, NEW i \in Queue!Item, Queue!ExecuteUnsent(c, i) PROVE Locks'
  BY <1>7 DEF Queue!ExecuteUnsent
<1>8. ASSUME NEW c \in Operator, NEW i \in Queue!Item, Queue!Commit(c, i) PROVE Locks'
  BY <1>8 DEF Queue!Commit
<1>9. ASSUME NEW c \in Operator, NEW i \in Queue!Item, Queue!RollBack(c, i) PROVE Locks'
  BY <1>9 DEF Queue!RollBack
<1>10. ASSUME NEW c \in Operator, NEW i \in Queue!Item, Queue!RejectResponse(c, i) PROVE Locks'
  BY <1>10 DEF Queue!RejectResponse
<1>11. ASSUME NEW c \in Operator, NEW i \in Queue!Item, Queue!ReadPending(c, i) PROVE Locks'
  BY <1>11 DEF Queue!ReadPending
<1>12. ASSUME NEW c \in Operator, NEW i \in Queue!Item, Queue!RejectRunbook(c, i) PROVE Locks'
  BY <1>12 DEF Queue!RejectRunbook
<1>13. CASE UNCHANGED Queue!vars
  BY <1>13 DEF Queue!vars
<1> QED
  BY <1>1, <1>2, <1>3, <1>4, <1>5, <1>6, <1>7, <1>8, <1>9, <1>10, <1>11,
     <1>12, <1>13 DEF Queue!Next, Queue!Handle

\* The lock discipline is invariant.
THEOREM QueueLocks == Queue!Spec => []QueueInv
<1>1. QueueInv /\ Queue!TypeOK' /\ [Queue!Next]_Queue!vars => QueueInv'
  BY StepLocked DEF QueueInv, Locks
<1> QED
  BY <1>1, InitLocked, QueueTyping, PTL DEF Queue!Spec, QueueTypeOK

\* An action is executed only for a row that is pending: response and runbook
\* approvals check the status under the lock and keep the lock while they
\* call the vendor or the host.
THEOREM ExecutedPending == Queue!Spec => ExecutedWhilePending
<1>1. QueueInv /\ [Queue!Next]_Queue!vars
        => [\A i \in Queue!Item : executed'[i] # executed[i] => status[i] = "pending"]_Queue!vars
  <2> SUFFICES ASSUME QueueInv, Queue!Next, NEW j \in Queue!Item, executed'[j] # executed[j]
               PROVE  status[j] = "pending"
    BY DEF Queue!vars
  <2>1. PICK c \in Operator, i \in Queue!Item, s \in {"approved", "failed"} :
            Queue!Execute(c, i, s)
    <3>1. ASSUME NEW i \in Queue!Item, Queue!Create(i) \/ Queue!DeleteRunbook(i) PROVE FALSE
      BY <3>1 DEF Queue!Create, Queue!DeleteRunbook
    <3>2. ASSUME NEW c \in Operator, NEW o, NEW i \in Queue!Item, Queue!Receive(c, o, i)
          PROVE  FALSE
      BY <3>2 DEF Queue!Receive
    <3>3. ASSUME NEW c \in Operator, NEW i \in Queue!Item,
                 \/ Queue!Claim(c, i) \/ Queue!Refuse(c, i) \/ Queue!ExecuteUnsent(c, i)
                 \/ Queue!Commit(c, i) \/ Queue!RollBack(c, i) \/ Queue!RejectResponse(c, i)
                 \/ Queue!ReadPending(c, i) \/ Queue!RejectRunbook(c, i)
          PROVE  FALSE
      BY <3>3 DEF Queue!Claim, Queue!Refuse, Queue!ExecuteUnsent, Queue!Commit, Queue!RollBack,
           Queue!RejectResponse, Queue!ReadPending, Queue!RejectRunbook
    <3> QED
      BY <3>1, <3>2, <3>3 DEF Queue!Next, Queue!Handle
  <2>2. i = j /\ stage[c] = "locked" /\ request[c].item = j
    BY <2>1 DEF Queue!Execute, QueueInv, Queue!TypeOK
  <2>3. holder[j] = c
    BY <2>2 DEF QueueInv, LockHeld, Queue!InTransaction
  <2> QED
    BY <2>3, QueueAssumption DEF QueueInv, LockUsed
<1> QED
  BY <1>1, QueueLocks, PTL DEF Queue!Spec, ExecutedWhilePending, Queue!ExecutedWhilePending
-----------------------------------------------------------------------------
(* Their refinement.  The public view of the containment requests is       *)
(* changed by each statement as ApprovalGate allows, or not at all.        *)

QueueDecisions == [i \in Response |-> status[i]]
QueueClaims == [i \in Response |-> Queue!Claimant(i)]
QueueCalls == [i \in Response |-> executed[i]]

\* A statement that touches one request changes the view of no other.
LEMMA OthersUnchanged ==
  ASSUME NEW j \in Queue!Item, QueueInv, Queue!TypeOK',
         \A i \in Queue!Item \ {j} : holder'[i] = holder[i],
         \A c \in Operator : stage[c] \in Queue!InTransaction /\ request[c].item # j
            => stage'[c] = stage[c]
  PROVE  \A i \in Queue!Item \ {j} : Queue!Claimant(i)' = Queue!Claimant(i)
  BY QueueAssumption DEF QueueInv, Queue!TypeOK, LockUsed, Queue!Claimant, Queue!Unlocked

LEMMA ClaimsChange ==
  ASSUME NEW j \in Response, NEW v,
         \A i \in Queue!Item \ {j} : Queue!Claimant(i)' = Queue!Claimant(i),
         Queue!Claimant(j)' = v
  PROVE  QueueClaims' = [QueueClaims EXCEPT ![j] = v]
  BY DEF QueueClaims, Queue!Item

LEMMA QueueStepRefines ==
  ASSUME QueueInv, QueueInv', Queue!Next
  PROVE  Queue!Gate!GateNext \/ UNCHANGED <<QueueDecisions, QueueClaims, QueueCalls>>
<1> USE QueueAssumption DEF QueueInv, Queue!TypeOK, Queue!Goto, Queue!InTransaction,
     Queue!Unlocked
<1> DEFINE Stutter == UNCHANGED <<QueueDecisions, QueueClaims, QueueCalls>>
           Goal == Queue!Gate!GateNext \/ Stutter
<1>0. \A i \in Response : i \in Queue!Item
  BY DEF Queue!Item
<1>1. ASSUME NEW i \in Queue!Item, Queue!Create(i) PROVE Goal
  <2>1. QueueClaims' = QueueClaims
    BY <1>1, <1>0 DEF Queue!Create, QueueClaims, Queue!Claimant
  <2>2. i \in Response => Queue!Gate!File(i)
    BY <1>1, <1>0, <2>1 DEF Queue!Create, Queue!Gate!File, QueueClaims
  <2>3. i \notin Response => Stutter
    BY <1>1, <1>0, <2>1 DEF Queue!Create, QueueDecisions, QueueCalls
  <2> QED
    BY <2>2, <2>3 DEF Queue!Gate!GateNext
<1>2. ASSUME NEW i \in Queue!Item, Queue!DeleteRunbook(i) PROVE Goal
  BY <1>2, <1>0 DEF Queue!DeleteRunbook, QueueDecisions, QueueCalls, QueueClaims, Queue!Claimant
<1>3. ASSUME NEW c \in Operator, NEW o \in Queue!Operation, NEW i \in Queue!Item,
             Queue!Receive(c, o, i)
      PROVE Goal
  <2>1. \A k \in Queue!Item : Queue!Claimant(k)' = Queue!Claimant(k)
    BY <1>3 DEF Queue!Receive, Queue!Claimant, LockUsed
  <2> QED
    BY <1>3, <1>0, <2>1 DEF Queue!Receive, QueueDecisions, QueueCalls, QueueClaims
<1>4. ASSUME NEW c \in Operator, NEW i \in Queue!Item, Queue!Claim(c, i) PROVE Goal
  <2>1. \A k \in Queue!Item \ {i} : Queue!Claimant(k)' = Queue!Claimant(k)
    BY <1>4, OthersUnchanged DEF Queue!Claim
  <2>2. Queue!Claimant(i) = "free" /\ Queue!Claimant(i)' = "claimed"
    BY <1>4 DEF Queue!Claim, Queue!Claimant
  <2>3. i \in Response => Queue!Gate!Claim(i)
    <3> SUFFICES ASSUME i \in Response PROVE Queue!Gate!Claim(i)
      OBVIOUS
    <3>1. QueueClaims' = [QueueClaims EXCEPT ![i] = "claimed"]
      BY <2>1, <2>2, ClaimsChange
    <3> QED
      BY <1>4, <1>0, <2>2, <3>1 DEF Queue!Claim, Queue!Gate!Claim, QueueClaims
  <2>4. i \notin Response => Stutter
    BY <1>4, <1>0, <2>1 DEF Queue!Claim, QueueDecisions, QueueCalls, QueueClaims
  <2> QED
    BY <2>3, <2>4 DEF Queue!Gate!GateNext
<1>5. ASSUME NEW c \in Operator, NEW i \in Queue!Item, Queue!Refuse(c, i) PROVE Goal
  <2>1. \A k \in Queue!Item : Queue!Claimant(k)' = Queue!Claimant(k)
    BY <1>5 DEF Queue!Refuse, Queue!Claimant, LockUsed
  <2> QED
    BY <1>5, <1>0, <2>1 DEF Queue!Refuse, QueueDecisions, QueueCalls, QueueClaims
<1>6. ASSUME NEW c \in Operator, NEW i \in Queue!Item, NEW s \in {"approved", "failed"},
             Queue!Execute(c, i, s)
      PROVE Goal
  <2>0. holder[i] = c
    BY <1>6 DEF Queue!Execute, LockHeld
  <2>1. \A k \in Queue!Item \ {i} : Queue!Claimant(k)' = Queue!Claimant(k)
    BY <1>6, OthersUnchanged DEF Queue!Execute
  <2>2. Queue!Claimant(i) = "claimed" /\ Queue!Claimant(i)' = "acted"
    BY <1>6, <2>0 DEF Queue!Execute, Queue!Claimant
  <2>3. i \in Response => Queue!Gate!Act(i)
    <3> SUFFICES ASSUME i \in Response PROVE Queue!Gate!Act(i)
      OBVIOUS
    <3>1. QueueClaims' = [QueueClaims EXCEPT ![i] = "acted"]
      BY <2>1, <2>2, ClaimsChange
    <3> QED
      BY <1>6, <1>0, <2>2, <3>1 DEF Queue!Execute, Queue!Gate!Act, QueueClaims
  <2>4. i \notin Response => Stutter
    BY <1>6, <1>0, <2>1 DEF Queue!Execute, QueueDecisions, QueueCalls, QueueClaims
  <2> QED
    BY <2>3, <2>4 DEF Queue!Gate!GateNext
<1>7. ASSUME NEW c \in Operator, NEW i \in Queue!Item, Queue!ExecuteUnsent(c, i) PROVE Goal
  <2>1. \A k \in Queue!Item : Queue!Claimant(k)' = Queue!Claimant(k)
    BY <1>7 DEF Queue!ExecuteUnsent, Queue!Claimant, LockUsed
  <2> QED
    BY <1>7, <1>0, <2>1 DEF Queue!ExecuteUnsent, QueueDecisions, QueueCalls, QueueClaims
<1>8. ASSUME NEW c \in Operator, NEW i \in Queue!Item, Queue!Commit(c, i) PROVE Goal
  <2>0. holder[i] = c
    BY <1>8 DEF Queue!Commit, LockHeld
  <2>1. \A k \in Queue!Item \ {i} : Queue!Claimant(k)' = Queue!Claimant(k)
    BY <1>8, OthersUnchanged DEF Queue!Commit
  <2>2. Queue!Claimant(i) # "free" /\ Queue!Claimant(i)' = "free"
    BY <1>8, <2>0 DEF Queue!Commit, Queue!Claimant
  <2>3. PICK d \in {"approved", "failed"} : d = result[c]
    OBVIOUS
  <2>4. d = "failed" \/ (d = "approved" /\ Queue!Claimant(i) = "acted")
    BY <1>8, <2>0, <2>3 DEF Queue!Commit, Queue!Claimant, UnsentFailed
  <2>5. ASSUME i \in Response PROVE Queue!Gate!Settle(i, d)
    <3>1. QueueClaims' = [QueueClaims EXCEPT ![i] = "free"]
      BY <2>1, <2>2, <2>5, ClaimsChange
    <3> QED
      BY <1>8, <1>0, <2>2, <2>3, <2>4, <2>5, <3>1 DEF Queue!Commit, Queue!Gate!Settle,
           QueueClaims
  <2>6. i \notin Response => Stutter
    BY <1>8, <1>0, <2>1 DEF Queue!Commit, QueueDecisions, QueueCalls, QueueClaims
  <2> QED
    BY <2>5, <2>6 DEF Queue!Gate!GateNext
<1>9. ASSUME NEW c \in Operator, NEW i \in Queue!Item, Queue!RollBack(c, i) PROVE Goal
  <2>0. holder[i] = c
    BY <1>9 DEF Queue!RollBack, LockHeld
  <2>1. \A k \in Queue!Item \ {i} : Queue!Claimant(k)' = Queue!Claimant(k)
    BY <1>9, OthersUnchanged DEF Queue!RollBack
  <2>2. Queue!Claimant(i) # "free" /\ Queue!Claimant(i)' = "free"
    BY <1>9, <2>0 DEF Queue!RollBack, Queue!Claimant
  <2>3. i \in Response => Queue!Gate!Abandon(i)
    <3> SUFFICES ASSUME i \in Response PROVE Queue!Gate!Abandon(i)
      OBVIOUS
    <3>1. QueueClaims' = [QueueClaims EXCEPT ![i] = "free"]
      BY <2>1, <2>2, ClaimsChange
    <3> QED
      BY <1>9, <1>0, <2>2, <3>1 DEF Queue!RollBack, Queue!Gate!Abandon, QueueClaims
  <2>4. i \notin Response => Stutter
    BY <1>9, <1>0, <2>1 DEF Queue!RollBack, QueueDecisions, QueueCalls, QueueClaims
  <2> QED
    BY <2>3, <2>4 DEF Queue!Gate!GateNext
<1>10. ASSUME NEW c \in Operator, NEW i \in Queue!Item, Queue!RejectResponse(c, i) PROVE Goal
  <2>1. \A k \in Queue!Item : Queue!Claimant(k)' = Queue!Claimant(k)
    BY <1>10 DEF Queue!RejectResponse, Queue!Claimant, LockUsed
  <2>2. Queue!Claimant(i) = "free"
    BY <1>10 DEF Queue!RejectResponse, Queue!Claimant
  <2>3. Queue!Gate!Reject(i)
    <3>1. i \in Response
      BY <1>10 DEF Queue!RejectResponse
    <3>2. QueueDecisions[i] = "pending" /\ QueueClaims[i] = "free"
      BY <1>10, <2>2, <3>1 DEF Queue!RejectResponse, QueueDecisions, QueueClaims
    <3>3. QueueDecisions' = [QueueDecisions EXCEPT ![i] = "rejected"]
      BY <1>10, <1>0, <3>1 DEF Queue!RejectResponse, QueueDecisions
    <3>4. UNCHANGED <<QueueClaims, QueueCalls>>
      BY <1>10, <2>1, QueueAssumption DEF Queue!RejectResponse, QueueClaims, QueueCalls, Queue!Item
    <3> QED
      BY <3>2, <3>3, <3>4 DEF Queue!Gate!Reject, QueueDecisions, QueueClaims, QueueCalls
  <2> QED
    BY <1>10, <2>3 DEF Queue!Gate!GateNext, Queue!RejectResponse
<1>11. ASSUME NEW c \in Operator, NEW i \in Queue!Item, Queue!ReadPending(c, i) PROVE Goal
  <2>1. \A k \in Queue!Item : Queue!Claimant(k)' = Queue!Claimant(k)
    BY <1>11 DEF Queue!ReadPending, Queue!Claimant, LockUsed
  <2> QED
    BY <1>11, <1>0, <2>1 DEF Queue!ReadPending, QueueDecisions, QueueCalls, QueueClaims
<1>12. ASSUME NEW c \in Operator, NEW i \in Queue!Item, Queue!RejectRunbook(c, i) PROVE Goal
  <2>1. \A k \in Queue!Item : Queue!Claimant(k)' = Queue!Claimant(k)
    BY <1>12 DEF Queue!RejectRunbook, Queue!Claimant, LockUsed
  <2>2. i \notin Response
    BY <1>12 DEF Queue!RejectRunbook, ReadsRunbook
  <2> QED
    BY <1>12, <1>0, <2>1, <2>2 DEF Queue!RejectRunbook, QueueDecisions, QueueCalls, QueueClaims
<1> QED
  BY <1>1, <1>2, <1>3, <1>4, <1>5, <1>6, <1>7, <1>8, <1>9, <1>10, <1>11, <1>12
  DEF Queue!Next, Queue!Handle

\* The containment queue implements the gate: whatever approvals, rejections
\* and failures meet on a request, it is executed while pending and claimed
\* only, and decided once.
THEOREM QueueRefinement == Queue!Spec => QueueImplementsGate
<1>1. Queue!Init => Queue!Gate!GateInit
  BY QueueAssumption DEF Queue!Init, Queue!Gate!GateInit, Queue!Item, Queue!Claimant,
       Queue!Unlocked
<1>2. QueueInv /\ QueueInv' /\ [Queue!Next]_Queue!vars => [Queue!Gate!GateNext]_(Queue!Gate!gvars)
  <2>1. UNCHANGED <<QueueDecisions, QueueClaims, QueueCalls>> => UNCHANGED Queue!Gate!gvars
    BY DEF QueueDecisions, QueueClaims, QueueCalls, Queue!Gate!gvars
  <2>2. UNCHANGED Queue!vars => UNCHANGED Queue!Gate!gvars
    BY DEF Queue!vars, Queue!Gate!gvars, Queue!Claimant, Queue!Unlocked
  <2> QED
    BY <2>1, <2>2, QueueStepRefines
<1> QED
  BY <1>1, <1>2, QueueLocks, PTL DEF Queue!Spec, QueueImplementsGate, Queue!ImplementsGate,
       Queue!Gate!GateSpec

\* The same of the two parts in one specification, for any playbook, requests
\* and calls.
THEOREM ApprovalsHold ==
    ApprovalSpec => /\ []EarlierStepsTaken
                    /\ []CompletedMeansDone
                    /\ ImplementsTickets
                    /\ QueueImplementsGate
                    /\ ExecutedWhilePending
<1>1. ApprovalInit => Init /\ Queue!Init
  BY DEF ApprovalInit
<1>2. [ApprovalNext]_approvalVars => [Next]_vars /\ [Queue!Next]_(Queue!vars)
  BY DEF ApprovalNext, approvalVars, vars, queueVars, Queue!vars
<1>3. ApprovalSpec => Spec /\ Queue!Spec
  BY <1>1, <1>2, PTL DEF ApprovalSpec, Spec, Queue!Spec
<1> QED
  BY <1>3, StepsInOrder, CompletedRuns, PlaybookRefinement, QueueRefinement, ExecutedPending, PTL
=============================================================================
