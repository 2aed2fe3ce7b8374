------------------------------ MODULE MCApprovals ------------------------------
(***************************************************************************)
(* PlaybookEngine and ActionQueue in one run, the two where actions wait   *)
(* for a human.  They share no state here (what the engine executes is     *)
(* not filed in the queue), so a behaviour is about one of them.           *)
(***************************************************************************)
EXTENDS MCPlaybookEngine

CONSTANTS Response, Runbook, Operator, None

VARIABLES
    part,
    status, holder, stage, request, result, executed

Queue == INSTANCE ActionQueue WITH Caller <- Operator, pc <- stage, calls <- executed

\* The ids of the two tables differ, and nothing is called None.
ASSUME QueueAssumption ==
    /\ Response \cap Runbook = {}
    /\ None \notin Operator \cup Queue!Call

queueVars == <<status, holder, stage, request, result, executed>>
approvalVars == <<part, vars, queueVars>>

ApprovalInit ==
    /\ part \in {"playbook", "queue"}
    /\ Init /\ Queue!Init

ApprovalNext ==
    \/ part = "playbook" /\ Next /\ UNCHANGED <<part, queueVars>>
    \/ part = "queue" /\ Queue!Next /\ UNCHANGED <<part, vars>>

ApprovalSpec ==
    ApprovalInit /\ [][ApprovalNext]_approvalVars /\ Fairness /\ Queue!Fairness

------------------------------------------------------------------------------
(* The properties of the queue.                                            *)

\* The rows of both queues and their calls stay within the schema.
QueueTypeOK == Queue!TypeOK

\* Containment requests, through the handlers of response_handler.go, are
\* claimed, executed and decided as the gate allows.
QueueImplementsGate == Queue!ImplementsGate

\* No vendor and no runbook is called for a request that is not pending.
ExecutedWhilePending == Queue!ExecutedWhilePending

\* Every call on a request is answered, unless an SSH session hangs: no handler
\* waits for ever for a row that another one left locked.
EveryCallReturns == Queue!EveryCallReturns
=============================================================================
