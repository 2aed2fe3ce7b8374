--------------------------- MODULE ApprovalTickets ---------------------------
(***************************************************************************)
(* What a playbook run promises of its gated steps while approvals of one  *)
(* run overlap, less than ApprovalGate: an approval that finds the step    *)
(* awaiting gets a ticket, a ticket buys at most one vendor call, and only *)
(* a ticket decides the step.  Several approvals may hold a ticket for one *)
(* step, a ticket outlives a rejection, and a decided step may be asked    *)
(* for again.                                                              *)
(***************************************************************************)
EXTENDS Naturals

CONSTANTS Item, Approver

VARIABLES
    decision,   \* what the row of the item says
    holding,    \* the approvals with a ticket for the item, not yet used
    used,       \* the approvals whose ticket has bought its call
    calls       \* vendor calls made for the item

tvars == <<decision, holding, used, calls>>

TicketInit ==
    /\ decision = [i \in Item |-> "pending"]
    /\ holding = [i \in Item |-> {}]
    /\ used = [i \in Item |-> {}]
    /\ calls = [i \in Item |-> 0]

Ask(i) ==
    /\ decision' = [decision EXCEPT ![i] = "awaiting_approval"]
    /\ UNCHANGED <<holding, used, calls>>

Grant(i, a) ==
    /\ decision[i] = "awaiting_approval"
    /\ holding' = [holding EXCEPT ![i] = @ \cup {a}]
    /\ UNCHANGED <<decision, used, calls>>

Spend(i, a) ==
    /\ a \in holding[i]
    /\ holding' = [holding EXCEPT ![i] = @ \ {a}]
    /\ used' = [used EXCEPT ![i] = @ \cup {a}]
    /\ calls' = [calls EXCEPT ![i] = @ + 1]
    /\ UNCHANGED decision

\* The ticket is handed in for a decision: success only of a call it bought.
Settle(i, a, d) ==
    /\ \/ d = "failed" /\ a \in holding[i] \cup used[i]
       \/ d = "succeeded" /\ a \in used[i]
    /\ decision' = [decision EXCEPT ![i] = d]
    /\ holding' = [holding EXCEPT ![i] = @ \ {a}]
    /\ used' = [used EXCEPT ![i] = @ \ {a}]
    /\ UNCHANGED calls

\* The approval stops half-way and its ticket is lost.
Drop(i, a) ==
    /\ holding' = [holding EXCEPT ![i] = @ \ {a}]
    /\ used' = [used EXCEPT ![i] = @ \ {a}]
    /\ UNCHANGED <<decision, calls>>

\* A rejection decides whatever awaits, and takes no ticket back.
Reject ==
    /\ decision' = [i \in Item |->
            IF decision[i] = "awaiting_approval" THEN "skipped" ELSE decision[i]]
    /\ UNCHANGED <<holding, used, calls>>

TicketNext ==
    \/ Reject
    \/ \E i \in Item :
        \/ Ask(i)
        \/ \E a \in Approver :
            \/ Grant(i, a) \/ Spend(i, a) \/ Drop(i, a)
            \/ \E d \in {"succeeded", "failed"} : Settle(i, a, d)

TicketSpec == TicketInit /\ [][TicketNext]_tvars
=============================================================================
