---------------------------- MODULE ApprovalGate ----------------------------
(***************************************************************************)
(* The human-in-the-loop promise of the containment queue: an item reaches *)
(* its vendor only while it is pending and claimed by one approval, a claim*)
(* makes at most one call, and an item is decided once.  The response half *)
(* of ActionQueue implements it; of PlaybookEngine, see ApprovalTickets.   *)
(***************************************************************************)
EXTENDS Naturals

CONSTANT Item

VARIABLES
    decision,   \* what the item's row says
    claim,      \* "free", "claimed" by an approval, or "acted": vendor called
    calls       \* vendor calls made for the item

gvars == <<decision, claim, calls>>

Final == {"approved", "failed", "rejected"}
Decision == {"absent", "pending"} \cup Final
Claimed == {"free", "claimed", "acted"}

GateInit ==
    /\ decision = [i \in Item |-> "absent"]
    /\ claim = [i \in Item |-> "free"]
    /\ calls = [i \in Item |-> 0]

File(i) ==
    /\ decision[i] = "absent"
    /\ decision' = [decision EXCEPT ![i] = "pending"]
    /\ UNCHANGED <<claim, calls>>

Claim(i) ==
    /\ decision[i] = "pending" /\ claim[i] = "free"
    /\ claim' = [claim EXCEPT ![i] = "claimed"]
    /\ UNCHANGED <<decision, calls>>

Act(i) ==
    /\ claim[i] = "claimed"
    /\ claim' = [claim EXCEPT ![i] = "acted"]
    /\ calls' = [calls EXCEPT ![i] = @ + 1]
    /\ UNCHANGED decision

\* The outcome becomes the decision.  Only a call that was made can have
\* succeeded.
Settle(i, d) ==
    /\ d = "failed" \/ (d = "approved" /\ claim[i] = "acted")
    /\ claim[i] # "free"
    /\ decision' = [decision EXCEPT ![i] = d]
    /\ claim' = [claim EXCEPT ![i] = "free"]
    /\ UNCHANGED calls

\* The approval fails and its transaction is rolled back: the item is
\* pending again, whether or not the vendor has been called.
Abandon(i) ==
    /\ claim[i] # "free"
    /\ claim' = [claim EXCEPT ![i] = "free"]
    /\ UNCHANGED <<decision, calls>>

Reject(i) ==
    /\ decision[i] = "pending" /\ claim[i] = "free"
    /\ decision' = [decision EXCEPT ![i] = "rejected"]
    /\ UNCHANGED <<claim, calls>>

GateNext ==
    \E i \in Item :
        \/ File(i) \/ Claim(i) \/ Act(i) \/ Abandon(i) \/ Reject(i)
        \/ \E d \in {"approved", "failed"} : Settle(i, d)

GateSpec == GateInit /\ [][GateNext]_gvars
=============================================================================
