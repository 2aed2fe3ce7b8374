----------------------------- MODULE ActionQueue -----------------------------
(***************************************************************************)
(* The two queues of actions that wait for a human: containment requests   *)
(* (api/response_handler.go) and withheld runbooks (api/runbook_handler.go *)
(* and the worker that files them).  Approving executes the action inside  *)
(* the transaction that records it, under the row lock of its SELECT ...   *)
(* FOR UPDATE; the two rejections are written differently, and so are      *)
(* modelled differently.  A transaction changes one row and commits or     *)
(* rolls back as a whole, so `status` is what is committed and a row is    *)
(* locked while `holder` names a call.                                     *)
(***************************************************************************)
EXTENDS Naturals

CONSTANTS
    Response,   \* ids of containment requests
    Runbook,    \* ids of runbook requests, each of a runbook of its own
    Caller,     \* HTTP calls to the approve and reject endpoints
    None

Item == Response \cup Runbook
Operation == {"approve", "reject"}
Status == {"absent", "pending", "approved", "failed", "rejected", "deleted"}
InTransaction == {"locked", "called", "unsent"}
CallStep == {"idle", "received", "read", "done"} \cup InTransaction
Call == [op: Operation, item: Item]

VARIABLES
    status,     \* the committed status of each row
    holder,     \* the call that holds the lock of the row
    pc,         \* per call: the next statement
    request,    \* per call: the endpoint and the id in the body
    result,     \* per call: the status executeResponderAction returned
    calls       \* times the vendor, or the SSH host, was called for a row

vars == <<status, holder, pc, request, result, calls>>

Init ==
    /\ status = [i \in Item |-> "absent"]
    /\ holder = [i \in Item |-> None]
    /\ pc = [c \in Caller |-> "idle"]
    /\ request = [c \in Caller |-> None]
    /\ result = [c \in Caller |-> "failed"]
    /\ calls = [i \in Item |-> 0]

Unlocked(i) == holder[i] = None

\* The call goes to step s and leaves the rest of the program alone.
Goto(c, s) == pc' = [pc EXCEPT ![c] = s] /\ UNCHANGED <<request, result>>

\* HandleCreateResponseAction; createRunbookApprovalRequest of the worker.
Create(i) ==
    /\ status[i] = "absent"
    /\ status' = [status EXCEPT ![i] = "pending"]
    /\ UNCHANGED <<holder, pc, request, result, calls>>

\* Deleting a runbook cascades to its requests and waits for their locks.
DeleteRunbook(i) ==
    /\ i \in Runbook /\ status[i] \notin {"absent", "deleted"}
    /\ Unlocked(i)
    /\ status' = [status EXCEPT ![i] = "deleted"]
    /\ UNCHANGED <<holder, pc, request, result, calls>>

\* An operator decides on a request listed some time ago.
Receive(c, o, i) ==
    /\ pc[c] = "idle" /\ status[i] # "absent"
    /\ pc' = [pc EXCEPT ![c] = "received"]
    /\ request' = [request EXCEPT ![c] = [op |-> o, item |-> i]]
    /\ UNCHANGED <<status, holder, result, calls>>

\* Fault: the approval selects the row without FOR UPDATE.
FaultSelectOnly(c, i) ==
    /\ pc[c] = "received" /\ request[c] = [op |-> "approve", item |-> i]
    /\ status[i] = "pending"
    /\ holder' = [holder EXCEPT ![i] = c]
    /\ Goto(c, "locked")
    /\ UNCHANGED <<status, calls>>

\* SELECT ... FOR UPDATE of an approval: waits for the lock, then sees the
\* row as last committed.
Claim(c, i) ==
    /\ pc[c] = "received" /\ request[c] = [op |-> "approve", item |-> i]
    /\ Unlocked(i) /\ status[i] = "pending"
    /\ holder' = [holder EXCEPT ![i] = c]
    /\ Goto(c, "locked")
    /\ UNCHANGED <<status, calls>>

\* No row, or no longer pending: an error, and the lock is let go.
Refuse(c, i) ==
    /\ pc[c] = "received" /\ request[c].item = i
    /\ status[i] # "pending"
    /\ Unlocked(i) \/ (i \in Runbook /\ request[c].op = "reject")
    /\ Goto(c, "done")
    /\ UNCHANGED <<status, holder, calls>>

\* The vendor API, or ExecuteSSH, is called with the transaction open.  The
\* runbook handler records the same status whatever the outcome.
Execute(c, i, s) ==
    /\ pc[c] = "locked" /\ request[c].item = i
    /\ s = "approved" \/ i \in Response
    /\ calls' = [calls EXCEPT ![i] = @ + 1]
    /\ result' = [result EXCEPT ![c] = s]
    /\ pc' = [pc EXCEPT ![c] = "called"]
    /\ UNCHANGED <<status, holder, request>>

\* No responder, no encryption key, no credentials: failed without a call.
ExecuteUnsent(c, i) ==
    /\ pc[c] = "locked" /\ request[c].item = i /\ i \in Response
    /\ result' = [result EXCEPT ![c] = "failed"]
    /\ pc' = [pc EXCEPT ![c] = "unsent"]
    /\ UNCHANGED <<status, holder, request, calls>>

\* Fault: the status column gets the status of the execution log.
FaultLogStatus(c, i) ==
    /\ pc[c] \in {"called", "unsent"} /\ request[c].item = i
    /\ status' = [status EXCEPT ![i] = "falha"]
    /\ holder' = [holder EXCEPT ![i] = None]
    /\ Goto(c, "done")
    /\ UNCHANGED calls

\* The UPDATE by id, the comment on the incident, and the COMMIT.
Commit(c, i) ==
    /\ pc[c] \in {"called", "unsent"} /\ request[c].item = i
    /\ status' = [status EXCEPT ![i] = result[c]]
    /\ holder' = [holder EXCEPT ![i] = None]
    /\ Goto(c, "done")
    /\ UNCHANGED calls

\* Fault: an error return leaves the transaction open.
FaultLeaveOpen(c, i) ==
    /\ pc[c] \in InTransaction /\ request[c].item = i
    /\ Goto(c, "done")
    /\ UNCHANGED <<status, holder, calls>>

\* Any statement of an approval fails, the client goes away (the statements
\* run on the context of the HTTP request) or the process dies.
RollBack(c, i) ==
    /\ pc[c] \in InTransaction /\ request[c].item = i
    /\ holder' = [holder EXCEPT ![i] = None]
    /\ Goto(c, "done")
    /\ UNCHANGED <<status, calls>>

\* Fault: the UPDATE of the rejection is not conditional on the status.
FaultRejectById(c, i) ==
    /\ pc[c] = "received" /\ request[c] = [op |-> "reject", item |-> i]
    /\ i \in Response /\ Unlocked(i)
    /\ status' = [status EXCEPT ![i] = "rejected"]
    /\ Goto(c, "done")
    /\ UNCHANGED <<holder, calls>>

\* HandleRejectResponseAction: one UPDATE, conditional on the status.
RejectResponse(c, i) ==
    /\ pc[c] = "received" /\ request[c] = [op |-> "reject", item |-> i]
    /\ i \in Response /\ status[i] = "pending" /\ Unlocked(i)
    /\ status' = [status EXCEPT ![i] = "rejected"]
    /\ Goto(c, "done")
    /\ UNCHANGED <<holder, calls>>

\* HandleRejectRunbookRequest reads the row without locking it ...
ReadPending(c, i) ==
    /\ pc[c] = "received" /\ request[c] = [op |-> "reject", item |-> i]
    /\ i \in Runbook /\ status[i] = "pending"
    /\ Goto(c, "read")
    /\ UNCHANGED <<status, holder, calls>>

\* ... and then updates it by id, whatever its status has become.  The
\* UPDATE waits for the lock, and matches no row once the request is gone.
RejectRunbook(c, i) ==
    /\ pc[c] = "read" /\ request[c].item = i /\ Unlocked(i)
    /\ \/ /\ status[i] # "deleted"
          /\ status' = [status EXCEPT ![i] = "rejected"]
       \/ UNCHANGED status     \* no row, or a failure before the COMMIT
    /\ Goto(c, "done")
    /\ UNCHANGED <<holder, calls>>

Handle(c) ==
    \E i \in Item :
        \/ Claim(c, i) \/ Refuse(c, i) \/ ExecuteUnsent(c, i)
        \/ \E s \in {"approved", "failed"} : Execute(c, i, s)
        \/ Commit(c, i) \/ RollBack(c, i)
        \/ RejectResponse(c, i) \/ ReadPending(c, i) \/ RejectRunbook(c, i)

Next ==
    \/ \E i \in Item : Create(i) \/ DeleteRunbook(i)
    \/ \E c \in Caller, o \in Operation, i \in Item : Receive(c, o, i)
    \/ \E c \in Caller : Handle(c)

Spec == Init /\ [][Next]_vars

\* The handler is inside ExecuteSSH.  Only the dial has a timeout: neither
\* session.Run nor the wait for the second connection that the host-key
\* callback takes from the pool need ever end.
InSession(c) == pc[c] = "locked" /\ request[c].item \in Runbook

\* A handler that can take a step takes one (PostgreSQL hands the lock on, and
\* the vendor clients have timeouts), but not while a session is open: that
\* holds a row lock and a connection of the pool the others wait for.
Fairness ==
    \A c \in Caller : WF_vars(Handle(c) /\ \A d \in Caller : ~InSession(d))

-----------------------------------------------------------------------------
(* Properties.                                                             *)

\* Rows and calls stay within the schema and the handlers' variables.
TypeOK ==
    /\ status \in [Item -> Status]
    /\ holder \in [Item -> Caller \cup {None}]
    /\ pc \in [Caller -> CallStep]
    /\ request \in [Caller -> Call \cup {None}]
    /\ \A c \in Caller : request[c] = None => pc[c] = "idle"
    /\ result \in [Caller -> {"approved", "failed"}]
    /\ calls \in [Item -> Nat]

Claimant(i) ==
    IF Unlocked(i) THEN "free"
    ELSE IF pc[holder[i]] = "called" THEN "acted" ELSE "claimed"

Gate == INSTANCE ApprovalGate WITH
    Item <- Response,
    decision <- [i \in Response |-> status[i]],
    claim <- [i \in Response |-> Claimant(i)],
    calls <- [i \in Response |-> calls[i]]

\* Containment requests pass the gate: concurrent approvals and rejections of
\* one request, failures included, call the vendor for a pending request
\* only, once per approval, and decide it once.
ImplementsGate == Gate!GateSpec

\* An action of either queue, runbooks included, is executed only while its
\* committed row says pending: no approval acts on a request that was
\* decided, or deleted with its runbook, after the approval read it.
ExecutedWhilePending ==
    [][\A i \in Item : calls'[i] # calls[i] => status[i] = "pending"]_vars

\* Nothing but a runbook's SSH session can keep a call waiting: unless from
\* some moment on there is always one open, every call on either queue is
\* answered, whatever locks it waits for and wherever their holders fail.
EveryCallReturns ==
    []<>(\A d \in Caller : ~InSession(d)) =>
        \A c \in Caller : pc[c] = "received" ~> pc[c] = "done"
=============================================================================
