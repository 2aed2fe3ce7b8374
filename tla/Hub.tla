---------------------------------- MODULE Hub ----------------------------------
(***************************************************************************)
(* The live feed of the console (ws/hub.go, ws/ws_handler.go).  One        *)
(* goroutine, Run, owns the map of clients; a multiplexer reads the Redis  *)
(* channel of every tenant and broadcasts to its clients under the read    *)
(* lock; each client has a buffered channel, a reader and a writer.        *)
(* Several of them may find at once that a client has to go.               *)
(*                                                                         *)
(* A message is a unit of its client's buffer: its text does not matter.   *)
(* A broadcast visits its clients in any order, as Go ranges over a map.   *)
(***************************************************************************)
EXTENDS Naturals, FiniteSets

CONSTANTS
    Client,      \* connections; a new connection is a new one
    Tenant,
    Cap,         \* capacity of Client.Send
    MaxMessages  \* bound on the messages published

VARIABLES
    phase,      \* per client: new, registering (blocked on hub.register), serving
    tenantIDs,  \* per client: the tenants it was let in for
    tenants,    \* Hub.tenants: the clients of each tenant
    run,        \* what Run is doing, and for whom
    round,      \* clients the broadcast under way has yet to visit: it holds the read lock
    buffer,     \* messages in Client.Send
    closed,     \* Client.Send was closed
    open,       \* Client.Conn is
    once,       \* Client.once: no, asking (blocked on hub.unregister), handed, done
    told,       \* a broadcast started a goroutine to disconnect the client
    reader, writer,  \* the client's pumps: running or not
    feed,       \* the multiplexer is subscribed
    sent,       \* messages published
    lost,       \* clients a broadcast skipped
    panicked

link == <<buffer, closed, open, once, told, reader, writer, lost, panicked>>
vars == <<phase, tenantIDs, tenants, run, round, feed, sent, link>>

Idle == [at |-> "select"]

Init ==
    /\ phase = [c \in Client |-> "new"]
    /\ tenantIDs = [c \in Client |-> {}]
    /\ tenants = [t \in Tenant |-> {}]
    /\ run = Idle
    /\ round = {}
    /\ buffer = [c \in Client |-> 0]
    /\ closed = [c \in Client |-> FALSE]
    /\ open = [c \in Client |-> FALSE]
    /\ once = [c \in Client |-> "no"]
    /\ told = [c \in Client |-> FALSE]
    /\ reader = [c \in Client |-> FALSE]
    /\ writer = [c \in Client |-> FALSE]
    /\ feed = TRUE
    /\ sent = 0
    /\ lost = {}
    /\ panicked = FALSE

\* GetActiveUsers: each client once, whatever tenants it is listed under.
Online == UNION {tenants[t] : t \in Tenant}

-----------------------------------------------------------------------------
(* Joining.                                                                *)

\* ServeWS lets a client in for some tenants, upgrades the connection, and
\* waits for Run to take the client.
ServeWS(c, ids) ==
    /\ phase[c] = "new"
    /\ phase' = [phase EXCEPT ![c] = "registering"]
    /\ tenantIDs' = [tenantIDs EXCEPT ![c] = ids]
    /\ open' = [open EXCEPT ![c] = TRUE]
    /\ UNCHANGED <<tenants, run, round, feed, sent, buffer, closed, once, told,
                   reader, writer, lost, panicked>>

\* Run takes it, and ServeWS goes on to start the pumps.
TakeRegister(c) ==
    /\ run = Idle /\ phase[c] = "registering"
    /\ run' = [at |-> "register", client |-> c]
    /\ phase' = [phase EXCEPT ![c] = "serving"]
    /\ reader' = [reader EXCEPT ![c] = TRUE]
    /\ writer' = [writer EXCEPT ![c] = TRUE]
    /\ UNCHANGED <<tenantIDs, tenants, round, feed, sent, buffer, closed, open, once, told,
                   lost, panicked>>

Register ==
    /\ run.at = "register" /\ round = {}
    /\ tenants' = [t \in Tenant |->
          IF t \in tenantIDs[run.client] THEN tenants[t] \cup {run.client} ELSE tenants[t]]
    /\ run' = Idle
    /\ UNCHANGED <<phase, tenantIDs, round, feed, sent, link>>

-----------------------------------------------------------------------------
(* Leaving.                                                                *)

\* ForceDisconnect, by the reader that ended or by a broadcast's goroutine:
\* the first one in asks Run to unregister the client.
ForceDisconnect(c) ==
    /\ once[c] = "no"
    /\ told[c] \/ (phase[c] = "serving" /\ ~reader[c])
    /\ once' = [once EXCEPT ![c] = "asking"]
    /\ UNCHANGED <<phase, tenantIDs, tenants, run, round, feed, sent, buffer, closed, open, told,
                   reader, writer, lost, panicked>>

TakeUnregister(c) ==
    /\ run = Idle /\ once[c] = "asking"
    /\ run' = [at |-> "unregister", client |-> c]
    /\ once' = [once EXCEPT ![c] = "handed"]
    /\ UNCHANGED <<phase, tenantIDs, tenants, round, feed, sent, buffer, closed, open, told,
                   reader, writer, lost, panicked>>

\* Fault: only the first tenant of the client is looked at.
FaultOneTenant ==
    /\ run.at = "unregister" /\ round = {}
    /\ \E f \in tenantIDs[run.client] : tenants' = [tenants EXCEPT ![f] = @ \ {run.client}]
    /\ panicked' = (panicked \/ closed[run.client])
    /\ closed' = [closed EXCEPT ![run.client] = TRUE]
    /\ run' = Idle
    /\ UNCHANGED <<phase, tenantIDs, round, feed, sent, buffer, open, once, told,
                   reader, writer, lost>>

\* Under the write lock: out of every tenant, and the channel is closed.
Unregister ==
    /\ run.at = "unregister" /\ round = {}
    /\ tenants' = [t \in Tenant |->
          IF t \in tenantIDs[run.client] THEN tenants[t] \ {run.client} ELSE tenants[t]]
    /\ panicked' = (panicked \/ closed[run.client])
    /\ closed' = [closed EXCEPT ![run.client] = TRUE]
    /\ run' = Idle
    /\ UNCHANGED <<phase, tenantIDs, round, feed, sent, buffer, open, once, told,
                   reader, writer, lost>>

\* The rest of ForceDisconnect.
CloseConn(c) ==
    /\ once[c] = "handed"
    /\ once' = [once EXCEPT ![c] = "done"]
    /\ open' = [open EXCEPT ![c] = FALSE]
    /\ UNCHANGED <<phase, tenantIDs, tenants, run, round, feed, sent, buffer, closed, told,
                   reader, writer, lost, panicked>>

\* Shutdown: Run closes the connections that are registered, and returns.
TakeDone ==
    /\ run = Idle
    /\ run' = [at |-> "stopping"]
    /\ UNCHANGED <<phase, tenantIDs, tenants, round, feed, sent, link>>

Stop ==
    /\ run.at = "stopping" /\ round = {}
    /\ open' = [c \in Client |-> open[c] /\ c \notin Online]
    /\ run' = [at |-> "stopped"]
    /\ UNCHANGED <<phase, tenantIDs, tenants, round, feed, sent, buffer, closed, once, told,
                   reader, writer, lost, panicked>>

-----------------------------------------------------------------------------
(* Messages.                                                               *)

\* A message of a tenant: BroadcastToTenant takes the read lock.  Nobody hears
\* of one that is published while the multiplexer waits to subscribe again.
Publish(t) ==
    /\ sent < MaxMessages /\ round = {}
    /\ sent' = sent + 1
    /\ round' = IF feed THEN tenants[t] ELSE {}
    /\ UNCHANGED <<phase, tenantIDs, tenants, run, feed, link>>

\* Fault: ForceDisconnect is called by the broadcast itself, which holds the
\* read lock until Run has taken the client.
FaultInline(c) ==
    /\ c \in round
    /\ \/ /\ c \notin lost /\ ~closed[c]
          /\ IF buffer[c] < Cap
             THEN /\ buffer' = [buffer EXCEPT ![c] = @ + 1] /\ round' = round \ {c}
                  /\ UNCHANGED lost
             ELSE /\ lost' = lost \cup {c} /\ UNCHANGED <<buffer, round>>
          /\ UNCHANGED <<run, once, open>>
       \/ /\ c \in lost /\ once[c] = "no" /\ run = Idle
          /\ run' = [at |-> "unregister", client |-> c]
          /\ once' = [once EXCEPT ![c] = "done"] /\ open' = [open EXCEPT ![c] = FALSE]
          /\ round' = round \ {c}
          /\ UNCHANGED <<buffer, lost>>
       \/ /\ c \in lost /\ once[c] # "no"
          /\ round' = round \ {c}
          /\ UNCHANGED <<run, once, open, buffer, lost>>
    /\ UNCHANGED <<phase, tenantIDs, tenants, feed, sent, closed, told, reader, writer, panicked>>

\* A send that would block disconnects the client instead.
Visit(c) ==
    /\ c \in round
    /\ round' = round \ {c}
    /\ \/ closed[c] /\ panicked' = TRUE /\ UNCHANGED <<buffer, told, lost>>
       \/ /\ ~closed[c] /\ buffer[c] < Cap
          /\ buffer' = [buffer EXCEPT ![c] = @ + 1]
          /\ UNCHANGED <<told, lost, panicked>>
       \/ /\ ~closed[c] /\ buffer[c] = Cap
          /\ told' = [told EXCEPT ![c] = TRUE]
          /\ lost' = lost \cup {c}
          /\ UNCHANGED <<buffer, panicked>>
    /\ UNCHANGED <<phase, tenantIDs, tenants, run, feed, sent, closed, open, once, reader, writer>>

\* StartGlobalPubSubMultiplexer loses its channel, waits, and subscribes again.
LoseFeed ==
    /\ feed /\ round = {}
    /\ feed' = FALSE
    /\ UNCHANGED <<phase, tenantIDs, tenants, run, round, sent, link>>

Resubscribe ==
    /\ ~feed
    /\ feed' = TRUE
    /\ UNCHANGED <<phase, tenantIDs, tenants, run, round, sent, link>>

-----------------------------------------------------------------------------
(* The pumps.                                                              *)

\* readPump: the peer left, did not answer a ping, or the connection is closed.
EndRead(c) ==
    /\ reader[c]
    /\ reader' = [reader EXCEPT ![c] = FALSE]
    /\ UNCHANGED <<phase, tenantIDs, tenants, run, round, feed, sent, buffer, closed, open, once,
                   told, writer, lost, panicked>>

\* writePump writes what is left in the channel, closed or not.
Write(c) ==
    /\ writer[c] /\ open[c] /\ buffer[c] > 0
    /\ buffer' = [buffer EXCEPT ![c] = @ - 1]
    /\ UNCHANGED <<phase, tenantIDs, tenants, run, round, feed, sent, closed, open, once, told,
                   reader, writer, lost, panicked>>

\* A write, a ping or the last frame ends it, with the connection: the peer is
\* slower than the deadline, the connection is closed, or the channel is.
EndWrite(c) ==
    /\ writer[c]
    /\ writer' = [writer EXCEPT ![c] = FALSE]
    /\ open' = [open EXCEPT ![c] = FALSE]
    /\ UNCHANGED <<phase, tenantIDs, tenants, run, round, feed, sent, buffer, closed, once, told,
                   reader, lost, panicked>>

Take == \E c \in Client : TakeRegister(c) \/ TakeUnregister(c)
Locked == Register \/ Unregister \/ Stop

Next ==
    \/ \E c \in Client :
        \/ \E ids \in SUBSET Tenant \ {{}} : ServeWS(c, ids)
        \/ ForceDisconnect(c) \/ CloseConn(c) \/ Visit(c)
        \/ EndRead(c) \/ Write(c) \/ EndWrite(c)
    \/ Take \/ TakeDone \/ Locked
    \/ \E t \in Tenant : Publish(t)
    \/ LoseFeed \/ Resubscribe

\* Run returns to its select; the write lock is granted to one that keeps asking,
\* since sync.RWMutex lets no new reader pass it; goroutines go on; a pump whose
\* connection or channel was closed notices.
Fairness ==
    /\ WF_vars(Take) /\ SF_vars(Locked)
    /\ \A c \in Client :
        /\ WF_vars(ForceDisconnect(c)) /\ WF_vars(CloseConn(c)) /\ WF_vars(Visit(c))
        /\ WF_vars(~open[c] /\ EndRead(c)) /\ WF_vars((~open[c] \/ closed[c]) /\ EndWrite(c))

Spec == Init /\ [][Next]_vars /\ Fairness

-----------------------------------------------------------------------------
(* Properties.                                                             *)

\* Neither a broadcast nor a second unregistration ever meets a channel that
\* was closed, which would bring the whole process down (BroadcastToTenant and
\* the unregister case of Run).
NoPanic == ~panicked

\* A client that a broadcast skipped, or whose connection is gone, loses its
\* connection for good and is off the list of active users, unless the hub has
\* stopped: nobody keeps looking at a feed with a hole in it, and nothing that
\* notices it can wait for Run while Run waits for it (ForceDisconnect).
NoZombie ==
    \A c \in Client :
        (c \in lost \/ (phase[c] = "serving" /\ ~open[c]))
            ~> [](~open[c] /\ (c \notin Online \/ run.at = "stopped"))
=============================================================================
