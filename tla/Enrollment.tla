------------------------------ MODULE Enrollment ------------------------------
(***************************************************************************)
(* How noc-agent gets its credentials (cmd/noc-agent/main.go,              *)
(* agent/client.go, api/agent_handler.go).  An administrator mints a token *)
(* that is good for one enrollment within an hour; the agent exchanges it  *)
(* for an API key, which it keeps in a file.  The agent gives up on a      *)
(* request after a while and is started again by its supervisor, with the  *)
(* same token, while the server may still be at work on the first request. *)
(*                                                                         *)
(* A token's key and its row in agents are named by the request that made  *)
(* them.                                                                   *)
(***************************************************************************)
EXTENDS Naturals, FiniteSets

CONSTANTS Host, Token, Request, None

VARIABLES
    token,    \* agent_enrollment_tokens: absent, open, expired, used
    agents,   \* rows of agents, each with its API key: the request that made it
    live,     \* the API keys that were not revoked
    req,      \* the requests sent: the token and host of each, and how far it is
    proc,     \* the agent process of a host
    waits,    \* the request it waits for
    key,      \* the API key it holds
    disk      \* the API key in its state file

vars == <<token, agents, live, req, proc, waits, key, disk>>

Init ==
    /\ token = [k \in Token |-> "absent"]
    /\ agents = {}
    /\ live = {}
    /\ req = <<>>
    /\ proc = [h \in Host |-> "down"]
    /\ waits = [h \in Host |-> None]
    /\ key = [h \in Host |-> None]
    /\ disk = [h \in Host |-> None]

-----------------------------------------------------------------------------
(* The server.                                                             *)

HandleCreateEnrollmentToken(k) ==
    /\ token[k] = "absent"
    /\ token' = [token EXCEPT ![k] = "open"]
    /\ UNCHANGED <<agents, live, req, proc, waits, key, disk>>

\* agentEnrollmentTTL has passed.
Expire(k) ==
    /\ token[k] = "open"
    /\ token' = [token EXCEPT ![k] = "expired"]
    /\ UNCHANGED <<agents, live, req, proc, waits, key, disk>>

\* HandleEnrollAgent first looks the token up.
LookUp(r) ==
    /\ r \in DOMAIN req /\ req[r].at = "sent"
    /\ req' = [req EXCEPT ![r].at = IF token[req[r].token] = "open" THEN "found" ELSE "refused"]
    /\ UNCHANGED <<token, agents, live, proc, waits, key, disk>>

\* Fault: the claim does not look at used_at again.
FaultUnused(k) == token[k] # "absent"

\* The claim asks that used_at is still null; not for expires_at again.
Unused(k) == token[k] \in {"open", "expired"}

\* Then, in one transaction: claim it, unless somebody else has; make the key
\* and the agent.  The transaction may fail as a whole.
Claim(r) ==
    /\ r \in DOMAIN req /\ req[r].at = "found"
    /\ \/ /\ Unused(req[r].token)
          /\ token' = [token EXCEPT ![req[r].token] = "used"]
          /\ agents' = agents \cup {r}
          /\ live' = live \cup {r}
          /\ req' = [req EXCEPT ![r].at = "granted"]
       \/ /\ req' = [req EXCEPT ![r].at = "refused"]
          /\ UNCHANGED <<token, agents, live>>
    /\ UNCHANGED <<proc, waits, key, disk>>

\* An administrator deletes the key; the row of the agent stays.
RevokeKey(r) ==
    /\ r \in live
    /\ live' = live \ {r}
    /\ UNCHANGED <<token, agents, req, proc, waits, key, disk>>

-----------------------------------------------------------------------------
(* The agent.                                                              *)

\* main: with a state file it is ready at once, without one it enrolls.
Load(h) ==
    /\ proc[h] = "down" /\ disk[h] # None
    /\ proc' = [proc EXCEPT ![h] = "running"]
    /\ key' = [key EXCEPT ![h] = disk[h]]
    /\ UNCHANGED <<token, agents, live, req, waits, disk>>

Enroll(h, r, k) ==
    /\ proc[h] = "down" /\ disk[h] = None
    /\ r \notin DOMAIN req /\ token[k] # "absent"
    /\ req' = [s \in DOMAIN req \cup {r} |->
                  IF s = r THEN [token |-> k, host |-> h, at |-> "sent"] ELSE req[s]]
    /\ proc' = [proc EXCEPT ![h] = "enrolling"]
    /\ waits' = [waits EXCEPT ![h] = r]
    /\ UNCHANGED <<token, agents, live, key, disk>>

\* The answer: the key, or a refusal, which ends the process.
Answered(h) ==
    /\ proc[h] = "enrolling"
    /\ \/ /\ req[waits[h]].at = "granted"
          /\ proc' = [proc EXCEPT ![h] = "saving"]
          /\ key' = [key EXCEPT ![h] = waits[h]]
       \/ /\ req[waits[h]].at = "refused"
          /\ proc' = [proc EXCEPT ![h] = "down"]
          /\ UNCHANGED key
    /\ waits' = [waits EXCEPT ![h] = None]
    /\ UNCHANGED <<token, agents, live, req, disk>>

\* saveState; without it the process ends.
SaveState(h) ==
    /\ proc[h] = "saving"
    /\ disk' = [disk EXCEPT ![h] = key[h]]
    /\ proc' = [proc EXCEPT ![h] = "running"]
    /\ UNCHANGED <<token, agents, live, req, waits, key>>

\* No answer in time, a state file that cannot be written, or a crash.
Die(h) ==
    /\ proc[h] # "down"
    /\ proc' = [proc EXCEPT ![h] = "down"]
    /\ waits' = [waits EXCEPT ![h] = None]
    /\ key' = [key EXCEPT ![h] = None]
    /\ UNCHANGED <<token, agents, live, req, disk>>

Next ==
    \/ \E k \in Token : HandleCreateEnrollmentToken(k) \/ Expire(k)
    \/ \E r \in Request : LookUp(r) \/ Claim(r) \/ RevokeKey(r)
    \/ \E h \in Host :
        \/ Load(h) \/ Answered(h) \/ SaveState(h) \/ Die(h)
        \/ \E r \in Request, k \in Token : Enroll(h, r, k)

Spec == Init /\ [][Next]_vars

-----------------------------------------------------------------------------
(* Properties.                                                             *)

\* However often a token is presented, and however requests for it overlap,
\* time out and are repeated, it makes one agent and one key, and one host at
\* most holds that key (HandleEnrollAgent's claim of used_at).
OneAgentPerToken ==
    /\ \A r, s \in agents : req[r].token = req[s].token => r = s
    /\ \A g, h \in Host :
          g # h => {key[g], disk[g]} \cap {key[h], disk[h]} \subseteq {None}
    /\ live \subseteq agents
=============================================================================
