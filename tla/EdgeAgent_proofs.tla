-------------------------- MODULE EdgeAgent_proofs --------------------------
(***************************************************************************)
(* One agent per token, for any number of hosts, tokens and requests: the  *)
(* claim of a token turns it into a used one for good, and a key is known  *)
(* to the host that sent the request it was made for.  And nothing made up *)
(* in what an agent reports, for counters of any width.                    *)
(***************************************************************************)
EXTENDS MCEdgeAgent, TLAPS

Pending == [token: Token, host: Host, at: {"sent", "found", "granted", "refused"}]

EnrollTyped ==
    /\ token \in [Token -> {"absent", "open", "expired", "used"}]
    /\ DOMAIN req \subseteq Request
    /\ \A r \in DOMAIN req : req[r] \in Pending
    /\ proc \in [Host -> {"down", "enrolling", "saving", "running"}]
    /\ DOMAIN waits = Host /\ DOMAIN key = Host /\ DOMAIN disk = Host

\* An agent is the one grant of its token.
Granted ==
    /\ \A r \in agents : /\ r \in DOMAIN req
                         /\ req[r].at = "granted" /\ token[req[r].token] = "used"
    /\ \A r \in DOMAIN req : req[r].at = "granted" => r \in agents
    /\ \A r, s \in agents : req[r].token = req[s].token => r = s
    /\ live \subseteq agents

\* A host waits for an answer to its own request, and has a key it was given.
Owned(k, h) == k # None => k \in agents /\ req[k].host = h

Known ==
    \A h \in Host :
        /\ proc[h] = "enrolling" => waits[h] \in DOMAIN req /\ req[waits[h]].host = h
        /\ Owned(key[h], h) /\ Owned(disk[h], h)

EnrollInv == EnrollTyped /\ Granted /\ Known

LEMMA InitEnroll == Init => EnrollInv
  BY DEF Init, EnrollInv, EnrollTyped, Granted, Known, Owned

LEMMA StepEnroll == EnrollInv /\ [Next]_vars => EnrollInv'
<1> SUFFICES ASSUME EnrollInv, [Next]_vars PROVE EnrollInv'
  OBVIOUS
<1> USE DEF EnrollInv, EnrollTyped, Pending
<1>1. ASSUME NEW k \in Token, HandleCreateEnrollmentToken(k) \/ Expire(k)
      PROVE  EnrollInv'
  BY <1>1 DEF HandleCreateEnrollmentToken, Expire, Granted, Known, Owned
<1>2. ASSUME NEW r \in Request, LookUp(r) PROVE EnrollInv'
  BY <1>2 DEF LookUp, Granted, Known, Owned
<1>3. ASSUME NEW r \in Request, Claim(r) PROVE EnrollInv'
  BY <1>3 DEF Claim, Unused, Granted, Known, Owned
<1>4. ASSUME NEW r \in Request, RevokeKey(r) PROVE EnrollInv'
  BY <1>4 DEF RevokeKey, Granted, Known, Owned
<1>5. ASSUME NEW h \in Host, Load(h) \/ SaveState(h) \/ Die(h)
      PROVE  EnrollInv'
  BY <1>5 DEF Load, SaveState, Die, Granted, Known, Owned
<1>6. ASSUME NEW h \in Host, Answered(h) PROVE EnrollInv'
  BY <1>6 DEF Answered, Granted, Known, Owned
<1>7. ASSUME NEW h \in Host, NEW r \in Request, NEW k \in Token, Enroll(h, r, k)
      PROVE  EnrollInv'
  BY <1>7 DEF Enroll, Granted, Known, Owned
<1>8. CASE UNCHANGED vars
  BY <1>8 DEF vars, Granted, Known, Owned
<1> QED
  BY <1>1, <1>2, <1>3, <1>4, <1>5, <1>6, <1>7, <1>8 DEF Next

LEMMA OneAgent == EnrollInv => OneAgentPerToken
<1> SUFFICES ASSUME EnrollInv PROVE OneAgentPerToken
  OBVIOUS
<1>1. ASSUME NEW g \in Host, NEW h \in Host, g # h,
             NEW k \in {key[g], disk[g]}, k \in {key[h], disk[h]}
      PROVE  k = None
  BY <1>1 DEF EnrollInv, Known, Owned
<1> QED
  BY <1>1 DEF EnrollInv, Granted, OneAgentPerToken

\* A token makes one agent and one key at most, known to one host, however its
\* requests overlap, are repeated or lose their answers.
THEOREM TokenUsedOnce == Spec => []OneAgentPerToken
  BY InitEnroll, StepEnroll, OneAgent, PTL DEF Spec

-----------------------------------------------------------------------------
(* The cycle of an enrolled agent.                                         *)

\* Since a walk that read the counter, it has grown by what has moved at most:
\* a reset or a wrap only takes away.
Metered ==
    /\ counter \in Nat /\ moved \in Nat /\ prev \in Nat \cup {None}
    /\ prev # None /\ ~garbled => counter <= prev + moved

LEMMA Modulo ==
  ASSUME NEW n \in Nat, NEW w \in Nat \ {0}
  PROVE  n % w \in Nat /\ n % w <= n
  OBVIOUS

LEMMA InitMetered == Agent!Init => Metered
  BY DEF Agent!Init, Metered

LEMMA StepMetered == Metered /\ [Agent!Next]_Agent!vars => Metered'
<1> SUFFICES ASSUME Metered, [Agent!Next]_Agent!vars PROVE Metered'
  OBVIOUS
<1> USE DEF Metered, Agent!NoOutput, Agent!device, Agent!config, Agent!collector, Agent!output
<1>1. CASE Agent!Traffic
  <2>1. (counter + 1) % Width \in Nat /\ (counter + 1) % Width <= counter + 1
    BY Modulo, AgentAssumption
  <2> QED
    BY <1>1, <2>1 DEF Agent!Traffic
<1>2. CASE Agent!Change
  BY <1>2 DEF Agent!Change
<1>3. CASE Agent!Interfaces
  <2>1. CASE UNCHANGED Agent!collector
    BY <1>3, <2>1 DEF Agent!Interfaces
  <2>2. CASE (prev' = None \/ (prev' = 0 /\ garbled')) /\ moved' = 0
    BY <1>3, <2>2 DEF Agent!Interfaces
  <2>3. CASE prev' = counter /\ moved' = 0
    BY <1>3, <2>3 DEF Agent!Interfaces
  <2> QED
    BY <1>3, <2>1, <2>2, <2>3 DEF Agent!Interfaces
<1>4. CASE Agent!Crash
  BY <1>4 DEF Agent!Crash
<1>5. CASE \/ Agent!OtherAgent \/ Agent!HandleMutateSNMPTargets
           \/ Agent!HandleMutateDiscoveryTargets \/ Agent!Start \/ Agent!DiscoveryDue
  BY <1>5 DEF Agent!OtherAgent, Agent!HandleMutateSNMPTargets,
     Agent!HandleMutateDiscoveryTargets, Agent!Start, Agent!DiscoveryDue
<1>6. CASE \/ Agent!GetConfig \/ Agent!Collect \/ Agent!SendEvents
           \/ Agent!Sweep \/ Agent!SkipSweep \/ Agent!SendDiscovery
  BY <1>6 DEF Agent!GetConfig, Agent!Collect, Agent!SendEvents, Agent!Sweep,
     Agent!SkipSweep, Agent!SendDiscovery
<1>7. CASE UNCHANGED Agent!vars
  BY <1>7 DEF Agent!vars
<1> QED
  BY <1>1, <1>2, <1>3, <1>4, <1>5, <1>6, <1>7 DEF Agent!Next, Agent!Cycle

LEMMA StepHonest ==
  ASSUME Metered, Agent!Next
  PROVE  Agent!IdentityKept /\ Agent!RateHonest
<1>1. Agent!IdentityKept
  <2> USE DEF Agent!IdentityKept, Agent!Own
  <2>1. CASE Agent!OtherAgent
    BY <2>1, AgentAssumption DEF Agent!OtherAgent, Agent!Upsert, Agent!Own
  <2>2. CASE Agent!SendDiscovery
    BY <2>2, AgentAssumption DEF Agent!SendDiscovery, Agent!Upsert, Agent!Own
  <2>3. CASE \/ Agent!Change \/ Agent!Traffic \/ Agent!HandleMutateSNMPTargets
             \/ Agent!HandleMutateDiscoveryTargets \/ Agent!Start \/ Agent!Crash
             \/ Agent!DiscoveryDue \/ Agent!GetConfig \/ Agent!Collect
             \/ Agent!SendEvents \/ Agent!Interfaces \/ Agent!Sweep \/ Agent!SkipSweep
    BY <2>3 DEF Agent!Change, Agent!Traffic, Agent!HandleMutateSNMPTargets,
       Agent!HandleMutateDiscoveryTargets, Agent!Start, Agent!Crash, Agent!DiscoveryDue,
       Agent!GetConfig, Agent!Collect, Agent!SendEvents, Agent!Interfaces, Agent!Sweep,
       Agent!SkipSweep
  <2> QED
    BY <2>1, <2>2, <2>3 DEF Agent!Next, Agent!Cycle
<1>2. Agent!RateHonest
  <2>1. CASE Agent!Interfaces
    <3> SUFFICES ASSUME rate' # None, ~garbled PROVE rate' <= moved
      BY DEF Agent!RateHonest
    <3>1. PICK readable \in BOOLEAN :
             rate' = IF prev = None THEN 0
                     ELSE Agent!ComputeBps(prev, IF readable THEN counter ELSE 0)
      BY <2>1 DEF Agent!Interfaces
    <3>2. CASE prev = None
      BY <3>1, <3>2 DEF Metered
    <3>3. CASE prev # None
      BY <3>1, <3>3 DEF Metered, Agent!ComputeBps
    <3> QED
      BY <3>2, <3>3
  <2>2. CASE ~Agent!Interfaces
    <3>1. rate' = None
      BY <2>2 DEF Agent!Next, Agent!Cycle, Agent!NoOutput, Agent!Change, Agent!Traffic,
         Agent!HandleMutateSNMPTargets, Agent!HandleMutateDiscoveryTargets, Agent!Start,
         Agent!Crash, Agent!DiscoveryDue, Agent!GetConfig, Agent!Collect,
         Agent!SendEvents, Agent!Sweep, Agent!SkipSweep, Agent!SendDiscovery,
         Agent!OtherAgent
    <3> QED
      BY <3>1 DEF Agent!RateHonest
  <2> QED
    BY <2>1, <2>2
<1> QED
  BY <1>1, <1>2

\* Whatever resets, wraps, walks and restarts lie between two samples, no rate
\* claims more than passed; and no report turns a device that answered for itself
\* into an endpoint.
THEOREM NothingMadeUp == Agent!Spec => TopologyHonest
<1>1. Metered /\ [Agent!Next]_Agent!vars => [Agent!IdentityKept /\ Agent!RateHonest]_Agent!vars
  BY StepHonest
<1> QED
  BY InitMetered, StepMetered, <1>1, PTL DEF Agent!Spec, TopologyHonest, Agent!TopologyHonest

\* The same of the two parts in one specification.
THEOREM AgentsHold == MCSpec => []OneAgentPerToken /\ TopologyHonest
<1>1. MCInit => Init /\ Agent!Init
  BY DEF MCInit
<1>2. [MCNext]_mcVars => [Next]_vars /\ [Agent!Next]_(Agent!vars)
  BY DEF MCNext, mcVars, agentVars, Agent!vars, Agent!device, Agent!config, Agent!collector,
     Agent!output
<1>3. MCSpec => Spec /\ Agent!Spec
  BY <1>1, <1>2, PTL DEF MCSpec, Spec, Agent!Spec
<1> QED
  BY <1>3, TokenUsedOnce, NothingMadeUp, PTL
=============================================================================
