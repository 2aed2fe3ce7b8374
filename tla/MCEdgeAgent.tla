------------------------------ MODULE MCEdgeAgent ------------------------------
(***************************************************************************)
(* Enrollment and EdgeAgent in one run.  A behaviour is about one of them: *)
(* what the cycle needs of enrollment is a key on disk.  That of a target  *)
(* too large for one request is without discovery and traffic, which do    *)
(* not depend on it.                                                       *)
(***************************************************************************)
EXTENDS Enrollment

CONSTANTS Check, Width, MaxOctets

\* Counters wrap, and no check is called like the event of a silent device.
\* No row is not an answer.
ASSUME AgentAssumption ==
    /\ Width \in Nat \ {0} /\ MaxOctets \in Nat
    /\ IsFiniteSet(Check) /\ "unreachable" \notin Check
    /\ None \notin {"named", "partial"}

VARIABLES
    part,
    up, hot, counter, targets, ranges, fits, at, cfg, events, prev, due, batch, pushed,
    rate, row, moved, garbled

Agent == INSTANCE EdgeAgent

agentVars == <<up, hot, counter, targets, ranges, fits, at, cfg, events, prev, due, batch,
               pushed, rate, row, moved, garbled>>
mcVars == <<part, vars, agentVars>>

MCInit ==
    /\ part \in {"enroll", "cycle", "large"}
    /\ Init /\ Agent!Init
    /\ part = "enroll" => up /\ targets /\ ranges
    /\ fits = (part # "large")
    /\ part = "large" => ~ranges

MCNext ==
    \/ part = "enroll" /\ Next /\ UNCHANGED <<part, agentVars>>
    \/ /\ part \in {"cycle", "large"}
       /\ part = "large" => UNCHANGED <<ranges, row, counter>>
       /\ Agent!Next
       /\ UNCHANGED <<part, vars>>

MCSpec == MCInit /\ [][MCNext]_mcVars /\ Agent!Fairness

TopologyHonest == Agent!TopologyHonest
BreachReported == Agent!BreachReported
=============================================================================
