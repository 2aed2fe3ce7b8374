-------------------------- MODULE IncidentRegistry --------------------------
(***************************************************************************)
(* What the incident table promises, seen from outside any transaction:    *)
(* the life of an incident as its migration and its handlers describe it.  *)
(* No worker, lock or transaction appears; AlertPipeline implements it.    *)
(***************************************************************************)
EXTENDS Naturals

CONSTANTS Incident, Fingerprint, None

VARIABLES
    registry,   \* incident id -> its fingerprint, status and alert count
    gone        \* ids of incidents deleted by retention

rvars == <<registry, gone>>

Entry == [fp: Fingerprint, status: {"open", "acknowledged", "resolved"}, count: Nat]

Active(i) == registry[i] # None /\ registry[i].status # "resolved"

RegistryInit ==
    /\ registry = [i \in Incident |-> None]
    /\ gone = {}

\* A fingerprint without an active incident gets one, for its first alert.
Open(i, f) ==
    /\ registry[i] = None /\ i \notin gone
    /\ \A j \in Incident : Active(j) => registry[j].fp # f
    /\ registry' = [registry EXCEPT ![i] = [fp |-> f, status |-> "open", count |-> 1]]
    /\ UNCHANGED gone

\* One more alert.  The incident may have been resolved while the alert was
\* on its way.
Attach(i) ==
    /\ registry[i] # None
    /\ registry' = [registry EXCEPT ![i].count = @ + 1]
    /\ UNCHANGED gone

Acknowledge(i) ==
    /\ Active(i)
    /\ registry' = [registry EXCEPT ![i].status = "acknowledged"]
    /\ UNCHANGED gone

Resolve(i) ==
    /\ Active(i)
    /\ registry' = [registry EXCEPT ![i].status = "resolved"]
    /\ UNCHANGED gone

\* Retention takes resolved incidents only.
Prune(S) ==
    /\ \A i \in S : registry[i] # None /\ ~Active(i)
    /\ registry' = [i \in Incident |-> IF i \in S THEN None ELSE registry[i]]
    /\ gone' = gone \cup S

RegistryNext ==
    \/ \E i \in Incident :
          \/ \E f \in Fingerprint : Open(i, f)
          \/ Attach(i) \/ Acknowledge(i) \/ Resolve(i)
    \/ \E S \in SUBSET Incident : Prune(S)

RegistrySpec == RegistryInit /\ [][RegistryNext]_rvars
=============================================================================
