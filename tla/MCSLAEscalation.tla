--------------------------- MODULE MCSLAEscalation ---------------------------
(***************************************************************************)
(* Instances of SLAEscalation for TLC.  One replica runs with faults, and  *)
(* with operators, targets and on-call tables that change; several run over*)
(* an open incident, as all they do to each other goes through its flags.  *)
(***************************************************************************)
EXTENDS SLAEscalation

T(a, r) == [mtta |-> a, mttr |-> r]

\* Every incident has the one severity, with a tick between its two targets.
MCSeverityOf == [i \in Incident |-> CHOOSE s \in Severity : TRUE]
MCDefault == [s \in Severity |-> T(1, 2)]
\* One valid target, one with the two values swapped, one of zero.
MCCustom == {T(2, 2), T(2, 1), T(0, 1)}
\* One schedule; each shift has its own person.
MCScheduleOf == [s \in Shift |-> CHOOSE c \in Schedule : TRUE]
MCUserOf == [s \in Shift |-> s]

First == CHOOSE m \in Monitor : TRUE

MCInit == Init /\ First \in replicas

SeveralStandStill ==
    Cardinality(replicas) > 1 =>
        /\ UNCHANGED <<override, oncall, faults>>
        /\ \A i \in Incident : status'[i] \in {status[i], "open"}

MCSpec == MCInit /\ [][Next /\ SeveralStandStill]_vars /\ Fairness

=============================================================================
