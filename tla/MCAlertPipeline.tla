-------------------------- MODULE MCAlertPipeline --------------------------
(* Small instances of AlertPipeline for TLC.                               *)
EXTENDS AlertPipeline, TLC

\* Interchangeable ids.  Only invariants and action properties are checked
\* under this symmetry.
Symmetry ==
    Permutations(Worker) \cup Permutations(Request) \cup
    Permutations(Event) \cup Permutations(Incident)

\* Every handler that cannot delete a row.
Operators == {"ack_alert", "reopen_alert", "resolve_alert", "ack_incident",
              "resolve_incident"}
\* Those that write incidents, and the one that deletes alerts.
Deciders == {"resolve_alert", "ack_incident", "resolve_incident", "cleanup"}

OneSeverity == {3}
TwoSeverities == {2, 3}
=============================================================================
