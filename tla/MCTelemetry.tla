---------------------------- MODULE MCTelemetry ----------------------------
(***************************************************************************)
(* The rows are interchangeable: their ids are fresh and never compared.   *)
(* What time does to a source depends on its kind alone: fed by a handler, *)
(* by the poller or by the endpoint without a heartbeat, watched or not.   *)
(* Every type is run for ShortTime periods, one of each kind to the end.   *)
(***************************************************************************)
EXTENDS Telemetry, TLC

RowSymmetry == Permutations(Row)

ShortTime == 2
OneOfEachKind == {"wazuh", "sentinel", "generic", "pagerduty"}
KindBound == source \in OneOfEachKind \/ now <= ShortTime
=============================================================================
