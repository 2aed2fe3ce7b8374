------------------------------ MODULE MCIngest ------------------------------
(***************************************************************************)
(* What an event passes on its way in (IngestGuard), and the watch over the*)
(* source it comes from (Telemetry).  The two share no state: a behaviour  *)
(* is about one of them, and the other stands still.  Requests are as      *)
(* interchangeable as rows.                                                *)
(***************************************************************************)
EXTENDS MCTelemetry, IngestGuard

VARIABLE part   \* what this behaviour is about

ingestVars == <<part, vars, guardVars>>

IngestInit ==
    /\ part \in {"guard", "watch"}
    /\ Init /\ GuardInit
    /\ part = "guard" => source = "unknown" /\ heard = None
    /\ part = "watch" => table = "keys" /\ row

IngestNext ==
    \/ part = "guard" /\ GuardNext /\ UNCHANGED <<part, vars>>
    \/ part = "watch" /\ Next /\ UNCHANGED <<part, guardVars>>

IngestSymmetry == Permutations(Row) \cup Permutations(Client)

IngestSpec == IngestInit /\ [][IngestNext]_ingestVars
=============================================================================
