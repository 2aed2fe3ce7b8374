--------------------------- MODULE BoundedStaleness ---------------------------
(***************************************************************************)
(* What a cache in front of a table promises: an answer given from it was  *)
(* true of the table less than bound ago.  APIKeyAuth in front of          *)
(* tenant_api_keys and loadSuppressionRules in front of                    *)
(* tenant_suppression_rules implement it (IngestGuard).                    *)
(***************************************************************************)
EXTENDS Integers

CONSTANT Client  \* those who ask

VARIABLES
    bound,      \* how stale an answer may be
    now,        \* the clock
    valid,      \* the row is in the table
    lastValid,  \* the last time it was
    served      \* the clients that were told that it is

vars == <<bound, now, valid, lastValid, served>>

Init ==
    /\ bound \in Nat
    /\ now = 0
    /\ valid \in BOOLEAN
    /\ lastValid = IF valid THEN 0 ELSE -bound
    /\ served = {}

Tick ==
    /\ now' = now + 1
    /\ lastValid' = IF valid THEN now' ELSE lastValid
    /\ UNCHANGED <<bound, valid, served>>

Insert ==
    /\ valid' = TRUE
    /\ lastValid' = now
    /\ UNCHANGED <<bound, now, served>>

Remove ==
    /\ valid' = FALSE
    /\ UNCHANGED <<bound, now, lastValid, served>>

Serve(c) ==
    /\ now - lastValid < bound
    /\ served' = served \cup {c}
    /\ UNCHANGED <<bound, now, valid, lastValid>>

Leave(c) ==
    /\ served' = served \ {c}
    /\ UNCHANGED <<bound, now, valid, lastValid>>

Next ==
    \/ Tick \/ Insert \/ Remove
    \/ \E c \in Client : Serve(c) \/ Leave(c)

Spec == Init /\ [][Next]_vars
=============================================================================
