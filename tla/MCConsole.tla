------------------------------- MODULE MCConsole -------------------------------
(***************************************************************************)
(* Access and Hub in one run.  They share no state, so a behaviour is about*)
(* one of them: accounts and requests, or the live feed.                   *)
(***************************************************************************)
EXTENDS Access

CONSTANTS Client, Cap, MaxMessages

VARIABLES
    part,
    phase, tenantIDs, listed, run, round, buffer, closed, open, once, told,
    reader, writer, feed, sent, lost, panicked

Feed == INSTANCE Hub WITH tenants <- listed

feedVars == <<phase, tenantIDs, listed, run, round, buffer, closed, open, once, told,
              reader, writer, feed, sent, lost, panicked>>
consoleVars == <<part, vars, feedVars>>

ConsoleInit ==
    /\ part \in {"access", "feed"}
    /\ Init /\ Feed!Init
    /\ part = "feed" => tenants = {}

ConsoleNext ==
    \/ part = "access" /\ Next /\ UNCHANGED <<part, feedVars>>
    \/ part = "feed" /\ Feed!Next /\ UNCHANGED <<part, vars>>

ConsoleSpec == ConsoleInit /\ [][ConsoleNext]_consoleVars /\ Feed!Fairness

NoPanic == Feed!NoPanic
NoZombie == Feed!NoZombie
=============================================================================
