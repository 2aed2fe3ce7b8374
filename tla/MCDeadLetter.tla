---------------------------- MODULE MCDeadLetter ----------------------------
(* Values of the constants of DeadLetter.                                  *)
EXTENDS DeadLetter, TLC
CONSTANTS m1, m2
\* Two batches of two alerts.
MCYield == (m1 :> 2) @@ (m2 :> 2)
=============================================================================
