----------------------------- MODULE MCWatchdog -----------------------------
(***************************************************************************)
(* Two handoffs for TLC, the second of which waits for the first.           *)
(***************************************************************************)
EXTENDS Watchdog

CONSTANTS h1, h2

MCDependsOn == [h \in Handoffs |-> IF h = h2 THEN {h1} ELSE {}]
=============================================================================
