---------------------------- MODULE MCAgentTurn -----------------------------
(***************************************************************************)
(* One turn, one client that asks for its result and one that may cancel it. *)
(***************************************************************************)
EXTENDS AgentTurn
=============================================================================
