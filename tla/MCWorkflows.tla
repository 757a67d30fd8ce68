---------------------------- MODULE MCWorkflows -----------------------------
(***************************************************************************)
(* Instances of Workflows: room for a template and a handoff appended to it *)
(* or for up to four workflows, two requests at a time.                     *)
(***************************************************************************)
EXTENDS Workflows, TLC

Symmetry == Permutations(Callers) \cup Permutations(Payloads)
=============================================================================
