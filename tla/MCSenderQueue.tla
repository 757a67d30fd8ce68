--------------------------- MODULE MCSenderQueue ---------------------------
(***************************************************************************)
(* Small instances of SenderQueue for TLC.                                 *)
(***************************************************************************)
EXTENDS SenderQueue, TLC

CONSTANTS m1, m2   \* two payloads

\* Two attempts for m1, one for m2.
MCMaxAttempts == [x \in Payloads |-> IF x = m1 THEN 2 ELSE 1]

\* Every bot configured, or the bot of m1 without a token.
MCConfigs == {Payloads, Payloads \ {m1}}

\* One tick, and twice that after the first attempt.
MCBackoff == <<1, 2>>

Symmetry == Permutations(Instances)
============================================================================
