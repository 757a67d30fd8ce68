------------------------- MODULE MCTelegramOperator -------------------------
(***************************************************************************)
(* An instance of TelegramOperator: three messages of any kind, two to a    *)
(* poll, two submissions, three lives.                                      *)
(***************************************************************************)
EXTENDS TelegramOperator
=============================================================================
