------------------------------ MODULE MCWebhooks ------------------------------
(***************************************************************************)
(* Two webhooks of one user, the two events of a withdrawal, sent and      *)
(* completed, and one event of a deposit.                                  *)
(***************************************************************************)
EXTENDS Webhooks, TLC

CONSTANTS w1, w2, withdrawal, deposit

MCWebhook == {w1, w2}
MCRef == {withdrawal, deposit}
MCLastEvent == withdrawal :> 2 @@ deposit :> 1
=============================================================================
