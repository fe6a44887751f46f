-------------------------------- MODULE MCCoins --------------------------------
(***************************************************************************)
(* Instance: coins below, near and above the price of an input at 60       *)
(* satoshis per byte (10860), and a payment that one coin just covers.     *)
(***************************************************************************)
EXTENDS Coins

MCPayment == {<<11000>>, <<8000, 14000>>, <<15390>>}
=============================================================================
