------------------------------ MODULE MCDeposits ------------------------------
(***************************************************************************)
(* Values for TLC: x1 pays two currencies, one of them to an address whose *)
(* keys the wallet does not hold; the wallet sent x2 itself.               *)
(***************************************************************************)
EXTENDS Deposits, TLC

CONSTANTS x1, x2, native, token, o1, o2, o3

MCTxOf == o1 :> x1 @@ o2 :> x1 @@ o3 :> x2
MCCurrencyOf == o1 :> native @@ o2 :> token @@ o3 :> native
MCListing == native :> "height" @@ token :> "cached"
=============================================================================
