-------------------------------- MODULE MCTokens --------------------------------
(***************************************************************************)
(* The requests that meet: addresses of a platform without a seed and of   *)
(* one with, the one address of XRP, thresholds that are changed by two    *)
(* operators, and a token that is added twice, removed, and added under    *)
(* the symbol of another.                                                  *)
(***************************************************************************)
EXTENDS Tokens, TLC

CONSTANT crawler

MCProcess == {crawler}
MCOnChain == "eth" :> 90 @@ "ada" :> 0 @@ "xrp" :> 0

Create(id, amount) == [id |-> id, op |-> "createAddresses", currency |-> "eth", amount |-> amount]
CreateAda(id) == [id |-> id, op |-> "createAdaAddresses", currency |-> "ada", amount |-> 1]
Add(id, a) == [id |-> id, op |-> "addAddress", currency |-> "xrp", address |-> <<"given", a>>]
Approve(id, to) == [id |-> id, op |-> "approveTransaction", currency |-> "eth", to |-> to, amount |-> 10]
Threshold(id, lower, upper) ==
  [id |-> id, op |-> "settingThreshold", currency |-> "eth", lower |-> lower, upper |-> upper,
   address |-> <<"given", "cold">>]
Reset(id) == [id |-> id, op |-> "resetSettingColdWallet", currency |-> "eth"]
Mailer(id) == [id |-> id, op |-> "settingMailer"]
Seed(id) == [id |-> id, op |-> "getSeed"]
AddToken(id, chain, t, symbol) ==
  [id |-> id, op |-> "addErc20", chain |-> chain, contract |-> t, symbol |-> symbol]
DeleteToken(id, chain, t) == [id |-> id, op |-> "deleteErc20", chain |-> chain, contract |-> t]

MCScenario ==
  {{Create(1, 2), Create(2, 1), Create(3, 1)},
   {Seed(1), Create(2, 1), Mailer(3), Mailer(4)},
   {CreateAda(1), CreateAda(2), Add(3, "r1"), Add(4, "r2")},
   {Create(1, 1), Threshold(2, 20, 60), Threshold(3, 20, 40), Reset(4)},
   {Create(1, 1), Approve(2, Derived("eth", 1, 101)), Approve(3, <<"given", "x">>), Threshold(4, 30, 20)},
   {AddToken(1, "eth", "t", "T"), AddToken(2, "eth", "t", "T"), DeleteToken(3, "eth", "t")},
   {AddToken(1, "eth", "t", "T"), AddToken(2, "bnb", "u", "T"), DeleteToken(3, "bnb", "t")},
   {AddToken(1, "eth", "t", "T"), AddToken(2, "eth", "u", "U"), DeleteToken(3, "eth", "u"), DeleteToken(4, "eth", "t")}}

\* Two operators change the thresholds.
MCThresholds == {{Create(1, 1), Threshold(2, 20, 60), Threshold(3, 50, 60), Threshold(4, 20, 40)}}
=============================================================================
