\* Not a passing run: a token transfer that fails on the chain never settles.
CONSTANTS
  w1 = w1
  w2 = w2
  c1 = c1
  t1 = t1
  t2 = t2
  t3 = t3
  t4 = t4
  h1 = h1
  h2 = h2
  x1 = x1
  s1 = s1
  Withdrawal = {w1}
  ColdWithdrawal = {}
  TokenWithdrawal = {w1}
  WithdrawalTx = {t1}
  Seed = {}
  ForeignSeed = {}
  Tx = {t1}
  HotWallet = {h1}
  Account = {h1}
  NoAccount = NoAccount
  TmpAddress = TmpAddress
  NoTx = NoTx
  UtxoBased = FALSE
  Fault = {"revert"}
SPECIFICATION FairSpec
PROPERTY RevertedIsFailed
CHECK_DEADLOCK FALSE
