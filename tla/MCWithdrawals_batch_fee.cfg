\* Not a passing run: one network fee is debited for each withdrawal of a batch.
CONSTANTS
  w1 = w1
  w2 = w2
  c1 = c1
  t1 = t1
  t2 = t2
  t3 = t3
  t4 = t4
  h1 = h1
  h2 = h2
  x1 = x1
  s1 = s1
  Withdrawal = {w1, w2}
  ColdWithdrawal = {}
  TokenWithdrawal = {}
  WithdrawalTx = {t1}
  Seed = {}
  ForeignSeed = {}
  Tx = {t1}
  HotWallet = {h1}
  Account = {h1}
  NoAccount = NoAccount
  TmpAddress = TmpAddress
  NoTx = NoTx
  UtxoBased = TRUE
  Fault = {}
SPECIFICATION Spec
INVARIANT FeeDebitedOnce
CHECK_DEADLOCK FALSE
