\* Not a passing run: two transactions of one platform are pending at once.
CONSTANTS
  w1 = w1
  w2 = w2
  c1 = c1
  t1 = t1
  t2 = t2
  t3 = t3
  t4 = t4
  h1 = h1
  h2 = h2
  x1 = x1
  s1 = s1
  Withdrawal = {w1, w2}
  ColdWithdrawal = {}
  TokenWithdrawal = {}
  WithdrawalTx = {t1, t2}
  Seed = {}
  ForeignSeed = {}
  Tx = {t1, t2}
  HotWallet = {h1, h2}
  Account = {h1, h2}
  NoAccount = NoAccount
  TmpAddress = TmpAddress
  NoTx = NoTx
  UtxoBased = FALSE
  Fault = {}
SPECIFICATION Spec
INVARIANT OnePendingTxPerPlatform
CHECK_DEADLOCK FALSE
