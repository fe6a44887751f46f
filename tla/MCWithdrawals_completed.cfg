\* A block is disconnected after the verifier has cached a transaction of it.
CONSTANTS
  w1 = w1
  w2 = w2
  c1 = c1
  t1 = t1
  t2 = t2
  t3 = t3
  t4 = t4
  h1 = h1
  h2 = h2
  x1 = x1
  s1 = s1
  Withdrawal = {w1}
  ColdWithdrawal = {}
  TokenWithdrawal = {}
  WithdrawalTx = {t1}
  Seed = {}
  ForeignSeed = {}
  Tx = {t1}
  HotWallet = {h1}
  Account = {h1}
  NoAccount = NoAccount
  TmpAddress = TmpAddress
  NoTx = NoTx
  UtxoBased = FALSE
  Fault = {"reorg", "stale"}
SPECIFICATION Spec
INVARIANT CompletedIsConfirmed
CHECK_DEADLOCK FALSE
