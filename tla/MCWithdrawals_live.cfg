\* Every withdrawal settles on an account platform where transactions are not lost.
CONSTANTS
  w1 = w1
  w2 = w2
  c1 = c1
  t1 = t1
  t2 = t2
  t3 = t3
  t4 = t4
  h1 = h1
  h2 = h2
  x1 = x1
  s1 = s1
  Withdrawal = {w1, c1}
  ColdWithdrawal = {c1}
  TokenWithdrawal = {}
  WithdrawalTx = {t1, t2}
  Seed = {s1}
  ForeignSeed = {s1}
  Tx = {t1, t2, s1}
  HotWallet = {h1, h2}
  Account = {h1, h2}
  NoAccount = NoAccount
  TmpAddress = TmpAddress
  NoTx = NoTx
  UtxoBased = FALSE
  Fault = {"reorg", "node", "crash"}
SPECIFICATION FairSpec
PROPERTY EveryWithdrawalSettles
CHECK_DEADLOCK FALSE
