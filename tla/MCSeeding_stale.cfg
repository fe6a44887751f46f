\* Not a passing run: a transaction whose nonce a seed has spent stays signed.
CONSTANTS
  w1 = w1
  t1 = t1
  t2 = t2
  s1 = s1
  s2 = s2
  h1 = h1
  h2 = h2
  x1 = x1
  d1 = d1
  d2 = d2
  a1 = a1
  Withdrawal = {w1}
  ColdWithdrawal = {}
  TokenWithdrawal = {}
  WithdrawalTx = {t1}
  Seed = {s1}
  ForeignSeed = {}
  Tx = {t1, s1}
  HotWallet = {h1}
  Account = {h1}
  Deposit = {d1}
  Address = {a1}
  toAddress <- MCtoAddress
  NoSeed = NoSeed
  NoAccount = NoAccount
  TmpAddress = TmpAddress
  NoTx = NoTx
  UtxoBased = FALSE
  Fault = {}
SPECIFICATION FairSeedingSpec
PROPERTY StaleIsReconstructed
CHECK_DEADLOCK FALSE
