\* A withdrawal and two deposits of one address compete for two hot wallets.
CONSTANTS
  w1 = w1
  t1 = t1
  t2 = t2
  s1 = s1
  s2 = s2
  h1 = h1
  h2 = h2
  x1 = x1
  d1 = d1
  d2 = d2
  a1 = a1
  Withdrawal = {w1}
  ColdWithdrawal = {}
  TokenWithdrawal = {}
  WithdrawalTx = {t1, t2}
  Seed = {s1, s2}
  ForeignSeed = {}
  Tx = {t1, t2, s1, s2}
  HotWallet = {h1, h2}
  Account = {h1, h2, x1}
  Deposit = {d1, d2}
  Address = {a1}
  toAddress <- MCtoAddress
  NoSeed = NoSeed
  NoAccount = NoAccount
  TmpAddress = TmpAddress
  NoTx = NoTx
  UtxoBased = FALSE
  Fault = {"drop", "replace", "reorg", "revert", "node", "crash"}
SPECIFICATION SeedingSpec
SYMMETRY MCSymmetry
INVARIANTS SeedingTypeOK AtMostOneSeedInFlight NoDoublePayout LedgerMatchesChain
PROPERTY ReleasedOnlyWhenFunded
CHECK_DEADLOCK FALSE
