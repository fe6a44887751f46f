\* A UTXO platform, where one transaction pays several withdrawals.
CONSTANTS
  w1 = w1
  w2 = w2
  c1 = c1
  t1 = t1
  t2 = t2
  t3 = t3
  t4 = t4
  h1 = h1
  h2 = h2
  x1 = x1
  s1 = s1
  Withdrawal = {w1, w2, c1}
  ColdWithdrawal = {c1}
  TokenWithdrawal = {}
  WithdrawalTx = {t1, t2, t3}
  Seed = {s1}
  ForeignSeed = {s1}
  Tx = {t1, t2, t3, s1}
  HotWallet = {h1, h2}
  Account = {h1, h2}
  NoAccount = NoAccount
  TmpAddress = TmpAddress
  NoTx = NoTx
  UtxoBased = TRUE
  Fault = {"drop", "reorg", "node", "crash"}
SPECIFICATION Spec
SYMMETRY MCSymmetry
INVARIANTS RowsAgree NoDoublePayout AmountsMatchChain
PROPERTY ImplementsPayout
CHECK_DEADLOCK FALSE
