\* An account platform with every fault: two client withdrawals and a sweep.
CONSTANTS
  w1 = w1
  w2 = w2
  c1 = c1
  t1 = t1
  t2 = t2
  t3 = t3
  t4 = t4
  h1 = h1
  h2 = h2
  x1 = x1
  s1 = s1
  Withdrawal = {w1, w2, c1}
  ColdWithdrawal = {c1}
  TokenWithdrawal = {c1}
  WithdrawalTx = {t1, t2, t3, t4}
  Seed = {}
  ForeignSeed = {}
  Tx = {t1, t2, t3, t4}
  HotWallet = {h1, h2}
  Account = {h1, h2, x1}
  NoAccount = NoAccount
  TmpAddress = TmpAddress
  NoTx = NoTx
  UtxoBased = FALSE
  Fault = {"drop", "reorg", "revert", "node", "crash"}
SPECIFICATION Spec
SYMMETRY MCSymmetry
INVARIANTS TypeOK RowsAgree NoDoublePayout LedgerMatchesChain OneTxPerHotWallet StillMineable NoticesInOrder
PROPERTY ImplementsPayout
CHECK_DEADLOCK FALSE
