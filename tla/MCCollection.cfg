SPECIFICATION FairCollectionSpec
CONSTANTS
  n1 = n1
  n2 = n2
  t1 = t1
  t2 = t2
  u1 = u1
  u2 = u2
  a = a
  b = b
  NoTx = NoTx
  NoMinimum = NoMinimum
  Deposit = {n1, n2, t1, u1, u2}
  Address = {a, b}
  toAddress <- MCToAddress
  currencyOf <- MCCurrencyOf
  minimumCollectAmount <- MCMinimum
  TxCount = 2
  RevertCount = 1
  Fault = {"crash", "node", "drop", "replace", "reorg", "revert", "lost"}
PROPERTY EveryDepositIsCollected
INVARIANTS CollectionTypeOK CollectedMeansMoved Solvent
CHECK_DEADLOCK FALSE
