\* Not a passing run: a deposit is called collected from a block that is gone.
SPECIFICATION CollectionSpec
CONSTANTS
  n1 = n1
  n2 = n2
  t1 = t1
  t2 = t2
  u1 = u1
  u2 = u2
  a = a
  b = b
  NoTx = NoTx
  NoMinimum = NoMinimum
  Deposit = {n1, n2, t1, u1, u2}
  Address = {a, b}
  toAddress <- MCToAddress
  currencyOf <- MCCurrencyOf
  minimumCollectAmount <- MCMinimum
  TxCount = 2
  RevertCount = 1
  Fault = {"reorg", "stale"}
INVARIANT CollectedMeansMoved
CHECK_DEADLOCK FALSE
