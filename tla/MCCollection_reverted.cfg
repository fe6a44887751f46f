\* Not a passing run: a token transfer that failed stays sent for ever.
SPECIFICATION FairCollectionSpec
CONSTANTS
  n1 = n1
  n2 = n2
  t1 = t1
  t2 = t2
  u1 = u1
  u2 = u2
  a = a
  b = b
  NoTx = NoTx
  NoMinimum = NoMinimum
  Deposit = {t1, t2}
  Address = {a}
  toAddress <- MCToAddress2
  currencyOf <- MCCurrencyOf2
  minimumCollectAmount <- MCMinimum
  TxCount = 3
  RevertCount = 1
  Fault = {"revert"}
PROPERTY RevertedIsFailed
CHECK_DEADLOCK FALSE
