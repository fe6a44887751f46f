\* Not a passing run: a deposit is credited from the number of a disconnected block.
SPECIFICATION DepositsSpec
CONSTANTS
  x1 = x1
  x2 = x2
  native = native
  token = token
  o1 = o1
  o2 = o2
  o3 = o3
  Unread = Unread
  Tx = {x1, x2}
  Output = {o1, o2, o3}
  Currency = {native, token}
  txOf <- MCTxOf
  currencyOf <- MCCurrencyOf
  OwnTx = {x2}
  FailedTx = {}
  ExternalOutput = {o2}
  Listing <- MCListing
  RequiredConfirmations = 2
  ForceCrawlBlock = {2}
  MaxHeight = 6
  Fault = {"reorg", "stale"}
INVARIANT CreditedIsConfirmed
CHECK_DEADLOCK FALSE
