SPECIFICATION CoinsSpec
CONSTANTS
  Rate = {20, 60}
  DepositValue = {12000, 40000}
  Payment <- MCPayment
  Funds = 104000
  Unspent = 4
INVARIANTS
  CoinsTypeOK
  FeeIsRight
  ThrowsOnlyWhenShort
CHECK_DEADLOCK FALSE
