\* Not a passing run: two operators leave a lower threshold above the upper one.
SPECIFICATION TokensSpec
CONSTANTS
  crawler = crawler
  Scenario <- MCThresholds
  HdCurrency = {"eth"}
  Currency = {"eth", "ada", "xrp"}
  OnChain <- MCOnChain
  Process <- MCProcess
  Checksummed = {"u"}
  Fault = {"abort"}
INVARIANT ThresholdsOrdered
CHECK_DEADLOCK FALSE
