SPECIFICATION TokensSpec
CONSTANTS
  crawler = crawler
  Scenario <- MCScenario
  HdCurrency = {"eth"}
  Currency = {"eth", "ada", "xrp"}
  OnChain <- MCOnChain
  Process <- MCProcess
  Checksummed = {"u"}
  Fault = {"abort"}
INVARIANTS TokensTypeOK NoAddressServedTwice KnownTokensWereCommitted
CHECK_DEADLOCK FALSE
