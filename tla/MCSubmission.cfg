SPECIFICATION FairSubmissionSpec
CONSTANTS
  w1 = w1
  w2 = w2
  w3 = w3
  Withdrawal <- MCWithdrawal
  Platform = {"xrp", "eos", "ada"}
  RowCount = 5
  Fault = {"crash", "timeout", "refuse", "lag", "drop", "fork", "expire"}
INVARIANTS
  SubmissionTypeOK
PROPERTIES
  ImplementsPayout
  SettledUnlessLost
CHECK_DEADLOCK FALSE
