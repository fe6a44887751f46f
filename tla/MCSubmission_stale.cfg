\* Not a passing run: the verifier polls its cache after a fork, on EOS and Cardano.
SPECIFICATION SubmissionSpec
CONSTANTS
  w1 = w1
  w2 = w2
  w3 = w3
  Withdrawal <- MCWithdrawal
  Platform = {"eos", "ada"}
  RowCount = 3
  Fault = {"fork", "stale"}
INVARIANTS
  CompletedIsFinal
CHECK_DEADLOCK FALSE
