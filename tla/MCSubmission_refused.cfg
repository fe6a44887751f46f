\* Not a passing run: a payment that Ripple refused is marked sent.
SPECIFICATION SubmissionSpec
CONSTANTS
  w1 = w1
  w2 = w2
  w3 = w3
  Withdrawal <- MCWithdrawal
  Platform = {"xrp", "eos", "ada"}
  RowCount = 3
  Fault = {"refuse", "crash", "timeout"}
INVARIANTS
  SentIsSubmitted
CHECK_DEADLOCK FALSE
