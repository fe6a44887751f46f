\* Not a passing run: a deposit that the worker cannot read holds up every row.
SPECIFICATION FairWebhooksSpec
CONSTANTS
  w1 = w1
  w2 = w2
  withdrawal = withdrawal
  deposit = deposit
  Webhook <- MCWebhook
  Ref <- MCRef
  EventCount = 2
  LastEvent <- MCLastEvent
  RefusedCount = 1
  Neglected = {}
  Missed = {deposit}
  Fault = {}
PROPERTY EveryRowIsSent
CHECK_DEADLOCK FALSE
