SPECIFICATION FairWebhooksSpec
CONSTANTS
  w1 = w1
  w2 = w2
  withdrawal = withdrawal
  deposit = deposit
  Webhook <- MCWebhook
  Ref <- MCRef
  EventCount = 2
  LastEvent <- MCLastEvent
  RefusedCount = 1
  Neglected = {w2}
  Missed = {deposit}
  Fault = {"crash", "refuse", "save"}
INVARIANTS WebhooksTypeOK ReorderedOnlyAfterRefusal
PROPERTY EveryNoticeIsDelivered
CHECK_DEADLOCK FALSE
