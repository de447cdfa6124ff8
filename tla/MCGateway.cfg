\* Two requests over two keys, one of which the console manages.
SPECIFICATION FairSpec
CONSTANTS
  Requests = {r1, r2}
  Keys = {k1, k2}
  Managed = {k1}
  MaxRetry = 2
  MaxFailures = 1
  ErrorCooldown = 1
  QuotaCooldown = 1
  Quotas = {0}
  UsageCap = 0
  WarnEnabled = TRUE
  WarnThreshold = 80
  MaxTokens = 0
  NoKey = NoKey
INVARIANTS TypeOK ActiveCallsCounted FailsWhenExhausted
PROPERTY EveryRequestAnswered
