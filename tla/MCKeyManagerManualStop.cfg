\* A disabled key and a request that is still awaiting its answer.
SPECIFICATION Spec
CONSTANTS
  Keys = {k1}
  MaxFailures = 2
  ErrorCooldown = 1
  QuotaCooldown = 1
  Quotas = {0}
  UsageCap = 0
  WarnEnabled = TRUE
  WarnThreshold = 80
  MaxTokens = 0
  MaxRefs = 1
  MaxTests = 1
  AdminStatuses = {"keep", "active", "inactive"}
PROPERTY ManualStopHolds
