\* One key in full detail: two requests and a test around every operation;
\* time passes and requests without x-relay-key keep arriving.
SPECIFICATION FairSpec
CONSTANTS
  Keys = {k1}
  MaxFailures = 3
  ErrorCooldown = 1
  QuotaCooldown = 2
  Quotas = {0, 2}
  UsageCap = 4
  WarnEnabled = TRUE
  WarnThreshold = 80
  MaxTokens = 1
  MaxRefs = 2
  MaxTests = 1
  AdminStatuses = {"keep", "active", "inactive", "exhausted", "error"}
INVARIANTS TypeOK ActiveIsClean OvershootBounded
PROPERTIES NoRequestWhileCooling StoppedStaysStopped DeletedStaysDeleted ErrorEnds
