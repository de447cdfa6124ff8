\* Three keys in two groups, three kinds of requests, one request at a time,
\* every strategy.
SPECIFICATION FairSpec
CONSTANTS
  Keys = {1, 2, 3}
  Kinds = {"any", "model", "key"}
  Candidates <- AnyModelOrKey
  PriorityOf <- Priorities
  GroupOf <- TwoGroups
  Requests = {r1}
  MaxRetry = 2
INVARIANT TypeOK
PROPERTIES KeysTakeTurns EveryKeySampled
