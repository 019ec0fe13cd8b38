SPECIFICATION FairSpec
CONSTANTS
  k1 = k1
  k2 = k2
  s1 = s1
  w1 = w1
  u1 = u1
  u2 = u2
  None = None
  Key <- OneKey
  Slug <- OneSlug
  Workflow <- OneWorkflow
  Operator <- Nobody
  Kinds <- DeployAndTeardown
  AutoRollback = FALSE
  Foreign = FALSE
  MaxRestarts = 0
  MaxOps = 2
PROPERTIES EveryRequestEnds
CHECK_DEADLOCK FALSE
