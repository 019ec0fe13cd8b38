SPECIFICATION Spec
CONSTANTS
  k1 = k1
  k2 = k2
  s1 = s1
  w1 = w1
  u1 = u1
  u2 = u2
  None = None
  Key <- OneKey
  Slug <- OneSlug
  Workflow <- OneWorkflow
  Operator <- TwoOperators
  Kinds <- DeployAndRollback
  AutoRollback = TRUE
  Foreign = TRUE
  MaxRestarts = 0
  MaxOps = 3
INVARIANTS TypeOK RollbackClaims AutoRollbackJustified
PROPERTIES DirtNeedsCleanRollback TerminalIsFinal
CHECK_DEADLOCK FALSE
