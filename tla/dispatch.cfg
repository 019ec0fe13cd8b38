\* Two catalog entries and every kind of request, with deploys launched in AWX
\* itself and a restart of the console.
SPECIFICATION FairSpec
CONSTANTS
  k1 = k1
  k2 = k2
  s1 = s1
  w1 = w1
  u1 = u1
  u2 = u2
  None = None
  Key <- TwoKeys
  Slug <- OneSlug
  Workflow <- OneWorkflow
  Operator <- OneOperator
  Kinds <- Everything
  AutoRollback = TRUE
  Foreign = TRUE
  MaxRestarts = 1
  MaxOps = 2
INVARIANTS OneRunAtATime CleanUnderRun NoCompetingJobs
PROPERTIES LockSpec DispatchedOpsEnd
CHECK_DEADLOCK FALSE
