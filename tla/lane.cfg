\* Two workflows, one of which a catalog entry uses as a stage, and one page.
SPECIFICATION Spec
CONSTANTS
  a = a
  b = b
  Workflow <- TwoWorkflows
  Lifecycle <- OnlyB
  MaxOps = 2
  MaxSends = 2
  MaxRestarts = 1
  JobEnd = {"canceled"}
  MaxMoves = 1
INVARIANTS OneJobEach
PROPERTIES OpensOnceOver LaunchesSettle DegradedLifts
CHECK_DEADLOCK FALSE
