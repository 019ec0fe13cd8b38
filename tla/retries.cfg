\* One workflow: a list that could not be loaded.
SPECIFICATION Spec
CONSTANTS
  a = a
  b = b
  Workflow <- OnlyB
  Lifecycle <- OnlyB
  MaxOps = 1
  MaxSends = 1
  MaxRestarts = 0
  JobEnd = {"canceled"}
  MaxMoves = 1
PROPERTIES RetriesAutomatically
CHECK_DEADLOCK FALSE
