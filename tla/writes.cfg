SPECIFICATION FairSpec
CONSTANTS
  w1 = w1
  w2 = w2
  None = None
  Writer <- TwoWriters
  Grace = 0
  MaxReads = 3
  MaxClock = 0
INVARIANTS OneColdRead
PROPERTIES AdmittedOnEvidence EveryWriteAnswered
CHECK_DEADLOCK FALSE
