SPECIFICATION Spec
CONSTANTS
  w1 = w1
  w2 = w2
  None = None
  Writer <- NoWriter
  Grace = 1
  MaxReads = 4
  MaxClock = 2
INVARIANTS AnswerIsTrue
PROPERTIES EpisodeHonest LatestWins
CHECK_DEADLOCK FALSE
