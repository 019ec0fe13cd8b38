SPECIFICATION FairSpec
CONSTANTS
  view1 = view1
  cam1 = cam1
  cam2 = cam2
  Nothing = Nothing
  Receiver <- OneReceiver
  Source <- TwoSources
  MaxSwitches = 2
  MaxRestarts = 1
INVARIANTS CompetitionDisclosed CopyHonest
PROPERTIES KeepsContract EverySwitchEnds
CHECK_DEADLOCK FALSE
