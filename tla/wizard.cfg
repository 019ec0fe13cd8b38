SPECIFICATION Spec
CONSTANTS
  k1 = k1
  k2 = k2
  Key <- OneKey
  Payload <- MCPayload
  UserRead <- MCUserRead
  MaxWrites = 2
INVARIANTS JobHoldsPanel ClearClosesLoop
PROPERTIES UnsettledReadsKeepArmed ControlsReturn
