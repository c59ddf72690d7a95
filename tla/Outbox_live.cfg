CONSTANTS
  N = 2
  Codes = {2}
  Address <- OwnAddress
  Refused = {1}
  Calls = {c1, c2, c3}
  Limit = 1
  MaxLost = 2
  None = None
SPECIFICATION FairSpec
INVARIANT TypeOK ConversationsStand DuplicatesWereUnrecorded UsableIsKept
PROPERTY ImplementsCourier EveryMessageSettles DeadTextIsCleared
CHECK_DEADLOCK FALSE
