CONSTANTS
  N = 3
  Undepositable = {1}
  Screens = {}
  ByHand = {}
  Revocable = FALSE
  Leavers = {}
  People = {p1}
  Asks = {}
  MaxAttempts = 1
  StaleAfter = 3
  Limit = 2
  MaxLost = 1
  None = None
SPECIFICATION FairSpec
PROPERTY EveryDuePairSettles 
