CONSTANTS
  N = 1
  Undepositable = {1}
  Screens <- FirstOrNone
  ByHand = {1}
  Revocable = TRUE
  Leavers = {p1}
  People = {p1, p2}
  Asks = {a1}
  MaxAttempts = 2
  StaleAfter = 2
  Limit = 1
  MaxLost = 0
  None = None
SPECIFICATION FairSpec
INVARIANT TypeOK WithdrawalsStopTheNextFetch ServedAsksWereFetched
PROPERTY EveryFetchEnds
