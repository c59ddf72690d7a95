CONSTANTS
  N = 1
  People = {p1, p2}
  Unreachable = {}
  Severity <- AllLow
  Floors = {1}
  Calls = {c1}
  Limit = 1
  MaxRounds = 2
  MaxFaults <- OneFault
  None = None
SPECIFICATION FairSpec
PROPERTY EverybodyIsTold EveryBellSettles
