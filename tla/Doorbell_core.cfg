CONSTANTS
  N = 1
  People = {p1, p2}
  Unreachable = {}
  Severity <- AllLow
  Floors = {1, 2}
  Calls = {c1, c2}
  Limit = 1
  MaxRounds = 2
  MaxFaults <- TwoFaults
  None = None
SPECIFICATION Spec
SYMMETRY Interchangeable
INVARIANT TypeOK BatchesStand TwiceOnlyAfterAFault MailsKeepTheirLinks SettledAsItWent
PROPERTY ImplementsCrier
