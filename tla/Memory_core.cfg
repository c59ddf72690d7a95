CONSTANTS
  Keys = {1, 2}
  Asked = {1, 2}
  Values = {"yes", "no"}
  Moot <- NoIsTheEnd
  Requests = {r1, r2}
  MaxInstant = 4
  None = None
SPECIFICATION Spec
SYMMETRY Interchangeable
INVARIANT TypeOK IntervalsMeet ProfileFollowsFacts AnsweredIsFinished OneSweepAWholeProfile
PROPERTY ImplementsBeliefs
