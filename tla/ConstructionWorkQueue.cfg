CONSTANTS
  w1 = w1
  w2 = w2
  NoWork = NoWork
  Work <- TwoUnits
  Capacity = 2
SPECIFICATION FairSpec
INVARIANT LaneIsHonest
PROPERTIES ImplementsLane StopIsBounded
