CONSTANTS
  w1 = w1
  w2 = w2
  w3 = w3
  NoWork = NoWork
  Work <- TwoUnits
  Capacity = 3
  PostMayFail = TRUE
SPECIFICATION FairSpec
PROPERTIES ImplementsLane QueuedIsServed  StopTerminates
