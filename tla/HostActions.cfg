CONSTANTS
  k1 = k1
  k2 = k2
  b1 = b1
  t1 = t1
  t2 = t2
  None = None
  Keys <- TwoChords
  Buttons <- OneButton
  Threads <- TwoThreads
  Slots = 2
  MaxAge = 1
  HoldTime = 2
  RetryTime = 1
  MaxAttempts = 2
  MaxRequests = 3
SPECIFICATION FairSpec
INVARIANTS HoldsAreKept RequestsAreWoken
PROPERTIES AgedInputIsSafe PressEnds
CHECK_DEADLOCK FALSE
