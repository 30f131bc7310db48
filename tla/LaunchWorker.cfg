CONSTANTS
  l1 = l1
  l2 = l2
  NoLaunch = NoLaunch
  Launches <- TwoLaunches
  kSlots = 3
SPECIFICATION FairSpec
INVARIANT NothingIsStranded
PROPERTIES ImplementsQueue StopIsBounded
