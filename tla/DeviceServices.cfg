CONSTANTS
  s1 = s1
  s2 = s2
  NoSettings = NoSettings
  Settings <- TwoSettings
  Count = 2
  Workers <- Both
  MaxLanes = 2
SPECIFICATION FairSpec
INVARIANTS PendingStopsAreKept DocumentIsInForce
PROPERTIES ImplementsContract StopsEnd
