CONSTANTS
  ui = ui
  other = other
  d1 = d1
  d2 = d2
  Nobody = Nobody
  Clients <- OneClient
  Count = 2
  DataSets <- TwoDataSets
  ProviderOf <- OneEach
  Capacity = 2
SPECIFICATION FairSpec
INVARIANTS QuietAfterReturn SourceIsKept NothingIsOverlooked
PROPERTIES ActiveIsCollected UnleasedIsReclaimed CallsReturn
CHECK_DEADLOCK FALSE
