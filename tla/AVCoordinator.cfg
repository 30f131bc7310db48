SPECIFICATION FairSpec
CONSTANTS
  mic = mic
  a = a
  b = b
  cam = cam
  web = web
  low = low
  high = high
  None = None
  Flows <- OneFlow
  Endpoints <- TwoEndpoints
  Cameras = {cam, web}
  RoleCount = 2
  Levels = {low, high}
  Starts <- EveryStart
  Profiles <- ToHeadset
  MaxTrouble = 1
  MaxSubmits = 2
INVARIANTS UndoIsHonest AppliedMeansInForce MutedStaysSilent NothingIsLeftOver
PROPERTIES OthersAreKept ShownIsCurrent NothingStaysPending
CHECK_DEADLOCK FALSE
