SPECIFICATION Spec
CONSTANTS
  mic = mic
  a = a
  b = b
  cam = cam
  web = web
  low = low
  high = high
  None = None
  Flows <- OneFlow
  Endpoints <- TwoEndpoints
  Cameras = {cam, web}
  RoleCount = 2
  Levels = {low, high}
  Starts <- SplitStart
  Profiles <- CallThenDesk
  MaxTrouble = 0
  MaxSubmits = 3
INVARIANT MuteSurvivesProfiles
CHECK_DEADLOCK FALSE
