CONSTANTS
  w1 = w1
  w2 = w2
  w3 = w3
  NoWork = NoWork
  Work <- ThreeUnits
  Capacity = 2
  PostMayFail = FALSE
SPECIFICATION Spec
PROPERTIES AcceptedIsKept
