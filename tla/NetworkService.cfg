SPECIFICATION FairSpec
CONSTANTS
  rain = rain
  news = news
  stock = stock
  NoWidget = NoWidget
  Widgets <- ThreeWidgets
  MaximumNetworkWidgets = 3
INVARIANTS HidingIsSound
PROPERTIES CallsReturn DueIsRun
CHECK_DEADLOCK FALSE
