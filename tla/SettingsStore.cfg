SPECIFICATION FairSpec
CONSTANTS
  clock = clock
  None = None
  Widgets <- OneWidget
  MaxTrouble = 2
  MaxEdits = 2
INVARIANTS FailedLeavesNoTrace NothingIsForgotten
PROPERTIES EditsInOrder OthersSavesAreKept QueuedIsDelivered SavesAreFollowed
CHECK_DEADLOCK FALSE
