SPECIFICATION FairSpec
CONSTANTS
  MaxId = 3
  MaxTime = 4
  Delays = {0, 2}
  MinTicks = 1
  None = None
INVARIANTS
  NoLostWakeup
PROPERTIES
  EventuallyTaken
  ImplementsTimerService
