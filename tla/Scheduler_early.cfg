SPECIFICATION Spec
CONSTANTS
  MaxId = 2
  MaxTime = 3
  Delays = {0, 2}
  MinTicks = 1
  None = None
INVARIANTS
  TakenWhenDue
