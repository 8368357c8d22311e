SPECIFICATION FairSpec
CONSTANTS
  MaxId = 1
  MaxTime = 1
  Delays = {1}
  MinTicks = 1
  None = None
  MaxTasks = 6
  Expirations = {1}
  Never = Never
  NoTask = NoTask
  Signals = {"SIGQUIT", "SIGTERM"}
  MaxSignals = 2
  MaxPackets = 1
  MaxInputs = 2
  MaxEvents = 1
INVARIANTS
  QuitSavesFirst
PROPERTIES
  QuitCompletes
CHECK_DEADLOCK FALSE
