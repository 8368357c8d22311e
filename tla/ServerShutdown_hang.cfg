SPECIFICATION FairSpec
CONSTANTS
  MaxId = 2
  MaxTime = 2
  Delays = {1}
  MinTicks = 1
  None = None
  MaxTasks = 5
  Expirations = {1}
  Never = Never
  NoTask = NoTask
  Signals = {"SIGQUIT"}
  MaxSignals = 1
  MaxPackets = 0
  MaxInputs = 1
  MaxEvents = 1
PROPERTIES
  QuitReturns
CHECK_DEADLOCK FALSE
