SPECIFICATION FairSpec
CONSTANTS
  MaxTasks = 3
  MaxTime = 1
  Expirations = {0}
  Never = Never
  Bodies = {plain}
  NoTask = NoTask
INVARIANTS
  TasksInOrder
PROPERTIES
  EventuallyTaken
CHECK_DEADLOCK FALSE
