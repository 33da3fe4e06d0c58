SPECIFICATION UISpec
CONSTANTS
  Posters = {p}
  MaxTasks = 2
  MaxLater = 1
  MaxInputs = 1
  MaxStack = 4
CHECK_DEADLOCK FALSE
INVARIANTS
  WakeupsSound
PROPERTIES
  TasksRun
