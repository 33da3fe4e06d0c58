SPECIFICATION FairSpec
CONSTANTS
  a = a
  b = b
  Threads = {a, b}
  Main = Main
  Owner <- MCOwner
  SoonStopped = {a, b}
  EagerStop = FALSE
  MaxStarts = 2
  MaxTasks = 2
CHECK_DEADLOCK FALSE
INVARIANTS
  ThreadSound
  PendingTasksRun
PROPERTIES
  ThreadsStop
