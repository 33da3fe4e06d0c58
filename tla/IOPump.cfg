SPECIFICATION IOSpec
CONSTANTS
  Files = {a, b, c}
  WaitingFiles = {b, c}
  NoFile = NoFile
  Posters = {p}
  MaxTasks = 1
  MaxLater = 1
  MaxOperations = 3
CHECK_DEADLOCK FALSE
INVARIANTS
  CompletionsSound
  NoTaskSleptOn
PROPERTIES
  EverythingServed
