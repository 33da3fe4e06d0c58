SPECIFICATION StaticsFairSpec
CONSTANTS
  main = main
  worker = worker
  helper = helper
  p = p
  z = z
  lk = lk
  s1 = s1
  s2 = s2
  v = v
  NULL = NULL
  OSThreads = {main, worker, helper}
  MainThread = main
  Indexes = {1, 2, 3, 4, 5}
  Budgets <- MCBudgets
  Objects = {p, z, lk}
  Lazy = {z}
  Leaky = {lk}
  Pointers = {p}
  Uses <- MCUses
  Overtaking = FALSE
  MaxManagers = 2
  Slots = {s1, s2}
  Cleaned = {s1}
  Size = 3
  Values = {v}
CHECK_DEADLOCK FALSE
INVARIANTS
  StaticsSound
  DestroyedInOrder
PROPERTIES
  CallsEnd
