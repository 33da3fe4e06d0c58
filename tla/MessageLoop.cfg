SPECIFICATION FairSpec
CONSTANTS
  a = a
  b = b
  c = c
  m = m
  n = n
  Tasks = {a, b, m}
  Nestable <- MCNestable
  Delays <- MCDelays
  Nesters = {a, m}
  MaxDepth = 2
  MaxNow = 1
CHECK_DEADLOCK FALSE
INVARIANTS
  LoopSound
PROPERTIES
  RunsDrain
  AllRun
