SPECIFICATION FairSpec
CONSTANTS
  Jobs = {j1, j2}
  Posters = {p1, p2}
  Loop = loop
  Delays = {1, 2}
  ZeroDelayCallers = {p2}
  MaxDepth = 2
  MaxClock = 2
  TickMod = 16
  Garbage = {0, 5}
  NoJob = NoJob
CHECK_DEADLOCK FALSE
INVARIANTS
  TypeOK
  NoLostWakeup
  IdleImpliesDrained
  NoOversleep
PROPERTIES
  KeepsPromise
  JobsRun
  QuitReturns
