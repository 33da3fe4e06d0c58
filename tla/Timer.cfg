SPECIFICATION TimerFairSpec
CONSTANTS
  r = r
  o = o
  d = d
  Nobody = Nobody
  Timers = {r, o, d}
  Repeating = {r}
  Delaying = {d}
  Addresses = {1, 2, 3}
  Delays = {0, 1}
  DelayOf <- MCDelayOf
  Rounds = 2
  MaxTime = 2
  MaxOwners = 1
CHECK_DEADLOCK FALSE
INVARIANTS
  TimersSound
PROPERTIES
  KeepsTime
  TimersFire
