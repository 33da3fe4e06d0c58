SPECIFICATION FairSpec
CONSTANTS
  k1 = k1
  k2 = k2
  k3 = k3
  k4 = k4
  Keys = {k1, k3}
  Vals = {v1, v2}
  Iters = {i1}
  Hash <- MCHash
  InitialSize = 1
  ForceRatio = 1
  ExpandSizes = {4}
  RehashSteps = {1}
  EmptiesEarly = FALSE
  NoKey = NoKey
  NoVal = NoVal
INVARIANTS
  TableSound
PROPERTIES
  IsAMap
  Migrates
