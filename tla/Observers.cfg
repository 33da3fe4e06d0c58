SPECIFICATION EitherSpec
CONSTANTS
  oA = oA
  oB = oB
  oC = oC
  t1 = t1
  t2 = t2
  Observers = {oA, oB, oC}
  Null = Null
  Loops = {t1, t2}
  Lists = {l1, l2}
  Home <- MCHome
  Reentrant = {oA, oC}
  MaxTasks = 1
  MaxSlots = 4
  NotifyTypes = {"NOTIFY_ALL", "NOTIFY_EXISTING_ONLY"}
  MaxDepth = 3
INVARIANTS
  SingleSound
  ListsSound
PROPERTIES
  EachToldOnce
  OnlyRegistered
  Delivery
