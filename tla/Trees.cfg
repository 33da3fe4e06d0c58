SPECIFICATION Spec
CONSTANTS
  ta = ta
  tb = tb
  user = user
  Anchor = Anchor
  Nil = Nil
  Garbage = Garbage
  MaxHeight = 3
  Scopes <- MCScopes
CHECK_DEADLOCK FALSE
INVARIANTS
  TreeShape
  TraversersInOrder
  WholeTree
