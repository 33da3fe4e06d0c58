SPECIFICATION Spec
CONSTANTS
  NoNode = NoNode
  LeafSlots = 4
  InnerSlots = 2
  Keys <- MCKeys
  MaxPairs = 12
INVARIANTS
  BTreeSound
  BTreeKeepsPairs
