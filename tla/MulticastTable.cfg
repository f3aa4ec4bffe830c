SPECIFICATION MulticastSpec
CONSTANTS
  Parts = {a, b}
  MaxParts = 2
  MulticastVals = {v, w}
INVARIANTS
  NoEmptyLeaf
  SetsAgree
PROPERTIES
  ImplementsRelation
