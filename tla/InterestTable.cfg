SPECIFICATION Spec
CONSTANTS
  Parts = {a, b}
  MaxParts = 3
  Vals = {v}
  None = None
INVARIANTS
  NoDeadBranch
  LookupsAgree
PROPERTIES
  ImplementsMap
