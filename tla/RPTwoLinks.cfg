SPECIFICATION Spec
CONSTANTS
  a = a
  b = b
  c = c
  Guids <- ThreeGuids
  Mappings <- TwoLinks
INVARIANTS
  ServedOnce
