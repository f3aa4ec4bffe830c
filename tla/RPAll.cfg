SPECIFICATION FairSpec
CONSTANTS
  a = a
  b = b
  c = c
  Guids <- ThreeGuids
  Mappings <- AllMappings
INVARIANTS
  CoversReachable
  OneCopyPerLink
PROPERTIES
  Returns
