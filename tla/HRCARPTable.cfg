\* The file ends.
SPECIFICATION ArpSpec
CONSTANTS
  NAs = {n1, n2, n3}
  Addresses = {a1, a2, a3}
  MaxArpLines = 5
INVARIANTS
  Inverses
  LatestWins
CHECK_DEADLOCK FALSE
