\* The file ends.
SPECIFICATION FileSpec
CONSTANTS
  Parts <- AllParts
  MaxParts = 2
  Lines <- AllLines
  MaxLines = 3
  Vals = {1, 2, 3}
  None = None
INVARIANTS
  Owned
  AsWritten
CHECK_DEADLOCK FALSE
