SPECIFICATION FairSpec
CONSTANTS
  Nonces <- FourNonces
  NonceCacheSize = 3
  Routers = {1, 2, 3}
  GNRS = 9
  BroadcastNa = 255
  Neighbours <- Triangle
  NextHop <- Direct
  QueueCapacity = 5
  Nobody = Nobody
  MaxVersion = 6
  Loads <- TwoLoads
INVARIANTS
  TypeOK
  FloodedOnce
  ChangeReaches
  HeldOnlyIfLost
PROPERTIES
  Settles
CHECK_DEADLOCK FALSE
