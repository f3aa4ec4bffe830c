SPECIFICATION FairSpec
CONSTANTS
  EmptyNa = 0
  BroadcastNa = 255
  MaxDistance = 15
  PortValues = 16
  Bad = Bad
  Routers = {1, 2, 3}
  Hosts = {8, 9}
  MaxPublications = 2
  Networks <- AllNetworks
INVARIANTS
  TypeOK
  InOrder
PROPERTIES
  ImplementsPubSub
  EverythingDelivered
  Settles
CHECK_DEADLOCK FALSE
