SPECIFICATION FairSpec
CONSTANTS
  EmptyNa = 0
  BroadcastNa = 255
  NoIp = NoIp
  PortValues = 16
  Bad = Bad
  Routers = {1, 2, 3}
  Hosts = {8, 9}
  MaxInputs = 2
  Networks <- AllNetworks
INVARIANTS
  TypeOK
  InOrder
PROPERTIES
  ImplementsNamePubSub
  EverythingDelivered
  Settles
CHECK_DEADLOCK FALSE
