SPECIFICATION Spec
CONSTANTS
  me = me
  gnrs = gnrs
  r1 = r1
  r2 = r2
  empty = empty
  broadcast = broadcast
  g1 = g1
  g2 = g2
  inThread = inThread
  dataThread = dataThread
  dataThread2 = dataThread2
  None = None
  MyNa = me
  GnrsNa = gnrs
  EmptyNa = empty
  BroadcastNa = broadcast
  NAs <- MCNAs
  Guids <- MCGuids
  Nonces = {1, 2}
  NonceCacheSize = 1
  Threads <- WiredThreads
  Serves <- WiredServes
  Versions = {0, 1}
  DataInputs <- UnresolvedData
  RequestInputs <- WiredRequests
  ResponseInputs <- ZeroResponses
  MaxArrivals <- LiveArrivals
CHECK_DEADLOCK FALSE
PROPERTIES
  MandatoryUpdate
