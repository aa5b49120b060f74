\* Two peers: path observations, rebinds, roaming, switches, a fault in any external call.
SPECIFICATION Spec
CONSTANTS
  A = A
  B = B
  NoPeer = NoPeer
  Peers = {A, B}
  InvalidPeers = {}
  KeepalivePeers = {}
  Sources = {"resolved", "roamed"}
  MaxSendAttempts = 2
  StagingCapacity = 2
  MaxActivations = 2
  MaxObservations = 3
  MaxFaults = 1
  MaxBumps = 1
  MaxPackets = 0
  MaxExpiries = 0
  MaxReceives = 1
  MaxAgings = 0
INVARIANTS
  SocketsAccounted
  OpenBindingHasPath
  DatagramHasCarrier
  ReceiveCovered
CHECK_DEADLOCK FALSE
