\* Every pending datagram is retired and every suspension ends; one peer's configuration is rejected.
SPECIFICATION FairSpec
CONSTANTS
  A = A
  B = B
  NoPeer = NoPeer
  Peers = {A, B}
  InvalidPeers = {B}
  KeepalivePeers = {}
  Sources = {"resolved"}
  MaxSendAttempts = 2
  StagingCapacity = 2
  MaxActivations = 1
  MaxObservations = 3
  MaxFaults = 1
  MaxBumps = 1
  MaxPackets = 1
  MaxExpiries = 0
  MaxReceives = 1
  MaxAgings = 0
PROPERTIES
  DatagramRetires
  SuspensionEnds
CHECK_DEADLOCK FALSE
