\* One peer on a stable path, selected and deselected: staged traffic, timers, ageing keys, inbound datagrams.
SPECIFICATION Spec
CONSTANTS
  A = A
  B = B
  NoPeer = NoPeer
  Peers = {A}
  InvalidPeers = {}
  KeepalivePeers = {A}
  Sources = {"resolved"}
  MaxSendAttempts = 2
  StagingCapacity = 2
  MaxActivations = 2
  MaxObservations = 1
  MaxFaults = 1
  MaxBumps = 0
  MaxPackets = 2
  MaxExpiries = 2
  MaxReceives = 2
  MaxAgings = 1
INVARIANTS
  DownIsQuiet
PROPERTIES
  NoPlaintextRetry
CHECK_DEADLOCK FALSE
