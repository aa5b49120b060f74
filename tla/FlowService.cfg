SPECIFICATION Spec
SYMMETRY ClientSymmetry
CONSTANTS
  C1 = C1
  C2 = C2
  PeerA = PeerA
  PeerB = PeerB
  Clients = {C1, C2}
  Peers = {PeerA, PeerB}
  NoClient = NoClient
  FlowCount = 2
  FlowsPerClient = 1
  TombstoneCount = 2
  DataCapacity = 1
  InboundPerFlow = 1
  SlabCount = 2
  PortCount = 1
  AddressBits = 2
  Remotes = {2, 3}
  NoPeer = NoPeer
  MaxFlows = 3
  MaxActivations = 2
  Config <- MCConfig
INVARIANTS
  TuplesDistinct
  SlabsAccounted
  EventCovers
  DeliveredIsCurrent
  ControlNotLost
PROPERTIES
  HandleNeverReturns
