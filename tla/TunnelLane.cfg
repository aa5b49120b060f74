SPECIFICATION FairSpec
CONSTANTS
  C1 = C1
  C2 = C2
  PeerA = PeerA
  PeerB = PeerB
  Proc1 = Proc1
  Proc2 = Proc2
  Clients = {C1}
  Peers = {PeerA}
  NoClient = NoClient
  FlowCount = 1
  FlowsPerClient = 1
  TombstoneCount = 2
  DataCapacity = 1
  InboundPerFlow = 1
  SlabCount = 2
  PortCount = 1
  AddressBits = 2
  Remotes = {3}
  NoPeer = NoPeer
  LaneSlots = 2
  StageCapacity = 1
  MaxFragments = 1
  NoProcess = NoProcess
  ReceiveCapacity = 1
  Generations = 16
  Processes = {Proc1, Proc2}
  MaxFlows = 2
  MaxActivations = 1
  MaxEvents = 3
  Config <- MCConfig
INVARIANTS
  WaiterServed
  FlowsMatchPcbs
PROPERTIES
  ImplementsService
  CommandReturns
