SPECIFICATION FairSpec
CONSTANTS
  Sockets = {s1}
  Owners = {o1}
  Owner <- MCOwner
  MaximumSockets = 1
  OutboundPerSocket = 2
  OutboundPool = 2
  BatchEntries = 2
  InboundPerSocket = 1
  TrackedSlots = 2
  CompletionQueue = 1
  MaxSends = 2
INVARIANTS SleepIsJustified SubmittedInOrder BlockedIsPromised FlowIsOwned
PROPERTIES DiscoveryEnds CommandReturns StopsUnlessParked
