SPECIFICATION Spec
CONSTANTS
  a = a
  b = b
  Ends <- MCEnds
  FirstIndex <- MCFirstIndex
  BlockBits = 1
  RingBlocks = 2
  RejectAfterMessages = 4
  MaxHandshakes <- MCMaxHandshakes
  MaxData = 3
  MaxResets = 1
INVARIANTS
  NothingTwice
  CurrentIsConfirmed
  HeldOrSuperseded
  WindowIsExact
CHECK_DEADLOCK FALSE
