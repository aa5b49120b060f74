SPECIFICATION FairSpec
CONSTANTS
  Actions = {"peer", "dns"}
  MaxProbes = 3
  MaxActivations = 3
  MaxRefusals = 1
INVARIANT OutcomeIsOwn
PROPERTY ProbeSettles
CHECK_DEADLOCK FALSE
