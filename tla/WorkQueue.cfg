\* The submission lane: three items that share two slots.
SPECIFICATION FairSpec
CONSTANTS
  inner = inner
  debug = debug
  adapter = adapter
  c1 = c1
  c2 = c2
  NoWork = NoWork
  Worker = Worker
  Works = {inner, debug, adapter}
  Callers = {c1, c2}
  Capacity = 2
  MaxTickets = 4
INVARIANTS
  FlushIsBarrier
  SleepIsJustified
PROPERTIES
  AcceptedRuns
CHECK_DEADLOCK FALSE
