\* FIFOs of one place, so that callers wait for room, and two mvins or mvouts
\* under way at once, which may finish in either order.
SPECIFICATION Spec
CONSTANTS
  c1 = c1
  c2 = c2
  scheduler = scheduler
  Callers = {c1, c2, scheduler}
  Scripts <- MCScripts
  INSTR_QUEUE_SIZE = 1
  MAX_UNDER_WAY = 2
  NULL = NULL
INVARIANTS
  WritesNeverBlock CompleteMeansFinished WaitMeansFinished
  OperandsReady BufferHandedOver ReturnsWhenComplete
PROPERTIES EveryCallReturns
\* The scripts end.
CHECK_DEADLOCK FALSE
