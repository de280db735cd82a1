\* A four by four array, every stage at one cycle a row, and requests that wait
\* in the arbiter for at most one cycle.
SPECIFICATION Spec
CONSTANTS
  DIM = 4
  Program <- MCProgram
  After <- MCAfter
  INSTR_QUEUE_SIZE = 2
  CYCLE_TIME = 1
  BANK_ACCESS_TIME = 1
  PE_MAC_TIME = 1
  PE_DRAIN_TIME = 1
  SCALER_SCALE_TIME = 1
  SKEW_BUF_SHIFT_TIME = 1
  MAX_QUEUED = 1
  MAX_QUEUED_C <- MCMaxQueuedC
  ZERO = ZERO
  NULL = NULL
INVARIANTS StreamNeverStalls FlushClosesChain
PROPERTIES ImplementsTileProduct
\* The program ends.
CHECK_DEADLOCK FALSE
