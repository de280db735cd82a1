\* A PE that needs two cycles for a multiply-accumulate, the rest as in
\* MCExecEngine.cfg.
SPECIFICATION Spec
CONSTANTS
  DIM = 4
  Program <- MCProgram
  After <- MCAfter
  INSTR_QUEUE_SIZE = 2
  CYCLE_TIME = 1
  BANK_ACCESS_TIME = 1
  PE_MAC_TIME = 2
  PE_DRAIN_TIME = 1
  SCALER_SCALE_TIME = 1
  SKEW_BUF_SHIFT_TIME = 1
  MAX_QUEUED = 1
  MAX_QUEUED_C <- MCMaxQueuedC
  ZERO = ZERO
  NULL = NULL
INVARIANTS FlushClosesChain
\* The program ends.
CHECK_DEADLOCK FALSE
