\* Two banks, fewer credits than data buffers in the load controller, and queues
\* that hold fewer instructions than are issued.
SPECIFICATION SystemSpec
CONSTANTS
  N_BANKS = 2
  N_ROWS_PER_BANK = 2
  N_INSTRS = 3
  Rows <- MCRows
  spad_addr <- MCSpadAddr
  spad_stride <- MCSpadStride
  INSTR_QUEUE_SIZE = 1
  LOAD_N_DATA_BUF = 3
  STORE_N_DATA_BUF = 2
  SPAD_CREDIT_SIZE = 2
  ZeroRow = ZeroRow
  NULL = NULL
INVARIANTS PoolsConserved RowsAccounted StoreConserved ReadsItsTile
PROPERTIES ImplementsTileCopy StoreCopies
\* Once every tile is stored nothing is left to do.
CHECK_DEADLOCK FALSE
