\* A stride that makes the address of the last row wrap around.
SPECIFICATION OperandSpec
CONSTANTS
  kDramBase = 9
  kArray = 22
  N_BANKS = 2
  N_ROWS_PER_BANK = 4
  WORD = 32
  DRAM_SIZE = 10
  BYTES_PER_BANK_ROW = 2
  Strides = {16}
  RowCounts = {1, 2, 3, 4}
INVARIANTS AcceptedRowsReached
\* A pair is compared once.
CHECK_DEADLOCK FALSE
