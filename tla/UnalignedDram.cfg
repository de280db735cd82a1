\* Operands that are not aligned to a row are accepted with a warning.
SPECIFICATION OperandSpec
CONSTANTS
  kDramBase = 9
  kArray = 22
  N_BANKS = 2
  N_ROWS_PER_BANK = 4
  WORD = 32
  DRAM_SIZE = 10
  BYTES_PER_BANK_ROW = 2
  Strides = {1, 2, 3, 4}
  RowCounts = {1, 2, 3, 4}
INVARIANTS EveryConflictSeen
\* A pair is compared once.
CHECK_DEADLOCK FALSE
