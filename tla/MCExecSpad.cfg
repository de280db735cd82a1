\* Two banks of eight rows, two gemms of two rows, two load payloads.
SPECIFICATION Spec
CONSTANTS
  N_BANKS = 2
  N_ROWS_PER_BANK = 8
  DIM = 2
  N_GEMMS = 2
  tile_addr <- MCTileAddr
  tile_stride <- MCTileStride
  LoadCredits = {0, 1}
  ZeroRow = ZeroRow
  NULL = NULL
INVARIANTS RowsPaired StoresDrainedRows
PROPERTIES EngineCompletes
\* Once everything is stored nothing is left to do.
CHECK_DEADLOCK FALSE
