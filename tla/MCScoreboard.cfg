\* Three programs of a tile or two, all short ones over a menu, and scheduler B's
\* for up to 2 x 2 x 2 tiles with a slot for each of A and B, so that tiles are
\* evicted; pending and the FIFOs hold fewer instructions than could be waiting.
SPECIFICATION Spec
CONSTANTS
  array = array
  N_BANKS = 2
  N_ROWS_PER_BANK = 2
  DIM = 2
  Cells <- MCCells
  Programs <- MCPrograms
  queue_depth = 2
  INSTR_QUEUE_SIZE = 1
INVARIANTS ConflictsOrdered ReadsProgramOrder FenceMeansDone
PROPERTIES ProgramCompletes
\* The program ends.
CHECK_DEADLOCK FALSE
