\* Tiles of two rows; eight slots, two in each bank, for up to 27 tiles.
SPECIFICATION Spec
CONSTANTS
  N_BANKS = 4
  N_ROWS_PER_BANK = 4
  DIM = 2
  Sizes <- MCSizes
  Layouts = {"RowMajor", "TileMajor"}
INVARIANTS SlotsConserved HitMeansLoaded NeverThrows ProductInDram
\* The schedule ends.
CHECK_DEADLOCK FALSE
