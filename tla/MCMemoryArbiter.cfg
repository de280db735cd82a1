\* Two banks of one row, two initiators with three payloads between them: a
\* request in the bank, one waiting and one arriving meanwhile.
SPECIFICATION Spec
CONSTANTS
  N_BANKS = 2
  N_ROWS_PER_BANK = 1
  N_INITIATORS = 2
  load1 = load1
  load2 = load2
  store1 = store1
  NULL = NULL
  Payloads <- MCPayloads
  Owner <- MCOwner
  Command <- MCCommand
  Values = {0, 1}
  ZeroRow = 0
INVARIANTS TypeOK NoBankConflict PayloadsHeldOnce
PROPERTIES ImplementsBankedMemory EveryRequestAnswered
