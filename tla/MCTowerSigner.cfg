SPECIFICATION Spec
CONSTANTS
  MAX_LOCKOUT_HISTORY = 2
  Slots = {0, 1, 2, 3, 7}
  MAX_ENTRIES = 100
  MaxVoteOps = 1
  NewerSnapshot = FALSE
  SignerChanges = TRUE
  LedgerFaults = FALSE
INVARIANTS TowerOnOneFork NoPanic
