SPECIFICATION Spec
CONSTANTS
  MAX_LOCKOUT_HISTORY = 2
  Slots = {0, 1, 2, 3}
  MAX_ENTRIES = 100
  MaxVoteOps = 2
  NewerSnapshot = FALSE
  SignerChanges = FALSE
  LedgerFaults = TRUE
INVARIANTS NoPanic
