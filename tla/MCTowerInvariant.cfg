SPECIFICATION Spec
CONSTANTS
  MAX_LOCKOUT_HISTORY = 2
  Slots = {0, 1, 2, 3, 4}
  MAX_ENTRIES = 4
  MaxVoteOps = 2
  NewerSnapshot = FALSE
  SignerChanges = FALSE
  LedgerFaults = TRUE
INVARIANTS LockoutsRespected SentVotesSaved LockoutInvariant
