SPECIFICATION Spec
CONSTANTS
  MAX_LOCKOUT_HISTORY = 2
  Slots = {0, 1, 2, 3, 5}
  MAX_ENTRIES = 4
  MaxVoteOps = 2
  NewerSnapshot = TRUE
  SignerChanges = FALSE
  LedgerFaults = FALSE
INVARIANTS TypeOK LockoutsRespected RootsAgree NoPanic
PROPERTY RootsFinal
