SPECIFICATION Spec
CONSTANTS
    Genesis <- MCGenesis
    Trees <- MCTrees
    Pubkeys = {"a", "b"}
    EpochStakes <- MCEpochStakes
    SLOTS_PER_EPOCH = 2
INVARIANTS TypeOK StakeCounted BestSlotIsHeaviest ConfirmedIsCandidate
CHECK_DEADLOCK FALSE
