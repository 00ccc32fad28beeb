SPECIFICATION Spec
CONSTANTS
    Genesis <- MCGenesis
    Trees <- MCTrees
    Pubkeys = {"a", "b"}
    EpochStakes <- MCEpochStakes
    SLOTS_PER_EPOCH = 2
INVARIANT VotesOnSmallestHash
CHECK_DEADLOCK FALSE
