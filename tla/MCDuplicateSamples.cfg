SPECIFICATION Spec
CONSTANTS
    Genesis <- MCGenesis
    Tree <- MCTree
    ConfirmedTips <- SlotTwoTips
    SamplesMayDisagree = TRUE
INVARIANTS ConfirmedVersionWins UnconfirmedDuplicatesExcluded
CHECK_DEADLOCK FALSE
