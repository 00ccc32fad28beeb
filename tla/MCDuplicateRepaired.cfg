SPECIFICATION Spec
CONSTANTS
    Genesis <- MCGenesis
    Tree <- MCTree
    ConfirmedTips <- SlotOneTip
    SamplesMayDisagree = TRUE
INVARIANT NoPanic
