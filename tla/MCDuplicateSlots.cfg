SPECIFICATION Spec
CONSTANTS
    Genesis <- MCGenesis
    Tree <- MCTree
    ConfirmedTips <- AnyTip
    SamplesMayDisagree = FALSE
INVARIANTS TypeOK NoPanic ConfirmationStored
