SPECIFICATION Spec
CONSTANTS
    Genesis <- MCGenesis
    Tree <- MCTree
    ConfirmedTips <- AnyTip
    SamplesMayDisagree = FALSE
INVARIANT DuplicatesExcluded
