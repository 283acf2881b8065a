CONSTANTS
    IntWidth = 5
    DoubleMantissa = 3
    None = None
    ParseFailure = ParseFailure
    MaxIncludeDepth = 1
    Templates <- NoTemplates
    Exprs <- MixedOrderExprs
SPECIFICATION Spec
INVARIANT FoldMatchesSpec
\* The pass ends after its one walk of the slot.
CHECK_DEADLOCK FALSE
