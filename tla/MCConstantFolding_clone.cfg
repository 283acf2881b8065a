CONSTANTS
    IntWidth = 5
    DoubleMantissa = 3
    None = None
    ParseFailure = ParseFailure
    MaxIncludeDepth = 1
    Templates <- NoTemplates
    Exprs <- CallExprs
SPECIFICATION Spec
INVARIANT CloneIsCopy
\* The pass ends after its one walk of the slot.
CHECK_DEADLOCK FALSE
