CONSTANTS
    IntWidth = 5
    DoubleMantissa = 3
    None = None
    ParseFailure = ParseFailure
    MaxIncludeDepth = 3
    MaxObjects = 8
    Templates <- MCTemplates
    Inputs <- UnboundInputs
SPECIFICATION Spec
INVARIANTS
    NoDoubleFree
\* The pass ends: it returns, throws or the process dies; nothing runs after.
CHECK_DEADLOCK FALSE
