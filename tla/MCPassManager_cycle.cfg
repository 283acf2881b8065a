CONSTANTS
    IntWidth = 5
    DoubleMantissa = 3
    None = None
    ParseFailure = ParseFailure
    MaxIncludeDepth = 3
    Templates <- MCTemplates
    Inputs <- CycleInputs
SPECIFICATION Spec
INVARIANT NoCrash
\* Every compilation ends: done, failed or crashed.
CHECK_DEADLOCK FALSE
