CONSTANTS
    IntWidth = 5
    DoubleMantissa = 3
    None = None
    ParseFailure = ParseFailure
    MaxIncludeDepth = 3
    Templates <- MCTemplates
    Inputs <- EmptyBodyInputs
SPECIFICATION Spec
INVARIANT NoEmptyStatements
\* Every compilation ends: done, failed or crashed.
CHECK_DEADLOCK FALSE
