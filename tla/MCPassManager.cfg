CONSTANTS
    IntWidth = 5
    DoubleMantissa = 3
    None = None
    ParseFailure = ParseFailure
    MaxIncludeDepth = 3
    Templates <- MCTemplates
    Inputs <- MCInputs
SPECIFICATION Spec
INVARIANT TypeOK
INVARIANT Flattened
INVARIANT NoIncludeSurvives
INVARIANT FoldFixpoint
INVARIANT Coalesced
\* Every compilation ends: done, failed or crashed.
CHECK_DEADLOCK FALSE
