CONSTANTS
    IntWidth = 5
    DoubleMantissa = 3
    None = None
    ParseFailure = ParseFailure
    MaxIncludeDepth = 3
    Templates <- MCTemplates
    Argvs <- JsDivArgvs
SPECIFICATION Spec
INVARIANT ErrorsExitOne
\* main returns once: every run ends in an exited state.
CHECK_DEADLOCK FALSE
