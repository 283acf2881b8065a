\* Both drivers on every command line of MCArgvs: which passes the options
\* register.
CONSTANTS
    IntWidth = 5
    DoubleMantissa = 3
    None = None
    ParseFailure = ParseFailure
    MaxIncludeDepth = 3
    Templates <- MCTemplates
    Argvs <- MCArgvs
SPECIFICATION Spec
INVARIANT OptionsDecidePipeline
\* main returns once: every run ends in an exited state.
CHECK_DEADLOCK FALSE
