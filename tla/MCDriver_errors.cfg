\* The command lines of MCDriver.cfg, checked for how each run ends: the
\* failing files of MCTemplates break ErrorsExitOne (spec 6 and 7).
CONSTANTS
    IntWidth = 5
    DoubleMantissa = 3
    None = None
    ParseFailure = ParseFailure
    MaxIncludeDepth = 3
    Templates <- MCTemplates
    Argvs <- MCArgvs
SPECIFICATION Spec
INVARIANT ErrorsExitOne
\* main returns once: every run ends in an exited state.
CHECK_DEADLOCK FALSE
