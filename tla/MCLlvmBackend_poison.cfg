CONSTANTS
    IntWidth = 5
    DoubleMantissa = 3
    None = None
    MaxCalls = 3
    Trees <- MCTrees
    Names <- TypoThenPage
SPECIFICATION Spec
INVARIANT CompilesAlone
\* The calls stop at MaxCalls.
CHECK_DEADLOCK FALSE
