CONSTANTS
    IntWidth = 5
    DoubleMantissa = 3
    None = None
    MaxCalls = 3
    Trees <- MCTrees
    Names <- ErrorThenPage
SPECIFICATION Spec
INVARIANT NoDanglingFunction
\* The calls stop at MaxCalls.
CHECK_DEADLOCK FALSE
