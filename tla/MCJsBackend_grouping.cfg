\* The backend on the two groupings of x + y * 2, with and without the undefined check.
CONSTANTS
    IntWidth = 5
    DoubleMantissa = 3
    None = None
    Inputs <- GroupingInputs
SPECIFICATION Spec
INVARIANT Unambiguous
\* visit() is called once; the compiler exits after it.
CHECK_DEADLOCK FALSE
