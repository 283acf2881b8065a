\* The backend on the a sum, with and without the undefined check.
CONSTANTS
    IntWidth = 5
    DoubleMantissa = 3
    None = None
    Inputs <- SumInputs
SPECIFICATION Spec
INVARIANT NoNulByte
\* visit() is called once; the compiler exits after it.
CHECK_DEADLOCK FALSE
