CONSTANTS
    IntWidth = 5
    DoubleMantissa = 3
    None = None
    MaxElems = 2
    MaxCells = 12
    EstimatedBufferSize = 2
    BufferChunkSize = 3
    PrintLengths = {1, 7}
    Inputs <- MCInputs
SPECIFICATION Spec
INVARIANT TypeOK
INVARIANT NoUseAfterFree
INVARIANT DestructOwned
INVARIANT NoLeak
INVARIANT BufferFits
PROPERTY Terminates
\* A render ends: returned, failed, or never started because the template
\* did not compile.
CHECK_DEADLOCK FALSE
