CONSTANTS
    IntWidth = 5
    DoubleMantissa = 3
    None = None
    ParseFailure = ParseFailure
    MaxIncludeDepth = 2
    Templates <- MCFiles
    Names <- MCNames
    MaxCalls = 2
    MaxRenders = 1
    MaxElems = 2
    MaxCells = 12
    EstimatedBufferSize = 2
    BufferChunkSize = 3
    PrintLengths = {1, 7}
SPECIFICATION Spec
INVARIANT TypeOK
INVARIANT NoUseAfterFree
INVARIANT DestructOwned
INVARIANT NoLeak
INVARIANT BufferFits
INVARIANT TemplateRunsVerified
PROPERTY CallsReturn
\* The script may stop calling at any point, and a crash ends the process.
CHECK_DEADLOCK FALSE
