\* The backend on the shadowing trees, with and without the undefined check.
CONSTANTS
    IntWidth = 5
    DoubleMantissa = 3
    None = None
    Inputs <- MCInputs
SPECIFICATION Spec
INVARIANTS ShadowScoping ShadowsRestored
\* visit() is called once; the compiler exits after it.
CHECK_DEADLOCK FALSE
