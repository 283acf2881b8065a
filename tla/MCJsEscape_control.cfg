\* escape() on the texts of ControlTexts; the loop ends when the index reaches the
\* end of the string, which is where the model stops.
CONSTANTS
    Texts <- ControlTexts
    MaxLen = 16
SPECIFICATION Spec
INVARIANT RoundTrip
CHECK_DEADLOCK FALSE
