\* escape() on every text of up to three bytes over each kind of byte the
\* switch treats differently; the loop ends when the index reaches the end
\* of the string, which is where the model stops.
CONSTANTS
    Texts <- AllTexts
    MaxLen = 16
SPECIFICATION Spec
PROPERTY EscapesText
CHECK_DEADLOCK FALSE
