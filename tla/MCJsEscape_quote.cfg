\* escape() on the texts of QuoteTexts; the loop ends when the index reaches the
\* end of the string, which is where the model stops.
CONSTANTS
    Texts <- QuoteTexts
    MaxLen = 16
SPECIFICATION Spec
PROPERTY Terminates
CHECK_DEADLOCK FALSE
