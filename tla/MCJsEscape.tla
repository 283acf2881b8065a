----------------------------- MODULE MCJsEscape -----------------------------
(* escape() on every text of up to MaxText characters over a small        *)
(* alphabet of byte values.                                               *)
EXTENDS JsEscape

MaxText == 3

TextsOver(alphabet) == UNION {[1..n -> alphabet] : n \in 0..MaxText}

\* Letters, NUL and the control characters the switch names, except \a.
SafeTexts == TextsOver({97, 0, 1, 8, 9, 10, 11, 12, 13})

\* Every kind of byte the switch treats differently: a letter, NUL, the
\* named control characters, BEL, ESC, DEL, the quote and the backslash.
AllTexts == TextsOver({97, 0, 9, 10, 7, 27, 127, 39, 92})

\* A single quote.
QuoteTexts == TextsOver({97, 39})

\* A backslash followed by a letter.
BackslashTexts == TextsOver({92, 110})

\* BEL, ESC and DEL: control characters the switch does not name or that
\* the decimal format spells as another character.
ControlTexts == TextsOver({97, 7, 27, 127})

=============================================================================
