------------------------------ MODULE JsEscape ------------------------------
(***************************************************************************)
(* escape() of javascript_visitor.cpp, the function that turns the text   *)
(* of a Raw block, a string literal or a name into the body of a          *)
(* single-quoted JavaScript string literal.  It is a loop that rewrites   *)
(* the string in place while it walks it; one step of the model is one    *)
(* iteration.  Characters are their byte values.                          *)
(*                                                                         *)
(* The reference is the JavaScript grammar of single-quoted string        *)
(* literals (ECMAScript, SingleStringCharacter and EscapeSequence):       *)
(* JsDecode gives the string such a literal denotes.                      *)
(***************************************************************************)
EXTENDS Integers, Sequences

CONSTANTS
    Texts,   \* the texts escape() is called on (sequences of byte values)
    MaxLen   \* the longest the string being rewritten may grow in the model

ASSUME MaxLen \in Nat

VARIABLES
    text,    \* the argument
    ret,     \* `std::string ret(text)`, rewritten in place
    i        \* the loop index (0-based, as in the code)

vars == <<text, ret, i>>

Backslash == 92
Quote     == 39

\* "\\x%02d": backslash, x and the value in decimal, at least two digits.
Formatted(c) ==
    <<Backslash, 120>> \o
        (IF c < 100 THEN <<48 + c \div 10, 48 + (c % 10)>>
                    ELSE <<48 + c \div 100, 48 + ((c \div 10) % 10), 48 + (c % 10)>>)

\* snprintf(buf, 5, ...) keeps 4 characters and a NUL and returns the
\* untruncated length; replace(i, 1, buf, buf_len) copies buf_len bytes
\* of buf, the NUL included when the output was truncated.
Snprintf(c) ==
    IF Len(Formatted(c)) =< 4 THEN Formatted(c)
    ELSE SubSeq(Formatted(c), 1, 4) \o <<0>>

\* Mutant: the '\n' case is missing.
ReplacementNoNewline(c) ==
    CASE c = 7     -> <<Backslash, 97>>
      [] c = 8     -> <<Backslash, 98>>
      [] c = 12    -> <<Backslash, 102>>
      [] c = 13    -> <<Backslash, 114>>
      [] c = 9     -> <<Backslash, 116>>
      [] c = 11    -> <<Backslash, 120, 48, 66>>
      [] c = Quote -> <<Backslash, Quote>>
      [] (c > 0 /\ c < 32 /\ c # 10) \/ c = 127 -> Snprintf(c)
      [] OTHER     -> <<c>>

\* What the switch replaces the character c with.
Replacement(c) ==
    CASE c = 7     -> <<Backslash, 97>>              \* \a
      [] c = 8     -> <<Backslash, 98>>              \* \b
      [] c = 12    -> <<Backslash, 102>>             \* \f
      [] c = 10    -> <<Backslash, 110>>             \* \n
      [] c = 13    -> <<Backslash, 114>>             \* \r
      [] c = 9     -> <<Backslash, 116>>             \* \t
      [] c = 11    -> <<Backslash, 120, 48, 66>>     \* \x0B
      [] c = Quote -> <<Backslash, Quote>>           \* \'
      [] (c > 0 /\ c < 32) \/ c = 127 -> Snprintf(c)
      [] OTHER     -> <<c>>

Init ==
    /\ text \in Texts
    /\ ret = text
    /\ i = 0

\* Mutant: the index is not advanced.
StepNoAdvance ==
    /\ i < Len(ret)
    /\ Len(ret) < MaxLen
    /\ ret' = SubSeq(ret, 1, i) \o Replacement(ret[i + 1]) \o SubSeq(ret, i + 2, Len(ret))
    /\ UNCHANGED <<text, i>>

\* Mutant: the index steps over two characters.
StepSkipsTwo ==
    /\ i < Len(ret)
    /\ Len(ret) < MaxLen
    /\ ret' = SubSeq(ret, 1, i) \o Replacement(ret[i + 1]) \o SubSeq(ret, i + 2, Len(ret))
    /\ i' = i + 2
    /\ UNCHANGED text

\* One iteration of `for (auto i = 0; i < ret.size(); i++)`: the character
\* at i is replaced, and i moves on by one whatever the replacement's
\* length.
Step ==
    /\ i < Len(ret)
    /\ Len(ret) < MaxLen
    /\ ret' = SubSeq(ret, 1, i) \o Replacement(ret[i + 1]) \o SubSeq(ret, i + 2, Len(ret))
    /\ i' = i + 1
    /\ UNCHANGED text

Next == Step

\* The loop runs on the compiler's single thread: while it can iterate it
\* does.
Spec == Init /\ [][Next]_vars /\ WF_vars(Next)

Done == i >= Len(ret)

----------------------------------------------------------------------------
(* The reference: the string a JavaScript single-quoted literal with body *)
(* s denotes, or Invalid when s is not a literal body (an unescaped quote *)
(* or line terminator, a lone trailing backslash, a bad \x escape).       *)

Invalid == <<-1>>

HexValue(d) ==
    CASE d \in 48..57  -> d - 48
      [] d \in 65..70  -> d - 55
      [] d \in 97..102 -> d - 87
      [] OTHER         -> -1

\* SingleEscapeCharacter of ECMAScript; any other character after a
\* backslash stands for itself.
EscapeValue(c) ==
    CASE c = 98  -> 8  [] c = 102 -> 12 [] c = 110 -> 10
      [] c = 114 -> 13 [] c = 116 -> 9  [] c = 118 -> 11
      [] OTHER   -> c

RECURSIVE JsDecode(_)
JsDecode(s) ==
    CASE s = <<>> -> <<>>
      [] s[1] \in {Quote, 10, 13} -> Invalid
      [] s[1] # Backslash -> <<s[1]>> \o JsDecode(Tail(s))
      [] Len(s) = 1 -> Invalid
      [] s[2] = 120 ->
            IF Len(s) < 4 \/ HexValue(s[3]) < 0 \/ HexValue(s[4]) < 0 THEN Invalid
            ELSE <<16 * HexValue(s[3]) + HexValue(s[4])>> \o JsDecode(SubSeq(s, 5, Len(s)))
      [] OTHER -> <<EscapeValue(s[2])>> \o JsDecode(SubSeq(s, 3, Len(s)))

----------------------------------------------------------------------------
(* Properties.                                                            *)

TypeOK ==
    /\ text \in Texts
    /\ i \in 0..Len(ret)
    /\ Len(ret) =< MaxLen

\* escape() returns: the loop ends on every text (the function is called
\* on every Raw block and string literal the backend emits).
Terminates == <>Done

\* Once escape() has returned, the literal '<ret>' that raw() and
\* string_literal_expression() emit denotes exactly the original text.
RoundTrip == Done => JsDecode(ret) = text

\* What the visitor relies on when it writes `buffer += '<escape(text)>'`
\* for a Raw block, `data['<escape(name)>']` for a variable and
\* `'<escape(value)>'` for a string literal: escape() returns, on every
\* text, and the single-quoted literal it builds denotes the text.
EscapesText == <>(Done /\ JsDecode(ret) = text)

=============================================================================
