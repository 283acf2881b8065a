------------------------ MODULE MCIncludeOwnership ------------------------
(***************************************************************************)
(* Include files for checking the ownership of included trees with TLC:  *)
(* spec scenarios 5 and 6 (inner, card), a file whose root the walk      *)
(* replaces (word: one statement) and one that releases an include's     *)
(* tree as its root (wrap), an include as an if body (guarded), a file    *)
(* whose include fails to parse (broken), and a missing file.            *)
(***************************************************************************)
EXTENDS IncludeOwnership

NoMapping == [n \in {} |-> None]

MCTemplates ==
    [n \in {"inner", "card", "word", "wrap", "guarded", "broken", "bad"} |->
        CASE n = "inner"   -> Stmts(<<Raw("hello "), PrintBlock(VarRef("name"))>>)
          [] n = "card"    -> Stmts(<<PrintBlock(VarRef("name")), Raw("-"),
                                      IncludeBlock("inner", None, [name |-> VarRef("age")])>>)
          [] n = "word"    -> Stmts(<<Raw("w")>>)
          [] n = "wrap"    -> Stmts(<<IncludeBlock("word", None, NoMapping)>>)
          [] n = "guarded" -> Stmts(<<IfBlock(VarRef("c"),
                                             IncludeBlock("inner", None, [name |-> StrLit("z")]),
                                             None),
                                      Raw("x")>>)
          [] n = "broken"  -> Stmts(<<Raw("b"), IncludeBlock("bad", None, NoMapping)>>)
          [] n = "bad"     -> ParseFailure]

Pool ==
    { Raw("a"),
      IncludeBlock("card", VarRef("u"), NoMapping),
      IncludeBlock("inner", None, [name |-> VarRef("x")]),
      IncludeBlock("wrap", None, NoMapping),
      IncludeBlock("guarded", VarRef("g"), NoMapping),
      IncludeBlock("broken", None, NoMapping),
      IncludeBlock("missing", None, NoMapping),
      IfBlock(VarRef("c"), IncludeBlock("word", None, NoMapping), None) }

MCInputs == {Stmts(<<a>>) : a \in Pool} \cup {Stmts(<<a, b>>) : a, b \in Pool}

\* `a{% include "inner" %}`: inner uses `name`, which nothing binds.
UnboundInputs == {Stmts(<<Raw("a"), IncludeBlock("inner", None, NoMapping)>>)}

=============================================================================
