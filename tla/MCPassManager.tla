--------------------------- MODULE MCPassManager ---------------------------
(***************************************************************************)
(* Small templates for checking PassManager with TLC.  The compiled       *)
(* template is two or three top-level statements drawn from Pool; the    *)
(* include files are the templates of spec scenarios 5 and 6, a file     *)
(* that itself includes one, an empty file, a file that includes itself, *)
(* a file with a syntax error and a missing file.                         *)
(***************************************************************************)
EXTENDS PassManager

NoMapping == [n \in {} |-> None]

\* Parser output of the include files.
MCTemplates ==
    [n \in {"inner", "card", "empty", "loop", "bad"} |->
        CASE n = "inner" -> Stmts(<<Raw("hello "), PrintBlock(VarRef("name"))>>)
          [] n = "card"  -> Stmts(<<PrintBlock(VarRef("name")), Raw("-"),
                                   IncludeBlock("inner", None, [name |-> VarRef("age")])>>)
          [] n = "empty" -> Stmts(<<>>)
          [] n = "loop"  -> Stmts(<<Raw("l"), IncludeBlock("loop", None, NoMapping)>>)
          [] n = "bad"   -> ParseFailure]

\* `1 + 2 * 3` of spec scenario 1, and an integer division by zero.
SumProduct == BinOp(IntLit(1), BinOp(IntLit(2), IntLit(3), "*"), "+")
DivZero    == BinOp(IntLit(4), IntLit(0), "/")
\* `(-15 - 1) / -1`: the smallest `long` divided by -1 (IntWidth = 5).
MinDivMinusOne ==
    BinOp(BinOp(UnOp(IntLit(15), "-"), IntLit(1), "-"), UnOp(IntLit(1), "-"), "/")

Pool ==
    { Raw("a"),
      PrintBlock(SumProduct),
      PrintBlock(VarRef("x")),
      PrintBlock(DivZero),
      PrintBlock(MinDivMinusOne),
      IfBlock(Cmp(VarRef("x"), IntLit(1), "=="), Stmts(<<PrintBlock(BoolLit(TRUE))>>), None),
      ForBlock(None, VarRef("v"), VarRef("xs"),
               Stmts(<<Raw("b"), PrintBlock(VarRef("v"))>>), Raw("c")),
      IncludeBlock("card", VarRef("u"), NoMapping),
      IncludeBlock("inner", None, [name |-> VarRef("x")]),
      IncludeBlock("inner", None, NoMapping),
      IncludeBlock("missing", None, NoMapping),
      IncludeBlock("bad", None, NoMapping),
      IncludeBlock("loop", None, NoMapping) }

MCInputs ==
    {Stmts(<<a, b>>) : a, b \in Pool} \cup {Stmts(<<a, b, c>>) : a, b, c \in Pool}

\* `a{% include "loop" %}`: a template that includes itself.
CycleInputs == {Stmts(<<Raw("a"), IncludeBlock("loop", None, NoMapping)>>)}

\* `{% include "inner" with {name: upper(y)} %}`: a method call as binding.
ClonedCallInputs ==
    {Stmts(<<Raw("a"), IncludeBlock("inner", None, [name |-> Call("upper", <<VarRef("y")>>)])>>)}

\* `{% if x %}{% include "empty" %}{% endif %}a`: an empty file included as
\* the body of an if.
EmptyBodyInputs ==
    {Stmts(<<IfBlock(VarRef("x"), IncludeBlock("empty", None, NoMapping), None), Raw("a")>>)}

=============================================================================
