---------------------------- MODULE MCPhpRender ----------------------------
(***************************************************************************)
(* Templates, after the engine's passes, for checking PhpRender with TLC. *)
(* They cover every construct LlvmLowering lowers: raw text, prints of a  *)
(* lookup, an attribute and a variant operation, loops with key, value    *)
(* and else body, nested loops that shadow a name, an if on a variant     *)
(* comparison and a loop over a temporary; and templates the lowering     *)
(* rejects.                                                                *)
(***************************************************************************)
EXTENDS PhpRender

Loop(k, v, it, body, el) == ForBlock(k, v, it, body, el)

\* {% for k, v in xs %}{{ k }}{{ v }}{{ k + 1 }}{% else %}empty{% endfor %}
KeyValueLoop ==
    Loop(VarRef("k"), VarRef("v"), VarRef("xs"),
         Stmts(<<PrintBlock(VarRef("k")), PrintBlock(VarRef("v")),
                 PrintBlock(BinOp(VarRef("k"), IntLit(1), "+"))>>),
         Raw("empty"))

\* {% for v in xs %}{% for v in v %}{{ v }}{% endfor %}{{ v }}{% endfor %}
ShadowingLoops ==
    Loop(None, VarRef("v"), VarRef("xs"),
         Stmts(<<Loop(None, VarRef("v"), VarRef("v"), PrintBlock(VarRef("v")), None),
                 PrintBlock(VarRef("v"))>>),
         None)

\* {% if x == y %}{{ x - y }}{% else %}{{ user.name }}{% endif %}
VariantIf ==
    IfBlock(Cmp(VarRef("x"), VarRef("y"), "=="),
            PrintBlock(BinOp(VarRef("x"), VarRef("y"), "-")),
            PrintBlock(GetAttr(VarRef("user"), "name")))

\* {% for k in x + y %}{% if k == k %}{{ -k }}{% endif %}{% endfor %}a
TemporaryLoop ==
    Stmts(<<Loop(VarRef("k"), None, BinOp(VarRef("x"), VarRef("y"), "+"),
                 IfBlock(Cmp(VarRef("k"), VarRef("k"), "=="), PrintBlock(UnOp(VarRef("k"), "-")), None),
                 None),
            Raw("a")>>)

\* Templates the lowering rejects: an if on a variant, an include the
\* engine left, an operation on operands of mismatched types, a method call,
\* and two loops nested in a third over the same loop variable (the inner
\* cleanup erases the loop metadata the middle loop still reads).
NestedSameIterable ==
    Loop(None, VarRef("a"), VarRef("xs"),
         Loop(None, VarRef("b"), VarRef("a"),
              Loop(None, VarRef("c"), VarRef("a"), Raw("t"), None), None), None)

Rejected ==
    { IfBlock(VarRef("x"), Raw("t"), None),
      NestedSameIterable,
      IncludeBlock("inner", None, [n \in {} |-> None]),
      PrintBlock(BinOp(BoolLit(TRUE), IntLit(1), "+")),
      PrintBlock(Call("upper", <<VarRef("x")>>)) }

MCInputs == {KeyValueLoop, ShadowingLoops, VariantIf, TemporaryLoop} \cup Rejected

\* {{ (x + y).a }}: an attribute of a temporary.
AttrOfTemporary == {PrintBlock(GetAttr(BinOp(VarRef("x"), VarRef("y"), "+"), "a"))}

\* {{ xs }}{% for v in xs %}{{ v }}{% endfor %}: a variable printed, then
\* walked.
PrintThenLoop ==
    {Stmts(<<PrintBlock(VarRef("xs")), Loop(None, VarRef("v"), VarRef("xs"), PrintBlock(VarRef("v")), None)>>)}

\* Both ways a render reads a zval that was already destroyed.
UafInputs == AttrOfTemporary \cup PrintThenLoop

=============================================================================
