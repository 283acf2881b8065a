------------------------------- MODULE MCEngine -------------------------------
(***************************************************************************)
(* Files and a PHP script's calls for checking Engine with TLC: pages     *)
(* that compile, one that includes another, an if on a variable (the      *)
(* lowering throws), a syntax error and a missing file.                   *)
(***************************************************************************)
EXTENDS Engine

Loop(k, v, it, body, el) == ForBlock(k, v, it, body, el)
NoBindings == [n \in {} |-> None]

\* {% for k, v in xs %}{{ k }}{{ v }}{% else %}empty{% endfor %}
KeyValuePage ==
    Loop(VarRef("k"), VarRef("v"), VarRef("xs"),
         Stmts(<<PrintBlock(VarRef("k")), PrintBlock(VarRef("v"))>>), Raw("empty"))
\* {% if x == y %}{{ x - y }}{% else %}{{ user.name }}{% endif %}
VariantIfPage ==
    IfBlock(Cmp(VarRef("x"), VarRef("y"), "=="),
            PrintBlock(BinOp(VarRef("x"), VarRef("y"), "-")),
            PrintBlock(GetAttr(VarRef("user"), "name")))
\* {% include "inner" %}{{ 1 + 2 }}, inner: {% for v in xs %}{{ v }}{% endfor %}
ShellPage == Stmts(<<IncludeBlock("inner", None, NoBindings), PrintBlock(BinOp(IntLit(1), IntLit(2), "+"))>>)
InnerPage == Loop(None, VarRef("v"), VarRef("xs"), PrintBlock(VarRef("v")), None)
\* {% if x %}t{% endif %}
IfVarPage == IfBlock(VarRef("x"), Raw("t"), None)

\* {% for k in x + y %}{% if k == k %}{{ -k }}{% endif %}{% endfor %}a
TemporaryPage ==
    Stmts(<<Loop(VarRef("k"), None, BinOp(VarRef("x"), VarRef("y"), "+"),
                 IfBlock(Cmp(VarRef("k"), VarRef("k"), "=="), PrintBlock(UnOp(VarRef("k"), "-")), None),
                 None),
            Raw("a")>>)

MCFiles ==
    ("page" :> KeyValuePage) @@ ("cond" :> VariantIfPage) @@ ("shell" :> ShellPage)
    @@ ("inner" :> InnerPage) @@ ("ifvar" :> IfVarPage) @@ ("broken" :> ParseFailure)
    @@ ("temp" :> TemporaryPage)

MCNames == {"page", "cond", "shell", "ifvar", "broken", "missing", "temp"}

=============================================================================
