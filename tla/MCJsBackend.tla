----------------------------- MODULE MCJsBackend -----------------------------
(* The JavaScript backend on trees that exercise loop-variable shadowing: *)
(* nested loops rebinding a name, key and value of the same name, the     *)
(* iterable and the else body of a loop, references after it, else-if    *)
(* chains and method calls.                                               *)
EXTENDS JsBackend

x == VarRef("x")
y == VarRef("y")

\* for x, y in xs: print x; for y in y: print y.a; print x; print y
\*                 else: print x
NestedLoops ==
    Stmts(<<ForBlock(x, y, VarRef("xs"),
                     Stmts(<<PrintBlock(x),
                             ForBlock(None, y, y, PrintBlock(GetAttr(y, "a")), None),
                             PrintBlock(Call("f", <<x, y>>))>>),
                     PrintBlock(x)),
            PrintBlock(y)>>)

\* for x, x in x: print x else raw;  print x
SameName ==
    Stmts(<<ForBlock(x, x, x, PrintBlock(x), Raw("e")), PrintBlock(x)>>)

\* for x in x: (for x in x: if x: print x elif y: raw else: print -x); print x
Rebound ==
    ForBlock(None, x, x,
             Stmts(<<ForBlock(None, x, x,
                              IfBlock(x, PrintBlock(x),
                                      IfBlock(y, Raw("r"), PrintBlock(UnOp(x, "-")))),
                              None),
                     PrintBlock(Cmp(x, IntLit(1), "=="))>>),
             PrintBlock(x))

\* The binders a loop may have: key, value or both, named x or y.
Binders == {<<k, v>> \in {None, x, y} \X {None, x, y} : <<k, v>> # <<None, None>>}

Use == PrintBlock(Call("f", <<x, y>>))

\* A loop over x with a body that uses both names, or such a loop nested in
\* it with any binders, an optional else body, and a use after the loop.
LoopFamily ==
    {Stmts(<<ForBlock(b[1], b[2], it, body, el), PrintBlock(after)>>) :
        b \in Binders, it \in {x, y},
        body \in {Use} \cup {ForBlock(c[1], c[2], x, Use, None) : c \in Binders},
        el \in {None, Use}, after \in {x, y}}

\* An include the pipeline left in a loop body (the resolve pass off).
Unresolved == ForBlock(None, x, y, Stmts(<<Use, IncludeBlock("t", None, <<>>)>>), None)

MCInputs == {NestedLoops, SameName, Rebound, Unresolved} \cup LoopFamily

\* Two expressions that differ only in their grouping.
Grouped(l, r) == PrintBlock(BinOp(l, r, "*"))
GroupingInputs ==
    {Grouped(BinOp(x, y, "+"), IntLit(2)), PrintBlock(BinOp(x, BinOp(y, IntLit(2), "*"), "+"))}

\* A sum.
SumInputs == {PrintBlock(BinOp(x, y, "+"))}

=============================================================================
