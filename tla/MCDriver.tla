----------------------------- MODULE MCDriver -----------------------------
(***************************************************************************)
(* Command lines and template files for checking Driver with TLC.  The    *)
(* option sequences have up to two options, drawn from a set that holds   *)
(* one option of every case of the driver's switch, flag options of       *)
(* print.cpp in both directions and an unknown option or pass name.       *)
(***************************************************************************)
EXTENDS Driver

NoMapping == [n \in {} |-> None]
Opt(n, a) == [name |-> n, arg |-> a]
Flag(n)   == Opt(n, "")

DivZero == BinOp(IntLit(4), IntLit(0), "/")
\* `(-15 - 1) / -1`: the smallest `long` divided by -1 (IntWidth = 5).
MinDivMinusOne ==
    BinOp(BinOp(UnOp(IntLit(15), "-"), IntLit(1), "-"), UnOp(IntLit(1), "-"), "/")

\* The files: a page that includes a partial, the partial, a division by
\* zero, a page including a missing file, a file with a syntax error, a
\* page including it, a page with a trapping division, a loop, a page
\* that includes the partial without binding its variable, one that binds
\* it to a method call (cloned at every use) and a file including itself.
MCTemplates ==
    [f \in {"page", "inner", "divzero", "lost", "broken", "usesbroken", "trap", "loop", "unbound", "cloned", "self"} |->
        CASE f = "page"       -> Stmts(<<Raw("a"), PrintBlock(BinOp(IntLit(1), IntLit(2), "+")),
                                         IncludeBlock("inner", None, [name |-> VarRef("x")])>>)
          [] f = "inner"      -> Stmts(<<Raw("hello "), PrintBlock(VarRef("name"))>>)
          [] f = "divzero"    -> Stmts(<<Raw("a"), PrintBlock(DivZero)>>)
          [] f = "lost"       -> Stmts(<<IncludeBlock("missing", None, NoMapping), Raw("b")>>)
          [] f = "broken"     -> ParseFailure
          [] f = "usesbroken" -> Stmts(<<Raw("a"), IncludeBlock("broken", None, NoMapping)>>)
          [] f = "trap"       -> Stmts(<<PrintBlock(MinDivMinusOne)>>)
          [] f = "unbound"    -> Stmts(<<IncludeBlock("inner", None, NoMapping), Raw("c")>>)
          [] f = "cloned"     -> Stmts(<<Raw("a"), IncludeBlock("inner", None, [name |-> Call("upper", <<VarRef("y")>>)])>>)
          [] f = "self"       -> Stmts(<<Raw("s"), IncludeBlock("self", None, NoMapping)>>)
          [] f = "loop"       -> ForBlock(None, VarRef("v"), VarRef("xs"),
                                          Stmts(<<Raw("b"), PrintBlock(VarRef("v"))>>), None)]

UpToTwo(S) == {<<>>} \cup {<<a>> : a \in S} \cup {<<a, b>> : a, b \in S}

PrintOptions ==
    { Flag("disable-all-passes"), Flag("enable-all-passes"),
      Flag("enable-constant-folding-pass"), Flag("disable-resolve-includes-pass"),
      Opt("t", "templates"), Flag("h"), Flag("enable-pass") }

JsOptions ==
    { Opt("disable-pass", "resolve-includes-pass"), Opt("enable-pass", "resolve-includes-pass"),
      Opt("disable-pass", "constant-folding-pass"), Opt("enable-pass", "no-such-pass"),
      Flag("enable-undefined-check"), Flag("list-passes"),
      Opt("template-basepath", "templates"), Flag("help"), Flag("disable-all-passes") }

\* Command lines of ast_print: every file above, a bad operand count.
PrintArgvs ==
    [prog : {"ast_print"}, opts : UpToTwo(PrintOptions),
     args : {<<>>, <<"page", "inner">>} \cup
            {<<f>> : f \in DOMAIN MCTemplates \ {"inner", "loop"}} \cup {<<"nofile">>}]

\* Command lines of js_precompiler: files that compile, a syntax error, a
\* division by zero, and a page with an include, and a bad operand
\* count.
JsArgvs ==
    [prog : {"js_precompiler"}, opts : UpToTwo(JsOptions),
     args : {<<>>, <<"loop">>, <<"inner">>, <<"broken">>, <<"divzero">>, <<"page">>}]

MCArgvs == PrintArgvs \cup JsArgvs

\* `b2-print nofile`: the template file does not exist.
MissingArgvs == {[prog |-> "ast_print", opts |-> <<>>, args |-> <<"nofile">>]}

\* `b2-print usesbroken`: an included file has a syntax error.
SyntaxIncludeArgvs == {[prog |-> "ast_print", opts |-> <<>>, args |-> <<"usesbroken">>]}

\* `b2-js divzero`: the folding pass raises DivisionByZero.
JsDivArgvs == {[prog |-> "js_precompiler", opts |-> <<>>, args |-> <<"divzero">>]}

\* `b2-js --disable-pass=resolve-includes-pass page`: an include reaches
\* the backend.
JsIncludeArgvs == {[prog |-> "js_precompiler", opts |-> <<Opt("disable-pass", "resolve-includes-pass")>>, args |-> <<"page">>]}

=============================================================================
