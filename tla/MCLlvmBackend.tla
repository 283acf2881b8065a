---------------------------- MODULE MCLlvmBackend ----------------------------
(***************************************************************************)
(* Templates one Engine compiles, for checking LlvmBackend with TLC.      *)
(***************************************************************************)
EXTENDS LlvmBackend

\* The optimised trees: a page, an if on a variable (LLVMVisitor::if_block
\* throws on a non-i1 condition), an addition of a boolean and an integer
\* (not folded; an ill-typed add), a loop whose body throws, and a page
\* that prints the loop's variable name.
MCTrees ==
    [n \in {"page", "ifvar", "typo", "loopif", "usev"} |->
        CASE n = "page"   -> Stmts(<<Raw("hello "), PrintBlock(VarRef("name"))>>)
          [] n = "ifvar"  -> IfBlock(VarRef("x"), Raw("yes"), None)
          [] n = "typo"   -> PrintBlock(BinOp(BoolLit(TRUE), IntLit(1), "+"))
          [] n = "loopif" -> ForBlock(None, VarRef("v"), VarRef("xs"), IfBlock(VarRef("v"), Raw("a"), None), None)
          [] n = "usev"   -> PrintBlock(VarRef("v"))]

\* A failed compile, then a good template.
ErrorThenPage == {"ifvar", "page"}
TypoThenPage  == {"typo", "page"}
LoopThenUse   == {"loopif", "usev"}
\* Every template above.
AllNames == DOMAIN MCTrees

=============================================================================
