------------------------- MODULE MCConstantFolding -------------------------
(***************************************************************************)
(* Expressions for checking ConstantFolding with TLC, with `long` scaled  *)
(* to IntWidth = 5 bits (MinInt = -16) and `double` to DoubleMantissa = 3 *)
(* significand bits, so that 9 is the first integer a double cannot hold. *)
(* The parser produces non-negative integer literals; a negative number   *)
(* is a unary minus.                                                      *)
(***************************************************************************)
EXTENDS ConstantFolding

NoTemplates == [n \in {} |-> None]

Leaves == {IntLit(0), IntLit(1), IntLit(8), IntLit(9), BoolLit(TRUE), StrLit("s"), VarRef("x")}

Depth1 ==
       {BinOp(l, r, op) : l, r \in Leaves, op \in ArithOps}
  \cup {Cmp(l, r, op) : l, r \in Leaves, op \in EqualityOps \cup OrderOps \cup LogicOps}
  \cup {UnOp(l, op) : l \in Leaves, op \in {"+", "-", "!"}}
  \cup {GetAttr(l, "a") : l \in {VarRef("x")}}

\* Depth-two expressions: a depth-one expression under a unary operator, or
\* as an operand next to a leaf.
Depth2 ==
       {UnOp(e, op) : e \in Depth1, op \in {"-", "!"}}
  \cup {BinOp(e, l, op) : e \in Depth1, l \in {IntLit(1), VarRef("x")}, op \in {"+", "/"}}
  \cup {Cmp(l, e, op) : e \in Depth1, l \in {IntLit(1), BoolLit(TRUE)}, op \in {"==", "<", "&&"}}
  \cup {Call("f", <<e>>) : e \in Depth1}

MCExprs == Leaves \cup Depth1 \cup Depth2

\* `1 < true`, `"s" >= 0`: ordering comparisons of a number with a literal
\* of another kind.
MixedOrderExprs == {Cmp(IntLit(1), BoolLit(TRUE), "<"), Cmp(StrLit("s"), IntLit(0), ">=")}

\* `true && 2`, `false || "s"`: a logical operator with one boolean operand.
MixedLogicExprs == {Cmp(BoolLit(TRUE), IntLit(2), "&&"), Cmp(BoolLit(FALSE), StrLit("s"), "||")}

\* `8 == 9` and `9 != 8`: two integers that round to the same double.
IntEqualityExprs == {Cmp(IntLit(8), IntLit(9), "=="), Cmp(IntLit(9), IntLit(8), "!=")}

\* `(-15 - 1) / -1` and `(-15 - 1) % -1`.
MinDivExprs ==
    {BinOp(BinOp(UnOp(IntLit(15), "-"), IntLit(1), "-"), UnOp(IntLit(1), "-"), op) : op \in {"/", "%"}}

\* Every expression above on which the pass and spec 4.3 disagree.
SpecDivergentExprs == MixedOrderExprs \cup MixedLogicExprs \cup IntEqualityExprs \cup MinDivExprs

\* `f(x)`, `f(1 + 2)`: method calls, as they appear in include bindings.
CallExprs == {Call("f", <<VarRef("x")>>), Call("f", <<BinOp(IntLit(1), IntLit(2), "+")>>)}

=============================================================================
