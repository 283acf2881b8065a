------------------------------- MODULE B2Ast -------------------------------
(***************************************************************************)
(* The data model of b2: the expression tree of lib/ast/expressions.hpp   *)
(* and the statement tree of lib/ast/ast.hpp, as records, with the        *)
(* expressions' clone() and the arithmetic of the C++ types the passes    *)
(* compute with.                                                          *)
(*                                                                         *)
(* Every edge of the C++ trees is an exclusive unique_ptr, so a tree is a *)
(* value: a record whose sub-trees are fields.  A null child pointer is   *)
(* the model value None.  Identifiers and texts are TLA+ strings taken    *)
(* from small sets in the MC modules.                                     *)
(***************************************************************************)
EXTENDS Integers, Sequences, TLC

CONSTANTS
    IntWidth,        \* bits of the C++ `long` (64 in the build, scaled down)
    DoubleMantissa,  \* significand bits of `double` (53 in the build, scaled)
    None             \* a null pointer / absent optional child

ASSUME IntWidth \in 2..16 /\ DoubleMantissa \in 1..IntWidth

----------------------------------------------------------------------------
(* `long` arithmetic.  Signed overflow wraps in the build (two's          *)
(* complement, no trap); division truncates toward zero.                  *)

MinInt == -(2^(IntWidth - 1))
MaxInt == 2^(IntWidth - 1) - 1
Long == MinInt..MaxInt

Wrap(v) == ((v - MinInt) % 2^IntWidth) + MinInt

AbsVal(v) == IF v < 0 THEN -v ELSE v

\* C++ `a / b` on integers: the quotient truncated toward zero.
TruncDiv(a, b) ==
    IF (a < 0) = (b < 0) THEN AbsVal(a) \div AbsVal(b)
                         ELSE -(AbsVal(a) \div AbsVal(b))

\* C++ `a % b`: the remainder has the sign of the dividend.
TruncMod(a, b) == a - b * TruncDiv(a, b)

\* Conversion of a `long` to `double`: the value rounded to DoubleMantissa
\* significant bits, ties to even (the default rounding mode).
BitLength(n) == CHOOSE k \in 0..(IntWidth + 1) : n < 2^k /\ (k = 0 \/ 2^(k - 1) =< n)
ToDouble(v) ==
    LET n     == AbsVal(v)
        drop  == BitLength(n) - DoubleMantissa
        q     == n \div 2^drop
        r     == n % 2^drop
        half  == 2^(drop - 1)
        up    == r > half \/ (r = half /\ q % 2 = 1)
        mag   == (IF up THEN q + 1 ELSE q) * 2^drop
    IN  IF drop =< 0 THEN v ELSE IF v < 0 THEN -mag ELSE mag

----------------------------------------------------------------------------
(* Expressions (expressions.hpp).  The record field `type` is the         *)
(* ExpressionType tag.                                                    *)

VarRef(n)     == [type |-> "VariableRef", name |-> n]
GetAttr(v, n) == [type |-> "GetAttribute", variable |-> v, name |-> n]
Call(n, args) == [type |-> "MethodCall", name |-> n, args |-> args]
IntLit(v)     == [type |-> "IntLit", value |-> v]
BoolLit(b)    == [type |-> "BoolLit", value |-> b]
StrLit(s)     == [type |-> "StrLit", value |-> s]
BinOp(l, r, op) == [type |-> "BinaryOp", left |-> l, right |-> r, op |-> op]
UnOp(e, op)     == [type |-> "UnaryOp", expr |-> e, op |-> op]
Cmp(l, r, op)   == [type |-> "Comparison", left |-> l, right |-> r, op |-> op]

LiteralTypes == {"IntLit", "BoolLit", "StrLit"}
LeafTypes    == LiteralTypes \cup {"VariableRef"}
ArithOps     == {"+", "-", "*", "/", "%"}
OrderOps     == {">", ">=", "<", "<="}
EqualityOps  == {"==", "!="}
LogicOps     == {"&&", "||"}

\* cloneExpressionList constructs the list with size() default (null)
\* elements and then appends the clones, so the copy is the original's
\* length of nulls followed by the clones.
RECURSIVE Clone(_)
CloneExpressionList(args) ==
    [i \in 1..Len(args) |-> None] \o [i \in 1..Len(args) |-> Clone(args[i])]

\* Expression::clone() of every expression kind.
Clone(e) ==
    CASE e.type = "GetAttribute" -> GetAttr(Clone(e.variable), e.name)
      [] e.type = "MethodCall"   -> Call(e.name, CloneExpressionList(e.args))
      [] e.type \in {"BinaryOp", "Comparison"} ->
            [e EXCEPT !.left = Clone(e.left), !.right = Clone(e.right)]
      [] e.type = "UnaryOp"      -> [e EXCEPT !.expr = Clone(e.expr)]
      [] OTHER                   -> e

----------------------------------------------------------------------------
(* Statement nodes (ast.hpp).  The record field `kind` is the ASTType.    *)

Stmts(cs)            == [kind |-> "Statements", children |-> cs]
Raw(t)               == [kind |-> "Raw", text |-> t]
PrintBlock(e)        == [kind |-> "Print", expr |-> e]
IfBlock(c, t, el)    == [kind |-> "If", cond |-> c, thenBody |-> t, elseBody |-> el]
ForBlock(k, v, it, b, el) ==
    [kind |-> "For", key |-> k, value |-> v, iterable |-> it, body |-> b, elseBody |-> el]
\* `mapping` is the variableMapping, a function from names to expressions.
IncludeBlock(n, s, m) == [kind |-> "Include", name |-> n, scope |-> s, mapping |-> m]

\* The children of a node that a walk visits, in order (absent ones omitted).
Present(s) == SelectSeq(s, LAMBDA x : x # None)
SubNodes(n) ==
    CASE n.kind = "Statements" -> n.children
      [] n.kind = "If"         -> Present(<<n.thenBody, n.elseBody>>)
      [] n.kind = "For"        -> Present(<<n.body, n.elseBody>>)
      [] OTHER                 -> <<>>

\* All nodes of a tree.
RECURSIVE Nodes(_)
Nodes(n) == {n} \cup UNION {Nodes(c) : c \in {SubNodes(n)[i] : i \in DOMAIN SubNodes(n)}}

\* Well-formed trees: every pointer the code dereferences is non-null and
\* every operator is one of its enum values (S2: For binders are variable
\* references).
RECURSIVE IsExpr(_)
IsExpr(e) ==
    /\ e # None
    /\ CASE e.type = "IntLit"       -> e.value \in Long
         [] e.type \in LeafTypes    -> TRUE
         [] e.type = "GetAttribute" -> IsExpr(e.variable)
         [] e.type = "MethodCall"   -> \A i \in DOMAIN e.args : IsExpr(e.args[i])
         [] e.type = "BinaryOp"     -> e.op \in ArithOps /\ IsExpr(e.left) /\ IsExpr(e.right)
         [] e.type = "UnaryOp"      -> e.op \in {"+", "-", "!"} /\ IsExpr(e.expr)
         [] e.type = "Comparison"   ->
               e.op \in EqualityOps \cup OrderOps \cup LogicOps
               /\ IsExpr(e.left) /\ IsExpr(e.right)
         [] OTHER -> FALSE

IsBinder(v) == v = None \/ (v # None /\ v.type = "VariableRef")

RECURSIVE IsNode(_)
IsNode(n) ==
    /\ n # None
    /\ \A i \in DOMAIN SubNodes(n) : IsNode(SubNodes(n)[i])
    /\ CASE n.kind \in {"Statements", "Raw"} -> TRUE
         [] n.kind = "Print"   -> IsExpr(n.expr)
         [] n.kind = "If"      -> IsExpr(n.cond)
         [] n.kind = "For"     ->
               IsExpr(n.iterable) /\ IsBinder(n.key) /\ IsBinder(n.value)
         [] n.kind = "Include" ->
               (n.scope = None \/ IsExpr(n.scope))
               /\ \A k \in DOMAIN n.mapping : IsExpr(n.mapping[k])
         [] OTHER -> FALSE

=============================================================================
