-------------------------- MODULE ConstantFolding --------------------------
(***************************************************************************)
(* FoldConstantExpressionsPass on one expression, the expression walk of *)
(* pass.hpp applied to an expression slot, compared with SpecFold, the    *)
(* folding rules of spec section 4.3 written as a bottom-up evaluation.  *)
(***************************************************************************)
EXTENDS AstPasses

CONSTANTS
    Exprs    \* expressions in an expression slot of the parsed template

VARIABLES
    expr,    \* the expression before the pass
    result   \* the result record of the pass, None before it has run

vars == <<expr, result>>

Init ==
    /\ expr \in Exprs
    /\ result = None

\* ExpressionPassWrapper hands the slot to FoldConstantExpressionsPass:
\* `m_expressionPass->process(old_expr)`.  An uninitialised read comes out
\* as `junk`.
FoldSlot ==
    /\ result = None
    /\ \E junk \in BOOLEAN : result' = WalkExpr(FoldPass(junk), expr)
    /\ UNCHANGED expr

Next == FoldSlot

Spec == Init /\ [][Next]_vars

----------------------------------------------------------------------------
(* The reference: spec 4.3.  Integer arithmetic wraps, / and % by zero   *)
(* are a DivisionByZero error, ==/!= compare numbers exactly (widening    *)
(* only a mixed int/double pair), booleans and strings; ordering needs    *)
(* numeric operands, && and || boolean ones; anything else is left as it *)
(* is with its children folded.                                          *)

SpecArith(op, a, b) ==
    CASE op \in {"/", "%"} /\ b = 0 -> Err("DivisionByZero")
      [] op = "+" -> Ok(IntLit(Wrap(a + b)))
      [] op = "-" -> Ok(IntLit(Wrap(a - b)))
      [] op = "*" -> Ok(IntLit(Wrap(a * b)))
      [] op = "/" -> Ok(IntLit(Wrap(TruncDiv(a, b))))
      [] op = "%" -> Ok(IntLit(Wrap(TruncMod(a, b))))

SpecCompare(e) ==
    LET l == e.left
        r == e.right
    IN  CASE e.op \in EqualityOps /\ l.type = r.type /\ l.type \in LiteralTypes ->
                BoolLit((l.value = r.value) = (e.op = "=="))
          [] e.op \in OrderOps /\ l.type = "IntLit" /\ r.type = "IntLit" ->
                BoolLit(CASE e.op = ">"  -> l.value > r.value
                          [] e.op = ">=" -> l.value >= r.value
                          [] e.op = "<"  -> l.value < r.value
                          [] e.op = "<=" -> l.value =< r.value)
          [] e.op \in LogicOps /\ l.type = "BoolLit" /\ r.type = "BoolLit" ->
                BoolLit(IF e.op = "&&" THEN l.value /\ r.value ELSE l.value \/ r.value)
          [] OTHER -> e

RECURSIVE SpecFold(_), SpecFoldArgs(_)
SpecFoldArgs(args) ==
    IF args = <<>> THEN Ok(<<>>)
    ELSE LET h == SpecFold(Head(args))
             t == SpecFoldArgs(Tail(args))
         IN  IF Failed(h) THEN h ELSE IF Failed(t) THEN t ELSE Ok(<<h.val>> \o t.val)

SpecFold(e) ==
    CASE e.type \in LeafTypes -> Ok(e)
      [] e.type = "GetAttribute" -> WithField(e, "variable", SpecFold(e.variable))
      [] e.type = "MethodCall"   -> WithField(e, "args", SpecFoldArgs(e.args))
      [] e.type = "UnaryOp" ->
            LET s == SpecFold(e.expr)
            IN  CASE Failed(s) -> s
                  [] e.op \in {"+", "-"} /\ s.val.type = "IntLit" ->
                        Ok(IntLit(Wrap(IF e.op = "-" THEN -s.val.value ELSE s.val.value)))
                  [] e.op = "!" /\ s.val.type = "BoolLit" -> Ok(BoolLit(~s.val.value))
                  [] OTHER -> Ok([e EXCEPT !.expr = s.val])
      [] OTHER ->
            LET l == SpecFold(e.left)
                r == SpecFold(e.right)
                e1 == [e EXCEPT !.left = l.val, !.right = r.val]
            IN  CASE Failed(l) -> l
                  [] Failed(r) -> r
                  [] e.type = "BinaryOp" /\ l.val.type = "IntLit" /\ r.val.type = "IntLit" ->
                        SpecArith(e.op, l.val.value, r.val.value)
                  [] e.type = "BinaryOp" -> Ok(e1)
                  [] OTHER -> Ok(SpecCompare(e1))

----------------------------------------------------------------------------
(* Properties.                                                            *)

TypeOK ==
    /\ IsExpr(expr)
    /\ result = None \/ (Failed(result) /\ result.err \in Exceptions \cup Crashes)
                     \/ (~Failed(result) /\ IsExpr(result.val))

\* process_node(BinaryOp/UnaryOp/Comparison) folds the operands before it
\* looks at them, and the walk then descends again: the folded expression
\* has nothing left that the rules of spec 4.3 would fold.
FoldComplete ==
    (result # None /\ ~Failed(result)) => SpecFold(result.val) = Ok(result.val)

\* The pass computes what spec 4.3 says, error or value.
FoldMatchesSpec ==
    result # None => result = SpecFold(expr)

\* Spec C1: Expression::clone() of an expression is an equal, independent
\* copy (the include pass clones every binding it substitutes).
CloneIsCopy == Clone(expr) = expr

=============================================================================
