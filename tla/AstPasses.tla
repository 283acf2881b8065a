----------------------------- MODULE AstPasses -----------------------------
(***************************************************************************)
(* The rewriting framework of lib/ast/passes/pass.hpp and the four passes *)
(* of the pipeline, as pure operators on the trees of B2Ast.              *)
(*                                                                         *)
(* A pass is a descriptor record; `pass` names the hook set it overrides:  *)
(*   "resolve"   ResolveIncludesPass        (ASTPass)                     *)
(*   "print2raw" ConvertLiteralPrintBlockToRawBlockPass (ASTPass)         *)
(*   "coalesce"  CoalesceRawBlocksPass      (ASTPass)                     *)
(*   "fold"      FoldConstantExpressionsPass                               *)
(*   "replace"   ReplaceVariableReferencesPass                             *)
(*   "scope"     PrependScopePass           (ExpressionPass, each wrapped *)
(*               by the ExpressionPassWrapper of pass_manager.cpp)        *)
(*                                                                         *)
(* Every walk returns a result record: [err |-> "none", val |-> tree] or   *)
(* [err |-> kind, val |-> None].  A C++ exception and a process crash both *)
(* abandon the walk at once; the kinds tell them apart.                   *)
(***************************************************************************)
EXTENDS B2Ast, SequencesExt

CONSTANTS
    Templates,       \* include name -> the tree the parser returns for it
    ParseFailure,    \* Templates[n] = ParseFailure: the file has a syntax error
    MaxIncludeDepth  \* nesting of include processing that exhausts the stack

ASSUME MaxIncludeDepth \in Nat \ {0}

Exceptions == {"DivisionByZero", "MissingVariableReference", "IOError", "SyntaxError"}
Crashes    == {"SIGFPE", "StackOverflow", "SegmentationFault"}

Ok(v)      == [err |-> "none", val |-> v]
Err(k)     == [err |-> k, val |-> None]
Failed(r)  == r.err # "none"
\* The node n with field f replaced by the result r of walking it.
WithField(n, f, r) == IF Failed(r) THEN r ELSE Ok([n EXCEPT ![f] = r.val])

ResolvePass(d)  == [pass |-> "resolve", depth |-> d]
FoldPass(junk)  == [pass |-> "fold", junk |-> junk]
PrintToRawPass  == [pass |-> "print2raw"]
CoalescePass    == [pass |-> "coalesce"]
ReplacePass(m)  == [pass |-> "replace", mapping |-> m]
ScopePass(s)    == [pass |-> "scope", scope |-> s]
ExpressionPasses == {"fold", "replace", "scope"}

----------------------------------------------------------------------------
(* Constant folding (fold_constant_expressions_pass.cpp).                 *)

IsNumericLiteral(e) == e.type = "IntLit"
IsLiteral(e)        == e.type \in LiteralTypes

\* Mutant: the sum, difference and product are not reduced to a `long`.
FoldIntegersUnwrapped(op, a, b) ==
    CASE op = "+" -> Ok(IntLit(a + b))
      [] op = "-" -> Ok(IntLit(a - b))
      [] op = "*" -> Ok(IntLit(a * b))
      [] op \in {"/", "%"} /\ b = 0 -> Err("DivisionByZero")
      [] op \in {"/", "%"} /\ a = MinInt /\ b = -1 -> Err("SIGFPE")
      [] op = "/" -> Ok(IntLit(TruncDiv(a, b)))
      [] op = "%" -> Ok(IntLit(TruncMod(a, b)))

\* The `long` operations of the integer branch of process_node(BinaryOp):
\* + - * wrap; / and % throw on a zero divisor; MinInt / -1 and
\* MinInt % -1 trap in the idiv instruction (SIGFPE).
FoldIntegers(op, a, b) ==
    CASE op = "+" -> Ok(IntLit(Wrap(a + b)))
      [] op = "-" -> Ok(IntLit(Wrap(a - b)))
      [] op = "*" -> Ok(IntLit(Wrap(a * b)))
      [] op \in {"/", "%"} /\ b = 0 -> Err("DivisionByZero")
      [] op \in {"/", "%"} /\ a = MinInt /\ b = -1 -> Err("SIGFPE")
      [] op = "/" -> Ok(IntLit(TruncDiv(a, b)))
      [] op = "%" -> Ok(IntLit(TruncMod(a, b)))

\* NUMERIC_VALUE(x) < NUMERIC_VALUE(y) etc.: both operands as doubles.  A
\* literal that is not numeric is read through a DoubleLiteralExpression
\* pointer, an uninitialised read whose outcome is `junk`.
OrderHolds(op, l, r, junk) ==
    IF IsNumericLiteral(l) /\ IsNumericLiteral(r)
    THEN LET a == ToDouble(l.value)
             b == ToDouble(r.value)
         IN  CASE op = ">" -> a > b [] op = ">=" -> a >= b
               [] op = "<" -> a < b [] op = "<=" -> a =< b
    ELSE junk

\* The `value` of a literal read through a BooleanLiteralExpression
\* pointer: the low byte of a long; for a string the low byte of its
\* pointer, which is `junk`.
BoolRead(x, junk) ==
    CASE x.type = "BoolLit" -> x.value
      [] x.type = "IntLit"  -> x.value % 256 # 0
      [] OTHER              -> junk

\* Folding of a Comparison whose operands are both literals; `e` itself
\* when the code breaks out of the switch.
FoldLiteralComparison(e, l, r, junk) ==
    CASE e.op \in EqualityOps ->
            LET eq == CASE IsNumericLiteral(l) /\ IsNumericLiteral(r) ->
                              ToDouble(l.value) = ToDouble(r.value)
                        [] l.type = r.type -> l.value = r.value
            IN  IF (IsNumericLiteral(l) /\ IsNumericLiteral(r)) \/ l.type = r.type
                THEN BoolLit(IF e.op = "==" THEN eq ELSE ~eq)
                ELSE e
      [] e.op \in OrderOps ->
            IF ~IsNumericLiteral(l) /\ ~IsNumericLiteral(r) THEN e
            ELSE BoolLit(OrderHolds(e.op, l, r, junk))
      [] e.op \in LogicOps ->
            IF l.type # "BoolLit" /\ r.type # "BoolLit" THEN e
            ELSE IF e.op = "||" THEN BoolLit(BoolRead(l, junk) \/ BoolRead(r, junk))
                                ELSE BoolLit(BoolRead(l, junk) /\ BoolRead(r, junk))

----------------------------------------------------------------------------
(* The expression walk (ExpressionPass) and the hooks of the expression   *)
(* passes.                                                                *)

\* The sub-expressions the walk visits, in order, and the expression with
\* its sub-expressions replaced.
SubExprs(x) ==
    CASE x.type = "GetAttribute" -> <<x.variable>>
      [] x.type = "MethodCall"   -> x.args
      [] x.type = "UnaryOp"      -> <<x.expr>>
      [] OTHER                   -> <<x.left, x.right>>

WithSubExprs(x, s) ==
    CASE x.type = "GetAttribute" -> [x EXCEPT !.variable = s[1]]
      [] x.type = "MethodCall"   -> [x EXCEPT !.args = s]
      [] x.type = "UnaryOp"      -> [x EXCEPT !.expr = s[1]]
      [] OTHER                   -> [x EXCEPT !.left = s[1], !.right = s[2]]

RECURSIVE WalkExpr(_, _), WalkArgs(_, _, _), ProcessExpr(_, _), FoldOperands(_, _),
          FoldOperator(_, _), WalkHooked(_, _, _), WalkArgsFrom(_, _, _, _)

\* The literal kinds the hooks test for: isNumericLiteralExpression,
\* isLiteralExpression, isBooleanLiteralExpression ("any": none, every
\* expression is walked).
IsWanted(x, want) ==
    CASE want = "numeric" -> IsNumericLiteral(x)
      [] want = "literal" -> IsLiteral(x)
      [] want = "boolean" -> x.type = "BoolLit"
      [] want = "any"     -> FALSE

\* The literal kind the folding hook of e needs its operands to be.
WantOf(e) ==
    CASE e.type = "BinaryOp"   -> "numeric"
      [] e.type = "Comparison" -> "literal"
      [] e.op \in {"+", "-"}   -> "numeric"
      [] OTHER                 -> "boolean"

\* Mutant: the hook does not fold the operands before looking at them.
FoldOperandsSkipped(p, e) == Ok(SubExprs(e))

\* `this->process(x)` on each operand that is not yet of the kind the hook
\* folds, left before right.
FoldOperands(p, e) == WalkArgs(p, SubExprs(e), WantOf(e))

FoldBinary(e, ops) ==
    IF ~IsNumericLiteral(ops[1]) \/ ~IsNumericLiteral(ops[2])
    THEN Ok([e EXCEPT !.left = ops[1], !.right = ops[2]])
    ELSE FoldIntegers(e.op, ops[1].value, ops[2].value)

FoldUnary(e, ops) ==
    CASE e.op \in {"+", "-"} /\ IsNumericLiteral(ops[1]) ->
            Ok(IntLit(Wrap(ops[1].value * (IF e.op = "-" THEN -1 ELSE 1))))
      [] e.op = "!" /\ ops[1].type = "BoolLit" -> Ok(BoolLit(~ops[1].value))
      [] OTHER -> Ok([e EXCEPT !.expr = ops[1]])

FoldComparison(p, e, ops) ==
    LET e1 == [e EXCEPT !.left = ops[1], !.right = ops[2]]
    IN  IF ~IsLiteral(ops[1]) \/ ~IsLiteral(ops[2]) THEN Ok(e1)
        ELSE Ok(FoldLiteralComparison(e1, ops[1], ops[2], p.junk))

\* FoldConstantExpressionsPass::process_node of an operator expression.
\* (The operands' result s is a parameter: one evaluation, however often
\* it is read.)
FoldFolded(p, e, s) ==
    CASE Failed(s) -> s
      [] e.type = "BinaryOp" -> FoldBinary(e, s.val)
      [] e.type = "UnaryOp"  -> FoldUnary(e, s.val)
      [] OTHER               -> FoldComparison(p, e, s.val)

FoldOperator(p, e) == FoldFolded(p, e, FoldOperands(p, e))

\* ReplaceVariableReferencesPass::process_node: a clone of the binding,
\* or MissingVariableReferenceError.
ReplaceVariableReference(p, e) ==
    IF e.name \in DOMAIN p.mapping THEN Ok(Clone(p.mapping[e.name]))
    ELSE Err("MissingVariableReference")

ProcessExpr(p, e) ==
    CASE p.pass = "fold" /\ e.type \in {"BinaryOp", "UnaryOp", "Comparison"} ->
            FoldOperator(p, e)
      [] p.pass = "replace" /\ e.type = "VariableRef" -> ReplaceVariableReference(p, e)
      [] p.pass = "scope" /\ e.type = "VariableRef" -> Ok(GetAttr(Clone(p.scope), e.name))
      [] OTHER -> Ok(e)

\* ExpressionPass: the hook first; a leaf is the hook's result; a compound
\* expression whose hook changed its kind is walked again, otherwise its
\* children are walked in order.  A null child is dereferenced.
WithSubResults(x, r) == IF Failed(r) THEN r ELSE Ok(WithSubExprs(x, r.val))

WalkHooked(p, e, h) ==
    CASE Failed(h) \/ e.type \in LeafTypes -> h
      [] h.val.type # e.type -> WalkExpr(p, h.val)
      [] OTHER -> WithSubResults(h.val, WalkArgs(p, SubExprs(h.val), "any"))

WalkExpr(p, e) ==
    IF e = None THEN Err("SegmentationFault") ELSE WalkHooked(p, e, ProcessExpr(p, e))

\* The walk of a list of expressions, first to last, leaving those that are
\* already of the wanted kind; the first failure ends it.
Prepended(v, t) == IF Failed(t) THEN t ELSE Ok(<<v>> \o t.val)

WalkArgsFrom(p, args, want, h) ==
    IF Failed(h) THEN h ELSE Prepended(h.val, WalkArgs(p, Tail(args), want))

WalkArgs(p, args, want) ==
    IF args = <<>> THEN Ok(<<>>)
    ELSE WalkArgsFrom(p, args, want, IF IsWanted(Head(args), want) THEN Ok(Head(args))
                                     ELSE WalkExpr(p, Head(args)))


----------------------------------------------------------------------------
(* The statement-level hooks.                                             *)

\* ConvertLiteralPrintBlockToRawBlockPass::process_node(PrintBlockAST):
\* a literal is formatted by operator<< (decimal for a long; "true" or
\* "false" for a bool) or, for a string, its bytes are moved into a Raw.
ConvertLiteralPrint(n) ==
    CASE n.expr.type = "IntLit"  -> Raw(ToString(n.expr.value))
      [] n.expr.type = "BoolLit" -> Raw(IF n.expr.value THEN "true" ELSE "false")
      [] n.expr.type = "StrLit"  -> Raw(n.expr.value)
      [] OTHER                   -> n

\* Mutant: the erase loop removes only the Raw after the first.
RawRunAtMostTwo(cs) ==
    LET first == SelectInSeq(cs, LAMBDA c : c.kind # "Raw")
        run   == IF first = 0 THEN Len(cs) ELSE first - 1
    IN  IF run > 2 THEN 2 ELSE run

\* The length of the run of Raw children at the front of cs.
RawRun(cs) ==
    LET first == SelectInSeq(cs, LAMBDA c : c.kind # "Raw")
    IN  IF first = 0 THEN Len(cs) ELSE first - 1

\* CoalesceRawBlocksPass::process_node(StatementsAST): each maximal run of
\* Raw children becomes its first Raw holding the concatenated text.
RECURSIVE CoalesceRaw(_)
CoalesceRaw(cs) ==
    IF cs = <<>> THEN <<>>
    ELSE IF Head(cs).kind = "Raw"
         THEN LET k == RawRun(cs)
                  text == FoldLeft(LAMBDA a, b : a \o b, "", [i \in 1..k |-> cs[i].text])
              IN  <<Raw(text)>> \o CoalesceRaw(SubSeq(cs, k + 1, Len(cs)))
         ELSE <<Head(cs)>> \o CoalesceRaw(Tail(cs))

----------------------------------------------------------------------------
(* The statement walk (ASTPass), the ExpressionPassWrapper and include    *)
(* resolution, which walks the included tree from inside a hook.          *)

RECURSIVE Walk(_, _), WalkChildren(_, _, _), ProcessNode(_, _), WrapExpressionPass(_, _),
          ResolveInclude(_, _), ResolveIncludeNoRecursion(_, _), Substituted(_, _),
          WalkChildrenFrom(_, _, _, _), WalkNodeHooked(_, _, _)

\* ExpressionPassWrapper: the expression pass on every expression slot of
\* the node, in the order of its process_node: the print expression, the if
\* condition, the for iterable, or the include scope (when present) and
\* then the bindings.  The bindings of an unordered_map are walked in the
\* map's order, here a fixed arbitrary order of the names.
MappingOrder(m) == SetToSeq(DOMAIN m)

ExprSlots(n) ==
    CASE n.kind = "Print"   -> <<n.expr>>
      [] n.kind = "If"      -> <<n.cond>>
      [] n.kind = "For"     -> <<n.iterable>>
      [] n.kind = "Include" ->
            (IF n.scope = None THEN <<>> ELSE <<n.scope>>)
            \o [i \in 1..Cardinality(DOMAIN n.mapping) |-> n.mapping[MappingOrder(n.mapping)[i]]]
      [] OTHER -> <<>>

WithExprSlots(n, s) ==
    CASE n.kind = "Print" -> [n EXCEPT !.expr = s[1]]
      [] n.kind = "If"    -> [n EXCEPT !.cond = s[1]]
      [] n.kind = "For"   -> [n EXCEPT !.iterable = s[1]]
      [] n.kind = "Include" ->
            LET k == IF n.scope = None THEN 0 ELSE 1
                names == MappingOrder(n.mapping)
            IN  [n EXCEPT !.scope = IF k = 0 THEN None ELSE s[1],
                          !.mapping = [x \in DOMAIN n.mapping |->
                                          s[k + CHOOSE i \in DOMAIN names : names[i] = x]]]
      [] OTHER -> n

WithSlotResults(n, r) == IF Failed(r) THEN r ELSE Ok(WithExprSlots(n, r.val))

WrapExpressionPass(p, n) == WithSlotResults(n, WalkArgs(p, ExprSlots(n), "any"))

\* Mutant: the included tree is not walked for its own includes.
ResolveIncludeNoRecursion(p, n) ==
    CASE p.depth >= MaxIncludeDepth -> Err("StackOverflow")
      [] n.name \notin DOMAIN Templates -> Err("IOError")
      [] Templates[n.name] = ParseFailure -> Err("SyntaxError")
      [] OTHER ->
            Walk(IF n.scope # None THEN ScopePass(n.scope) ELSE ReplacePass(n.mapping),
                 Templates[n.name])

\* ResolveIncludesPass::process_node(IncludeBlockAST): parse the file,
\* resolve its own includes by a recursive walk, then run the nested pass
\* manager with PrependScopePass or ReplaceVariableReferencesPass on it.
\* A name outside DOMAIN Templates is a file that cannot be opened.  The
\* recursion has no limit in the code; MaxIncludeDepth is where the stack
\* runs out.
Substituted(n, inner) ==
    IF Failed(inner) THEN inner
    ELSE Walk(IF n.scope # None THEN ScopePass(n.scope) ELSE ReplacePass(n.mapping), inner.val)

ResolveInclude(p, n) ==
    CASE p.depth >= MaxIncludeDepth -> Err("StackOverflow")
      [] n.name \notin DOMAIN Templates -> Err("IOError")
      [] Templates[n.name] = ParseFailure -> Err("SyntaxError")
      [] OTHER -> Substituted(n, Walk(ResolvePass(p.depth + 1), Templates[n.name]))

ProcessNode(p, n) ==
    CASE p.pass \in ExpressionPasses -> WrapExpressionPass(p, n)
      [] p.pass = "resolve" /\ n.kind = "Include" -> ResolveInclude(p, n)
      [] p.pass = "print2raw" /\ n.kind = "Print" -> Ok(ConvertLiteralPrint(n))
      [] p.pass = "coalesce" /\ n.kind = "Statements" -> Ok(Stmts(CoalesceRaw(n.children)))
      [] OTHER -> Ok(n)

\* Mutant: a child that comes back as a StatementsAST is kept as it is.
SplicedNoMerge(c) == <<c>>

\* A walked child of a StatementsAST: a StatementsAST is spliced in.
Spliced(c) == IF c.kind = "Statements" THEN c.children ELSE <<c>>

\* The walk of a node's children: `statements()` walks a StatementsAST's
\* list and splices each StatementsAST result into it; the bodies of an if
\* or for block are walked in place, a null one left as it is.
Joined(v, t) == IF Failed(t) THEN t ELSE Ok(v \o t.val)

WalkChildrenFrom(p, cs, splice, h) ==
    IF Failed(h) THEN h
    ELSE Joined(IF splice THEN Spliced(h.val) ELSE <<h.val>>, WalkChildren(p, Tail(cs), splice))

WalkChildren(p, cs, splice) ==
    IF cs = <<>> THEN Ok(<<>>)
    ELSE WalkChildrenFrom(p, cs, splice, IF Head(cs) = None THEN Ok(None) ELSE Walk(p, Head(cs)))

\* The slot of an if or for block holding its main body.
BodyField(x) == IF x.kind = "If" THEN "thenBody" ELSE "body"

\* The children the walk visits after the hook returned x for n: x itself
\* when the hook changed the node's kind, else its list or its two bodies.
Kids(n, x) ==
    CASE x.kind # n.kind       -> <<x>>
      [] x.kind = "Statements" -> x.children
      [] OTHER                 -> <<x[BodyField(x)], x.elseBody>>

\* The node rebuilt from the results r of walking Kids(n, x).
Rebuilt(n, x, r) ==
    CASE Failed(r) -> r
      [] x.kind # n.kind -> Ok(r.val[1])
      [] x.kind = "Statements" -> IF Len(r.val) = 1 THEN Ok(r.val[1]) ELSE Ok(Stmts(r.val))
      [] OTHER -> Ok([x EXCEPT ![BodyField(x)] = r.val[1], !.elseBody = r.val[2]])

WalkNodeHooked(p, n, h) ==
    IF Failed(h) \/ n.kind \in {"Raw", "Print", "Include"} THEN h
    ELSE Rebuilt(n, h.val, WalkChildren(p, Kids(n, h.val), h.val.kind = n.kind /\ n.kind = "Statements"))

\* ASTPass: the hook first; Raw, Print and Include are the hook's result;
\* a compound node whose hook changed its kind is walked again; otherwise
\* its children are walked, and a Statements with one child after the
\* splicing is replaced by that child.
Walk(p, n) == WalkNodeHooked(p, n, ProcessNode(p, n))

=============================================================================
