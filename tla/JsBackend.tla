------------------------------ MODULE JsBackend ------------------------------
(***************************************************************************)
(* JavascriptVisitor (javascript_visitor.cpp): the backend that writes a  *)
(* JavaScript renderer for the optimised tree.  visit() is one step; the  *)
(* visitor's members are the record `st`: the text written so far         *)
(* (`out`), m_shadowValues (`shadow`, loop-variable name to JavaScript    *)
(* identifier), m_forCounter (`counter`), m_undefinedCheck (`undef`) and  *)
(* the exception that ended the visit (`err`).                            *)
(*                                                                         *)
(* The text is a sequence of tokens: fixed fragments of code are "sym",   *)
(* a declared identifier is "var"/"for", a reference to one is "id", a    *)
(* lookup in the data object is "data", an operator is "op" with the      *)
(* bytes the code spells it with.  Indentation and blank lines are left   *)
(* out; escape() is JsEscape.                                             *)
(***************************************************************************)
EXTENDS B2Ast, SequencesExt

CONSTANTS
    Inputs   \* the trees the optimisation pipeline hands to the backend

VARIABLES
    tree,    \* the tree given to visit()
    undef,   \* performUndefinedCheck(), set from --enable-undefined-check
    st,      \* the visitor's state after visit(), None before
    status   \* "idle", "done", or the exception or crash that ended visit()

vars == <<tree, undef, st, status>>

Tok(k, v) == [k |-> k, v |-> v]
Sym(s)    == Tok("sym", s)

\* The enumerator values of BinaryOperation, UnaryOperation and
\* ComparisonOperation (PACK_UINT16(a, b) = a * 256 + b).
OpCode(op) ==
    CASE op = "+"  -> 43  [] op = "-"  -> 45  [] op = "*" -> 42
      [] op = "/"  -> 47  [] op = "%"  -> 37  [] op = "!" -> 33
      [] op = "==" -> 61 * 256 + 61  [] op = "!=" -> 33 * 256 + 61
      [] op = ">"  -> 62 * 256       [] op = ">=" -> 62 * 256 + 61
      [] op = "<"  -> 60 * 256       [] op = "<=" -> 60 * 256 + 61
      [] op = "||" -> 124 * 256 + 124 [] op = "&&" -> 38 * 256 + 38

\* `{(char) (op >> 8), (char) (op & 0xFF)}`: two bytes, the first zero
\* for a one-character operator.
Spelling(op) == <<OpCode(op) \div 256, OpCode(op) % 256>>

\* The loop identifiers: "iterable_" + std::to_string(m_forCounter), ...
LoopId(prefix, c) == prefix \o ToString(c)

\* The name of a loop binder, std::string() when it is absent.
BinderName(v) == IF v = None THEN "" ELSE v.name

----------------------------------------------------------------------------
(* Expressions: each writes to the emitter as it goes.                    *)

RECURSIVE EmitExpr(_, _), EmitArgs(_, _)

\* method_call_expression: the arguments separated by ", ".
EmitArgs(args, sh) ==
    IF args = <<>> THEN <<>>
    ELSE EmitExpr(Head(args), sh)
         \o (IF Len(args) > 1 THEN <<Sym(", ")>> ELSE <<>>)
         \o EmitArgs(Tail(args), sh)

EmitExpr(e, sh) ==
    CASE e.type = "VariableRef" ->
            IF e.name \in DOMAIN sh THEN <<Tok("id", sh[e.name])>> ELSE <<Tok("data", e.name)>>
      [] e.type = "GetAttribute" -> EmitExpr(e.variable, sh) \o <<Tok("attr", e.name)>>
      [] e.type = "MethodCall"   -> <<Tok("call", e.name)>> \o EmitArgs(e.args, sh) \o <<Sym(")")>>
      [] e.type = "IntLit"       -> <<Tok("int", e.value)>>
      [] e.type = "BoolLit"      -> <<Tok("bool", e.value)>>
      [] e.type = "StrLit"       -> <<Tok("str", e.value)>>
      [] e.type = "UnaryOp"      -> <<Tok("op", <<OpCode(e.op)>>)>> \o EmitExpr(e.expr, sh)
      [] OTHER -> EmitExpr(e.left, sh) \o <<Tok("op", Spelling(e.op))>> \o EmitExpr(e.right, sh)

----------------------------------------------------------------------------
(* Statements.  A write after an exception does not happen.               *)

Write(s, toks) == IF s.err # "none" THEN s ELSE [s EXCEPT !.out = @ \o toks]

\* The old value of m_shadowValues[x], std::string() when there is none.
OldShadow(saved, x) == IF x \in DOMAIN saved THEN saved[x] ELSE ""

\* Mutant: a binder with no outer shadow is left in the map.
RestoreNameNoErase(x, saved, sh) ==
    IF OldShadow(saved, x) # "" THEN (x :> OldShadow(saved, x)) @@ sh ELSE sh

\* `if (!old.empty()) m_shadowValues[x] = old; else m_shadowValues.erase(x)`
RestoreName(x, saved, sh) ==
    IF OldShadow(saved, x) # "" THEN (x :> OldShadow(saved, x)) @@ sh
    ELSE Restrict(sh, DOMAIN sh \ {x})

\* The shadows of loop c: the key variable, then the value variable.
Shadowed(n, c, sh) ==
    LET k == IF n.key # None THEN (BinderName(n.key) :> LoopId("key_", c)) @@ sh ELSE sh
    IN  IF n.value # None THEN (BinderName(n.value) :> LoopId("value_", c)) @@ k ELSE k

Restored(n, saved, sh) ==
    LET k == IF n.key # None THEN RestoreName(BinderName(n.key), saved, sh) ELSE sh
    IN  IF n.value # None THEN RestoreName(BinderName(n.value), saved, k) ELSE k

\* for_block up to the body: the iterable (under the enclosing shadows),
\* is_empty when there is an else body, the loop header and the value.
ForHeader(n, c, sh) ==
    <<Tok("var", LoopId("iterable_", c))>> \o EmitExpr(n.iterable, sh)
    \o (IF n.elseBody # None THEN <<Tok("var", LoopId("is_empty_", c))>> ELSE <<>>)
    \o <<Tok("for", LoopId("key_", c))>>
    \o (IF n.value # None THEN <<Tok("var", LoopId("value_", c))>> ELSE <<>>)

RECURSIVE EmitNode(_, _), EmitList(_, _), EmitIf(_, _, _), IfRest(_, _), EmitFor(_, _),
          ForRest(_, _, _, _), EmitForShadowFirst(_, _)

\* The else arm of an if block: an if block is chained as `} else if`.
IfRest(n, s) ==
    CASE n.elseBody = None        -> Write(s, <<Sym("}")>>)
      [] n.elseBody.kind = "If"   -> EmitIf(n.elseBody, s, TRUE)
      [] OTHER -> Write(EmitNode(n.elseBody, Write(s, <<Sym("} else {")>>)), <<Sym("}")>>)

EmitIf(n, s, elseif) ==
    IfRest(n, EmitNode(n.thenBody,
                       Write(s, <<Sym(IF elseif THEN "} else if (" ELSE "if (")>>
                                \o EmitExpr(n.cond, s.shadow) \o <<Sym(") {")>>)))

\* for_block after the body: the shadows saved before it are put back,
\* then is_empty is cleared, the loop closed and the else body guarded.
ForRest(n, c, saved, s) ==
    LET r == IF s.err = "none" THEN [s EXCEPT !.shadow = Restored(n, saved, s.shadow)] ELSE s
    IN  IF n.elseBody = None THEN Write(r, <<Sym("}")>>)
        ELSE Write(EmitNode(n.elseBody,
                            Write(r, <<Tok("set", LoopId("is_empty_", c)), Sym("}"),
                                       Tok("if", LoopId("is_empty_", c))>>)),
                   <<Sym("}")>>)

\* Mutant: the shadows are installed before the iterable is written.
EmitForShadowFirst(n, s) ==
    ForRest(n, s.counter + 1, s.shadow,
            EmitNode(n.body,
                     [Write([s EXCEPT !.counter = @ + 1],
                            ForHeader(n, s.counter + 1, Shadowed(n, s.counter + 1, s.shadow)))
                        EXCEPT !.shadow = Shadowed(n, s.counter + 1, s.shadow)]))

EmitFor(n, s) ==
    ForRest(n, s.counter + 1, s.shadow,
            EmitNode(n.body,
                     [Write([s EXCEPT !.counter = @ + 1], ForHeader(n, s.counter + 1, s.shadow))
                        EXCEPT !.shadow = Shadowed(n, s.counter + 1, s.shadow)]))

EmitList(cs, s) == IF cs = <<>> THEN s ELSE EmitList(Tail(cs), EmitNode(Head(cs), s))

EmitNode(n, s) ==
    CASE s.err # "none"         -> s
      [] n = None               -> [s EXCEPT !.err = "SegmentationFault"]
      [] n.kind = "Statements"  -> EmitList(n.children, s)
      [] n.kind = "Raw"         -> Write(s, <<Tok("raw", n.text)>>)
      [] n.kind = "Print"       ->
            Write(s, <<Sym("buffer += ")>> \o EmitExpr(n.expr, s.shadow)
                     \o (IF s.undef THEN <<Sym(" || ''")>> ELSE <<>>) \o <<Sym(";")>>)
      [] n.kind = "If"          -> EmitIf(n, s, FALSE)
      [] n.kind = "For"         -> EmitFor(n, s)
      [] n.kind = "Include"     -> [s EXCEPT !.err = "Unsupported"]

\* visit(): printHeader, the tree, printFooter.
Visited(t, u) ==
    Write(EmitNode(t, [out |-> <<Sym("function(helpers, data) {")>>,
                       shadow |-> [x \in {} |-> ""], counter |-> 0, err |-> "none", undef |-> u]),
          <<Sym("return buffer;"), Sym("}")>>)

----------------------------------------------------------------------------

Init ==
    /\ tree \in Inputs
    /\ undef \in BOOLEAN
    /\ st = None
    /\ status = "idle"

\* JavascriptVisitor::visit on the tree.
Visit ==
    /\ status = "idle"
    /\ st' = Visited(tree, undef)
    /\ status' = IF st'.err = "none" THEN "done" ELSE st'.err
    /\ UNCHANGED <<tree, undef>>

Next == Visit

Spec == Init /\ [][Next]_vars

----------------------------------------------------------------------------
(* The reference: lexical scoping (spec 4.8.3).  A variable reference in  *)
(* a loop body denotes the innermost enclosing binder of its name, one    *)
(* outside every such loop denotes the data object; loops are numbered in *)
(* the order they start.  env is the binding of names to identifiers,     *)
(* passed down instead of saved and restored.                             *)

Operands(e) ==
    CASE e.type = "GetAttribute" -> <<e.variable>>
      [] e.type = "MethodCall"   -> e.args
      [] e.type = "UnaryOp"      -> <<e.expr>>
      [] e.type \in {"BinaryOp", "Comparison"} -> <<e.left, e.right>>
      [] OTHER                   -> <<>>

RECURSIVE SpecExprRefs(_, _)
SpecExprRefs(e, env) ==
    IF e.type = "VariableRef"
    THEN <<IF e.name \in DOMAIN env THEN Tok("id", env[e.name]) ELSE Tok("data", e.name)>>
    ELSE FlattenSeq([i \in DOMAIN Operands(e) |-> SpecExprRefs(Operands(e)[i], env)])

\* The names loop c binds, over env.
Bound(n, c, env) ==
    [x \in DOMAIN env \cup {BinderName(b) : b \in {b \in {n.key, n.value} : b # None}} |->
        CASE n.value # None /\ x = BinderName(n.value) -> LoopId("value_", c)
          [] n.key # None /\ x = BinderName(n.key)     -> LoopId("key_", c)
          [] OTHER                                      -> env[x]]

\* acc.refs: the references so far; acc.c: the loops started so far.
RECURSIVE SpecRefs(_, _, _), SpecListRefs(_, _, _)
SpecListRefs(cs, env, acc) ==
    IF cs = <<>> THEN acc ELSE SpecListRefs(Tail(cs), env, SpecRefs(Head(cs), env, acc))

SpecRefs(n, env, acc) ==
    CASE n = None                -> acc
      [] n.kind = "Statements"   -> SpecListRefs(n.children, env, acc)
      [] n.kind = "Print"        -> [acc EXCEPT !.refs = @ \o SpecExprRefs(n.expr, env)]
      [] n.kind = "If" ->
            SpecRefs(n.elseBody, env,
                     SpecRefs(n.thenBody, env, [acc EXCEPT !.refs = @ \o SpecExprRefs(n.cond, env)]))
      [] n.kind = "For" ->
            SpecRefs(n.elseBody, env,
                     SpecRefs(n.body, Bound(n, acc.c + 1, env),
                              [refs |-> acc.refs \o SpecExprRefs(n.iterable, env), c |-> acc.c + 1]))
      [] OTHER -> acc

----------------------------------------------------------------------------
(* Properties.                                                            *)

IsRef(t) == t.k \in {"id", "data"}

\* for_block's save and restore of m_shadowValues implements lexical
\* scoping: every variable reference the visitor writes, in the order it
\* writes them, is the one the reference scoping gives, including
\* references after a loop, in its else body, in its iterable, and under
\* nested loops that rebind the same name.
ShadowScoping ==
    status = "done" =>
        SelectSeq(st.out, IsRef) = SpecRefs(tree, [x \in {} |-> ""], [refs |-> <<>>, c |-> 0]).refs

\* Every shadow a for_block installs is removed or put back by it: after
\* visit() m_shadowValues is empty again.
ShadowsRestored == status = "done" => DOMAIN st.shadow = {}

\* The emitted code holds no NUL byte: every operator is spelled with
\* printable characters.
NoNulByte ==
    status = "done" =>
        \A i \in DOMAIN st.out : st.out[i].k = "op" => \A j \in DOMAIN st.out[i].v : st.out[i].v[j] # 0

\* Two different trees are never compiled to the same code (an
\* expression's structure survives in the emitted JavaScript).
Unambiguous ==
    status = "done" => \A t \in Inputs : t # tree => Visited(t, undef).out # st.out

====
