---------------------------- MODULE LlvmLowering ----------------------------
(***************************************************************************)
(* LLVMVisitor (backends/llvm/llvm_visitor.cpp) with the binding surface   *)
(* of PHPBindings (src/php/php_bindings.cpp): the lowering of an          *)
(* optimised tree to the IR of one renderer function.  The visit is a      *)
(* walk that threads the record `s` through every node:                   *)
(*   code   the basic blocks, block id -> sequence of instructions;       *)
(*   nb     the blocks created, cur the IRBuilder's insert block;         *)
(*   nv     the values created, ty their LLVM types;                      *)
(*   rc     PHPBindings::m_variablesRefCount (-1: not to be destroyed);   *)
(*   meta   PHPBindings::m_forLoopMetadata (iterable -> ht, position);    *)
(*   over   LLVMVisitor::m_overriden_variables, the non-null entries;     *)
(*   err    the exception or crash that ended the walk, "none" before;    *)
(*   bad    an instruction whose operand types LLVM rejects was built;    *)
(*   val    the value of the expression lowered last, vals a list of them.*)
(*                                                                         *)
(* Values are numbers; constants (literals, global strings) are values    *)
(* with no instruction.  Only the instructions that create, borrow, read  *)
(* or release a zval, the calls that may fail and the branches are kept;  *)
(* a native arithmetic instruction is "native" with its operands.         *)
(***************************************************************************)
EXTENDS B2Ast, Functions

Empty == [x \in {} |-> 0]

IntTypes == {"i1", "i64"}
IsVariant(t) == t = "zval"

Ins(op, fn, args, res) == [op |-> op, fn |-> fn, args |-> args, res |-> res, to |-> <<>>]
Br(b)           == [op |-> "br", fn |-> "", args |-> <<>>, res |-> 0, to |-> <<b>>]
CondBr(c, t, f) == [op |-> "condbr", fn |-> "", args |-> <<c>>, res |-> 0, to |-> <<t, f>>]
Ret             == [op |-> "ret", fn |-> "", args |-> <<>>, res |-> 0, to |-> <<>>]
\* The positions of an instruction's operands that are values (the others
\* are a name or an operator).
ValueArgs(i) ==
    CASE i.fn = "get_value_from_hashtable" -> {}
      [] i.fn = "get_attribute" -> {1}
      [] i.fn \in {"binary_variant_operation", "compare_variant"} -> {1, 2, 3}
      [] i.fn = "unary_variant_operation" -> {1, 2}
      [] OTHER -> DOMAIN i.args

\* functionSetup: the "entry" block is the insert point.
Setup == [code |-> (1 :> <<>>), nb |-> 1, cur |-> 1, nv |-> 0, ty |-> Empty, rc |-> Empty,
          meta |-> Empty, over |-> Empty, err |-> "none", bad |-> FALSE, val |-> 0, vals |-> <<>>]

Emit(s, i)  == IF s.err # "none" THEN s ELSE [s EXCEPT !.code[s.cur] = Append(@, i)]
Throw(s, e) == IF s.err # "none" THEN s ELSE [s EXCEPT !.err = e]
NewVal(s, t) == [s EXCEPT !.nv = @ + 1, !.ty = (s.nv + 1 :> t) @@ @, !.val = s.nv + 1]
EmitAt(s, op, fn, args) == Emit(s, Ins(op, fn, args, s.val))
\* An instruction with a result of type t; the result is s.val.
EmitRes(s, op, fn, args, t) == EmitAt(NewVal(s, t), op, fn, args)
Native(s, fn, args, t, bad) == [EmitRes(s, "native", fn, args, t) EXCEPT !.bad = @ \/ bad]
NewBlocks(s, k) == [s EXCEPT !.code = @ @@ [b \in (s.nb + 1)..(s.nb + k) |-> <<>>], !.nb = @ + k]
\* A conditional branch on s.val, the insert point moving to block `at`.
CondTo(s, t, f, at) == [Emit(s, CondBr(s.val, t, f)) EXCEPT !.cur = at]
Goto(s, b) == [Emit(s, Br(b)) EXCEPT !.cur = b]
SetRc(s, n) == [s EXCEPT !.rc = (s.val :> n) @@ @]

----------------------------------------------------------------------------
(* The reference counting of PHPBindings, at compile time.                *)

\* Mutant: a count that reaches zero is not destroyed.
ReleaseNoDestruct(s, v) ==
    CASE s.err # "none"       -> s
      [] v \notin DOMAIN s.rc -> Throw(s, "NoRefcount")
      [] s.rc[v] = -1         -> s
      [] OTHER                -> [s EXCEPT !.rc[v] = @ - 1]

\* variableGoesOutOfScope: a value without an entry throws, one tagged -1
\* is skipped, otherwise the count drops and at zero destruct_zval is
\* emitted.  A count already at zero becomes -1 silently.
Release(s, v) ==
    CASE s.err # "none"       -> s
      [] v \notin DOMAIN s.rc -> Throw(s, "NoRefcount")
      [] s.rc[v] = -1         -> s
      [] s.rc[v] = 1          -> Emit([s EXCEPT !.rc[v] = 0], Ins("call", "destruct_zval", <<v>>, 0))
      [] OTHER                -> [s EXCEPT !.rc[v] = @ - 1]

\* getNewReferenceForVariable: the same value, its count raised unless -1.
NewRef(s, v) ==
    CASE s.err # "none"       -> s
      [] v \notin DOMAIN s.rc -> Throw(s, "NoRefcount")
      [] s.rc[v] = -1         -> [s EXCEPT !.val = v]
      [] OTHER                -> [s EXCEPT !.rc[v] = @ + 1, !.val = v]

RECURSIVE ReleaseAll(_, _)
ReleaseAll(vs, s) == IF vs = <<>> THEN s ELSE ReleaseAll(Tail(vs), Release(s, Head(vs)))

SetZval == ("double" :> "set_zval_double") @@ ("i1" :> "set_zval_bool")
           @@ ("i64" :> "set_zval_int") @@ ("i8*" :> "set_zval_string_nocopy")

\* wrapAsVariant: a zval on the stack, initialised from v, tagged -1.
WrapAt(s, v) == SetRc(Emit(s, Ins("call", SetZval[s.ty[v]], <<s.val, v>>, 0)), -1)
WrapAsVariant(s, v) ==
    CASE s.err # "none"          -> s
      [] IsVariant(s.ty[v])      -> [s EXCEPT !.val = v]
      [] s.ty[v] \in DOMAIN SetZval -> WrapAt(EmitRes(s, "alloca", "zval", <<>>, "zval"), v)
      [] OTHER                   -> Throw(s, "UnknownType")

\* createRetVoidIfCallFails(s.val): "callSucceeded" and "callFailed"
\* blocks; the failed one returns at once.
RetIfFails(s) ==
    IF s.err # "none" THEN s
    ELSE [CondTo(s, s.nb + 1, s.nb + 2, s.nb + 1)
            EXCEPT !.code = @ @@ (s.nb + 1 :> <<>>) @@ (s.nb + 2 :> <<Ret>>), !.nb = @ + 2]

\* createVariantBinaryOperation and createVariantComparison: both operands
\* wrapped, the call through a result slot, the failure check, the
\* result loaded (a fresh zval of count 1, or the comparison's byte
\* truncated to i1), then both operands released.
VO4(s, fn, wl, wr, p) ==
    Release(Release(IF fn = "compare_variant"
                    THEN EmitRes(EmitRes(s, "load", "", <<p>>, "i8"), "native", "trunc", <<s.nv + 1>>, "i1")
                    ELSE SetRc(EmitRes(s, "load", "", <<p>>, "zval"), 1), wl), wr)
VO3(s, fn, wl, wr, op) == VO4(RetIfFails(EmitRes(s, "call", fn, <<s.val, wl, wr, op>>, "i1")), fn, wl, wr, s.val)
VO2(s, fn, wl, op) == VO3(EmitRes(s, "alloca", "", <<>>, "ptr"), fn, wl, s.val, op)
VO1(s, fn, r, op) == VO2(WrapAsVariant(s, r), fn, s.val, op)
VariantOp(s, fn, l, r, op) == VO1(WrapAsVariant(s, l), fn, r, op)

\* createVariantUnaryOperation (the operand is a variant already).
VU3(s, p, v) == Release(SetRc(EmitRes(s, "load", "", <<p>>, "zval"), 1), v)
VU2(s, v, op) == VU3(RetIfFails(EmitRes(s, "call", "unary_variant_operation", <<s.val, v, op>>, "i1")), s.val, v)
VariantUnary(s, op) == VU2(EmitRes(s, "alloca", "", <<>>, "ptr"), s.val, op)

----------------------------------------------------------------------------
(* Expressions: each leaves its value in s.val.                           *)

\* variable_reference_expression: a loop variable in m_overriden_variables
\* gets a new reference, any other name is looked up in the assignments
\* (get_value_from_hashtable, tagged not-to-be-destroyed).
VarRefExpr(s, name) ==
    IF name \in DOMAIN s.over THEN NewRef(s, s.over[name])
    ELSE SetRc(EmitRes(s, "call", "get_value_from_hashtable", <<name>>, "zval"), -1)

\* createGetAttribute: the attribute is borrowed from the map (tagged -1),
\* and the map is released.  A map that is not a zval* is an operand of the
\* wrong type for get_attribute.
GetAttr2(s, m) == Release(SetRc(s, -1), m)
GetAttribute(s, name) ==
    GetAttr2([EmitRes(s, "call", "get_attribute", <<s.val, name>>, "zval") EXCEPT !.bad = @ \/ ~IsVariant(s.ty[s.val])],
             s.val)

\* createMethodCall: non-variant arguments are wrapped and released after
\* the call; do_method_call's result gets no count.
MethodCallEmit(s, stored, destroy) ==
    ReleaseAll(destroy, EmitRes(s, "call", "do_method_call", stored, "zval"))
RECURSIVE WrapArgs(_, _, _, _)
WrapArgsNext(vs, s, stored, destroy) == WrapArgs(vs, s, Append(stored, s.val), Append(destroy, s.val))
WrapArgs(vs, s, stored, destroy) ==
    CASE vs = <<>>                  -> MethodCallEmit(s, stored, destroy)
      [] IsVariant(s.ty[Head(vs)])  -> WrapArgs(Tail(vs), s, Append(stored, Head(vs)), destroy)
      [] OTHER                      -> WrapArgsNext(Tail(vs), WrapAsVariant(s, Head(vs)), stored, destroy)

\* The native instruction of two non-variant operands: an integer one when
\* both are integers (the types must agree), otherwise both are converted
\* with sitofp (which a pointer cannot be) and a floating one is built.
\* `&&` and `||` are bitwise and/or, which floating values cannot be.
NativeCompare(s, l, r, t, logic) ==
    IF s.ty[l] \in IntTypes /\ s.ty[r] \in IntTypes
    THEN Native(s, "int", <<l, r>>, IF logic THEN s.ty[l] ELSE t, s.ty[l] # s.ty[r])
    ELSE Native(s, "fp", <<l, r>>, IF logic THEN "double" ELSE t,
                logic \/ "i8*" \in {s.ty[l], s.ty[r]})

\* binary_operation_expression (s.val is the right operand).
BinaryOperation(s, l, op) ==
    CASE s.err # "none" -> s
      [] IsVariant(s.ty[l]) \/ IsVariant(s.ty[s.val]) ->
            VariantOp(s, "binary_variant_operation", l, s.val, op)
      [] s.ty[l] \in IntTypes /\ s.ty[s.val] \in IntTypes ->
            Native(s, "int", <<l, s.val>>, s.ty[l], s.ty[l] # s.ty[s.val])
      [] OTHER -> Native(s, "fp", <<l, s.val>>, "double", "i8*" \in {s.ty[l], s.ty[s.val]})

\* comparison_expression (s.val is the right operand): integer compares
\* give i1, `&&`/`||` the operand type.
Comparison(s, l, op) ==
    CASE s.err # "none" -> s
      [] IsVariant(s.ty[l]) \/ IsVariant(s.ty[s.val]) -> VariantOp(s, "compare_variant", l, s.val, op)
      [] OTHER -> NativeCompare(s, l, s.val, "i1", op \in LogicOps)

\* unary_operation_expression: `+` returns the operand itself, `-` and `!`
\* are CreateNeg and CreateNot (bitwise), defined on integers only.
UnaryOperation(s, op) ==
    CASE s.err # "none"      -> s
      [] IsVariant(s.ty[s.val]) -> VariantUnary(s, op)
      [] op = "+"            -> s
      [] OTHER               -> Native(s, op, <<s.val>>, s.ty[s.val], s.ty[s.val] \notin IntTypes)

MethodCall(s) == WrapArgs(s.vals, s, <<>>, <<>>)

RECURSIVE LowerExpr(_, _), LowerArgs(_, _, _), Binary2(_, _), Compare2(_, _)
LowerArgsNext(rest, s, acc) == LowerArgs(rest, s, Append(acc, s.val))
LowerArgs(args, s, acc) ==
    IF args = <<>> THEN [s EXCEPT !.vals = acc] ELSE LowerArgsNext(Tail(args), LowerExpr(Head(args), s), acc)
Binary2(e, s) == BinaryOperation(LowerExpr(e.right, s), s.val, e.op)
Compare2(e, s) == Comparison(LowerExpr(e.right, s), s.val, e.op)

LowerExpr(e, s) ==
    CASE s.err # "none"          -> s
      [] e.type = "VariableRef"  -> VarRefExpr(s, e.name)
      [] e.type = "GetAttribute" -> GetAttribute(LowerExpr(e.variable, s), e.name)
      [] e.type = "MethodCall"   -> MethodCall(LowerArgs(e.args, s, <<>>))
      [] e.type = "IntLit"       -> NewVal(s, "i64")
      [] e.type = "BoolLit"      -> NewVal(s, "i1")
      [] e.type = "StrLit"       -> NewVal(s, "i8*")
      [] e.type = "BinaryOp"     -> Binary2(e, LowerExpr(e.left, s))
      [] e.type = "UnaryOp"      -> UnaryOperation(LowerExpr(e.expr, s), e.op)
      [] e.type = "Comparison"   -> Compare2(e, LowerExpr(e.left, s))

----------------------------------------------------------------------------
(* Statements.                                                            *)

PrintFn == ("double" :> "print_double") @@ ("i1" :> "print_boolean") @@ ("i64" :> "print_integer")
           @@ ("i8*" :> "print_string") @@ ("zval" :> "print_variant")

\* createPrintCall: the print function for the value's type.
PrintCall(s) ==
    IF s.ty[s.val] \in DOMAIN PrintFn THEN Emit(s, Ins("call", PrintFn[s.ty[s.val]], <<s.val>>, 0))
    ELSE Throw(s, "UnknownType")

\* Mutant: the variant is released before it is printed.
PrintStmtEarly(s) == IF IsVariant(s.ty[s.val]) THEN PrintCall([Release(s, s.val) EXCEPT !.val = s.val]) ELSE PrintCall(s)

\* print_block (s.val is the printed value): a variant is released.
PrintStmt(s) == IF IsVariant(s.ty[s.val]) THEN Release(PrintCall(s), s.val) ELSE PrintCall(s)

\* The name of a loop binder, std::string() when it is absent.
BinderName(v) == IF v = None THEN "" ELSE v.name

\* `temporarily overwrite the variables`: the key, then the value.
Overridden(n, kv, vv, over) ==
    LET k == IF n.key # None THEN (BinderName(n.key) :> kv) @@ over ELSE over
    IN  IF n.value # None THEN (BinderName(n.value) :> vv) @@ k ELSE k

\* `if (old) m_overriden_variables[x] = old; else erase(x)`.
RestoreName(x, saved, over) ==
    IF x \in DOMAIN saved THEN (x :> saved[x]) @@ over ELSE Restrict(over, DOMAIN over \ {x})

Restored(n, saved, over) ==
    LET k == IF n.key # None THEN RestoreName(BinderName(n.key), saved, over) ELSE over
    IN  IF n.value # None THEN RestoreName(BinderName(n.value), saved, k) ELSE k

\* A slot for a loop variable, or the null pointer (value 0).
Slot(b, s) == IF b # None THEN EmitRes(s, "alloca", "", <<>>, "ptr") ELSE [s EXCEPT !.val = 0]
ReleaseBinder(b, v, s) == IF b # None THEN Release(s, v) ELSE s

\* The locals of for_block: the iterable, the first of its three blocks
\* ("loop", "loopElse", "afterLoop" are b+1, b+2, b+3), the hash position
\* and table, the variable slots and values, and the overrides saved.
Frame(it, b) == [it |-> it, b |-> b, pos |-> 0, ht |-> 0, ks |-> 0, vs |-> 0, kv |-> 0, vv |-> 0,
                 saved |-> Empty]

RECURSIVE EmitNode(_, _), EmitList(_, _), LowerIf(_, _), IfElse(_, _, _), LowerFor(_, _),
          ForLoadValue(_, _, _), ForEnd(_, _, _), ForNext(_, _, _), ForElse(_, _, _)

EmitOpt(n, s) == IF n = None THEN s ELSE EmitNode(n, s)

\* if_block (s.val is the condition): anything but an i1 throws; then the
\* "then", "else" and "ifcont" blocks.
\* Mutant: the else block falls off its end (no CreateBr to "ifcont").
IfElseFallThrough(n, b, s) == [EmitOpt(n.elseBody, [Goto(s, b + 3) EXCEPT !.cur = b + 2]) EXCEPT !.cur = b + 3]
IfElse(n, b, s) == Goto(EmitOpt(n.elseBody, [Goto(s, b + 3) EXCEPT !.cur = b + 2]), b + 3)
LowerIf(n, s) ==
    CASE s.err # "none"     -> s
      [] s.ty[s.val] # "i1" -> Throw(s, "Unimplemented")
      [] OTHER -> IfElse(n, s.nb, EmitOpt(n.thenBody, CondTo(NewBlocks(s, 3), s.nb + 1, s.nb + 2, s.nb + 1)))

\* for_block, after the iterable (createForLoopInit, the variables,
\* the body, their release and restoration, createForLoopNextIteration,
\* the else body, createForLoopCleanup and the iterable's release).
ForAfter(f, s) == Release([s EXCEPT !.meta = Restrict(@, DOMAIN @ \ {f.it})], f.it)
ForElse(n, f, s) == ForAfter(f, Goto(EmitOpt(n.elseBody, [s EXCEPT !.cur = f.b + 2]), f.b + 3))
\* m_forLoopMetadata[iterable] of an iterable with no entry is the
\* default {nullptr, nullptr}: CreateCall on null operands crashes.
\* Mutant: the targets of the termination test are swapped.
ForNextSwapped(n, f, s) ==
    CASE s.err # "none"            -> s
      [] f.it \notin DOMAIN s.meta -> Throw(s, "SegmentationFault")
      [] OTHER -> ForElse(n, f, CondTo(EmitRes(s, "call", "forloop_next", <<s.meta[f.it].ht, s.meta[f.it].pos>>, "i1"),
                                       f.b + 3, f.b + 1, f.b + 3))
ForNext(n, f, s) ==
    CASE s.err # "none"            -> s
      [] f.it \notin DOMAIN s.meta -> Throw(s, "SegmentationFault")
      [] OTHER -> ForElse(n, f, CondTo(EmitRes(s, "call", "forloop_next", <<s.meta[f.it].ht, s.meta[f.it].pos>>, "i1"),
                                       f.b + 1, f.b + 3, f.b + 3))
ForEnd(n, f, s) ==
    ForNext(n, f, [ReleaseBinder(n.value, f.vv, ReleaseBinder(n.key, f.kv, s))
                     EXCEPT !.over = Restored(n, f.saved, @)])
ForBody(n, f, s) == ForEnd(n, [f EXCEPT !.vv = s.val], EmitOpt(n.body, [s EXCEPT !.over = Overridden(n, f.kv, s.val, @)]))
\* Mutant: the loop value is counted as owned, like the key.
ForLoadValueOwned(n, f, s) ==
    ForBody(n, [f EXCEPT !.kv = s.val],
            IF n.value # None THEN SetRc(EmitRes(s, "load", "", <<f.vs>>, "zval"), 1) ELSE [s EXCEPT !.val = 0])
ForLoadValue(n, f, s) ==
    ForBody(n, [f EXCEPT !.kv = s.val],
            IF n.value # None THEN SetRc(EmitRes(s, "load", "", <<f.vs>>, "zval"), -1) ELSE [s EXCEPT !.val = 0])
ForLoadKey(n, f, s) ==
    ForLoadValue(n, f, IF n.key # None THEN SetRc(EmitRes(s, "load", "", <<f.ks>>, "zval"), 1) ELSE [s EXCEPT !.val = 0])
ForGetValues(n, f, s) ==
    ForLoadKey(n, [f EXCEPT !.vs = s.val],
               Emit(s, Ins("call", "forloop_getvalues", <<s.meta[f.it].ht, s.meta[f.it].pos, s.val, f.ks>>, 0)))
ForSlots(n, f, s) == ForGetValues(n, [f EXCEPT !.ks = s.val], Slot(n.value, s))
ForTest(n, f, s) ==
    ForSlots(n, f, Slot(n.key, CondTo(EmitRes(s, "native", "nonnull", <<f.ht>>, "i1"), f.b + 1, f.b + 2, f.b + 1)))
ForInitCall(n, f, s) ==
    ForTest(n, [f EXCEPT !.ht = s.val, !.saved = s.over],
            [s EXCEPT !.meta = (f.it :> [ht |-> s.val, pos |-> f.pos]) @@ @])
\* forloop_init takes a zval*: any other iterable is an operand of the
\* wrong type.
ForInit(n, f, s) ==
    ForInitCall(n, [f EXCEPT !.pos = s.val],
                [EmitRes(s, "call", "forloop_init", <<f.it, s.val>>, "ht") EXCEPT !.bad = @ \/ ~IsVariant(s.ty[f.it])])
LowerFor(n, s) ==
    IF s.err # "none" THEN s
    ELSE ForInit(n, Frame(s.val, s.nb), EmitRes(NewBlocks(s, 3), "alloca", "", <<>>, "ptr"))

EmitList(cs, s) == IF cs = <<>> THEN s ELSE EmitList(Tail(cs), EmitNode(Head(cs), s))

EmitNode(n, s) ==
    CASE s.err # "none"         -> s
      [] n = None               -> [s EXCEPT !.err = "SegmentationFault"]
      [] n.kind = "Statements"  -> EmitList(n.children, s)
      [] n.kind = "Raw"         -> PrintCall(NewVal(s, "i8*"))
      [] n.kind = "Print"       -> PrintStmt(LowerExpr(n.expr, s))
      [] n.kind = "If"          -> LowerIf(n, LowerExpr(n.cond, s))
      [] n.kind = "For"         -> LowerFor(n, LowerExpr(n.iterable, s))
      [] n.kind = "Include"     -> Throw(s, "Unsupported")

\* LLVMVisitor::visit: functionSetup, the walk, functionTeardown (a
\* `ret void` at the insert point; PHPBindings clears the counts).  An
\* exception skips the teardown.
Visited(t) ==
    LET s == EmitNode(t, Setup)
    IN  IF s.err # "none" THEN s ELSE [Emit(s, Ret) EXCEPT !.rc = Empty]

====
