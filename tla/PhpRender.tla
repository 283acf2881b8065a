------------------------------ MODULE PhpRender ------------------------------
(***************************************************************************)
(* A renderer that LlvmLowering emitted, run by Template::render: the     *)
(* instructions execute one per step, the calls doing what the runtime    *)
(* functions of src/php/php_bindings_functions.c do to the zvals.         *)
(*                                                                         *)
(* A zval is a cell: "heap" (MAKE_STD_ZVAL, owned by the renderer),       *)
(* "borrowed" (owned by the assignments or by a container; `parent` is    *)
(* the container cell it lives in, 0 for the assignments) or "stack" (an  *)
(* alloca).  Its data is a scalar or a container (array or object) of     *)
(* `size` entries; "gone" is a container whose hash table was destroyed   *)
(* while the zval still points at it.  What the data is, whether a call   *)
(* succeeds and which way a comparison goes are chosen by TLC.            *)
(***************************************************************************)
EXTENDS LlvmLowering

CONSTANTS
    Inputs,    \* the optimised trees handed to LLVMBackend::createFunction
    MaxElems,  \* the most entries a container has
    MaxCells,  \* the most zvals a render creates (a bound of the model)
    EstimatedBufferSize, \* Template::estimatedBufferSize (200)
    BufferChunkSize,     \* BUFFER_CHUNK_SIZE (256)
    PrintLengths         \* the lengths a print of a non-boolean can append

ASSUME MaxElems \in Nat /\ MaxCells \in Nat
ASSUME EstimatedBufferSize \in Nat /\ BufferChunkSize \in Nat /\ PrintLengths \subseteq Nat

VARIABLES
    tree,    \* the template
    fn,      \* the lowering's result (LlvmLowering!Visited)
    pc,      \* [b |-> block, i |-> index] of the next instruction
    env,     \* runtime contents of the values: a cell, a slot's cell, a boolean
    cells,   \* the zvals: sequence of [kind, parent, data, size, freed]
    elems,   \* <<container cell (0: assignments), key>> -> the entry's cell
    hts,     \* forloop_init result -> [n, pos, of]: size, position, container
    failed,  \* a call returned false
    status,  \* "running", "returned", "failed", or why compilation stopped
    buf      \* the template_buffer: [len |-> str_length, alloc |-> allocated_length]

vars == <<tree, fn, pc, env, cells, elems, hts, failed, status, buf>>

Cur == fn.code[pc.b][pc.i]

\* What a zval the renderer did not create holds.
Shapes == {[data |-> "scalar", size |-> 0]} \cup {[data |-> "array", size |-> k] : k \in 0..MaxElems}
Scalar == [data |-> "scalar", size |-> 0]

NewCell(kind, parent, sh) == [kind |-> kind, parent |-> parent, data |-> sh.data, size |-> sh.size, freed |-> FALSE]

\* A cell is usable when it and every container it lives in are neither
\* freed nor emptied of their hash table.
RECURSIVE Live(_)
Live(c) == ~cells[c].freed /\ cells[c].data # "gone" /\ (cells[c].parent = 0 \/ Live(cells[c].parent))

\* The zvals an instruction reads: the operands of the calls that take a
\* zval, and the container a loop walks.
ArgCells(i, ks) == {env[i.args[k]] : k \in {k \in ks : i.args[k] \in DOMAIN env}}
Reads(i) ==
    CASE i.op # "call" -> {}
      [] i.fn \in {"print_variant", "forloop_init", "destruct_zval", "get_attribute"} -> ArgCells(i, {1})
      [] i.fn = "do_method_call" -> ArgCells(i, DOMAIN i.args)
      [] i.fn \in {"binary_variant_operation", "compare_variant"} -> ArgCells(i, {2, 3})
      [] i.fn = "unary_variant_operation" -> ArgCells(i, {2})
      [] i.fn \in {"forloop_getvalues", "forloop_next"} -> {hts[i.args[1]].of}
      [] OTHER -> {}

----------------------------------------------------------------------------

\* Engine::parseTemplate up to createFunction: the tree is lowered; an
\* ill-typed instruction aborts (assertions on) or fails verification.
Init ==
    /\ tree \in Inputs
    /\ fn = Visited(tree)
    /\ pc = [b |-> 1, i |-> 1]
    /\ env = Empty
    /\ cells = <<>>
    /\ elems = Empty
    /\ hts = Empty
    /\ failed = FALSE
    /\ buf = [len |-> 0, alloc |-> EstimatedBufferSize]
    /\ status \in CASE fn.err # "none" -> {fn.err}
                    [] fn.bad          -> {"SIGABRT", "VerifyFailed"}
                    [] OTHER           -> {"running"}

Advance == pc' = [pc EXCEPT !.i = @ + 1]
Jump(b)  == pc' = [b |-> b, i |-> 1]

\* A value's new content.
Set(v, x) == env' = (v :> x) @@ env
\* A new cell, the content of value v.
Alloc(v, kind, parent, sh) ==
    /\ Len(cells) < MaxCells
    /\ cells' = Append(cells, NewCell(kind, parent, sh))
    /\ Set(v, Len(cells) + 1)
    /\ UNCHANGED elems

\* The entry `key` of container p (0: the assignments): the same zval
\* every time it is looked up; a new cell of shape sh the first time.
Entry(p, key, sh) ==
    IF <<p, key>> \in DOMAIN elems
    THEN [cells |-> cells, elems |-> elems, cell |-> elems[<<p, key>>]]
    ELSE [cells |-> Append(cells, NewCell("borrowed", p, sh)),
          elems |-> (<<p, key>> :> Len(cells) + 1) @@ elems, cell |-> Len(cells) + 1]
\* The static NULL zval (zval_used_for_init) the lookups return for a
\* missing entry.
NullEntry == Entry(0, "zval_used_for_init", Scalar)
Borrow(v, e) == Len(e.cells) =< MaxCells /\ cells' = e.cells /\ elems' = e.elems /\ Set(v, e.cell)

\* alloca: a zval on the stack, or an empty slot.
AllocaStep ==
    /\ status = "running" /\ Cur.op = "alloca"
    /\ IF Cur.fn = "zval" THEN Alloc(Cur.res, "stack", 0, Scalar) ELSE (Set(Cur.res, 0) /\ UNCHANGED <<cells, elems>>)
    /\ Advance
    /\ UNCHANGED <<tree, fn, hts, failed, status, buf>>

\* The result of add_function on two containers is their union; any other
\* arithmetic gives a scalar.
OpShape(i, sh) ==
    IF i.fn = "binary_variant_operation" /\ i.args[4] = "+"
       /\ cells[env[i.args[2]]].data = "array" /\ cells[env[i.args[3]]].data = "array"
    THEN [sh EXCEPT !.data = "array"] ELSE Scalar

\* The length of the string a print_* function appends: print_boolean
\* appends "1" or "", the others a conversion of any length.
PrintFns == {"print_double", "print_integer", "print_boolean", "print_string", "print_variant"}
PrintLen(f) == IF f = "print_boolean" THEN {0, 1} ELSE PrintLengths

\* add_to_buffer: a string that does not fit grows the allocation by its
\* length or by BUFFER_CHUNK_SIZE, whichever is larger, then is copied.
AddToBufferChunkOnly(b, n) ==
    IF b.len + n > b.alloc THEN [len |-> b.len + n, alloc |-> b.alloc + BufferChunkSize]
    ELSE [b EXCEPT !.len = @ + n]
AddToBuffer(b, n) ==
    IF b.len + n > b.alloc
    THEN [len |-> b.len + n, alloc |-> b.alloc + (IF n > BufferChunkSize THEN n ELSE BufferChunkSize)]
    ELSE [b EXCEPT !.len = @ + n]

\* The runtime functions.  get_value_from_hashtable and get_attribute
\* return the entry, borrowed, or the static NULL zval; the variant
\* operations MAKE_STD_ZVAL their result into the slot and may fail;
\* forloop_init gives no hash table for a scalar or an empty container;
\* forloop_getvalues stores the current entry and a fresh key;
\* print_variant converts a shallow copy of a non-string to a string and
\* destroys the copy, which for a container destroys the hash table the
\* zval shares; destruct_zval drops the zval.
RuntimeCall ==
    /\ status = "running" /\ Cur.op = "call"
    /\ \E ok \in BOOLEAN, sh \in Shapes :
        CASE Cur.fn = "get_value_from_hashtable" ->
                Borrow(Cur.res, Entry(0, Cur.args[1], sh)) /\ UNCHANGED <<hts, failed>>
          [] Cur.fn = "get_attribute" ->
                /\ Borrow(Cur.res, IF cells[env[Cur.args[1]]].data = "array"
                                   THEN Entry(env[Cur.args[1]], Cur.args[2], sh) ELSE NullEntry)
                /\ UNCHANGED <<hts, failed>>
          [] Cur.fn = "do_method_call" ->
                Alloc(Cur.res, "heap", 0, sh) /\ UNCHANGED <<hts, failed>>
          [] Cur.fn \in {"binary_variant_operation", "unary_variant_operation"} ->
                /\ Len(cells) < MaxCells
                /\ cells' = Append(cells, NewCell("heap", 0, OpShape(Cur, sh)))
                /\ env' = (Cur.args[1] :> Len(cells) + 1) @@ (Cur.res :> ok) @@ env
                /\ failed' = ~ok
                /\ UNCHANGED <<elems, hts>>
          [] Cur.fn = "compare_variant" ->
                Set(Cur.res, ok) /\ failed' = ~ok /\ UNCHANGED <<cells, elems, hts>>
          [] Cur.fn = "forloop_init" ->
                LET c == env[Cur.args[1]]
                IN  /\ hts' = (Cur.res :> [n |-> IF cells[c].data = "array" THEN cells[c].size ELSE 0,
                                           pos |-> 0, of |-> c]) @@ hts
                    /\ UNCHANGED <<env, cells, elems, failed>>
          [] Cur.fn = "forloop_getvalues" ->
                LET h == hts[Cur.args[1]]
                    val == IF Cur.args[3] = 0 THEN [cells |-> cells, elems |-> elems, cell |-> 0]
                           ELSE IF h.pos < h.n THEN Entry(h.of, h.pos, sh) ELSE NullEntry
                    key == Len(val.cells) + 1
                IN  /\ Len(val.cells) < MaxCells
                    /\ cells' = IF Cur.args[4] # 0 THEN Append(val.cells, NewCell("heap", 0, Scalar)) ELSE val.cells
                    /\ elems' = val.elems
                    /\ env' = (IF Cur.args[3] # 0 THEN (Cur.args[3] :> val.cell) ELSE Empty)
                              @@ (IF Cur.args[4] # 0 THEN (Cur.args[4] :> key) ELSE Empty) @@ env
                    /\ UNCHANGED <<hts, failed>>
          [] Cur.fn = "forloop_next" ->
                LET h == hts[Cur.args[1]]
                IN  /\ hts' = [hts EXCEPT ![Cur.args[1]].pos = IF h.pos < h.n THEN h.pos + 1 ELSE h.pos]
                    /\ Set(Cur.res, h.pos + 1 < h.n)
                    /\ UNCHANGED <<cells, elems, failed>>
          [] Cur.fn = "print_variant" ->
                LET c == env[Cur.args[1]]
                IN  /\ cells' = IF cells[c].data = "array" THEN [cells EXCEPT ![c].data = "gone"] ELSE cells
                    /\ UNCHANGED <<env, elems, hts, failed>>
          [] Cur.fn = "destruct_zval" ->
                /\ cells' = [cells EXCEPT ![env[Cur.args[1]]].freed = TRUE]
                /\ UNCHANGED <<env, elems, hts, failed>>
          [] OTHER -> UNCHANGED <<env, cells, elems, hts, failed>>
    /\ IF Cur.fn \in PrintFns THEN \E n \in PrintLen(Cur.fn) : buf' = AddToBuffer(buf, n) ELSE UNCHANGED buf
    /\ Advance
    /\ UNCHANGED <<tree, fn, status>>

\* load: the slot's content.
LoadStep ==
    /\ status = "running" /\ Cur.op = "load"
    /\ Set(Cur.res, env[Cur.args[1]])
    /\ Advance
    /\ UNCHANGED <<tree, fn, cells, elems, hts, failed, status, buf>>

\* A native instruction: the hash-table test is `ht != NULL`; an i1
\* result computed from data is either boolean.
NativeStep ==
    /\ status = "running" /\ Cur.op = "native"
    /\ IF Cur.fn = "nonnull" THEN Set(Cur.res, hts[Cur.args[1]].n > 0)
       ELSE \E x \in BOOLEAN : Set(Cur.res, x)
    /\ Advance
    /\ UNCHANGED <<tree, fn, cells, elems, hts, failed, status, buf>>

\* A branch; a condition that is a constant is either boolean.
BranchStep ==
    /\ status = "running" /\ Cur.op \in {"br", "condbr"}
    /\ IF Cur.op = "br" THEN Jump(Cur.to[1])
       ELSE \E x \in BOOLEAN :
               LET c == IF Cur.args[1] \in DOMAIN env THEN env[Cur.args[1]] ELSE x
               IN  Jump(IF c THEN Cur.to[1] ELSE Cur.to[2])
    /\ UNCHANGED <<tree, fn, env, cells, elems, hts, failed, status, buf>>

\* ret void: the renderer returns to render_template.
ReturnStep ==
    /\ status = "running" /\ Cur.op = "ret"
    /\ status' = IF failed THEN "failed" ELSE "returned"
    /\ UNCHANGED <<tree, fn, pc, env, cells, elems, hts, failed, buf>>

Next == AllocaStep \/ RuntimeCall \/ LoadStep \/ NativeStep \/ BranchStep \/ ReturnStep

\* The renderer runs on the PHP request's single thread: while it has an
\* instruction to execute it executes it.
Spec == Init /\ [][Next]_vars /\ WF_vars(Next)

----------------------------------------------------------------------------
(* Properties.                                                            *)

\* The types, and the shape of the IR the lowering emitted: every block
\* that is entered ends in a branch or a `ret`, so a running renderer is
\* always at an instruction (LLVMVisitor terminates every block it opens).
TypeOK ==
    /\ status \in {"running", "returned", "failed", "SIGABRT", "VerifyFailed"} \cup {fn.err}
    /\ status = "running" => pc.b \in DOMAIN fn.code /\ pc.i \in 1..Len(fn.code[pc.b])
    /\ cells \in Seq([kind : {"heap", "borrowed", "stack"}, parent : Nat,
                      data : {"scalar", "array", "gone"}, size : 0..MaxElems, freed : BOOLEAN])
    /\ \A c \in DOMAIN cells : cells[c].parent \in 0..(c - 1)
    /\ \A h \in DOMAIN hts : hts[h].pos \in 0..hts[h].n
    /\ buf \in [len : Nat, alloc : Nat]

\* No instruction of the renderer reads a zval that was destroyed, whose
\* hash table was destroyed, or that lives in such a container: the
\* compile-time counts of PHPBindings place every destruct_zval after the
\* last use, and the runtime functions destroy nothing they read.
NoUseAfterFree == status = "running" => \A c \in Reads(Cur) : c # 0 => Live(c)

\* destruct_zval is only emitted for a zval the renderer owns, once, and
\* whose data is still there: never for a lookup result, an attribute, a
\* loop value or a wrapped literal.
DestructOwned ==
    (status = "running" /\ Cur.op = "call" /\ Cur.fn = "destruct_zval")
        => LET c == env[Cur.args[1]] IN cells[c].kind = "heap" /\ ~cells[c].freed /\ cells[c].data # "gone"

\* A renderer that returns normally has destroyed every zval it created:
\* results of variant operations and the key of every iteration.
NoLeak == status = "returned" => \A c \in DOMAIN cells : cells[c].kind = "heap" => cells[c].freed

\* Every print_* call copies its string into allocated memory: after each
\* add_to_buffer the written length is within the allocation, whatever
\* the lengths and order of the prints (a string longer than the chunk
\* included).
BufferFits == buf.len =< buf.alloc

\* The expressions of an expression, and of the nodes of a tree.
RECURSIVE SubExprs(_)
SubExprs(e) ==
    {e} \cup CASE e.type = "GetAttribute" -> SubExprs(e.variable)
               [] e.type = "MethodCall"   -> UNION {SubExprs(e.args[i]) : i \in DOMAIN e.args}
               [] e.type \in {"BinaryOp", "Comparison"} -> SubExprs(e.left) \cup SubExprs(e.right)
               [] e.type = "UnaryOp"      -> SubExprs(e.expr)
               [] OTHER                   -> {}
NodeExprs(n) ==
    CASE n.kind = "Print" -> {n.expr}
      [] n.kind = "If"    -> {n.cond}
      [] n.kind = "For"   -> {n.iterable}
      [] OTHER            -> {}
TreeExprs(t) == UNION {SubExprs(e) : e \in UNION {NodeExprs(n) : n \in Nodes(t)}}

\* The templates the binding contract must compile (spec 4.7-4.9): no
\* include (a backend may refuse one), and no operation on two literals of
\* different kinds, which spec 9 leaves open.
SpecTemplate(t) ==
    /\ \A n \in Nodes(t) : n.kind # "Include"
    /\ \A e \in TreeExprs(t) :
          e.type \in {"BinaryOp", "Comparison"} /\ {e.left.type, e.right.type} \subseteq LiteralTypes
              => e.left.type = e.right.type

\* A template the spec's native backend must handle compiles: a method
\* call is a host helper whose result can be printed (4.7), loops nest
\* over any iterable (4.8), and the truthiness of a variant condition is
\* the host's (4.9).  LLVMVisitor::visit and PHPBindings either compile it
\* or throw.
CompilesAsSpecified == SpecTemplate(tree) => fn.err = "none" /\ ~fn.bad

\* Every render returns: the loops the lowering emits end.
Terminates == <>(status # "running")

====
