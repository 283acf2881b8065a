# Model-checking project for b2 (template compiler)

This directory holds TLA+ models of the b2 template compiler (`src/lib`, `src/src`), the
TLC configurations that check them, and `PROJECT.json`, which maps every model definition
to the source lines it translates and lists the runs, mutants, findings and hazards.

## 1. Inventory

### Components and their state

| Component | Source | State it keeps | Operations |
|---|---|---|---|
| Expression tree | `lib/ast/expressions.hpp` | immutable-shape tree, each edge a `unique_ptr` | constructors, `clone()`, `valueType()` |
| Statement tree | `lib/ast/ast.hpp` | `StatementsAST` holds a `std::list` of owned children; If/For own optional bodies; Include owns scope and an `unordered_map` of bindings | constructors |
| Traversal framework | `lib/ast/passes/pass.hpp` | none (recursion on the C++ stack); mutates the tree in place | `ASTPass::statements/if_block/for_block/...`, `ExpressionPass::*_expression` |
| Pass manager | `lib/ast/passes/pass_manager.cpp` | ordered list of owned passes; the in-flight AST pointer | `addPass` (x2), `removeAllPasses`, `run` |
| Constant folding | `lib/ast/passes/fold_constant_expressions_pass.cpp` | none | `process_node(BinaryOp/UnaryOp/Comparison)` |
| Literal print to raw | `convert_literal_printblock_to_rawblock_pass.cpp` | none | `process_node(PrintBlockAST)` |
| Raw coalescing | `coalesce_rawblocks_pass.cpp` | none | `process_node(StatementsAST)` |
| Include resolution | `resolve_includes_pass.cpp` | its own `Parser` (lexer state) and a nested `PassManager` reused for every include | `process_node(IncludeBlockAST)`, `resolvePath`, `prependScope`, `replaceVariableReferences` |
| Parser wrapper | `lib/parser/parser.cpp` | reentrant lexer per `Parser`, but a process-global `err_message` | `parse(FILE*)`, `parse(filename)`, `syntax_error` |
| JavaScript backend | `lib/backends/javascript/*` | output emitter, for-loop counter, shadow map binder-name -> JS variable | one visit method per node/expression kind |
| LLVM backend | `lib/backends/llvm/*` | per-visitor `m_overriden_variables`, current `Function`; backend-wide function cache `m_functions` by template name | `visit`, `createFunction`, one method per node/expression kind |
| PHP binding surface | `src/php/php_bindings.cpp` | compile-time refcount per emitted IR value (`m_variablesRefCount`), for-loop metadata per iterable value | `variableGoesOutOfScope`, `getNewReferenceForVariable`, `createForLoop*`, `createVariant*`, `createGetAttribute`, `createMethodCall`, `wrapAsVariant` |
| PHP runtime functions | `src/php/php_bindings_functions.c` | output buffer (grown in chunks) | `add_to_buffer`, `compare_variant`, `forloop_*`, `do_method_call`, ... |
| Simple binding surface/runtime | `src/simple/*` | none | `createVariantComparison` + `compare_variant` (op encoding), `lookup_variable` |
| PHP extension | `src/php/php_b2.cpp` | `Engine` object: parser, backend (with function cache), bindings | `parseTemplate`, `render`, `display` |
| Drivers | `src/ast_print/print.cpp`, `src/js_precompiler/compiler.cpp` | pass enable flags | option parsing, `optimizeAST`, error-to-exit-code |
| Debug printer | `lib/utils/print_visitor.cpp` | indentation | text dump |

### How they interact

Data flows parser -> `PassManager::run` -> backend visitor. `PassManager::run` owns the AST
between passes: when a pass returns a different root it deletes the old one, and when a
pass throws it deletes the in-flight AST and rethrows. Every pass is an `ASTPass` whose
private visitor walks the tree post-order-after-hook: the hook `process_node` runs first,
a compound node whose hook changed its kind is walked again, otherwise its children are
walked; in a `StatementsAST` a child that comes back as `StatementsAST` is spliced into the
parent and a one-child `StatementsAST` is replaced by its child. Expression passes are
wrapped (`ExpressionPassWrapper`) and applied to every expression slot.

The include pass is re-entrant: for each Include it parses the file, calls `this->process`
on it (resolving nested includes depth-first on the C++ stack), then runs its *own nested
PassManager* (shared by all recursion levels) with one expression pass that substitutes
variables (bindings) or prefixes them with the scope, cloning the substituted expression
at every use site. Ownership of the included AST passes between a `unique_ptr` in
`process_node` and the nested `PassManager::run`, which also deletes on failure.

The backends consume the final tree: the LLVM visitor calls the binding surface
(`PHPBindings` / `SimpleBindings`), which tracks at *compile time* a refcount per emitted
IR value to decide where to emit `destruct_zval`; the emitted code calls the C runtime.

In the PHP extension (`php_b2.cpp`) one `b2\Engine` owns a parser, an `LLVMBackend` and its
module for the whole script. `parseTemplate` parses, runs `optimizeAST` and `createFunction`,
turning a `SyntaxError` of the parse into `b2\SyntaxError` and every other failure into a
plain `Exception` the script may catch and go on after; the `b2\Template` it returns holds a
raw pointer to the JIT-compiled function, and `render`/`display` call it long after, when the
backend may have compiled, rejected or thrown on other templates in between.

### What is hard here

Everything is single-threaded per compilation, so the hard behaviours are not thread
interleavings but *orderings of steps inside one run*: hook-before-descent in the walker,
splicing while iterating, a pass that raises half-way through a tree, ownership moving
between a `unique_ptr` and a pass manager that deletes on both paths, recursion through
includes (cycles), numeric edges in folding (division of the minimum integer by -1,
integer/double widening), undefined behaviour when a literal of the wrong kind is read
through the wrong static type, shallow-vs-deep clone, compile-time refcounts that are
path-insensitive, and state that survives a failed compilation in long-lived objects
(LLVM visitor, function cache, PHP bindings). The one real concurrency hazard is the
parser's process-global `err_message` when two compilations run on two threads (spec 5
allows this).

### What makes each component correct

* Traversal: after any pass, no Statements node has a Statements child or exactly one child.
* Pass manager: exactly one live AST between passes; nothing freed twice; nothing leaked
  on the error path.
* Constant folding: agrees with the folding rules of spec 4.3 (only literal operands of the
  right kinds are folded, integer arithmetic wraps, division by zero is an error); one
  run reaches a fixpoint (idempotent).
* Literal print to raw + coalescing: no Print of a literal, no two adjacent Raw children,
  text order preserved.
* Include resolution: no Include survives; only free variables are rewritten; a missing
  binding is an error (not a crash); cycles are reported, not a stack overflow.
* Clone: the clone equals the original.
* Backends: every owned runtime value released exactly once and never used after release;
  binder shadowing restored after every loop; compiler and runtime agree on operator codes.

## 2. Modules

| Module | Models | State (VARIABLES) | Actions |
|---|---|---|---|
| `B2Ast` | `expressions.hpp`, `ast.hpp`: trees as records (`type` tags expressions, `kind` tags nodes, `None` is a null pointer), `clone()` with `cloneExpressionList`, `long` arithmetic at `IntWidth` bits (wrap, truncating `/` and `%`) and `long`->`double` rounding at `DoubleMantissa` bits | none | none |
| `AstPasses` | `pass.hpp` (statement walk with hook, re-walk on a changed kind, splicing, single-child folding; expression walk), `ExpressionPassWrapper` of `pass_manager.cpp`, and the hooks of the four passes plus the two nested expression passes of the include pass | none (pure operators) | none; `Walk(pass, tree)` returns `Ok(tree)` or `Err(kind)` |
| `PassManager` | `PassManager::run` over the pipeline `optimizeAST` registers | `passes`, `next`, `ast`, `status`, `error` | `RunPass`, `PassRaises` (delete and rethrow), `ProcessCrashes`, `Finish` |
| `ConstantFolding` | the folding pass on one expression slot, against `SpecFold`, spec 4.3 written as a bottom-up evaluation | `expr`, `result` | `FoldSlot` |
| `IncludeOwnership` | the heap objects that change owners in `ResolveIncludesPass::process_node` and the nested `PassManager::run`, with the recursion on a stack of frames | `top`, `frames`, `value`, `inside`, `frees`, `nextObj` | one action per step of `process_node` (parse, nested resolve, processed, nested run, return) and `Unwind` for an exception |
| `JsEscape` | `escape()` of `javascript_visitor.cpp`, one loop iteration per step, against `JsDecode`, the ECMAScript single-quoted literal grammar | `text`, `ret`, `i` | `Step` |
| `LlvmLowering` | `LLVMVisitor` (`llvm_visitor.cpp`) with the `PHPBindings` code generation it calls (`php_bindings.cpp`): every statement and expression kind, for-loop setup/next/cleanup, call wrappers with the failure branch, the compile-time refcount (`m_variablesRefCount`: 1 owned, -1 borrowed), `m_forLoopMetadata`, `m_overriden_variables`, and every throw (`unimplemented!`, `Variable found without refcount!`, null metadata). A lowering state record is threaded through the walk; an IR value is a number, an instruction a record `[op, fn, args, res, to]` | none (pure operators) | none; `Visited(tree)` is the emitted function or the error |
| `PhpRender` | the emitted function run against the runtime functions of `php_bindings_functions.c`: zvals as cells (`heap`, `borrowed`, `stack`) with a parent for borrowed ones, hash-table entries by `(container, key)` so the same lookup returns the same zval, iteration positions | `tree`, `fn`, `pc`, `env`, `cells`, `elems`, `hts`, `failed`, `status`, `buf` (the `template_buffer`: written and allocated length) | `AllocaStep`, `RuntimeCall` (each runtime function, succeeding or failing, over every shape of its result; a `print_*` call appends a string of any length in `PrintLengths` through `add_to_buffer`), `LoadStep`, `NativeStep`, `BranchStep`, `ReturnStep` |
| `LlvmBackend` | `LLVMBackend::createFunction` and `LLVMVisitor::visit` over successive templates of one engine: the function cache, the functions linked in the module (valid, still live), the function `m_function` still owns after a throw, the maps one visit leaves to the next | `functions`, `module`, `owned`, `carry`, `calls`, `last`, `result` | `CreateFunction` (`CreateFunctionOf(name, tree)` for a tree given by the caller) |
| `Engine` | `php_b2.cpp`: one `b2\Engine` and the `b2\Template` objects a PHP script gets from it. It `INSTANCE`s `PassManager` (the four passes `optimizeAST` registers), `LlvmBackend` (the engine's backend, its cache and module kept across calls) and `PhpRender` (the running `renderFunc`, on the code `createFunction` emitted) on variables of its own | `phase` (the script, inside `parseTemplate`, inside `render`, the process dead), `cur`, `outcome` (what the script got: a Template, a rendered string, `b2\SyntaxError`, `Exception`), `code` (function id to emitted code), `templates` (each Template's function), `rendering`, `renders`, and the variables of the three instances | `ParseTemplate` (the parse and its two catch clauses), `Optimize`, `OptimizeFailed` (caught as `Exception`; a double free after a missing binding may abort), `Compile` (`createFunction`, then the Template), `Render` (`render`/`display` and the buffer of `estimatedBufferSize`), `RenderStep`, `RenderReturn` |
| `JsBackend` | `JavascriptVisitor` (every node and expression kind, loop counter, shadow map, undefined check, the `Unsupported` include) and `CodeEmitter`; the output is a sequence of tokens, layout dropped | `tree`, `undef`, `st`, `status` | `Visit` |
| `Driver` | `main` of `ast_print/print.cpp` and of `js_precompiler/compiler.cpp`: the `getopt_long` loop case by case, the operand check, `parseAST`, `optimizeAST` (an `INSTANCE` of `PassManager` on the driver's own variables), the catch clauses, the output (an `INSTANCE` of `JsBackend` for the compiler) | `cmd`, `opts`, `enabled`, `basepath`, `undefCheck`, `pc`, `exit`, `out` and the five `PassManager` variables | `PrintOption`, `JsOption`, `Operands`, `Parse`, `Optimize`, `OptimizeFailed`, `Emit` (an uncaught pipeline error in `compiler.cpp` is part of `Optimize`) |

Each `MC*.tla` fixes the constants for TLC: small template files as a `Templates` function
from file name to parsed tree (or `ParseFailure`), the compiled inputs, the command lines.
`PROJECT.json` maps every definition to the lines it translates.

Undefined behaviour is a nondeterministic choice: the folding pass's reads of an
uninitialised `bool`/`double` (a literal of the wrong kind read through the wrong type)
are `\E junk \in BOOLEAN`; the double delete after a missing binding is either an abort in
`free()` or no visible effect (`Driver!OptimizeFailed`).

## 3. Runs

Passing runs (with the properties they check):

* `pipeline_normal_forms` (`MCPassManager.cfg`): every pipeline the drivers can configure, on
  two- and three-statement templates with includes, division by zero, `LONG_MIN / -1`, a
  missing file and a syntax error. `TypeOK` (a failed run deleted the tree), `Flattened`,
  `NoIncludeSurvives`, `FoldFixpoint` (folding again changes nothing), `Coalesced`.
* `fold_complete` (`MCConstantFolding.cfg`): on every expression of depth two over the chosen
  literals and a variable, nothing that spec 4.3 would fold is left (`FoldComplete`).
* `include_ownership` (`MCIncludeOwnership.cfg`): on inputs where every binding is present,
  every tree the include pass allocates, and every node released from one, is deleted
  when the pass manager returns or unwinds (`NoLeak`), and no node is used after its tree
  was deleted (`UseOnlyLive`). When the walk releases a node from its root
  (`if (new_ast != ast) delete ast`), the tracked objects inside that node move with it
  (`Detached`): in `<<If(c, Include word)>>` the included tree is still alive after the
  old root is deleted. `Detached` tells the released node's subtrees apart by value,
  which is exact here: a node is released only from a root with a single child, so the
  root cannot also hold an equal copy outside that node.
* `js_shadowing` (`MCJsBackend.cfg`): nested and sibling loops rebinding the same names:
  every reference is the innermost loop's identifier or a data lookup (`ShadowScoping`,
  against a reference scoping function), and the shadow map is empty afterwards
  (`ShadowsRestored`).
* `driver` (`MCDriver.cfg`): both programs (`cmd.prog`), all command lines of up to two
  options, on every template file of `MCTemplates` and a missing one; the passes
  registered are those spec 6 says the options select (`OptionsDecidePipeline`).
* `engine_script` (`MCEngine.cfg`): a PHP script on one engine calls `parseTemplate` on a
  key/value loop page, a variant `if`/`else` with an attribute, a page that includes a loop,
  a loop over a temporary, an `if` on a variable (rejected), a syntax error and a missing
  file, in any order, and `render` on any Template it got back. Every render, whatever was
  compiled, rejected or thrown on before it, runs code that reads only live zvals
  (`NoUseAfterFree`), destroys only heap zvals it owns (`DestructOwned`), has freed every
  zval it allocated when it returns (`NoLeak`) and keeps every print inside the buffer,
  across every length and order of prints (`BufferFits`). Every Template's function passed
  verification and is still alive in the module (`TemplateRunsVerified`): a later visit's
  `m_function.reset` must not delete a function handed out. Every `parseTemplate` and
  `render` call returns to the script or the process dies (`CallsReturn`). `TypeOK` also says
  that the running function's program counter is always inside its code. The inputs
  include no `{{ x + y }}` over two arrays, so `DestructOwned` does not reach the
  conversion hazard of `print_variant` (php_bindings_functions.c:77) here;
  `php_use_after_free` shows that hazard.

Violation runs (each checks one property that the spec states, and TLC finds it broken):

* `js_escape` (`MCJsEscape.cfg`): `EscapesText`, which says `escape()` returns and the
  literal it builds denotes the text. It is checked on texts of up to three bytes over a
  letter, NUL, tab, newline, BEL, ESC, DEL, a quote and a backslash, under weak fairness.
  TLC's shortest counterexample is `<<7>>`: BEL becomes `\a`, which JavaScript reads as
  `a`. The other faults are a quote that makes the loop grow the string until
  `MaxLen`, a backslash left unescaped, and ESC and DEL formatted in decimal.
* `driver_errors` (`MCDriver_errors.cfg`, the same command lines as `driver`):
  `ErrorsExitOne`, from spec 6 and 7, which says every run ends with 0 and the full
  output, or 1 and no output. Each of these command lines breaks it:
  * a missing file (`terminate`);
  * a syntax error in an included file (`terminate`);
  * a missing binding, whose double free aborts (`SIGABRT`);
  * `LONG_MIN / -1` in the folding pass (`SIGFPE`);
  * an include binding that is a method call, whose clone has null arguments that the
    folding pass dereferences (`SegmentationFault`);
  * a self-include (`StackOverflow`);
  * in `js_precompiler`, any pipeline error (`terminate`);
  * an include left by `--disable-pass=resolve-includes-pass`, which terminates with a
    partial renderer on stdout.
* `fold_matches_spec` (`MCConstantFolding_spec.cfg`): `FoldMatchesSpec` is broken by
  mixed-kind ordering and logic, integer equality above the mantissa, and `LONG_MIN / -1`.
* `php_use_after_free` (`MCPhpRender_uaf.cfg`): `NoUseAfterFree` is broken by an
  attribute of a temporary, and by an array printed and then walked.
* `php_compile_outcomes` (`MCPhpRender_compile.cfg`): `CompilesAsSpecified` is broken by
  a method call, an `if` on a variable, and two loops nested in a third over the same
  variable.
* `backend_isolation` (`MCLlvmBackend_isolation.cfg`): `CompilesAlone` is broken because
  a template fails after one whose compilation threw or failed verification.

Reproductions. The other cfgs are kept beside the runs, and each reproduces one
case on its own with a small input: `MCPassManager_cycle`, `_cloned_call` and
`_empty_body`; `MCConstantFolding_order`, `_logic`, `_inteq`, `_mindiv` and `_clone`;
`MCIncludeOwnership_unbound`; `MCJsEscape_quote`, `_backslash` and `_control`;
`MCJsBackend_grouping` and `_nul`; `MCDriver_missing`, `_syntax_include`,
`_js_divzero` and `_js_include`; `MCLlvmBackend_error_page`, `_poison` and
`_stale_binding`; and `MCPhpRender.cfg`, the component check of `PhpRender`. Only
these cfgs check the following definitions:
* `CloneIsCopy`;
* `NoEmptyStatements`;
* `NoDoubleFree` (broken on the unbound include, which `include_ownership` leaves out);
* `RoundTrip` and `JsEscape`'s `Terminates`;
* `NoNulByte` and `Unambiguous`;
* `NoCrash`;
* `NoDanglingFunction`;
* `PhpRender`'s `Terminates`.

## 4. Bounds

* `IntWidth = 5`, `DoubleMantissa = 3`: `long` is 5 bits (-16..15) and `double` has a 3-bit
  significand. Every edge the code has at 64/53 bits is reached: wrap-around, `MIN / -1`,
  and two distinct integers that round to the same double (8 and 9 at 3 bits).
* `MaxIncludeDepth = 3`: the include nesting that stands for stack exhaustion. The inputs
  nest at most two deep, so only a cycle reaches it.
* Templates of two or three statements drawn from a pool that holds one statement of each
  kind that matters (literal and non-literal prints, if, for with else, includes with scope,
  bindings, none, a missing file, a syntax error, an empty file, a self-include).
* Texts of up to 3 characters for `escape()`; `MaxLen = 16` bounds the growing string
  (it is only reached by the quote loop, one of the faults of the `js_escape` run).
* Command lines of up to two options from a set with one option per case of each switch, so
  every pair of orders (a global option after a per-pass one and the reverse) is checked.

* `MaxElems = 2`: an array has zero, one or two entries, enough for a loop that runs its
  body twice and for the empty-array exit; `MaxCells = 12` bounds the zvals one render
  creates (never reached: the state space is the same with 30).
* `EstimatedBufferSize = 2`, `BufferChunkSize = 3`, `PrintLengths = {1, 7}` stand for 200,
  256 and the lengths of printed strings: a render starts with less room than a chunk, short
  prints fill it exactly (the state in which `render_template` has no byte left for a
  terminator), and a print longer than a chunk plus the room left needs the
  `str_len > BUFFER_CHUNK_SIZE` branch of `add_to_buffer`.
* `MaxCalls = 2`, `MaxRenders = 1` for `Engine`: two `parseTemplate` calls (a compile after a
  compile, a failure or a cached one, which is what `TemplateRunsVerified` is about), then one
  render of any Template; failed parses and missing files do not count. Each page is one of
  the kinds of the other runs, so one render covers what `PhpRender` checks.
* `MaxCalls = 3` for `LlvmBackend`: a failing compile, then a good one, then a cached or a
  third one; every fault shown needs two.

## 5. Fairness

`JsEscape` and `PhpRender` assume weak fairness (`WF_vars(Next)`): the escape loop and a
render run on one thread with nothing else to wait for, so once a step is enabled it is
taken. `LlvmBackend` has none: templates are compiled when the PHP script asks. `Engine`
has no fairness for the script, which may stop calling at any point, and weak fairness for
the steps of a call in progress, which runs on the request's thread to its end:
`WF_vars(InRender)`, and for `parseTemplate` the same condition written out as
`[]<>(phase # "optimize") \/ []<><<InOptimize>>_vars` (`ENABLED` of the pipeline and the
lowering re-evaluates the tree walks at every use under TLC, minutes per state). The two
are equal because in the `optimize` phase some step of `InOptimize` is always possible:
checked by running `Next` with the script and the dead process allowed to stutter and
deadlock checking on, which TLC finds no deadlock in. The other modules check safety only; their runs end
(one `main`, one `visit`, one pipeline), so their cfgs say `CHECK_DEADLOCK FALSE`, with a
comment on why.

## 6. Not modelled, and why

* The lexer and grammar (`syntax.y`, `syntax.l` are not in the repository): a parse is a
  lookup in `Templates`.
* `print_visitor.cpp`: text formatting only; `ast_print`'s output is "the complete dump".
* `CodeEmitter`'s indentation and line breaks; `std::to_string` formatting of literals.
* `getopt_long`'s prefix matching of long options, and `usage()` text.
* The double-typed arithmetic branch of the folding pass (lines 59-80): its `+ - * /` are
  the IEEE operations themselves, so a model would need IEEE rounding of arbitrary quotients,
  and the spec's reference (4.3) names the same operations, so a check could only compare
  them with themselves. `%` with a double operand is left unfolded, as spec 9 keeps it.
* LLVM instruction selection, the optimisation passes and the JIT; verification is reduced
  to operand types and operands of another function. Native arithmetic yields a fresh value.
* `print_variant` of an array destroys the hash table it shares: this follows PHP 5's
  `convert_to_string` (`zval_dtor` on the array), the API the extension is written for.
* Of `php_b2.cpp`: the Zend object store and the free handlers (objects are never freed in
  the model; a Template's `engine` property keeps the engine alive as long as it is); a
  constructor that throws in `Engine_object_create` (LLVM setup failing) and returns a plain
  `zend_object` the methods then cast to `Engine_object`; the missing clone handler (the
  MINIT `TODO`: a cloned Engine or Template copies only the `zend_object`); `basePath` (a
  path is a template name); the empty `addFunction`; the allocas a loop body executes on
  every iteration (php_bindings.cpp:172: the stack frame is abstracted).
* The Zend glue of `php_b2.cpp` (class registration, the string handoff of
  `render_template`: no byte of the buffer is ever set to NUL, so a property requiring a
  terminator would fail on every render and needs no model).
* The simple bindings (`src/simple`): they cannot be built against the current
  `LLVMBindings`. Their constructor and methods take `IRBuilder&` parameters and their
  `getTemplateFunctionType()` has another signature, so the `override` markers and the base
  constructor call do not compile, and no build in the repository includes them. Their runtime
  also packs comparison operators byte-swapped against `PACK_UINT16` (only `==` would match).
* The process-global `err_message` of the parser (two threads), `resolvePath` (paths are
  template names), a failing `fclose` in `FileGuard`.

## 7. Plan left

The hazards still without a property (listed with a note in `PROJECT.json`) are all ones the
code gets wrong on every input that reaches them, so each needs a violation run of its own:

1. `IncludeSpec`: reference inlining that rewrites only free variables, with the include pass
   refined against it (`INSTANCE ... WITH`). Until then the hazard on bound names in included
   files (resolve_includes_pass.cpp:63) has no property.
2. `ParserErrors`: two compilations on two threads sharing `err_message`.
3. The failure branch of a runtime call, which leaks every zval allocated so far
   (php_bindings.cpp:63).
