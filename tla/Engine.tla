------------------------------- MODULE Engine -------------------------------
(***************************************************************************)
(* The PHP extension's Engine and Template objects (src/php/php_b2.cpp):  *)
(* a PHP script calls Engine::parseTemplate and Template::render in any   *)
(* order on one engine.  parseTemplate parses the file, runs optimizeAST  *)
(* (the PassManager module, with the extension's four passes) and         *)
(* LLVMBackend::createFunction (the LlvmBackend module, whose cache and   *)
(* module persist across calls); render runs the compiled function (the   *)
(* PhpRender module) on the code the backend emitted for it.             *)
(*                                                                         *)
(* An error of a call becomes a PHP exception the script may catch and    *)
(* carry on after; a crash (a trap, a segmentation fault, an abort in     *)
(* free()) ends the process.                                              *)
(***************************************************************************)
EXTENDS LlvmLowering

CONSTANTS
    Templates, ParseFailure, MaxIncludeDepth,   \* the files (AstPasses)
    Names,      \* the names parseTemplate is called with
    MaxCalls,   \* the most createFunction calls (a bound of the model)
    MaxRenders, \* the most render calls (a bound of the model)
    MaxElems, MaxCells, EstimatedBufferSize, BufferChunkSize, PrintLengths

VARIABLES
    phase,      \* "script", "optimize", "render" (inside a call) or "dead"
    cur,        \* the name of the parseTemplate call in progress
    outcome,    \* what the last call gave the script: "none", "template",
                \* "rendered", "SyntaxError" (b2\SyntaxError) or "Exception"
    code,       \* function id -> the function createFunction emitted
    templates,  \* the Template objects: the function id of each renderFunc
    rendering,  \* the function id render is running (0: none)
    renders,    \* render calls so far
    passes, next, ast, pmStatus, error,               \* PassManager::run
    functions, module, owned, carry, calls, last, result, \* LLVMBackend
    pc, env, cells, elems, hts, failed, rstatus, buf  \* the running renderer

engineVars == <<phase, cur, outcome, code, templates, rendering, renders>>
pmVars     == <<passes, next, ast, pmStatus, error>>
lbVars     == <<functions, module, owned, carry, calls, last, result>>
prVars     == <<pc, env, cells, elems, hts, failed, rstatus, buf>>
vars       == <<engineVars, pmVars, lbVars, prVars>>

\* The function render_template calls through templ->renderFunc.
Running == IF rendering \in DOMAIN code THEN code[rendering] ELSE Setup

PM == INSTANCE PassManager WITH Inputs <- {}, status <- pmStatus
LB == INSTANCE LlvmBackend WITH Trees <- [n \in Names |-> None]
PR == INSTANCE PhpRender WITH Inputs <- {}, tree <- cur, fn <- Running, status <- rstatus

\* LLVMVisitor::visit after the walk: `ret void`, the counts cleared.
Finished(s) == [Emit(s, Ret) EXCEPT !.rc = Empty]

PmIdle == passes = <<>> /\ next = 1 /\ ast = None /\ pmStatus = "idle" /\ error = "none"
PmReset == passes' = <<>> /\ next' = 1 /\ ast' = None /\ pmStatus' = "idle" /\ error' = "none"
PrIdle(p, e, c, l, h, f, s, b) ==
    /\ p = [b |-> 1, i |-> 1] /\ e = Empty /\ c = <<>> /\ l = Empty /\ h = Empty
    /\ f = FALSE /\ s = "idle" /\ b = [len |-> 0, alloc |-> 0]

\* Engine_object_create and Engine::__construct: the backend is built and
\* the runtime functions linked into its module.
Init ==
    /\ phase = "script" /\ outcome = "none"
    /\ cur = (CHOOSE n \in Names : TRUE)
    /\ code = Empty /\ templates = <<>> /\ rendering = 0 /\ renders = 0
    /\ PmIdle
    /\ LB!Init
    /\ PrIdle(pc, env, cells, elems, hts, failed, rstatus, buf)

\* Engine::parseTemplate up to optimizeAST: engine->parser.parse(path)
\* throws SyntaxError (rethrown as b2\SyntaxError) or, for a file that
\* cannot be opened, FileGuard's runtime_error (rethrown as Exception).
ParseTemplate(n) ==
    /\ phase = "script" /\ calls < MaxCalls
    /\ cur' = n
    /\ CASE n \notin DOMAIN Templates ->
              outcome' = "Exception" /\ UNCHANGED <<phase, pmVars>>
         [] Templates[n] = ParseFailure ->
              outcome' = "SyntaxError" /\ UNCHANGED <<phase, pmVars>>
         [] OTHER ->
              /\ phase' = "optimize" /\ outcome' = "none"
              /\ passes' = PM!PassOrder /\ next' = 1 /\ ast' = Templates[n]
              /\ pmStatus' = "running" /\ error' = "none"
    /\ UNCHANGED <<code, templates, rendering, renders, lbVars, prVars>>

\* One pass of PassManager::run; the process dies with a crash in a pass.
Optimize ==
    /\ phase = "optimize"
    /\ PM!Next
    /\ IF pmStatus' = "crashed" THEN phase' = "dead" ELSE UNCHANGED phase
    /\ UNCHANGED <<cur, outcome, code, templates, rendering, renders, lbVars, prVars>>

\* run() rethrew (a SyntaxError of an included file included): the catch
\* of std::exception makes it a plain Exception.  A missing binding has
\* freed the included tree twice; glibc may abort in free().
OptimizeFailed ==
    /\ phase = "optimize" /\ pmStatus = "failed"
    /\ \/ outcome' = "Exception" /\ phase' = "script"
       \/ error = "MissingVariableReference" /\ phase' = "dead" /\ UNCHANGED outcome
    /\ PmReset
    /\ UNCHANGED <<cur, code, templates, rendering, renders, lbVars, prVars>>

\* createFunction(templateName, ast) (keyed by the name as given), then a
\* Template object holding the function, which keeps the engine alive.
\* A segmentation fault of the walk ends the process.
Compile ==
    /\ phase = "optimize" /\ pmStatus = "done"
    /\ LB!CreateFunctionOf(cur, ast)
    /\ code' = IF result' = "compiled"
               THEN (calls' :> Finished(EmitNode(ast, LB!Carried(carry)))) @@ code ELSE code
    /\ IF result' \in {"compiled", "cached"}
       THEN templates' = Append(templates, functions'[cur]) /\ outcome' = "template"
       ELSE UNCHANGED templates /\ outcome' = "Exception"
    /\ phase' = IF result' = "SegmentationFault" THEN "dead" ELSE "script"
    /\ PmReset
    /\ UNCHANGED <<cur, rendering, renders, prVars>>

\* Template::render / display: render_template allocates the buffer of
\* estimatedBufferSize bytes and calls renderFunc.
Render(i) ==
    /\ phase = "script" /\ renders < MaxRenders
    /\ phase' = "render" /\ rendering' = templates[i] /\ renders' = renders + 1
    /\ pc' = [b |-> 1, i |-> 1] /\ env' = Empty /\ cells' = <<>> /\ elems' = Empty
    /\ hts' = Empty /\ failed' = FALSE /\ rstatus' = "running"
    /\ buf' = [len |-> 0, alloc |-> EstimatedBufferSize]
    /\ UNCHANGED <<cur, outcome, code, templates, pmVars, lbVars>>

\* One instruction of the renderer.
RenderStep ==
    /\ phase = "render"
    /\ UNCHANGED <<engineVars, pmVars, lbVars>>
    /\ PR!Next

\* renderFunc returned (normally or through a failed call's early return):
\* the buffer becomes the result string.
RenderReturn ==
    /\ phase = "render" /\ rstatus \in {"returned", "failed"}
    /\ phase' = "script" /\ outcome' = "rendered" /\ rendering' = 0
    /\ PrIdle(pc', env', cells', elems', hts', failed', rstatus', buf')
    /\ UNCHANGED <<cur, code, templates, renders, pmVars, lbVars>>

\* The steps of parseTemplate after the parse: a pass of the pipeline, the
\* answer to a failed pipeline, createFunction.  While the phase is
\* "optimize" one of them is always possible: a pass returns, raises or
\* crashes, and a failed or finished pipeline is answered.
InOptimize == Optimize \/ OptimizeFailed \/ Compile
\* The steps of render.
InRender == RenderStep \/ RenderReturn

Next ==
    \/ \E n \in Names : ParseTemplate(n)
    \/ \E i \in DOMAIN templates : Render(i)
    \/ InOptimize
    \/ InRender

\* The script calls what it likes (no fairness); a call in progress runs
\* on the request's thread to its end.  For parseTemplate this is
\* WF_vars(InOptimize) with ENABLED <<InOptimize>>_vars written as the
\* phase, which it equals.
Spec ==
    /\ Init /\ [][Next]_vars
    /\ ([]<>(phase # "optimize") \/ []<><<InOptimize>>_vars)
    /\ WF_vars(InRender)

----------------------------------------------------------------------------
(* Properties.                                                            *)

\* The types, and the shape of the code a render runs: every block of the
\* function renderFunc points at ends in a branch or a `ret`.
TypeOK ==
    /\ phase \in {"script", "optimize", "render", "dead"}
    /\ outcome \in {"none", "template", "rendered", "SyntaxError", "Exception"}
    /\ templates \in Seq(DOMAIN code)
    /\ rstatus = "running" => pc.b \in DOMAIN Running.code /\ pc.i \in 1..Len(Running.code[pc.b])

\* What PhpRender checks of one render holds of every render of every
\* Template, whatever the engine compiled before it: the code emitted
\* with the value numbering and maps a previous visit left reads only live
\* zvals, destroys only those it owns, frees every one when it returns,
\* and keeps every print inside the output buffer.
NoUseAfterFree == PR!NoUseAfterFree
DestructOwned  == PR!DestructOwned
NoLeak         == PR!NoLeak
BufferFits     == PR!BufferFits

\* A Template object calls its renderFunc long after parseTemplate
\* returned.  That function is one that passed verifyFunction and
\* verifyModule, and it is still linked in the module and alive, whatever
\* the engine compiled, failed to compile or threw on since (LLVMVisitor's
\* m_function.reset deletes the function it still owns).
TemplateRunsVerified ==
    \A i \in DOMAIN templates : module[templates[i]].valid /\ module[templates[i]].live

\* Every parseTemplate and render call returns to the script, or the
\* process dies: the pipeline, the lowering and the emitted loops end.
CallsReturn == (phase \in {"optimize", "render"}) ~> (phase \in {"script", "dead"})

====
