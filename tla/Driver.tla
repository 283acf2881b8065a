------------------------------- MODULE Driver -------------------------------
(***************************************************************************)
(* The two command-line drivers: main() of src/ast_print/print.cpp and of *)
(* src/js_precompiler/compiler.cpp.  A run is the option loop over        *)
(* getopt_long, the operand check, parseAST, optimizeAST (the PassManager  *)
(* module, instantiated on this module's variables) and the output: the   *)
(* AST dump, or JavascriptVisitor::visit (the JsBackend module).          *)
(*                                                                         *)
(* A command line is a record: `prog`, the binary ("ast_print" or         *)
(* "js_precompiler"), `opts`, the options in the order getopt returns     *)
(* them, and `args`, the operands (GNU getopt permutes them after the     *)
(* options).  An option is [name |-> long name or letter, arg |-> its *)
(* argument, "" when it has none].  File names are the keys of Templates; *)
(* a name outside its domain is a file that cannot be opened.             *)
(***************************************************************************)
EXTENDS AstPasses

CONSTANTS
    Argvs       \* the command lines the process may be started with

ASSUME \A c \in Argvs : c.prog \in {"ast_print", "js_precompiler"}

VARIABLES
    cmd,        \* the command line (constant during a run)
    opts,       \* the options getopt_long has still to return
    enabled,    \* the passes whose enable_*_pass flag is 1
    basepath,   \* std::string basepath; "" when empty
    undefCheck, \* JavascriptVisitor::m_undefinedCheck
    pc,         \* "options", "parse", "optimize" or "exited"
    exit,       \* "0" or "1" (the value main returns), "terminate" (an uncaught
                \* exception), a signal or a crash kind; "none" while it runs
    out,        \* stdout: "none", "partial" or "full"
    passes, next, ast, status, error   \* PassManager::run (status "idle" before)

driverVars == <<cmd, opts, enabled, basepath, undefCheck, pc, exit, out>>
pmVars     == <<passes, next, ast, status, error>>
vars       == <<driverVars, pmVars>>

PM == INSTANCE PassManager WITH Inputs <- {}
Js == INSTANCE JsBackend WITH Inputs <- {}, tree <- None, undef <- FALSE,
                               st <- None, status <- "idle"

AllPasses == {"resolve", "fold", "print2raw", "coalesce"}

\* The names of the `passes[]` table of compiler.cpp and of the flag
\* options of print.cpp.
CliName(p) ==
    CASE p = "resolve"   -> "resolve-includes-pass"
      [] p = "fold"      -> "constant-folding-pass"
      [] p = "print2raw" -> "literal-print-to-raw-conversion-pass"
      [] p = "coalesce"  -> "raw-block-coalescing-pass"

\* What getopt_long(argc, argv, "ht:", long_options, ...) returns for an
\* option of print.cpp: 0 ("flag") for the entries with a flag pointer (after it has
\* stored the entry's value), '?' for an option not in the table.
GetoptPrint(o) ==
    CASE o.name \in {"h", "help"}               -> "h"
      [] o.name \in {"t", "template-basepath"}  -> "t"
      [] o.name = "disable-all-passes"          -> "d"
      [] o.name = "enable-all-passes"           -> "e"
      [] \E p \in AllPasses : o.name \in {"enable-" \o CliName(p), "disable-" \o CliName(p)} -> "flag"
      [] OTHER                                  -> "?"

\* The same for compiler.cpp, whose long options have no flag pointers.
GetoptJs(o) ==
    CASE o.name \in {"h", "help"}               -> "h"
      [] o.name \in {"t", "template-basepath"}  -> "t"
      [] o.name = "disable-pass"                -> "d"
      [] o.name = "enable-pass"                 -> "e"
      [] o.name = "list-passes"                 -> "l"
      [] o.name = "enable-undefined-check"      -> "u"
      [] OTHER                                  -> "?"

\* `*flag = val` of a print.cpp flag entry.
FlagStore(o, en) ==
    LET p == CHOOSE q \in AllPasses : o.name \in {"enable-" \o CliName(q), "disable-" \o CliName(q)}
    IN  IF o.name = "enable-" \o CliName(p) THEN en \cup {p} ELSE en \ {p}

\* Mutant: the 'd' case sets enable_raw_block_coalescing_pass to 1, as 'e'.
AllFlagsMissingOne(v) == IF v = 1 THEN AllPasses ELSE {"coalesce"}

\* Cases 'd' and 'e' of print.cpp: all four flags set to v.
AllFlags(v) == IF v = 1 THEN AllPasses ELSE {}

\* The `for (auto &pass : passes) if (!strcmp(pass.name, optarg))` lookup
\* of compiler.cpp: the pass of that name, none for an unknown name.
PassLookup(name) == {p \in AllPasses : CliName(p) = name}

\* `*pass.enabled = v` for the passes found.
SetFlag(en, ps, v) == IF v = 1 THEN en \cup ps ELSE en \ ps

Init ==
    /\ cmd \in Argvs
    /\ opts = cmd.opts
    /\ enabled = AllPasses          \* the flags' static initialisers
    /\ basepath = ""
    /\ undefCheck = FALSE           \* the JavascriptVisitor constructor
    /\ pc = "options"
    /\ exit = "none"
    /\ out = "none"
    /\ passes = <<>> /\ next = 1 /\ ast = None /\ status = "idle" /\ error = "none"

Stop(code) == pc' = "exited" /\ exit' = code

\* One iteration of the option loop of print.cpp main (lines 103-141).
PrintOption ==
    /\ cmd.prog = "ast_print" /\ pc = "options" /\ opts # <<>>
    /\ opts' = Tail(opts)
    /\ LET o == Head(opts) IN
       \/ /\ GetoptPrint(o) = "flag"
          /\ enabled' = FlagStore(o, enabled)
          /\ UNCHANGED <<basepath, pc, exit>>
       \/ /\ GetoptPrint(o) \in {"d", "e"}
          /\ enabled' = AllFlags(IF GetoptPrint(o) = "e" THEN 1 ELSE 0)
          /\ UNCHANGED <<basepath, pc, exit>>
       \/ /\ GetoptPrint(o) = "t"
          /\ basepath' = o.arg
          /\ UNCHANGED <<enabled, pc, exit>>
       \/ /\ GetoptPrint(o) \in {"h", "?"}   \* usage(binary); return 0
          /\ Stop("0")
          /\ UNCHANGED <<enabled, basepath>>
    /\ UNCHANGED <<cmd, undefCheck, out, pmVars>>

\* One iteration of the option loop of compiler.cpp main (lines 102-150).
JsOption ==
    /\ cmd.prog = "js_precompiler" /\ pc = "options" /\ opts # <<>>
    /\ opts' = Tail(opts)
    /\ LET o == Head(opts) IN
       \/ /\ GetoptJs(o) \in {"d", "e"}
          /\ enabled' = SetFlag(enabled, PassLookup(o.arg), IF GetoptJs(o) = "e" THEN 1 ELSE 0)
          /\ UNCHANGED <<basepath, undefCheck, pc, exit>>
       \/ /\ GetoptJs(o) = "t"
          /\ basepath' = o.arg
          /\ UNCHANGED <<enabled, undefCheck, pc, exit>>
       \/ /\ GetoptJs(o) = "u"
          /\ undefCheck' = TRUE
          /\ UNCHANGED <<enabled, basepath, pc, exit>>
       \/ /\ GetoptJs(o) \in {"l", "h", "?"}   \* list_passes() or usage(); return 0
          /\ Stop("0")
          /\ UNCHANGED <<enabled, basepath, undefCheck>>
    /\ UNCHANGED <<cmd, out, pmVars>>

\* getopt_long returns -1: `if (argc != 1) { usage(binary); return 1; }`,
\* then the base path defaults to dirname of the template.
Operands ==
    /\ pc = "options" /\ opts = <<>>
    /\ IF Len(cmd.args) # 1 THEN Stop("1") /\ UNCHANGED basepath
       ELSE /\ pc' = "parse"
            /\ basepath' = (IF basepath = "" THEN "dirname" ELSE basepath)
            /\ UNCHANGED exit
    /\ UNCHANGED <<cmd, opts, enabled, undefCheck, out, pmVars>>

\* parseAST(argv[0]) and, when it returns a tree, the setup of optimizeAST:
\* a PassManager with the enabled passes added in their fixed order.
\* parseAST catches only SyntaxError (message, `return nullptr`, then main
\* returns 1); a file that cannot be opened throws std::runtime_error from
\* FileGuard, which nothing catches.
Parse ==
    /\ pc = "parse"
    /\ LET f == cmd.args[1] IN
       \/ /\ f \notin DOMAIN Templates
          /\ Stop("terminate")
          /\ UNCHANGED pmVars
       \/ /\ f \in DOMAIN Templates /\ Templates[f] = ParseFailure
          /\ Stop("1")
          /\ UNCHANGED pmVars
       \/ /\ f \in DOMAIN Templates /\ Templates[f] # ParseFailure
          /\ pc' = "optimize"
          /\ passes' = SelectSeq(PM!PassOrder, LAMBDA q : q \in enabled)
          /\ next' = 1 /\ ast' = Templates[f] /\ status' = "running" /\ error' = "none"
          /\ UNCHANGED exit
    /\ UNCHANGED <<cmd, opts, enabled, basepath, undefCheck, out>>

\* One step of PassManager::run inside optimizeAST.  When the process dies
\* in the pass (a trap, a stack overflow, a null dereference) it ends there.
Optimize ==
    /\ pc = "optimize"
    /\ PM!Next
    /\ IF status' = "crashed" THEN Stop(error') ELSE UNCHANGED <<pc, exit>>
    /\ UNCHANGED <<cmd, opts, enabled, basepath, undefCheck, out>>

\* The exceptions that are std::runtime_errors: all but SyntaxError, which
\* derives from std::exception only.
RuntimeErrors == Exceptions \ {"SyntaxError"}

\* Mutant: optimizeAST is called outside any try block, as in compiler.cpp.
OptimizeFailedUncaught ==
    /\ pc = "optimize" /\ status = "failed"
    /\ \/ Stop("terminate")
       \/ error = "MissingVariableReference" /\ Stop("SIGABRT")
    /\ UNCHANGED <<cmd, opts, enabled, basepath, undefCheck, out, pmVars>>

\* run() rethrew a pass's exception.  print.cpp catches std::runtime_error
\* and returns 1; anything else, and every exception in compiler.cpp,
\* which has no try block, terminates the process.  A missing binding has
\* deleted the included tree twice on the way (IncludeOwnership): glibc
\* may abort in free() before any handler runs.
OptimizeFailed ==
    /\ pc = "optimize" /\ status = "failed"
    /\ \/ cmd.prog = "ast_print" /\ error \in RuntimeErrors /\ Stop("1")
       \/ (cmd.prog = "js_precompiler" \/ error \notin RuntimeErrors) /\ Stop("terminate")
       \/ error = "MissingVariableReference" /\ Stop("SIGABRT")
    /\ UNCHANGED <<cmd, opts, enabled, basepath, undefCheck, out, pmVars>>

\* The end of js_visitor.visit: CodeEmitter flushes every line (std::endl),
\* so what was written before an exception is on stdout.  An Include node
\* throws std::runtime_error("Unsupported"), which nothing catches.
JsEmitted(s) ==
    IF s.err = "none" THEN out' = "full" /\ Stop("0")
    ELSE out' = "partial" /\ Stop(IF s.err = "Unsupported" THEN "terminate" ELSE s.err)

\* run() returned the tree: printAST (print.cpp) or js_visitor.visit
\* (compiler.cpp), then `return 0`.
Emit ==
    /\ pc = "optimize" /\ status = "done"
    /\ IF cmd.prog = "ast_print" THEN out' = "full" /\ Stop("0")
       ELSE JsEmitted(Js!Visited(ast, undefCheck))
    /\ UNCHANGED <<cmd, opts, enabled, basepath, undefCheck, pmVars>>

Next ==
    \/ PrintOption \/ JsOption \/ Operands \/ Parse
    \/ Optimize \/ OptimizeFailed \/ Emit

\* main runs once and returns: a run that has exited stays so.
Spec == Init /\ [][Next]_vars

----------------------------------------------------------------------------
(* The reference: spec 6, the passes a command line selects.  Every pass  *)
(* is on by default; a pass is off when an option turning it off comes    *)
(* after every option turning it on.                                      *)

TurnsOn(o, p) ==
    \/ o.name \in {"enable-all-passes", "enable-" \o CliName(p)}
    \/ o.name = "enable-pass" /\ o.arg = CliName(p)

TurnsOff(o, p) ==
    \/ o.name \in {"disable-all-passes", "disable-" \o CliName(p)}
    \/ o.name = "disable-pass" /\ o.arg = CliName(p)

Selected(os) ==
    {p \in AllPasses :
        \A i \in DOMAIN os : TurnsOff(os[i], p) => \E j \in (i + 1)..Len(os) : TurnsOn(os[j], p)}

----------------------------------------------------------------------------
(* Properties.                                                            *)

\* The option loops: optimizeAST registers exactly the passes the command
\* line selects, in pipeline order, whatever the order and mix of global,
\* per-pass and unknown-name options.
OptionsDecidePipeline ==
    status # "idle" => passes = SelectSeq(PM!PassOrder, LAMBDA q : q \in Selected(cmd.opts))

\* Spec 6 and 7, the drivers' exit status: main ends with 1 and nothing on
\* stdout when the template cannot be read or parsed or the pipeline
\* fails, with 0 and the complete output when the compilation succeeds,
\* and with 0 and no output only when it stopped before parsing (--help,
\* --list-passes, an unknown option).  Never by an uncaught exception or
\* a signal.
ErrorsExitOne ==
    pc = "exited" =>
        \/ exit = "1" /\ out = "none"
        \/ exit = "0" /\ out = "full"
        \/ exit = "0" /\ out = "none" /\ status = "idle"

=============================================================================
