----------------------------- MODULE LlvmBackend -----------------------------
(***************************************************************************)
(* LLVMBackend::createFunction (backends/llvm/llvm_backend.cpp), called   *)
(* by Engine::parseTemplate once per template, over the lowering of      *)
(* LlvmLowering.  One backend serves every template of an Engine: its     *)
(* functions are cached by name and linked into one module, and the      *)
(* LLVMVisitor and PHPBindings keep their maps from one visit to the next.*)
(*                                                                         *)
(*   functions  m_functions: template name -> function (0: none)          *)
(*   module     the functions linked into m_module: id -> [valid, live];  *)
(*              live is FALSE for a function deleted while still linked;  *)
(*   owned      the function LLVMVisitor::m_function still owns (0: none);*)
(*   carry      what one visit leaves to the next: the value numbering,   *)
(*              m_variablesRefCount, m_overriden_variables and            *)
(*              m_forLoopMetadata;                                        *)
(*   result     the outcome of the last call.                             *)
(***************************************************************************)
EXTENDS LlvmLowering

CONSTANTS
    Names,     \* the template names parseTemplate is called with
    Trees,     \* name -> the optimised tree of that template
    MaxCalls   \* the most calls to createFunction (a bound of the model)

VARIABLES functions, module, owned, carry, calls, last, result

vars == <<functions, module, owned, carry, calls, last, result>>

Fresh == [nv |-> 0, ty |-> Empty, rc |-> Empty, over |-> Empty, meta |-> Empty]

\* functionSetup's entry block, with the maps as the last visit left them.
Carried(c) == [Setup EXCEPT !.nv = c.nv, !.ty = c.ty, !.rc = c.rc, !.over = c.over, !.meta = c.meta]
Leftover(s) == [nv |-> s.nv, ty |-> s.ty, rc |-> s.rc, over |-> s.over, meta |-> s.meta]

\* An instruction of the new function uses a value created by an earlier
\* visit, an instruction of another function.
Foreign(s, base) ==
    \E b \in DOMAIN s.code : \E k \in DOMAIN s.code[b] :
        \E j \in ValueArgs(s.code[b][k]) : s.code[b][k].args[j] \in 1..base

Init ==
    /\ functions = [n \in Names |-> 0]
    /\ module = Empty
    /\ owned = 0
    /\ carry = Fresh
    /\ calls = 0
    /\ last = CHOOSE n \in Names : TRUE
    /\ result = "none"

\* Mutant: the visitor keeps owning the function it handed out (take()
\* is missing), so the next visit's m_function.reset deletes it.
VisitKeepsOwnership(n, id, kept, s) ==
    IF s.err # "none"
    THEN /\ module' = (id :> [valid |-> FALSE, live |-> TRUE]) @@ kept
         /\ owned' = id
         /\ carry' = Leftover(s)
         /\ result' = s.err
         /\ UNCHANGED functions
    ELSE LET m2 == (id :> [valid |-> ~s.bad /\ ~Foreign(s, carry.nv), live |-> TRUE]) @@ kept
         IN  /\ module' = m2
             /\ owned' = id
             /\ carry' = [Leftover(s) EXCEPT !.rc = Empty]
             /\ IF \A f \in DOMAIN m2 : m2[f].valid
                THEN functions' = [functions EXCEPT ![n] = id] /\ result' = "compiled"
                ELSE result' = "VerifyFailed" /\ UNCHANGED functions

\* visit() after the function was created: m_function.reset deletes the
\* function it still owned (linked in the module all the same).  When the
\* walk throws, the new function stays in the module, owned by m_function,
\* and every map keeps what the walk put in it; otherwise the teardown
\* clears the counts, take() releases the function, verifyFunction and
\* verifyModule run (an operand of the wrong type, or of another function,
\* fails them) and only a function that passes is cached.
Visit(n, id, kept, s) ==
    IF s.err # "none"
    THEN /\ module' = (id :> [valid |-> FALSE, live |-> TRUE]) @@ kept
         /\ owned' = id
         /\ carry' = Leftover(s)
         /\ result' = s.err
         /\ UNCHANGED functions
    ELSE LET m2 == (id :> [valid |-> ~s.bad /\ ~Foreign(s, carry.nv), live |-> TRUE]) @@ kept
         IN  /\ module' = m2
             /\ owned' = 0
             /\ carry' = [Leftover(s) EXCEPT !.rc = Empty]
             /\ IF \A f \in DOMAIN m2 : m2[f].valid
                THEN functions' = [functions EXCEPT ![n] = id] /\ result' = "compiled"
                ELSE result' = "VerifyFailed" /\ UNCHANGED functions

\* createFunction(name, ast): a cached function is returned as it is.  A
\* segmentation fault of the walk ends the process.
CreateFunctionOf(n, ast) ==
    /\ calls < MaxCalls /\ result # "SegmentationFault"
    /\ calls' = calls + 1
    /\ last' = n
    /\ IF functions[n] # 0
       THEN result' = "cached" /\ UNCHANGED <<functions, module, owned, carry>>
       ELSE Visit(n, calls + 1, IF owned # 0 THEN [module EXCEPT ![owned].live = FALSE] ELSE module,
                  EmitNode(ast, Carried(carry)))

\* The optimised tree of template n is Trees[n].
CreateFunction(n) == CreateFunctionOf(n, Trees[n])

Next == \E n \in Names : CreateFunction(n)

\* Templates are compiled when the PHP script asks for them: no fairness.
Spec == Init /\ [][Next]_vars

----------------------------------------------------------------------------
(* Properties.                                                            *)

\* The module never lists a function that was deleted: verifyModule and
\* the JIT walk every function of m_module, so a deleted one is a use
\* after free (LLVMVisitor::visit's m_function.reset).
NoDanglingFunction == \A f \in DOMAIN module : module[f].live

\* A template that compiles and verifies on a fresh backend is not
\* refused because of the templates compiled before it.
CompilesAlone ==
    result = "VerifyFailed" =>
        LET s == EmitNode(Trees[last], Setup) IN s.err # "none" \/ s.bad

====
