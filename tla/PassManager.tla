---------------------------- MODULE PassManager ----------------------------
(***************************************************************************)
(* One compilation through the optimisation pipeline: optimizeAST of the  *)
(* drivers (ast_print/print.cpp, js_precompiler/compiler.cpp) registers   *)
(* the enabled passes in a fixed order and PassManager::run                *)
(* (pass_manager.cpp) runs them one after the other on the parsed tree.   *)
(*                                                                         *)
(* One step of the model is one pass of the `for` loop of run(): the pass *)
(* returns a tree, or raises (run() deletes the tree and rethrows), or the *)
(* process dies in it.                                                    *)
(***************************************************************************)
EXTENDS AstPasses

CONSTANTS
    Inputs   \* trees the parser can return for the compiled template

VARIABLES
    passes,  \* the passes registered by optimizeAST, in order
    next,    \* index in `passes` of the pass run() executes next
    ast,     \* the tree run() owns (None once deleted)
    status,  \* "running", "done", "failed" (exception), "crashed"
    error    \* the exception or crash kind, "none" otherwise

vars == <<passes, next, ast, status, error>>

\* optimizeAST: each pass is added when its command-line flag enables it,
\* always in this order.
PassOrder == <<"resolve", "fold", "print2raw", "coalesce">>
EnabledPipelines ==
    {SelectSeq(PassOrder, LAMBDA q : q \in on) : on \in SUBSET {"resolve", "fold", "print2raw", "coalesce"}}

\* The pass object for a registered name.  The uninitialised reads of the
\* folding pass come out as `junk`.
PassObject(name, junk) ==
    CASE name = "resolve"   -> ResolvePass(0)
      [] name = "fold"      -> FoldPass(junk)
      [] name = "print2raw" -> PrintToRawPass
      [] name = "coalesce"  -> CoalescePass

Init ==
    /\ passes \in EnabledPipelines
    /\ next = 1
    /\ ast \in Inputs
    /\ status = "running"
    /\ error = "none"

\* The outcome of `pass->process(ast)` for the pass at `next`.
Outcomes == {Walk(PassObject(passes[next], junk), ast) : junk \in BOOLEAN}

\* The pass returns a tree: `if (new_ast != ast) delete ast; ast = new_ast`.
RunPass ==
    /\ status = "running" /\ next =< Len(passes)
    /\ \E r \in Outcomes :
          /\ ~Failed(r)
          /\ ast' = r.val
          /\ next' = next + 1
    /\ UNCHANGED <<passes, status, error>>

\* Mutant: the catch(...) rethrows without deleting the tree.
PassRaisesKeepsTree ==
    /\ status = "running" /\ next =< Len(passes)
    /\ \E r \in Outcomes :
          /\ r.err \in Exceptions
          /\ status' = "failed"
          /\ error' = r.err
    /\ UNCHANGED <<passes, next, ast>>

\* The pass throws: the catch(...) deletes the tree and rethrows.
PassRaises ==
    /\ status = "running" /\ next =< Len(passes)
    /\ \E r \in Outcomes :
          /\ r.err \in Exceptions
          /\ ast' = None
          /\ status' = "failed"
          /\ error' = r.err
    /\ UNCHANGED <<passes, next>>

\* The process dies inside the pass (a trap or a segmentation fault).
ProcessCrashes ==
    /\ status = "running" /\ next =< Len(passes)
    /\ \E r \in Outcomes :
          /\ r.err \in Crashes
          /\ status' = "crashed"
          /\ error' = r.err
    /\ UNCHANGED <<passes, next, ast>>

\* The loop ends and run() returns the tree.
Finish ==
    /\ status = "running" /\ next > Len(passes)
    /\ status' = "done"
    /\ UNCHANGED <<passes, next, ast, error>>

Next == RunPass \/ PassRaises \/ ProcessCrashes \/ Finish

Spec == Init /\ [][Next]_vars

----------------------------------------------------------------------------
(* Properties.                                                            *)

\* Which passes have completed.
Ran(name) == \E i \in 1..(next - 1) : passes[i] = name

TypeOK ==
    /\ passes \in EnabledPipelines
    /\ next \in 1..(Len(passes) + 1)
    /\ status \in {"running", "done", "failed", "crashed"}
    /\ error \in {"none"} \cup Exceptions \cup Crashes
    /\ (status = "failed") = (ast = None)
    /\ ast # None => IsNode(ast)


\* pass.hpp statements(): after any pass has walked the tree, no Statements
\* node has a Statements child (it was spliced into its parent) and none
\* has exactly one child (it was replaced by that child).  Trees that a
\* hook returns without a walk (an included file) must satisfy it too.
Flattened ==
    (status \in {"running", "done"} /\ next > 1) =>
        \A m \in Nodes(ast) :
            m.kind = "Statements" =>
                /\ Len(m.children) # 1
                /\ \A i \in DOMAIN m.children : m.children[i].kind # "Statements"

\* ResolveIncludesPass (spec S3): once the include pass has run, no
\* Include node is left, not even one inside an included file.
NoIncludeSurvives ==
    (Ran("resolve") /\ ast # None) => \A m \in Nodes(ast) : m.kind # "Include"

\* FoldConstantExpressionsPass (spec 4.3, "the pass is idempotent"): once
\* the folding pass has run, folding the tree again changes nothing,
\* whatever the later passes did to it.
FoldFixpoint ==
    (Ran("fold") /\ ast # None) =>
        \A junk \in BOOLEAN : Walk(FoldPass(junk), ast) = Ok(ast)

\* CoalesceRawBlocksPass (spec 4.5): after it, no Statements node has two
\* adjacent Raw children.
Coalesced ==
    (Ran("coalesce") /\ ast # None) =>
        \A m \in Nodes(ast) :
            m.kind = "Statements" =>
                \A i \in 1..(Len(m.children) - 1) :
                    ~(m.children[i].kind = "Raw" /\ m.children[i + 1].kind = "Raw")

\* A pipeline either completes or reports an error: the process never
\* dies inside a pass (a trap, a stack overflow or a null dereference).
NoCrash == status # "crashed"

\* Spec S1: no Statements node of the tree the pipeline returns is empty.
NoEmptyStatements ==
    status = "done" => \A m \in Nodes(ast) : m.kind = "Statements" => m.children # <<>>

=============================================================================
