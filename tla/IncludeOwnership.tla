------------------------- MODULE IncludeOwnership -------------------------
(***************************************************************************)
(* Who owns, and who deletes, the trees of included files while the      *)
(* include pass runs inside PassManager::run.                             *)
(*                                                                         *)
(* ResolveIncludesPass::process_node(IncludeBlockAST) (resolve_includes_  *)
(* pass.cpp) holds the parsed file in a unique_ptr, resolves its includes *)
(* by a recursive walk (one nested call of process_node per include, on  *)
(* the C++ stack), then hands the raw pointer to the nested PassManager   *)
(* whose run() deletes it when a pass raises or returns another root,    *)
(* then resets the unique_ptr to run()'s result and releases it to the   *)
(* walker, which splices it into the including tree.                      *)
(*                                                                         *)
(* The heap is modelled at the granularity of the trees that change      *)
(* hands: the compiled template's root, the root of each parsed file and *)
(* a node released as a new root.  `inside` records which tracked tree   *)
(* holds a tracked object; deleting a tree deletes what it holds.  What  *)
(* the walks compute is taken from AstPasses.                             *)
(***************************************************************************)
EXTENDS AstPasses

CONSTANTS
    Inputs,      \* trees the parser can return for the compiled template
    MaxObjects   \* bound on the tracked heap objects

Objects == 1..MaxObjects

VARIABLES
    top,     \* the outer PassManager::run with the include pass: pc, root object, includes left
    frames,  \* the active calls of process_node(IncludeBlockAST), innermost last
    value,   \* object -> the tree it is the root of
    inside,  \* object -> the tracked object whose tree holds it, or None
    frees,   \* object -> how many times it has been deleted
    nextObj  \* the next object `new` returns

vars == <<top, frames, value, inside, frees, nextObj>>

\* The Include nodes a walk reaches in a tree, in walk order, each with
\* whether its parent is a StatementsAST (its result is then spliced).
RECURSIVE IncludeSites(_, _)
IncludeSites(n, inStatements) ==
    IF n.kind = "Include" THEN <<[node |-> n, spliced |-> inStatements]>>
    ELSE FlattenSeq([i \in DOMAIN SubNodes(n) |->
                        IncludeSites(SubNodes(n)[i], n.kind = "Statements")])

\* x is held, directly or not, by the tree of o.
RECURSIVE HeldBy(_, _, _)
HeldBy(ins, x, o) == ins[x] # None /\ (ins[x] = o \/ HeldBy(ins, ins[x], o))

\* `delete o`: o and every tracked object its tree holds.
Delete(f, o, ins) == [x \in Objects |-> IF x = o \/ HeldBy(ins, x, o) THEN f[x] + 1 ELSE f[x]]

Live(o) == o # None /\ frees[o] = 0

\* A walk of o's tree returned the node t that is not o's root: t is o's
\* root node's descendant, released from it (a tracked object when the
\* walk produced it from an include, else a node not tracked until now).
Released(o, t) ==
    LET held == {k \in 1..(nextObj - 1) : inside[k] = o /\ Live(k) /\ value[k] = t}
    IN  IF held # {} THEN CHOOSE k \in held : TRUE ELSE nextObj

\* `if (new_ast != ast) delete ast;` after the walk released the node t as
\* object r: t is no longer in o's tree, and the tracked objects o held
\* that lie in t stay alive inside r; the rest are deleted with o.
Detached(o, t, r) ==
    [x \in Objects |-> IF x = r THEN None
                       ELSE IF inside[x] = o /\ value[x] \in Nodes(t) THEN r
                       ELSE inside[x]]

NewFrame(site, depth) ==
    [site |-> site, depth |-> depth, pc |-> "parse", obj |-> None, todo |-> <<>>, err |-> "none"]

Init ==
    /\ \E t \in Inputs :
          /\ top = [pc |-> "walk", obj |-> 1, todo |-> IncludeSites(t, FALSE)]
          /\ value = [o \in Objects |-> IF o = 1 THEN t ELSE None]
    /\ frames = <<>>
    /\ inside = [o \in Objects |-> None]
    /\ frees = [o \in Objects |-> 0]
    /\ nextObj = 2

Top == frames[Len(frames)]
SetTop(f) == frames' = [frames EXCEPT ![Len(frames)] = f]

----------------------------------------------------------------------------
(* The outer run: PassManager::run(ast) with ResolveIncludesPass.         *)

\* The walk of the compiled template reaches its next Include node.
TopReachesInclude ==
    /\ top.pc = "walk" /\ frames = <<>> /\ top.todo # <<>>
    /\ frames' = <<NewFrame(Head(top.todo), 0)>>
    /\ top' = [top EXCEPT !.todo = Tail(top.todo)]
    /\ UNCHANGED <<value, inside, frees, nextObj>>

\* The walk returns; `if (new_ast != ast) delete ast;`.
TopPassReturns ==
    /\ top.pc = "walk" /\ frames = <<>> /\ top.todo = <<>>
    /\ LET t == Walk(ResolvePass(0), value[top.obj]).val
           o == top.obj
       IN  IF t.kind = value[o].kind
           THEN /\ value' = [value EXCEPT ![o] = t]
                /\ top' = [top EXCEPT !.pc = "done"]
                /\ UNCHANGED <<inside, frees, nextObj>>
           ELSE LET r == Released(o, t)
                    ins == Detached(o, t, r)
                IN  /\ r \in Objects
                    /\ value' = [value EXCEPT ![r] = t]
                    /\ inside' = ins
                    /\ frees' = Delete(frees, o, ins)
                    /\ nextObj' = IF r = nextObj THEN nextObj + 1 ELSE nextObj
                    /\ top' = [top EXCEPT !.pc = "done", !.obj = r]
    /\ UNCHANGED frames

----------------------------------------------------------------------------
(* The calls of process_node(IncludeBlockAST), innermost last.  Only the  *)
(* innermost call runs.                                                   *)

Running == top.pc = "walk" /\ frames # <<>>

\* The tracked object whose tree holds the result of the innermost call:
\* the including file's root, or the compiled template's.
Container == IF Len(frames) > 1 THEN frames[Len(frames) - 1].obj ELSE top.obj

\* Lines 79-80: resolvePath, parse the file into `includeAST`.  The walk
\* that reached this include is `depth` calls of process_node deep; at
\* MaxIncludeDepth the stack is exhausted.  A file that cannot be opened
\* (FileGuard) or parsed throws before includeAST holds anything.
IncParse ==
    /\ Running /\ Top.pc = "parse"
    /\ LET name == Top.site.node.name
       IN  CASE Top.depth >= MaxIncludeDepth ->
                  /\ top' = [top EXCEPT !.pc = "crashed"]
                  /\ UNCHANGED <<frames, value, nextObj>>
             [] name \notin DOMAIN Templates ->
                  /\ SetTop([Top EXCEPT !.pc = "unwind", !.err = "IOError"])
                  /\ UNCHANGED <<top, value, nextObj>>
             [] Templates[name] = ParseFailure ->
                  /\ SetTop([Top EXCEPT !.pc = "unwind", !.err = "SyntaxError"])
                  /\ UNCHANGED <<top, value, nextObj>>
             [] OTHER ->
                  /\ nextObj =< MaxObjects
                  /\ SetTop([Top EXCEPT !.pc = "process", !.obj = nextObj,
                                        !.todo = IncludeSites(Templates[name], FALSE)])
                  /\ value' = [value EXCEPT ![nextObj] = Templates[name]]
                  /\ nextObj' = nextObj + 1
                  /\ UNCHANGED top
    /\ UNCHANGED <<inside, frees>>

\* Mutant: the nested walk is not one call deeper.
IncResolveNestedSameDepth ==
    /\ Running /\ Top.pc = "process" /\ Top.todo # <<>>
    /\ frames' = [frames EXCEPT ![Len(frames)].todo = Tail(Top.todo)]
                     \o <<NewFrame(Head(Top.todo), Top.depth)>>
    /\ UNCHANGED <<top, value, inside, frees, nextObj>>

\* Line 83: the walk of the included tree reaches one of its includes.
IncResolveNested ==
    /\ Running /\ Top.pc = "process" /\ Top.todo # <<>>
    /\ frames' = [frames EXCEPT ![Len(frames)].todo = Tail(Top.todo)]
                     \o <<NewFrame(Head(Top.todo), Top.depth + 1)>>
    /\ UNCHANGED <<top, value, inside, frees, nextObj>>

\* Mutant: the new root is not detached from the old one before the reset.
IncProcessedNoDetach ==
    /\ Running /\ Top.pc = "process" /\ Top.todo = <<>>
    /\ LET o == Top.obj
           t == Walk(ResolvePass(Top.depth + 1), value[o]).val
       IN  IF t.kind = value[o].kind
           THEN /\ value' = [value EXCEPT ![o] = t]
                /\ SetTop([Top EXCEPT !.pc = "nested"])
                /\ UNCHANGED <<inside, frees, nextObj>>
           ELSE LET r == Released(o, t)
                IN  /\ r \in Objects
                    /\ value' = [value EXCEPT ![r] = t]
                    /\ frees' = Delete(frees, o, inside)
                    /\ nextObj' = IF r = nextObj THEN nextObj + 1 ELSE nextObj
                    /\ SetTop([Top EXCEPT !.pc = "nested", !.obj = r])
                    /\ UNCHANGED inside
    /\ UNCHANGED top

\* Lines 83-86: the walk returns; a different root is released from the
\* old one and `includeAST.reset` deletes the old one.
IncProcessed ==
    /\ Running /\ Top.pc = "process" /\ Top.todo = <<>>
    /\ LET o == Top.obj
           t == Walk(ResolvePass(Top.depth + 1), value[o]).val
       IN  IF t.kind = value[o].kind
           THEN /\ value' = [value EXCEPT ![o] = t]
                /\ SetTop([Top EXCEPT !.pc = "nested"])
                /\ UNCHANGED <<inside, frees, nextObj>>
           ELSE LET r == Released(o, t)
                    ins == Detached(o, t, r)
                IN  /\ r \in Objects
                    /\ value' = [value EXCEPT ![r] = t]
                    /\ inside' = ins
                    /\ frees' = Delete(frees, o, ins)
                    /\ nextObj' = IF r = nextObj THEN nextObj + 1 ELSE nextObj
                    /\ SetTop([Top EXCEPT !.pc = "nested", !.obj = r])
    /\ UNCHANGED top

\* Mutant: run() deletes the tree after a pass even when the pass
\* returned the same root.
IncNestedRunDeletesAlways ==
    /\ Running /\ Top.pc = "nested"
    /\ LET o == Top.obj
           n == Top.site.node
           r == Walk(IF n.scope # None THEN ScopePass(n.scope) ELSE ReplacePass(n.mapping), value[o])
       IN  CASE r.err \in Crashes ->
                  /\ top' = [top EXCEPT !.pc = "crashed"]
                  /\ UNCHANGED <<frames, value, inside, frees, nextObj>>
             [] r.err \in Exceptions ->
                  /\ frees' = Delete(frees, o, inside)
                  /\ SetTop([Top EXCEPT !.pc = "unwind", !.err = r.err])
                  /\ UNCHANGED <<top, value, inside, nextObj>>
             [] OTHER ->
                  /\ value' = [value EXCEPT ![o] = r.val]
                  /\ frees' = Delete(frees, o, inside)
                  /\ SetTop([Top EXCEPT !.pc = "return"])
                  /\ UNCHANGED <<top, inside, nextObj>>

\* Lines 88-98: prependScope or replaceVariableReferences runs the nested
\* PassManager on includeAST.get().  When its pass throws, run()'s catch
\* deletes the tree and rethrows, and includeAST still owns it.  When it
\* returns another root, run() has deleted the old one and
\* `includeAST.reset(newIncludeAST)` deletes it again.
IncNestedRun ==
    /\ Running /\ Top.pc = "nested"
    /\ LET o == Top.obj
           n == Top.site.node
           r == Walk(IF n.scope # None THEN ScopePass(n.scope) ELSE ReplacePass(n.mapping), value[o])
       IN  CASE r.err \in Crashes ->
                  /\ top' = [top EXCEPT !.pc = "crashed"]
                  /\ UNCHANGED <<frames, value, inside, frees, nextObj>>
             [] r.err \in Exceptions ->
                  /\ frees' = Delete(frees, o, inside)
                  /\ SetTop([Top EXCEPT !.pc = "unwind", !.err = r.err])
                  /\ UNCHANGED <<top, value, inside, nextObj>>
             [] r.val.kind = value[o].kind ->
                  /\ value' = [value EXCEPT ![o] = r.val]
                  /\ SetTop([Top EXCEPT !.pc = "return"])
                  /\ UNCHANGED <<top, inside, frees, nextObj>>
             [] OTHER ->
                  LET k == Released(o, r.val)
                      ins == Detached(o, r.val, k)
                  IN  /\ k \in Objects
                      /\ value' = [value EXCEPT ![k] = r.val]
                      /\ inside' = ins
                      /\ frees' = Delete(Delete(frees, o, ins), o, ins)
                      /\ nextObj' = IF k = nextObj THEN nextObj + 1 ELSE nextObj
                      /\ SetTop([Top EXCEPT !.pc = "return", !.obj = k])
                      /\ UNCHANGED top

\* Line 100 and pass.hpp: `includeAST.release()` hands the tree to the
\* walker of the including tree.  In a StatementsAST a StatementsAST
\* result is spliced: its children move into the parent and the emptied
\* node is erased.  Anywhere else the result becomes the child.
IncReturn ==
    /\ Running /\ Top.pc = "return"
    /\ LET o == Top.obj
       IN  IF Top.site.spliced /\ value[o].kind = "Statements"
           THEN /\ frees' = [frees EXCEPT ![o] = @ + 1]
                /\ inside' = [x \in Objects |-> IF inside[x] = o THEN Container ELSE inside[x]]
           ELSE /\ inside' = [inside EXCEPT ![o] = Container]
                /\ UNCHANGED frees
    /\ frames' = Front(frames)
    /\ UNCHANGED <<top, value, nextObj>>

\* Mutant: includeAST is a raw pointer; nothing deletes it on unwinding.
UnwindNoDelete ==
    /\ Running /\ Top.pc = "unwind"
    /\ IF Len(frames) > 1
       THEN /\ frames' = [Front(frames) EXCEPT ![Len(frames) - 1].pc = "unwind",
                                               ![Len(frames) - 1].err = Top.err]
            /\ UNCHANGED <<top, frees>>
       ELSE /\ frames' = <<>>
            /\ frees' = Delete(frees, top.obj, inside)
            /\ top' = [top EXCEPT !.pc = "failed"]
    /\ UNCHANGED <<value, inside, nextObj>>

\* An exception leaves process_node: the unique_ptr `includeAST` deletes
\* what it holds.  The including call unwinds in turn; at the outermost
\* one, PassManager::run's catch deletes the compiled template's tree.
Unwind ==
    /\ Running /\ Top.pc = "unwind"
    /\ LET f == IF Top.obj # None THEN Delete(frees, Top.obj, inside) ELSE frees
       IN  IF Len(frames) > 1
           THEN /\ frames' = [Front(frames) EXCEPT ![Len(frames) - 1].pc = "unwind",
                                                   ![Len(frames) - 1].err = Top.err]
                /\ frees' = f
                /\ UNCHANGED top
           ELSE /\ frames' = <<>>
                /\ frees' = Delete(f, top.obj, inside)
                /\ top' = [top EXCEPT !.pc = "failed"]
    /\ UNCHANGED <<value, inside, nextObj>>

Next ==
    \/ TopReachesInclude \/ TopPassReturns
    \/ IncParse \/ IncResolveNested \/ IncProcessed
    \/ IncNestedRun \/ IncReturn \/ Unwind

Spec == Init /\ [][Next]_vars

----------------------------------------------------------------------------
(* Properties.                                                            *)

Allocated == 1..(nextObj - 1)

TypeOK ==
    /\ top.pc \in {"walk", "done", "failed", "crashed"}
    /\ top.obj \in Objects
    /\ nextObj \in 2..(MaxObjects + 1)
    /\ \A i \in DOMAIN frames :
          /\ frames[i].pc \in {"parse", "process", "nested", "return", "unwind"}
          /\ frames[i].depth = i - 1
          /\ frames[i].obj \in Allocated \cup {None}
    /\ inside \in [Objects -> Objects \cup {None}]
    /\ frees \in [Objects -> Nat]

\* No object is deleted twice: not by PassManager::run's catch and then
\* by the unique_ptr of process_node (a missing binding in an included
\* file), not by the erase of a spliced StatementsAST.  Checked on the
\* unbound include by MCIncludeOwnership_unbound.cfg, where it fails.
NoDoubleFree == \A o \in Objects : frees[o] =< 1

\* Every object allocated during the pass is deleted exactly once by the
\* time the pass has returned or thrown, except the objects of the tree
\* the pass returns.
NoLeak ==
    top.pc \in {"done", "failed"} =>
        \A o \in Allocated :
            IF top.pc = "done" /\ (o = top.obj \/ HeldBy(inside, o, top.obj))
            THEN frees[o] = 0
            ELSE frees[o] = 1

\* A call of process_node only works on a tree it still owns: the object
\* in includeAST is live while the call walks it, runs the nested passes
\* on it and releases it.
UseOnlyLive ==
    \A i \in DOMAIN frames :
        frames[i].pc \in {"process", "nested", "return"} => Live(frames[i].obj)

=============================================================================
