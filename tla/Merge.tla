------------------------------- MODULE Merge -------------------------------
(***************************************************************************)
(* SymbolTree.merge and analyze_ast_stmt of src/symbol_tree.vala, run on   *)
(* the tree that build() returned: the statements of every included file   *)
(* are inserted in front of the subdir() call that includes it.            *)
(*                                                                         *)
(* The statement lists are objects that several lists may share the        *)
(* elements of.  A list is named by the way to the tree whose file it is   *)
(* in, which is the names of the subdirs from the result down, and by its  *)
(* place there: at = <<>> is the file, at = <<k>> the block of its k-th    *)
(* statement.  A statement is named in the same way.  Both carry the       *)
(* directory of the file and their text as it was parsed.                  *)
(***************************************************************************)
EXTENDS SymbolTree, SequencesExt

CONSTANT Literal    \* the arguments of subdir() that are string literals

ASSUME LiteralAssumption == Literal \subseteq Arg

VARIABLES
    lists,      \* the lists that were extended; the others are as parsed
    loops,      \* the loops over lists that are under way, the innermost last
    merging     \* "waiting", "running" or "done"

mergeVars == <<lists, loops, merging>>

(* The k-th statement of a list as parsed. *)
Nth(l, k) == [path |-> l.path, dir |-> l.dir, at |-> Append(l.at, k), text |-> l.text[k]]

List(l) == IF l \in DOMAIN lists THEN lists[l] ELSE [k \in DOMAIN l.text |-> Nth(l, k)]

(* The list of the statements in a block, and that of a file. *)
Block(s)      == [path |-> s.path, dir |-> s.dir, at |-> s.at, text |-> s.text.body]
File(path, d) == [path |-> path, dir |-> d, at |-> <<>>, text |-> program[d]]

Loop    == Last(loops)
Outer   == loops[Len(loops) - 1]
Element == List(Loop.list)[Loop.i]

LoopOver(tree, l) == [tree |-> tree, list |-> l, i |-> 1]

(* The loop of merge() over the statements of a file. *)
FileLoop(path, tree) == LoopOver(tree, File(path, tree.dir))

(* The trees that stand next to a Subdir of that name. *)
Included(tree, name) ==
    {k \in 2 .. Len(tree.datas) : /\ tree.datas[k].type = "tree"
                                  /\ tree.datas[k - 1].type = "subdir"
                                  /\ tree.datas[k - 1].name = name}

First(S) == CHOOSE k \in S : \A j \in S : k <= j

IncludedBy(s) ==
    IF s.text.kind = "subdir" /\ s.text.arg \in Literal
    THEN Included(Loop.tree, s.text.arg) ELSE {}

StartMerge ==
    /\ status = "done"
    /\ merging = "waiting"
    /\ merging' = "running"
    /\ loops' = <<FileLoop(<<>>, result)>>
    /\ UNCHANGED lists

AtElement ==
    /\ merging = "running"
    /\ Loop.i <= Len(List(Loop.list))
    /\ UNCHANGED <<lists, merging>>

(* merge() of the included tree is called. *)
MergeSubdir ==
    /\ AtElement
    /\ IncludedBy(Element) # {}
    /\ loops' = Append(loops, FileLoop(Append(Loop.list.path, Element.text.arg),
                                       Loop.tree.datas[First(IncludedBy(Element))].tree))

(* The block of a selection statement is a list of its own. *)
MergeSelection ==
    /\ AtElement
    /\ Element.text.kind = "if"
    /\ loops' = Append(loops, LoopOver(Loop.tree, Block(Element)))

Advanced(loop, n) == [tree |-> loop.tree, list |-> loop.list, i |-> loop.i + n]
Step(n, rest)     == [rest EXCEPT ![Len(rest)] = Advanced(@, n)]

PassStatement ==
    /\ AtElement
    /\ Element.text.kind # "if"
    /\ IncludedBy(Element) = {}
    /\ loops' = Step(1, loops)

AtEnd ==
    /\ merging = "running"
    /\ Loop.i > Len(List(Loop.list))

FinishMerge ==
    /\ AtEnd
    /\ Len(loops) = 1
    /\ merging' = "done"
    /\ loops' = <<>>
    /\ UNCHANGED lists

FinishBlock ==
    /\ AtEnd
    /\ Loop.list.at # <<>>
    /\ loops' = Step(1, Front(loops))
    /\ UNCHANGED <<lists, merging>>

(* Mutant of Inserted: the statements are inserted after the call. *)
InsertedAfter(l, i, new) == SubSeq(l, 1, i) \o new \o SubSeq(l, i + 1, Len(l))

Inserted(l, i, new) == SubSeq(l, 1, i - 1) \o new \o SubSeq(l, i, Len(l))

(* The statements of the included file are inserted in front of the call, and *)
(* the outer loop goes on behind the call.                                    *)
FinishSubdir ==
    /\ AtEnd
    /\ Len(loops) > 1
    /\ Loop.list.at = <<>>
    /\ LET new == List(Loop.list)
           all == Inserted(List(Outer.list), Outer.i, new)
       IN /\ lists' = [l \in DOMAIN lists \union {Outer.list} |->
                          IF l = Outer.list THEN all ELSE lists[l]]
          /\ loops' = Step(Len(new) + 1, Front(loops))
    /\ UNCHANGED merging

MergeStep ==
    \/ StartMerge
    \/ MergeSubdir \/ MergeSelection \/ PassStatement
    \/ FinishMerge \/ FinishBlock \/ FinishSubdir

MergeInit == Init /\ lists = <<>> /\ loops = <<>> /\ merging = "waiting"

MergeNext ==
    \/ Next /\ UNCHANGED mergeVars
    \/ MergeStep /\ UNCHANGED vars

(* load_tree calls build() and then merge() (server.vala:253-254). *)
MergeSpec == MergeInit /\ [][MergeNext]_<<vars, mergeVars>>

FairMergeSpec == MergeSpec /\ WF_<<vars, mergeVars>>(MergeNext)
-----------------------------------------------------------------------------
(* Properties. *)

(* load_tree gets its merged file, or the process dies on the way: the loops  *)
(* of build() and those of merge(), whose lists grow while they are iterated, *)
(* come to an end (symbol_tree.vala:65-79, 116-121).                          *)
MergeEnds == <>(merging = "done" \/ status = "crashed")
=============================================================================
