------------------------------ MODULE Subtree ------------------------------
(***************************************************************************)
(* The subtrees of the parser (src/parser/src/subtree.c): a leaf is a      *)
(* token, a node summarizes its children.  A subtree is a value; how the   *)
(* program shares and counts them is left out.                             *)
(*                                                                         *)
(* Lengths are counted in tokens.  Every token of the text stands on a     *)
(* line of its own: a newline, its padding, and one character; the end of  *)
(* file has no character.                                                  *)
(***************************************************************************)
EXTENDS Integers, Sequences, SequencesExt

CONSTANT Visible    \* the symbols of the language that are visible in the tree

error == 65535
error_repeat == 65534
end == 0

ERROR_COST_PER_RECOVERY == 500
ERROR_COST_PER_MISSING_TREE == 110
ERROR_COST_PER_SKIPPED_TREE == 100
ERROR_COST_PER_SKIPPED_LINE == 30
ERROR_COST_PER_SKIPPED_CHAR == 1

Leaf(symbol) ==
  [symbol |-> symbol, children |-> << >>, extra |-> symbol = end, missing |-> FALSE,
   padding |-> 1, total |-> 1, size |-> IF symbol = end THEN 1 ELSE 2, cost |-> 0, node_count |-> 1, visible_child_count |-> 0]

MissingLeaf(symbol) == [Leaf(symbol) EXCEPT !.missing = TRUE, !.padding = 0, !.total = 0,
                                             !.size = 0]

(* The subtree whose ptr is null. *)
Null == [Leaf(error) EXCEPT !.symbol = -1, !.total = 0, !.node_count = 0]

IsError(tree) == tree.symbol = error
IsVisible(tree) == tree.symbol \in Visible \union {error}
ErrorCostOfSkipped(tree) == tree.cost
ErrorCost(tree) ==
  IF tree.missing THEN ERROR_COST_PER_MISSING_TREE + ERROR_COST_PER_RECOVERY ELSE tree.cost

Total(Of(_), trees) == FoldLeft(LAMBDA n, tree : n + Of(tree), 0, trees)

(* What it costs that a tree was skipped. *)
SkippedTree(tree) ==
  IF tree.extra \/ (IsError(tree) /\ tree.children = << >>) THEN 0
  ELSE ERROR_COST_PER_SKIPPED_TREE *
         (IF IsVisible(tree) THEN 1 ELSE tree.visible_child_count)

(* What it costs that so many bytes and lines were skipped. *)
SkippedText(bytes, lines) ==
  ERROR_COST_PER_SKIPPED_CHAR * bytes + ERROR_COST_PER_SKIPPED_LINE * lines

NewNode(symbol, children) ==
  LET padding == IF children = << >> THEN 0 ELSE children[1].padding
      total == Total(LAMBDA t : t.total, children)
      size == Total(LAMBDA t : t.size, children)
      inherited == Total(LAMBDA t : IF t.symbol = error_repeat THEN 0 ELSE ErrorCost(t), children)
      skipped == IF symbol \in {error, error_repeat}
                 THEN Total(SkippedTree, children) + ERROR_COST_PER_RECOVERY
                        + SkippedText(size - padding, total - padding)
                 ELSE 0
  IN  [symbol |-> symbol, children |-> children, extra |-> FALSE, missing |-> FALSE,
       padding |-> padding, total |-> total, size |-> size, cost |-> inherited + skipped,
       node_count |-> 1 + Total(LAMBDA t : t.node_count, children),
       visible_child_count |->
         Total(LAMBDA t : IF IsVisible(t) THEN 1 ELSE t.visible_child_count, children)]

NewErrorNode(children, extra) == [NewNode(error, children) EXCEPT !.extra = extra]

(* Where the trailing extras of an array of trees begin. *)
ExtrasFrom(trees) ==
  CHOOSE k \in 1 .. Len(trees) + 1 :
    /\ \A i \in k .. Len(trees) : trees[i].extra
    /\ k > 1 => ~trees[k - 1].extra
WithoutExtras(trees) == SubSeq(trees, 1, ExtrasFrom(trees) - 1)
TrailingExtras(trees) == SubSeq(trees, ExtrasFrom(trees), Len(trees))

(* ts_subtree_compare: by symbol, then by the children. *)
RECURSIVE Compare(_, _)
Compare(left, right) ==
  LET l == left.children
      r == right.children
      differ == {i \in DOMAIN l : Compare(l[i], r[i]) # 0}
  IN  CASE left.symbol # right.symbol -> IF left.symbol < right.symbol THEN -1 ELSE 1
        [] Len(l) # Len(r) -> IF Len(l) < Len(r) THEN -1 ELSE 1
        [] differ = {} -> 0
        [] OTHER -> LET i == CHOOSE k \in differ : \A m \in differ : k <= m IN Compare(l[i], r[i])

(* The tokens a tree stands for, those made up and the end of file left out. *)
RECURSIVE Tokens(_)
Tokens(tree) ==
  IF tree.children = << >>
  THEN IF tree.total = 0 \/ tree.symbol = end THEN << >> ELSE <<tree.symbol>>
  ELSE FlattenSeq([i \in DOMAIN tree.children |-> Tokens(tree.children[i])])
=============================================================================
