---------------------------- MODULE ParserCorrect ---------------------------
(***************************************************************************)
(* What the parser promises of every text.                                 *)
(***************************************************************************)
EXTENDS Parser

(* Every node of the stack is counted once for each head on it and each    *)
(* link to it from a node that is still there, the first once more for the *)
(* stack: no node is freed while it is reached or kept when it is not.     *)
(* (stack_node_retain, stack_node_release and all that copies, drops,      *)
(* merges and renumbers versions)                                          *)
References(s, n) ==
  (IF n = 1 THEN 1 ELSE 0)
    + Total(LAMBDA head : IF head.node = n THEN 1 ELSE 0, s.heads)
    + Total(LAMBDA node : IF node.ref_count = 0 THEN 0
                          ELSE Total(LAMBDA link : IF link.node = n THEN 1 ELSE 0, node.links),
            s.nodes)
CountsExact ==
  \A n \in DOMAIN parser.stack.nodes :
    parser.stack.nodes[n].ref_count = References(parser.stack, n)

(* No assertion of the stack or of the parser fails: a version takes the   *)
(* place of an earlier one only, the versions an error has led to can be   *)
(* merged, an accepted version has a tree, only a paused version resumes.  *)
AssertionsHold == parser.stack.sound

(* The tree of a parse that is over has every token of the text, in order, *)
(* and none but those and the missing ones, whatever was skipped, popped   *)
(* and wrapped in errors on the way.                                       *)
Lossless ==
  done => parser.finished_tree # Null /\ Tokens(parser.finished_tree) = text

(* Once condensed, the versions are ordered from most promising to least   *)
(* promising, none is so much worse than another that it is to be removed  *)
(* and no two can be merged, though versions are compared by a status      *)
(* taken before they were swapped and counted.                             *)
Ordered(s) ==
  \A i \in DOMAIN s.heads, j \in DOMAIN s.heads :
    j < i => /\ CompareVersions(VersionStatus(s, j), VersionStatus(s, i))
                  \in {"None", "PreferLeft"}
             /\ ~CanMerge(s, j, i)
BestFirst == [][Condense => Ordered(CondenseFrom(parser.stack, 1, Infinite).stack)]_vars

(* Every parse comes to an end after work that is linear in the text: the  *)
(* stack makes so many nodes for each token, the end of file included, and *)
(* no more, however often versions are reduced, go back and skip.  As no   *)
(* node's number is used again, a parse that went round would exceed it.   *)
NodesPerToken == 16
WorkBounded == Len(parser.stack.nodes) <= NodesPerToken * (Len(text) + 1)
=============================================================================
