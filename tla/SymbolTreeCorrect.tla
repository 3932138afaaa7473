------------------------- MODULE SymbolTreeCorrect -------------------------
(***************************************************************************)
(* What SymbolTree.build should collect, by recursion over the statements  *)
(* as Meson runs them, and the claim that it does; which projects it does  *)
(* not survive, and the claim that it survives all others.                 *)
(***************************************************************************)
EXTENDS SymbolTree, SequencesExt

Gather(g, work) == FlattenSeq([i \in DOMAIN work |-> g[work[i]]])

(* What running a statement comes to when the blocks are opened.              *)
Opened[s \in Stmt] ==
    IF s.kind \in {"foreach", "if"} THEN Gather(Opened, s.body) ELSE <<s>>

(* What a statement in directory d adds to the data of the file, where tree   *)
(* is the tree of the directory it names, and to its child_files.             *)
DataOf(s, d, tree) ==
    CASE s.kind = "assign" -> <<Symbol(s.arg, d)>>
      [] s.kind = "subdir" /\ Resolve[d][s.arg] \in Exists -> <<Subdir(s.arg), Tree(tree)>>
      [] s.kind = "subdir" /\ Resolve[d][s.arg] \in Dir \ Exists -> <<Subdir(s.arg)>>
      [] OTHER -> <<>>

ChildOf(s, d) ==
    IF s.kind = "subdir" /\ Resolve[d][s.arg] \in Exists THEN <<Resolve[d][s.arg]>> ELSE <<>>

(* The trees of the directories of project p, each in program order. *)
TreesOf(p) ==
    LET tree[d \in Dir] ==
          [dir        |-> d,
           datas      |-> Gather([s \in Stmt |-> DataOf(s, d, tree[Resolve[d][s.arg]])],
                                 Gather(Opened, p[d])),
           childFiles |-> <<d>> \o Gather([s \in Stmt |-> ChildOf(s, d)], Gather(Opened, p[d]))]
    IN tree

(* What the claim is for: subdir() calls lead strictly down, blocks nest      *)
(* finitely deep, and what build() passes over of a foreach, its first        *)
(* statement (symbol_tree.vala:164), leaves no data.                          *)
Down(rank) ==
    /\ rank \in [Dir -> Nat]
    /\ \A d \in Dir, s \in Stmt :
          s.kind = "subdir" /\ Resolve[d][s.arg] \in Exists => rank[Resolve[d][s.arg]] > rank[d]

Nesting(depth) ==
    /\ depth \in [Stmt -> Nat]
    /\ \A s \in Stmt : \A i \in DOMAIN s.body : depth[s.body[i]] < depth[s]

Tame(n, rank, depth) ==
    /\ Down(rank) /\ Nesting(depth)
    /\ n \in Nat /\ (\A d \in Dir : rank[d] <= n) /\ (\A s \in Stmt : depth[s] <= n)
    /\ \A s \in Stmt : s.kind = "foreach" /\ s.body # <<>> => Head(s.body).kind = "other"

(* A finished tree holds every assignment and every included directory, each  *)
(* under the file it stands in and in the order of the program, and names     *)
(* its child_files in that order (symbol_tree.vala:83-190).                   *)
TreeComplete == status = "done" => result = TreesOf(program)[Top]
-----------------------------------------------------------------------------
(* The statements that analyze_statement comes to from a statement: of a      *)
(* foreach it passes over the first (symbol_tree.vala:164).                   *)
Met[s \in Stmt] ==
    {s} \union UNION {Met[s.body[i]] : i \in (IF s.kind = "foreach" THEN 2 ELSE 1) .. Len(s.body)}

MetIn(work) == UNION {Met[work[i]] : i \in DOMAIN work}

(* A statement that makes build() of directory d call build() of e.           *)
Enters(s, d, e) == s.kind = "subdir" /\ e \in Exists /\ Resolve[d][s.arg] = e

(* A statement that build() of d does not survive as the n-th call in a row.  *)
Fatal(s, d, n) ==
    \/ s.kind \in {"assign", "subdir"} /\ Resolve[d][s.arg] = NullNode
    \/ n = MaxDepth /\ \E e \in Exists : Enters(s, d, e)

(* Directories of project p from the workspace folder on, each with a call of *)
(* the next, and a fatal statement in the last.  One directory may come again *)
(* and again: a file that leads back to itself has such a way of any length.  *)
Way(p, c, n) ==
    /\ c[1] = Top
    /\ \A i \in 1 .. n - 1 : \E s \in MetIn(p[c[i]]) : Enters(s, c[i], c[i + 1])
    /\ \E s \in MetIn(p[c[n]]) : Fatal(s, c[n], n)

Doomed(p) == \E n \in 1 .. MaxDepth : \E c \in [1 .. n -> Exists] : Way(p, c, n)

(* The process dies of those projects and of no others: one that a directory  *)
(* of which calls itself, directly or by others, with an empty name, a        *)
(* variable of two letters or "..", is never loaded, no matter what stands    *)
(* before the call; and no other project that fits the machine stack is lost  *)
(* (symbol_tree.vala:136-154).                                                *)
DiesIffDoomed ==
    /\ status = "done" => ~Doomed(program)
    /\ status = "crashed" => Doomed(program)
=============================================================================
