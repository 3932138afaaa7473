---------------------------- MODULE MergeCorrect ----------------------------
(***************************************************************************)
(* What merge() should make of the lists, in the order of the program.    *)
(***************************************************************************)
EXTENDS Merge, SymbolTreeCorrect

(* The lists, and where a statement stands in the project. *)
Places  == [path : Seq(Arg), dir : Dir, at : Seq(Nat), text : Seq(Stmt)]
Spot(s) == [dir |-> s.dir, at |-> s.at]

(* merge() finds a tree for the k-th statement of the list, of directory d.   *)
Includes(l, k) ==
    /\ l.text[k].kind = "subdir" /\ l.text[k].arg \in Literal
    /\ Resolve[l.dir][l.text[k].arg] \in Exists

Inner(l, k) == File(Append(l.path, l.text[k].arg), Resolve[l.dir][l.text[k].arg])

(* The statements of a list in a loop, each before those in its block.  A     *)
(* loop keeps its subdir() calls as they are: the code leaves them alone on   *)
(* purpose (symbol_tree.vala:70).                                             *)
InLoop ==
    LET written[l \in Places] ==
            FlattenSeq([k \in DOMAIN l.text |-> <<Spot(Nth(l, k))>> \o written[Block(Nth(l, k))]])
    IN written

(* The statements of any other list, those of an included file before the     *)
(* call that includes it.                                                     *)
InOrder ==
    LET order[l \in Places] ==
            FlattenSeq([k \in DOMAIN l.text |->
                IF Includes(l, k) THEN order[Inner(l, k)] \o <<Spot(Nth(l, k))>>
                ELSE <<Spot(Nth(l, k))>> \o
                     (IF l.text[k].kind = "foreach" THEN InLoop ELSE order)[Block(Nth(l, k))]])
    IN order

(* The statements of the merged lists, with those of the blocks in them.      *)
Unfolded ==
    LET all[l \in Places] ==
            FlattenSeq([k \in DOMAIN List(l) |-> <<Spot(List(l)[k])>> \o all[Block(List(l)[k])]])
    IN all

(* What the claim is for: no file has two calls with the same name outside    *)
(* its loops, so that merge() comes to no tree twice.  names[s] are the names *)
(* that it looks up for statement s of project p.                             *)
Apart(names, body) ==
    \A j, k \in DOMAIN body : j # k => names[body[j]] \cap names[body[k]] = {}

Once(names, p) ==
    /\ names \in [Stmt -> SUBSET Arg]
    /\ \A s \in Stmt : s.kind = "subdir" /\ s.arg \in Literal => s.arg \in names[s]
    /\ \A s \in Stmt : s.kind = "if" =>
          Apart(names, s.body) /\ \A k \in DOMAIN s.body : names[s.body[k]] \subseteq names[s]
    /\ \A d \in Dir : Apart(names, p[d])

(* The merged file holds every statement of the project once for every time   *)
(* its file is included, in the order in which Meson would run them: what     *)
(* load_tree analyses is the program (symbol_tree.vala:39-80).                *)
MergedInOrder ==
    merging = "done" => Unfolded[File(<<>>, Top)] = InOrder[File(<<>>, Top)]
=============================================================================
