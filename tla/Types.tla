------------------------------- MODULE Types -------------------------------
(***************************************************************************)
(* The types the analysis deduces (src/src/obj/type_registry.vala), the    *)
(* comparison the sets of them are kept by (compare_types_func,            *)
(* src/src/ast.vala) and those sets: a Gee.TreeSet is a left-leaning       *)
(* red-black tree, which a comparison that is no ordering can mislead.     *)
(*                                                                         *)
(* A tree is Nil or a node <<key, left, right, red>>; a type is an         *)
(* elementary type or an object type with its place in the order of the    *)
(* enumeration or of the names, or a list or dictionary of a tree of types.*)
(***************************************************************************)
EXTENDS Integers, Sequences, SequencesExt

Elementary(n) == [class |-> "Elementary", n |-> n]
ObjectType(n) == [class |-> "ObjectType", n |-> n]
MList(tree) == [class |-> "MList", values |-> tree]
Dictionary(tree) == [class |-> "Dictionary", values |-> tree]

ANY == Elementary(0)
BOOL == Elementary(1)
INT == Elementary(2)
STR == Elementary(3)
VOID == Elementary(4)
NOT_DEDUCEABLE == Elementary(5)

Containers == {"MList", "Dictionary"}

-----------------------------------------------------------------------------
(***************************************************************************)
(* Gee.TreeSet.                                                            *)
(***************************************************************************)
Nil == << >>
Leaf(t) == <<t, Nil, Nil, TRUE>>
IsRed(tree) == tree # Nil /\ tree[4]
Black(tree) == IF tree = Nil THEN Nil ELSE [tree EXCEPT ![4] = FALSE]

RotateLeft(n) ==
  <<n[3][1], <<n[1], n[2], n[3][2], TRUE>>, n[3][3], n[4]>>

RotateRight(n) ==
  <<n[2][1], n[2][2], <<n[1], n[2][3], n[3], TRUE>>, n[4]>>

Flip(n) ==
  <<n[1], [n[2] EXCEPT ![4] = ~@], [n[3] EXCEPT ![4] = ~@], ~n[4]>>

FixUp(n) ==
  LET a == IF ~IsRed(n[2]) /\ IsRed(n[3]) THEN RotateLeft(n) ELSE n
      b == IF IsRed(a[2]) /\ IsRed(a[2][2]) THEN RotateRight(a) ELSE a
  IN  IF IsRed(b[2]) /\ IsRed(b[3]) THEN Flip(b) ELSE b

(* The elements of a set in the order it is iterated in. *)
RECURSIVE InOrder(_)
InOrder(tree) ==
  IF tree = Nil THEN << >>
  ELSE InOrder(tree[2]) \o <<tree[1]>> \o InOrder(tree[3])

Elements(tree) == ToSet(InOrder(tree))

Sign(i) == IF i < 0 THEN -1 ELSE IF i > 0 THEN 1 ELSE 0

RECURSIVE compare_types_func(_, _), Holds(_, _)

(* A list or dictionary is compared by what it holds, then by size; across *)
(* classes only a dictionary is greater, and what meets anything else of   *)
(* another class is smaller, whichever of the two is asked first.          *)
compare_types_func(a, b) ==
  IF a.class = b.class
  THEN IF a.class \notin Containers THEN Sign(a.n - b.n)
       ELSE IF /\ \A t \in Elements(b.values) : Holds(a.values, t)
               /\ \A t \in Elements(a.values) : Holds(b.values, t)
            THEN 0
            ELSE IF Len(InOrder(a.values)) < Len(InOrder(b.values)) THEN -1 ELSE 1
  ELSE IF a.class = "Dictionary" THEN 1 ELSE -1

Holds(tree, t) ==
  /\ tree # Nil
  /\ LET c == compare_types_func(t, tree[1])
     IN  \/ c = 0
         \/ c < 0 /\ Holds(tree[2], t)
         \/ c > 0 /\ Holds(tree[3], t)

RECURSIVE AddToNode(_, _)
AddToNode(tree, t) ==
  IF tree = Nil THEN Leaf(t)
  ELSE LET c == compare_types_func(t, tree[1])
       IN  FixUp(IF c = 0 THEN tree
                 ELSE IF c < 0 THEN [tree EXCEPT ![2] = AddToNode(@, t)]
                 ELSE [tree EXCEPT ![3] = AddToNode(@, t)])

Add(tree, t) == Black(AddToNode(tree, t))
AddAll(tree, seq) == FoldLeft(Add, tree, seq)
TreeSet(seq) == AddAll(Nil, seq)
=============================================================================
