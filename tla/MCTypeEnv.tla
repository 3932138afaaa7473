----------------------------- MODULE MCTypeEnv -----------------------------
(***************************************************************************)
(* Build files of a few assignments, selections and loops over two         *)
(* variables.                                                              *)
(***************************************************************************)
EXTENDS TypeEnv

File == ObjectType(1)
Feature == ObjectType(2)

Literal(t) == [op |-> "literal", type |-> t, args |-> << >>]
Id(n) == [op |-> "identifier", name |-> n, args |-> << >>]
Array(args) == [op |-> "array", args |-> args]
Keys(args) == [op |-> "dictionary", args |-> args]
Op(op, args) == [op |-> op, args |-> args]

(* get_option(), files() and the get() of a list, as the registry has them. *)
ListOf(types) == MList(TreeSet(types))
GetOption ==
  [op |-> "function", args |-> << >>,
   return_type |-> {STR, INT, BOOL, Feature, ListOf(<<STR, INT, BOOL>>)},
   returns |-> {STR, INT, BOOL, Feature, ValueList({STR})}]
Files ==
  [op |-> "function", args |-> << >>,
   return_type |-> {ListOf(<<File>>)}, returns |-> {ValueList({File})}]
Get ==
  [op |-> "function", args |-> << >>,
   return_type |-> {ANY}, returns |-> {BOOL, STR, ValueList({STR})}]

Set(n, op, e) == [kind |-> "assignment", lhs |-> n, op |-> op, rhs |-> e]
If(c, block, else) == [kind |-> "selection", condition |-> c, block |-> block, else |-> else]
Each(e, body) == [kind |-> "iteration", id |-> e, body |-> body]

MCNames == {"x", "y"}

MCExpressions ==
  {Literal(STR), Literal(INT), Literal(BOOL), Array(<< >>), Array(<<Id("x")>>), Keys(<<Literal(STR)>>),
   GetOption, Files, Get, Id("x"), Op("plus", <<Id("x"), Id("y")>>), Op("plus", <<Id("x"), Get>>),
   Op("conditional", <<Id("x"), Array(<< >>)>>), Op("access", <<Id("x")>>)}

Assignments ==
  {Set(n, "EQ", e) : n \in MCNames, e \in MCExpressions}
    \union {Set("x", "PLUS_EQ", e) :
              e \in {Literal(STR), Files, GetOption, Id("y"), Array(<<Id("x")>>)}}
    \union {Set("x", "SLASH_EQ", Literal(STR)), Set("x", "MINUS_EQ", Literal(INT))}

Blocks == {Set("x", "EQ", Literal(INT)), Set("x", "PLUS_EQ", Files), Set("y", "EQ", Array(<<Id("x")>>))}

MCStatements ==
  Assignments
    \union {If(c, a, b) : c \in {Id("x"), Id("y")}, a \in Blocks, b \in Blocks}
    \union {Each(e, b) : e \in {Id("x"), Id("y")}, b \in Blocks}

MCAddresses == SetToSeqs({BOOL, STR, Feature})
=============================================================================
