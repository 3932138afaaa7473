------------------------------ MODULE MCParser -----------------------------
(***************************************************************************)
(* The tables of the Meson grammar (src/parser/parser.c), with the states  *)
(* and symbols numbered as there, as far as texts of identifiers,          *)
(* parentheses, comments and characters that belong to no token need them: *)
(* statements that are an identifier, a call with one argument or none, a  *)
(* parenthesized expression or a comment.                                  *)
(***************************************************************************)
EXTENDS ParserCorrect, FiniteSets

CONSTANT MaxTokens

lparen == 16
rparen == 17
identifier == 56
comment == 57

source_file == 58
build_definition == 59
statement == 60
expression == 67
function_expression == 68
argument_list == 69
primary_expression == 94
function_id == 95
id_expression == 97
repeat1 == 98

MCVisible == {lparen, rparen} \union (source_file .. id_expression)

-----------------------------------------------------------------------------
On(symbols, action) == [symbol \in symbols |-> <<action>>]
Following == {end, identifier, lparen, comment}
Inside == comment :> <<ShiftExtra>>

Statement == identifier :> <<Shift(190)>> @@ lparen :> <<Shift(272)>> @@ comment :> <<Shift(400)>>
Argument == identifier :> <<Shift(379)>> @@ lparen :> <<Shift(269)>> @@ Inside
Parenthesized == identifier :> <<Shift(336)>> @@ lparen :> <<Shift(269)>> @@ Inside
Closes(symbol, count) == rparen :> <<ReduceBy(symbol, count)>> @@ Inside
Repeat(state) == <<ReduceBy(repeat1, 2), ShiftRepeat(state)>>

MCTable ==
  0 :> (On({end, identifier, lparen, rparen}, Recover) @@ Inside)
  @@ 1 :> Statement
  @@ 31 :> (Statement @@ On({end}, ReduceBy(build_definition, 1)))
  @@ 62 :> (identifier :> Repeat(190) @@ lparen :> Repeat(272) @@ comment :> Repeat(400)
              @@ On({end}, ReduceBy(repeat1, 2)))
  @@ 68 :> On(Following, ReduceBy(statement, 1))
  @@ 87 :> (Argument @@ rparen :> <<Shift(198)>>)
  @@ 127 :> (Argument @@ rparen :> <<Shift(339)>>)
  @@ 179 :> On(Following, ReduceBy(primary_expression, 1))
  @@ 187 :> On(Following, ReduceBy(expression, 1))
  @@ 190 :> (lparen :> <<ReduceBy(function_id, 1)>> @@ On(Following, ReduceBy(id_expression, 1)))
  @@ 191 :> On(Following, ReduceBy(function_expression, 4))
  @@ 198 :> On(Following, ReduceBy(function_expression, 3))
  @@ 209 :> On(Following, ReduceBy(primary_expression, 3))
  @@ 269 :> Parenthesized
  @@ 272 :> Parenthesized
  @@ 331 :> Closes(argument_list, 1)
  @@ 336 :> (Closes(id_expression, 1) @@ lparen :> <<ReduceBy(function_id, 1)>>)
  @@ 338 :> Closes(primary_expression, 1)
  @@ 339 :> Closes(function_expression, 3)
  @@ 345 :> (rparen :> <<Shift(346)>> @@ Inside)
  @@ 346 :> Closes(primary_expression, 3)
  @@ 353 :> (rparen :> <<Shift(209)>> @@ Inside)
  @@ 363 :> Closes(expression, 1)
  @@ 372 :> Closes(function_expression, 4)
  @@ 379 :> (Closes(id_expression, 1) @@ lparen :> <<ReduceBy(function_id, 1)>>)
  @@ 400 :> On(Following, ReduceBy(statement, 1))
  @@ 497 :> (end :> <<Accept>> @@ Inside)
  @@ 505 :> (end :> <<ReduceBy(source_file, 1)>> @@ Inside)
  @@ 509 :> (lparen :> <<Shift(127)>> @@ Inside)
  @@ 510 :> (rparen :> <<Shift(191)>> @@ Inside)
  @@ 515 :> (lparen :> <<Shift(87)>> @@ Inside)
  @@ 521 :> (rparen :> <<Shift(372)>> @@ Inside)

(* After an expression of a statement, and after one in parentheses. *)
Outer(of_expression, of_statement) ==
  statement :> of_statement @@ repeat1 :> of_statement @@ expression :> of_expression
    @@ function_expression :> 187 @@ primary_expression :> 187 @@ function_id :> 515
    @@ id_expression :> 179
Inner(of_expression) ==
  expression :> of_expression @@ function_expression :> 363 @@ primary_expression :> 363
    @@ function_id :> 509 @@ id_expression :> 338

MCGoto ==
  [state \in DOMAIN MCTable |->
     CASE state = 1 -> Outer(68, 31) @@ source_file :> 497 @@ build_definition :> 505
       [] state \in {31, 62} -> Outer(68, 62)
       [] state = 87 -> Inner(331) @@ argument_list :> 510
       [] state = 127 -> Inner(331) @@ argument_list :> 521
       [] state = 269 -> Inner(345)
       [] state = 272 -> Inner(353)
       [] OTHER -> << >>]

-----------------------------------------------------------------------------
(* Characters of no token that follow one another are one token. *)
Short ==
  {t \in SeqOf({lparen, rparen, identifier, comment, error}, MaxTokens) :
     \A i \in 2 .. Len(t) : ~(t[i] = error /\ t[i - 1] = error)}

(* After a call whose argument breaks off, recovery has so many ways on    *)
(* that a node may come to have three links.                               *)
Broken == <<identifier, lparen, lparen, rparen>>

MCTexts == Short \union {Broken \o t : t \in {u \in Short : Len(u) < MaxTokens}}

-----------------------------------------------------------------------------
(* What the rules of the grammar, read off the reductions of the tables    *)
(* (src/parser/parser.c), make of such a text: an expression, with         *)
(* comments between the tokens but not around.                             *)
RECURSIVE IsExpression(_)
IsExpression(t) ==
  LET bare == SelectSeq(t, LAMBDA token : token # comment)
      inner == SubSeq(t, 2, Len(t) - 1)
      argument == SubSeq(bare, 3, Len(bare) - 1)
  IN  /\ bare # << >>
      /\ \/ bare = <<identifier>>
         \/ bare[1] = lparen /\ Last(bare) = rparen /\ IsExpression(SubSeq(bare, 2, Len(bare) - 1))
         \/ /\ Len(bare) > 2 /\ bare[1] = identifier /\ bare[2] = lparen /\ Last(bare) = rparen
            /\ argument = << >> \/ IsExpression(argument)

(* A statement ends with a token of its own and, since a comment is one    *)
(* where a statement begins, has no comment before its first parenthesis.  *)
IsStatement(t) ==
  \/ t = <<comment>>
  \/ /\ t # << >> /\ t[1] # comment /\ Last(t) # comment
     /\ t[1] = identifier => Len(t) = 1 \/ t[2] = lparen
     /\ IsExpression(t)

RECURSIVE IsFile(_)
IsFile(t) ==
  \E k \in 1 .. Len(t) : /\ IsStatement(SubSeq(t, 1, k))
                         /\ k = Len(t) \/ IsFile(SubSeq(t, k + 1, Len(t)))

(* The tree of a parse that is over has an error in it exactly if the      *)
(* grammar does not derive the text: no build file that is right is ever   *)
(* repaired, and none that is wrong passes.                                *)
ErrorsIffInvalid == done => (ErrorCost(parser.finished_tree) = 0 <=> IsFile(text))
=============================================================================
