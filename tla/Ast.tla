-------------------------------- MODULE Ast --------------------------------
(***************************************************************************)
(* The syntax tree of src/ast.vala: how statements are parsed, and the     *)
(* searches of the call handlers over them.                                *)
(*                                                                         *)
(* A node is a record: its type, its name (of an identifier, function,     *)
(* method, operator, token, or the value of a string), its place ref, the  *)
(* place nameRef of the name, and its parts in the order of the text:      *)
(*   "id", "string"                                                        *)
(*   "call"     arguments                                                  *)
(*   "method"   object, arguments        "keyword"    value                *)
(*   "array"    elements                 "binary"     left, right side     *)
(*   "assign"   left, right side         "condition"  expression           *)
(*   "foreach"  identifier, expression, statements                         *)
(*   "if"       tokens, conditions and statements                          *)
(***************************************************************************)
EXTENDS SourceRef, Sequences, SequencesExt

CONSTANTS
    Nothing,        \* null
    Node            \* the nodes of the texts

ASSUME NodeAssumption == \A n \in Node : n.parts \in Seq(Node)

IsToken(n, name) == n.type = "token" /\ n.name = name

(* Of a selection statement: the condition behind the token "if" is kept.     *)
(* The token "else if" never comes, since Meson spells it elif: the condition *)
(* of an elif is dropped, its statements stay in the open block.              *)
IsKept(n, k) ==
    /\ n.parts[k].type = "condition"
    /\ \E j \in 1 .. k - 1 :
          /\ IsToken(n.parts[j], "if")
          /\ \A i \in j + 1 .. k - 1 : n.parts[i].type # "condition"

Conditions(n) ==
    FlattenSeq([k \in DOMAIN n.parts |->
        IF IsKept(n, k) THEN <<n.parts[k].parts[1]>> ELSE <<>>])

(* The statements of all its blocks, which "else" only divides. *)
Blocks(n) ==
    FlattenSeq([k \in DOMAIN n.parts |->
        IF n.parts[k].type \in {"token", "condition"} THEN <<>> ELSE <<n.parts[k]>>])

(* The parts of a node that the parse keeps, in the order they are searched.  *)
Parsed(n) == IF n.type = "if" THEN Conditions(n) \o Blocks(n) ELSE n.parts

-----------------------------------------------------------------------------
(* The searches. *)

(* The first of the results that is not null. *)
FirstFound(results) ==
    LET found == {r \in {<<k, results[k]>> : k \in DOMAIN results} : r[2] # Nothing}
    IN IF found = {} THEN Nothing
       ELSE (CHOOSE r \in found : \A s \in found : r[1] <= s[1])[2]

(* What a search finds below each of the nodes. *)
Each(search, nodes) == [k \in DOMAIN nodes |-> search[nodes[k]]]

(* A search for one: what the node itself answers, or the first of its parts. *)
Search(own, parts) ==
    LET found[n \in Node] ==
            IF own[n] # Nothing THEN own[n] ELSE FirstFound(Each(found, parts[n]))
    IN found

(* A search for all: what the parts give, then what the node itself does.     *)
Collect(own, parts) ==
    LET all[n \in Node] == FlattenSeq(Each(all, parts[n])) \o own[n]
    IN all

(* An identifier is found by its place, the name of a method too; that of a   *)
(* function is not.  A selection statement does not look at its own place.    *)
IsHere(n, file, pos) == n.type = "if" \/ RefContains(n.ref, file, pos)

NameAt(n, file, pos) ==
    IF /\ n.type = "id" \/ (n.type = "method" /\ RefContains(n.nameRef, file, pos))
       /\ IsHere(n, file, pos)
    THEN n.name ELSE Nothing

Within(n, file, pos) ==
    IF n.type \in {"id", "string", "token", "condition"} \/ ~IsHere(n, file, pos) THEN <<>>
    ELSE IF n.type = "binary" THEN Reverse(n.parts) ELSE Parsed(n)

FindIdentifier(file, pos) ==
    Search([n \in Node |-> NameAt(n, file, pos)], [n \in Node |-> Within(n, file, pos)])

(* The places where the variable x is defined: assigned by = or iterated.     *)
(* The statements of a foreach come before its identifiers.                   *)
Defined(n, x) ==
    IF /\ n.type = "foreach" \/ (n.type = "assign" /\ n.name = "=")
       /\ n.parts[1].type = "id" /\ n.parts[1].name = x
    THEN <<n.parts[1].ref>> ELSE <<>>

Bodies(n) ==
    CASE n.type = "if"      -> Blocks(n)
      [] n.type = "foreach" -> SubSeq(n.parts, 3, Len(n.parts))
      [] OTHER              -> <<>>

FindSymbol(x) == Collect([n \in Node |-> Defined(n, x)], [n \in Node |-> Bodies(n)])

(* Mutant of Symbol: those of all merged files. *)
SymbolAnywhere(n, file, name, ref) == <<[name |-> name, ref |-> ref]>>

Symbol(n, file, name, ref) ==
    IF n.ref.file = file THEN <<[name |-> name, ref |-> ref]>> ELSE <<>>

(* The symbols of the file: identifiers by their names, functions, methods    *)
(* and literals without one.  The arguments of a call and the elements of an  *)
(* array are passed over.                                                     *)
SymbolOf(n, file) ==
    CASE n.type = "id"                 -> Symbol(n, file, n.name, n.ref)
      [] n.type = "string"             -> Symbol(n, file, Nothing, n.ref)
      [] n.type \in {"call", "method"} -> Symbol(n, file, Nothing, n.nameRef)
      [] OTHER                         -> <<>>

Listed(n) ==
    CASE n.type = "if"     -> Blocks(n) \o Conditions(n)
      [] n.type = "method" -> <<n.parts[1]>>
      [] n.type = "assign" -> IF n.name = "=" THEN n.parts ELSE Tail(n.parts)
      [] n.type \in {"foreach", "binary"} -> n.parts
      [] OTHER             -> <<>>

DocumentSymbols(file) ==
    Collect([n \in Node |-> SymbolOf(n, file)], [n \in Node |-> Listed(n)])

(* A call of subdir() with a string. *)
IsSubdir(n) ==
    n.type = "call" /\ n.name = "subdir" /\ n.parts # <<>> /\ n.parts[1].type = "string"

(* The call of subdir() with a string at the position, with file and name. *)
CallAt(n, file, pos) ==
    IF IsSubdir(n) /\ RefContains(n.ref, file, pos)
    THEN <<n.ref.file, n.parts[1].name>> ELSE Nothing

(* The parts in which it is looked for. *)
Nested(n) == IF n.type \in {"if", "foreach", "assign"} THEN Parsed(n) ELSE <<>>

SubdirCall(file, pos) ==
    Search([n \in Node |-> CallAt(n, file, pos)], [n \in Node |-> Nested(n)])
=============================================================================
