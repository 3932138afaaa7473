------------------------------ MODULE TypeEnv ------------------------------
(***************************************************************************)
(* The deduction of types (MesonEnv, deduce_types and fill_diagnostics of  *)
(* src/src/ast.vala): the statements of a build file are taken one by one, *)
(* each assignment appends what its right side can be to a list of         *)
(* variables, and the last entry of a name answers for it.  A run of the   *)
(* build file by Meson goes along: vals holds what the variables are, and  *)
(* sure the variables no block that was not taken has assigned since.      *)
(*                                                                         *)
(* A Gee.HashSet of types is a set; the order it is iterated in follows    *)
(* the addresses of its elements, which Init chooses.                      *)
(***************************************************************************)
EXTENDS Types, FiniteSets

CONSTANTS
  Statements,     \* the statements it is made of
  MaxStatements,  \* bound on its length
  MaxDepth,       \* the depth merge() gives up at: 128 in the code
  Addresses       \* the orders the elements of a HashSet can come in

ASSUME BoundAssumption == MaxStatements \in Nat /\ MaxDepth \in Nat \ {0}

VARIABLES
  addresses,  \* the elementary and object types, in the order of their addresses
  positions,  \* the list of variables of MesonEnv
  vals,       \* what each variable assigned so far holds in the run
  sure,       \* those whose last = was in a block the run took
  last,       \* what the last statement said of the expression it looked at
  steps       \* how many statements have been taken

vars == <<addresses, positions, vals, sure, last, steps>>

-----------------------------------------------------------------------------
(***************************************************************************)
(* Gee.HashSet, ListUtils and MesonEnv.                                    *)
(***************************************************************************)
Address(t) ==
  IF t \in ToSet(addresses) THEN CHOOSE i \in DOMAIN addresses : addresses[i] = t ELSE 0

(* The elements of a HashSet in the order it is iterated in. *)
Iterate(S) == SetToSortSeq(S, LAMBDA a, b : Address(a) < Address(b))

of(t) ==
  IF t = NOT_DEDUCEABLE
  THEN {t, MList(TreeSet(<<t>>)), Dictionary(TreeSet(<<t>>))}
  ELSE {t}

(* A merge that keeps only equal lists from being held twice. *)
MergeListsApart(d, counter) == TreeSet(d)

(* The types d, in the order given, with all lists made one list and all   *)
(* dictionaries one dictionary, and their values in turn.                  *)
RECURSIVE merge(_, _)
merge(d, counter) ==
  IF counter = MaxDepth THEN TreeSet(d)
  ELSE LET Those(class) == SelectSeq(d, LAMBDA t : t.class = class)
           Values(class) ==
             TreeSet(FlattenSeq([i \in DOMAIN Those(class) |-> InOrder(Those(class)[i].values)]))
           Merged(class) == InOrder(merge(InOrder(TreeSet(InOrder(Values(class)))), counter + 1))
           With(class, tree) ==
             IF Those(class) = << >> THEN tree
             ELSE Add(tree, [class |-> class, values |-> TreeSet(Merged(class))])
           rest == TreeSet(SelectSeq(d, LAMBDA t : t.class \notin Containers))
       IN  With("Dictionary", With("MList", rest))

(* The list of variables after register(): deduces is in iteration order.  *)
register(env, name, deduces) ==
  Append(env, [name |-> name, deduced_types |-> TreeSet(InOrder(merge(deduces, 0)))])

(* A search that starts from the wrong end. *)
FindFirst(env, name) ==
  LET of_name == {i \in DOMAIN env : env[i].name = name}
  IN  IF of_name = {} THEN Iterate(of(NOT_DEDUCEABLE))
      ELSE InOrder(env[CHOOSE i \in of_name : \A j \in of_name : i <= j].deduced_types)

(* The last entry of the name decides; a sequence in iteration order. *)
find_identifier(env, name) ==
  LET of_name == {i \in DOMAIN env : env[i].name = name}
  IN  IF of_name = {} THEN Iterate(of(NOT_DEDUCEABLE))
      ELSE InOrder(env[CHOOSE i \in of_name : \A j \in of_name : j <= i].deduced_types)

add_types(env, name, deduces) ==
  register(env, name, InOrder(TreeSet(find_identifier(env, name) \o Iterate(deduces))))

-----------------------------------------------------------------------------
(***************************************************************************)
(* deduce_types: the types of an expression, a set.                        *)
(***************************************************************************)
(* What a value of type li grows to when one of type ri is added.          *)
Joined(li, ri) ==
  CASE li.class = "MList" ->
         {MList(AddAll(TreeSet(InOrder(li.values)),
                       IF ri.class = "MList" THEN InOrder(ri.values) ELSE Iterate(of(ri))))}
    [] li.class = "Dictionary" /\ ri.class = "Dictionary" ->
         {Dictionary(AddAll(TreeSet(InOrder(li.values)), InOrder(ri.values)))}
    [] li.class = "Elementary" /\ ri.class = "Elementary" ->
         IF (ri = li /\ li = STR) \/ li = INT THEN {li} ELSE {}
    [] OTHER -> {}

PLUS(l, r) == UNION {Joined(li, ri) : <<li, ri>> \in l \X r}
SLASH(l, r) ==
  {li \in l : /\ li \in {STR, INT}
              /\ \E ri \in r : ri.class = "Elementary" /\ (li = STR => ri = STR)}
MINUS(l, r) == {li \in l : li = INT /\ INT \in r}

Known(types) == IF types = {} THEN of(NOT_DEDUCEABLE) ELSE types

RECURSIVE deduce_types(_, _)
deduce_types(env, e) ==
  LET Of(x) == deduce_types(env, x)
  IN  CASE e.op = "literal" -> {e.type}
        [] e.op = "array" ->
             {MList(TreeSet(Iterate(UNION {Of(x) : x \in ToSet(e.args)})))}
        [] e.op = "dictionary" ->     \* what is deduced is what the keys are
             {Dictionary(TreeSet(IF e.args = << >> THEN << >> ELSE <<STR>>))}
        [] e.op = "identifier" -> ToSet(find_identifier(env, e.name))
        [] e.op = "function" -> e.return_type
        [] e.op = "plus" -> Known(PLUS(Of(e.args[1]), Of(e.args[2])))
        [] e.op = "conditional" -> Of(e.args[1]) \union Of(e.args[2])
        [] e.op = "access" ->
             Known(UNION {Elements(t.values) : t \in {u \in Of(e.args[1]) : u.class = "MList"}})

(* The same as a sequence in iteration order: for an identifier the tree   *)
(* set of its entry, for any other expression a hash set.                  *)
Deduced(env, e) ==
  IF e.op = "identifier" THEN find_identifier(env, e.name) ELSE Iterate(deduce_types(env, e))

(* AssignmentStatement.fill_diagnostics. *)
assign(env, s) ==
  LET types == deduce_types(env, s.rhs)
      l == ToSet(find_identifier(env, s.lhs))
  IN  CASE s.op = "EQ" -> register(env, s.lhs, Deduced(env, s.rhs))
        [] s.op = "PLUS_EQ" -> add_types(env, s.lhs, PLUS(l, types))
        [] s.op = "SLASH_EQ" -> add_types(env, s.lhs, SLASH(l, types))
        [] s.op = "MINUS_EQ" -> add_types(env, s.lhs, MINUS(l, types))

-----------------------------------------------------------------------------
(***************************************************************************)
(* Meson itself: what an expression can evaluate to, {} when it fails.  A  *)
(* list or dictionary is the set of the values it holds.                   *)
(***************************************************************************)
ValueList(S) == [class |-> "MList", held |-> S]
ValueDictionary(S) == [class |-> "Dictionary", held |-> S]

ValuePlus(a, b) ==
  CASE a.class = "MList" ->
         {ValueList(a.held \union (IF b.class = "MList" THEN b.held ELSE {b}))}
    [] a.class = "Dictionary" /\ b.class = "Dictionary" ->
         {ValueDictionary(a.held \union b.held)}
    [] a = b /\ a \in {STR, INT} -> {a}
    [] OTHER -> {}

RECURSIVE Eval(_, _)
Eval(e, vs) ==
  LET Args == [i \in DOMAIN e.args |-> Eval(e.args[i], vs)]
      Picks == {p \in [DOMAIN e.args -> UNION ToSet(Args)] :
                  \A i \in DOMAIN e.args : p[i] \in Args[i]}
      Held(p) == {p[i] : i \in DOMAIN p}
  IN  CASE e.op = "literal" -> {e.type}
        [] e.op = "array" -> {ValueList(Held(p)) : p \in Picks}
        [] e.op = "dictionary" -> {ValueDictionary(Held(p)) : p \in Picks}
        [] e.op = "identifier" -> IF e.name \in DOMAIN vs THEN {vs[e.name]} ELSE {}
        [] e.op = "function" -> e.returns
        [] e.op = "plus" -> UNION {ValuePlus(p[1], p[2]) : p \in Picks}
        [] e.op = "conditional" -> Args[1] \union Args[2]
        [] e.op = "access" ->
             UNION {IF v = STR THEN {STR} ELSE IF v.class \in Containers THEN v.held ELSE {} :
                      v \in Args[1]}

(* What the variables can be once the run has executed an assignment. *)
Executed(s, vs) ==
  LET old == IF s.lhs \in DOMAIN vs THEN {vs[s.lhs]} ELSE {}
      new == Eval(s.rhs, vs)
      results ==
        CASE s.op = "EQ" -> new
          [] s.op = "PLUS_EQ" -> UNION {ValuePlus(a, b) : <<a, b>> \in old \X new}
          [] s.op = "SLASH_EQ" -> old \intersect new \intersect {STR, INT}
          [] s.op = "MINUS_EQ" -> old \intersect new \intersect {INT}
  IN  {(s.lhs :> v) @@ vs : v \in results}

RECURSIVE Identifiers(_)
Identifiers(e) ==
  IF e.op = "identifier" THEN {e.name} ELSE UNION {Identifiers(x) : x \in ToSet(e.args)}

(* No + in the expression meets "any" while its left side may be several   *)
(* types: what any stands for is then forgotten.                           *)
RECURSIVE Plain(_)
Plain(e) ==
  /\ \A x \in ToSet(e.args) : Plain(x)
  /\ e.op = "plus" =>
       LET l == deduce_types(positions, e.args[1])
           r == deduce_types(positions, e.args[2])
       IN  ANY \in l \union r => Cardinality(l) = 1

(* The sure variables once an assignment was executed, or was in a block   *)
(* the run did not take: its += still only adds to what is deduced.        *)
AfterTaken(s, known) ==
  IF Identifiers(s.rhs) \subseteq known /\ Plain(s.rhs)
  THEN IF s.op = "EQ" THEN known \union {s.lhs} ELSE known
  ELSE known \ {s.lhs}
AfterSkipped(s, known) == IF s.op = "EQ" THEN known \ {s.lhs} ELSE known

-----------------------------------------------------------------------------
Expected(t, what) == IF what = "bool" THEN t = BOOL ELSE t.class \in Containers

Quiet == [reported |-> FALSE, excused |-> FALSE]

(* A check that wants every type to be what is expected. *)
SaidUnlessAll(e, what) ==
  LET types == deduce_types(positions, e)
  IN  [reported |-> ~\A t \in types : Expected(t, what),
       excused |-> \/ ANY \in types \/ NOT_DEDUCEABLE \in types
                   \/ ~(Identifiers(e) \subseteq sure)]

(* Nothing better can be said of an expression whose type is not known. *)
Said(e, what) ==
  LET types == deduce_types(positions, e)
  IN  [reported |-> ~\E t \in types : Expected(t, what),
       excused |-> \/ ANY \in types \/ NOT_DEDUCEABLE \in types
                   \/ ~(Identifiers(e) \subseteq sure)]

Init ==
  /\ addresses \in Addresses
  /\ positions = << >>
  /\ vals = << >>
  /\ sure = {}
  /\ last = Quiet
  /\ steps = 0

Step ==
  /\ steps < MaxStatements
  /\ steps' = steps + 1
  /\ UNCHANGED addresses

(* x = e, x += e, x /= e or x -= e. *)
Assignment(s) ==
  /\ Step
  /\ vals' \in Executed(s, vals)
  /\ positions' = assign(positions, s)
  /\ sure' = AfterTaken(s, sure)
  /\ last' = Quiet

(* if c ... else ... endif, whose blocks are analysed one after the other; *)
(* the run takes one of them.                                              *)
Selection(c, block, else) ==
  /\ Step
  /\ BOOL \in Eval(c, vals)
  /\ last' = Said(c, "bool")
  /\ positions' = assign(assign(positions, block), else)
  /\ \/ /\ vals' \in Executed(block, vals)
        /\ sure' = AfterSkipped(else, AfterTaken(block, sure))
     \/ /\ vals' \in Executed(else, vals)
        /\ sure' = AfterTaken(else, AfterSkipped(block, sure))

(* foreach i : e ... endforeach, whose body is not analysed; the run       *)
(* executes it once or not at all.                                         *)
Iteration(e, body) ==
  /\ Step
  /\ \E v \in Eval(e, vals) : v.class \in Containers
  /\ last' = Said(e, "iterable")
  /\ \/ UNCHANGED <<vals, sure>>
     \/ /\ vals' \in Executed(body, vals)
        /\ sure' = sure \ {body.lhs}
  /\ UNCHANGED positions

Next == \E s \in Statements :
  \/ s.kind = "assignment" /\ Assignment(s)
  \/ s.kind = "selection" /\ Selection(s.condition, s.block, s.else)
  \/ s.kind = "iteration" /\ Iteration(s.id, s.body)

Spec == Init /\ [][Next]_vars

-----------------------------------------------------------------------------
(***************************************************************************)
(* Properties.                                                             *)
(***************************************************************************)
RECURSIVE Fits(_, _)

(* A value is described by a type: of a dictionary the type holds what the *)
(* keys are, and every key is a string.                                    *)
Fits(v, t) ==
  \/ t \in {ANY, NOT_DEDUCEABLE} \/ v = t
  \/ /\ v.class = "MList" /\ t.class = "MList"
     /\ \A x \in v.held : \E u \in Elements(t.values) : Fits(x, u)
  \/ /\ v.class = "Dictionary" /\ t.class = "Dictionary"
     /\ v.held # {} => STR \in Elements(t.values)

(* What a variable holds is among the types deduced for it, at every       *)
(* nesting of lists: no register(), merge() or += may drop one.  Only a    *)
(* variable last assigned in a block the run did not take is left out.     *)
Sound ==
  \A n \in sure : \E t \in ToSet(find_identifier(positions, n)) : Fits(vals[n], t)

(* A correct build file is not reported: "Condition is not bool" and "Not  *)
(* iterable!" are said only where the expression is not that, its type is  *)
(* unknown, or it has a variable an untaken block assigned.                *)
NoFalseAlarm == last.reported => last.excused

(* The types of a variable hold no type twice and at most one list and one *)
(* dictionary, in every list as well, down to the depth merge() stops at:  *)
(* what the comparison lets into a set twice, merge() takes out.  A set    *)
(* with an object type is left out, where it does not.                     *)
RECURSIVE Once(_, _)
Once(seq, depth) ==
  \/ depth = 0
  \/ \E i \in DOMAIN seq : seq[i].class = "ObjectType"
  \/ /\ \A i, j \in DOMAIN seq : i < j =>
          IF seq[i].class \in Containers THEN seq[i].class # seq[j].class ELSE seq[i] # seq[j]
     /\ \A i \in DOMAIN seq : seq[i].class \in Containers => Once(InOrder(seq[i].values), depth - 1)

EachTypeOnce == \A i \in DOMAIN positions : Once(InOrder(positions[i].deduced_types), MaxDepth)
=============================================================================
