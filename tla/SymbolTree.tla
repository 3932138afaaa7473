---------------------------- MODULE SymbolTree ----------------------------
(***************************************************************************)
(* SymbolTree.build and analyze_statement of src/symbol_tree.vala: the     *)
(* recursion over directories that collects, for every meson.build, its    *)
(* assignments and the trees of the directories it includes.  Each step    *)
(* looks at one statement; the stack holds the calls of build() that have  *)
(* not returned.                                                           *)
(*                                                                         *)
(* A statement is a record of a kind, an argument and a body:              *)
(*   "assign"   name = ...          arg: the name                          *)
(*   "subdir"   subdir(...)         arg: the first argument                *)
(*   "foreach"  foreach ... body    "if"  if ... body (all its blocks)     *)
(*   "other"    anything else                                              *)
(***************************************************************************)
EXTENDS Integers, Sequences

CONSTANTS
    Dir,        \* the directories
    Top,        \* the workspace folder
    Exists,     \* the directories with a meson.build
    Stmt,       \* the statements
    Arg,        \* the arguments of statements
    Resolve,    \* Resolve[d][a]: what subdir(a) in directory d leads to
    Programs,   \* the projects: the statements of every directory's meson.build
    Skipped,    \* of an argument: its source is too short to hold a name
    NullNode,   \* of an argument: it is no tree of the expected shape
    NoTree,     \* no result yet
    MaxDepth    \* calls of build() the machine stack has room for

ASSUME DirAssumption == Top \in Exists /\ Exists \subseteq Dir

ASSUME StmtAssumption ==
    \A s \in Stmt : /\ s.kind \in {"assign", "subdir", "foreach", "if", "other"}
                    /\ s.arg \in Arg
                    /\ s.body \in Seq(Stmt)
                    /\ s.kind \notin {"foreach", "if"} => s.body = <<>>

ASSUME ProgramAssumption ==
    /\ Resolve \in [Dir -> [Arg -> Dir \union {Skipped, NullNode}]]
    /\ Skipped \notin Dir /\ NullNode \notin Dir /\ Skipped # NullNode
    /\ \A p \in Programs : DOMAIN p = Dir /\ \A d \in Dir : p[d] \in Seq(Stmt)
    /\ MaxDepth \in Nat \ {0}

VARIABLES
    program,    \* the project that is built
    stack,      \* the calls of build(), the innermost last
    result,     \* what the outermost build() returned
    status      \* "building", "done" or "crashed"

vars == <<program, stack, result, status>>

(* What one call of build() has done so far: the statements it has yet to     *)
(* analyse, the data it collected, and child_files.                           *)
Frame(d) == [dir |-> d, work |-> program[d], datas |-> <<>>, childFiles |-> <<d>>]

Symbol(name, d) == [type |-> "symbol", name |-> name, tree |-> d]
Subdir(name)    == [type |-> "subdir", name |-> name, tree |-> NoTree]
Tree(t)         == [type |-> "tree", name |-> t.dir, tree |-> t]

Current == stack[Len(stack)]
Caller    == stack[Len(stack) - 1]
Statement == Head(Current.work)

(* The current call goes on with other statements and more data. *)
Continue(work, datas) ==
    [stack EXCEPT ![Len(stack)] =
        [dir |-> Current.dir, work |-> work,
         datas |-> Current.datas \o datas, childFiles |-> Current.childFiles]]

Analyse(kind) ==
    /\ status = "building"
    /\ Current.work # <<>>
    /\ Statement.kind = kind
    /\ UNCHANGED <<program, result>>

Target == Resolve[Current.dir][Statement.arg]

AnalyseAssignment ==
    /\ Analyse("assign")
    /\ Target # NullNode
    /\ stack' = Continue(Tail(Current.work), <<Symbol(Statement.arg, Current.dir)>>)
    /\ UNCHANGED status

AnalyseOther ==
    /\ Analyse("other")
    /\ stack' = Continue(Tail(Current.work), <<>>)
    /\ UNCHANGED status

(* The named children of an iteration statement are its identifiers, its      *)
(* expression and its body; the loop over the body starts at child 3.         *)
AnalyseForeach ==
    /\ Analyse("foreach")
    /\ stack' = Continue(SubSeq(Statement.body, 2, Len(Statement.body)) \o Tail(Current.work), <<>>)
    /\ UNCHANGED status

AnalyseSelection ==
    /\ Analyse("if")
    /\ stack' = Continue(Statement.body \o Tail(Current.work), <<>>)
    /\ UNCHANGED status

(* Mutant of SkipSubdir: the loop does not go on to the next statement. *)
SkipSubdirAgain ==
    /\ Analyse("subdir")
    /\ Target = Skipped
    /\ stack' = Continue(Current.work, <<>>)
    /\ UNCHANGED status

SkipSubdir ==
    /\ Analyse("subdir")
    /\ Target = Skipped
    /\ stack' = Continue(Tail(Current.work), <<>>)
    /\ UNCHANGED status

(* build() of a directory without meson.build returns at once. *)
MissingSubdir ==
    /\ Analyse("subdir")
    /\ Target \in Dir \ Exists
    /\ stack' = Continue(Tail(Current.work), <<Subdir(Statement.arg)>>)
    /\ UNCHANGED status

(* Mutant of EnterSubdir: the directory of the caller is built again. *)
EnterSelf ==
    /\ Analyse("subdir")
    /\ Target \in Exists
    /\ Len(stack) < MaxDepth
    /\ stack' = Append(Continue(Tail(Current.work), <<Subdir(Statement.arg)>>), Frame(Current.dir))
    /\ UNCHANGED status

EnterSubdir ==
    /\ Analyse("subdir")
    /\ Target \in Exists
    /\ Len(stack) < MaxDepth
    /\ stack' = Append(Continue(Tail(Current.work), <<Subdir(Statement.arg)>>), Frame(Target))
    /\ UNCHANGED status

(* Nothing keeps build() from entering a directory it is in already. *)
StackOverflow ==
    /\ Analyse("subdir")
    /\ Target \in Exists
    /\ Len(stack) = MaxDepth
    /\ status' = "crashed"
    /\ UNCHANGED stack

(* The node of the name is null and its bytes are asked for. *)
NullNodeCrash ==
    /\ \/ Analyse("subdir")
       \/ Analyse("assign")
    /\ Target = NullNode
    /\ status' = "crashed"
    /\ UNCHANGED stack

Returned == [dir |-> Current.dir, datas |-> Current.datas, childFiles |-> Current.childFiles]

(* Mutant of Return: the tree of the subdir is returned without its data. *)
ReturnLosesTree ==
    /\ status = "building"
    /\ Current.work = <<>>
    /\ \/ /\ Len(stack) = 1
          /\ result' = Returned
          /\ status' = "done"
          /\ UNCHANGED stack
       \/ /\ Len(stack) > 1
          /\ stack' = SubSeq(stack, 1, Len(stack) - 1)
          /\ UNCHANGED <<result, status>>
    /\ UNCHANGED program

Return ==
    /\ status = "building"
    /\ Current.work = <<>>
    /\ \/ /\ Len(stack) = 1
          /\ result' = Returned
          /\ status' = "done"
          /\ UNCHANGED stack
       \/ /\ Len(stack) > 1
          /\ stack' = [SubSeq(stack, 1, Len(stack) - 1) EXCEPT ![Len(stack) - 1] =
                [dir |-> Caller.dir, work |-> Caller.work,
                 datas |-> Append(Caller.datas, Tree(Returned)),
                 childFiles |-> Append(Caller.childFiles, Returned.dir)]]
          /\ UNCHANGED <<result, status>>
    /\ UNCHANGED program

Init ==
    /\ program \in Programs
    /\ stack = <<Frame(Top)>>
    /\ result = NoTree
    /\ status = "building"

Next ==
    \/ AnalyseAssignment \/ AnalyseOther \/ AnalyseForeach \/ AnalyseSelection
    \/ SkipSubdir \/ MissingSubdir \/ EnterSubdir
    \/ StackOverflow \/ NullNodeCrash
    \/ Return

Spec == Init /\ [][Next]_vars
=============================================================================
