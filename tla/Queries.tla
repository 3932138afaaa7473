------------------------------ MODULE Queries ------------------------------
(***************************************************************************)
(* The calls definition and documentSymbol of src/server.vala on a project *)
(* that load_tree has parsed and merged.  A call may come with any place   *)
(* of any file; files may vanish after they were loaded.                   *)
(***************************************************************************)
EXTENDS Ast, FiniteSets

CONSTANTS
    File,       \* the meson.build files
    Root,       \* the one of the workspace folder
    Name,       \* the identifiers
    Targets,    \* Targets[f][s]: the meson.build that subdir(s) in file f leads to
    Texts,      \* the projects: the statements of every file
    Cursors     \* the positions of the cursor

Refs(F) == [file : F, startLine : Nat, startColumn : Nat, endLine : Nat, endColumn : Nat]

Positions == [line : Nat, character : Nat]

ASSUME QueriesAssumption ==
    /\ Root \in File
    /\ Texts \subseteq [File -> Seq(Node)]
    /\ Cursors \subseteq Positions
    /\ \A f \in File, n \in Node : Nothing # <<f, n.name>>

VARIABLES
    text,       \* the project
    ast,        \* this.ast: the statements of the merged file
    onDisk,     \* the files that exist
    call,       \* the call that was answered last: its method, file and position
    reply       \* the answer, until the editor has read it

vars == <<text, ast, onDisk, call, reply>>

NoCall == [method |-> "none", file |-> Root, position |-> [line |-> 0, character |-> 0]]

(* The start of a file. *)
TopOf(f) == Ref(f, 0, 0, 0, 1)

(* The statements of a file, those of the files it includes before the call   *)
(* that includes them; here the calls stand at the top level.                 *)
Merged ==
    LET merged[f \in File] ==
          FlattenSeq([k \in DOMAIN text[f] |->
              LET s == text[f][k]
              IN IF IsSubdir(s) THEN Append(merged[Targets[f][s.parts[1].name]], s) ELSE <<s>>])
    IN merged

Init ==
    /\ text \in Texts
    /\ ast = Nothing
    /\ onDisk = File
    /\ call = NoCall
    /\ reply = Nothing

LoadTree ==
    /\ ast = Nothing
    /\ ast' = Merged[Root]
    /\ UNCHANGED <<text, onDisk, call, reply>>

(* Other programs (external). *)
FileVanishes ==
    /\ \E f \in File \ {Root} : onDisk' = onDisk \ {f}
    /\ UNCHANGED <<text, ast, call, reply>>

(* Mutant of JumpToSubdir: the name is taken from the workspace folder. *)
JumpFromRoot(file, pos) ==
    LET found == FirstFound(Each(SubdirCall(file, pos), ast))
        target == Targets[Root][found[2]]
    IN IF found # Nothing /\ target \in onDisk THEN TopOf(target) ELSE Nothing

JumpToSubdir(file, pos) ==
    LET found == FirstFound(Each(SubdirCall(file, pos), ast))
        target == Targets[found[1]][found[2]]
    IN IF found # Nothing /\ target \in onDisk THEN TopOf(target) ELSE Nothing

(* Gee.TimSort of at most 32 elements (external): the longest run at the      *)
(* start, turned round if it descends, and binary insertion of the others.    *)
Sort(list, Lower(_, _)) ==
    IF Len(list) < 2 THEN list
    ELSE
    LET descends == Lower(list[2], list[1])
        runs == {k \in 2 .. Len(list) : \A i \in 2 .. k : Lower(list[i], list[i - 1]) = descends}
        length == CHOOSE k \in runs : \A j \in runs : j <= k
        first == SubSeq(list, 1, length)
        place(s, d) ==
            LET between[i \in 0 .. Len(s), j \in 0 .. Len(s)] ==
                    IF i >= j THEN i
                    ELSE LET middle == i + (j - i) \div 2
                         IN IF Lower(d, s[middle + 1]) THEN between[i, middle]
                            ELSE between[middle + 1, j]
            IN between[0, Len(s)] + 1
    IN FoldLeft(LAMBDA s, d : InsertAt(s, place(s, d), d),
                IF descends THEN Reverse(first) ELSE first,
                SubSeq(list, length + 1, Len(list)))

Preferred(list, file, line) ==
    Sort(list, LAMBDA a, b : Compare(a, b, file, line) < 0)[1]
Found(name) == FlattenSeq(Each(FindSymbol(name), ast))

AnswerDefinition(file, pos) ==
    LET name == FirstFound(Each(FindIdentifier(file, pos), ast))
    IN [name |-> name,
        at |-> IF name = Nothing THEN JumpToSubdir(file, pos)
               ELSE IF Found(name) = <<>> THEN Nothing
               ELSE Preferred(Found(name), file, pos.line)]

Waiting == ast # Nothing /\ call = NoCall

Definition(file, pos) ==
    /\ Waiting
    /\ call' = [method |-> "definition", file |-> file, position |-> pos]
    /\ reply' = AnswerDefinition(file, pos)
    /\ UNCHANGED <<text, ast, onDisk>>

DocumentSymbol(file) ==
    /\ Waiting
    /\ call' = [NoCall EXCEPT !.method = "documentSymbol", !.file = file]
    /\ reply' = FlattenSeq(Each(DocumentSymbols(file), ast))
    /\ UNCHANGED <<text, ast, onDisk>>

(* The editor (external). *)
ReadReply ==
    /\ call # NoCall
    /\ call' = NoCall
    /\ reply' = Nothing
    /\ UNCHANGED <<text, ast, onDisk>>

Next ==
    \/ LoadTree
    \/ ReadReply
    \/ FileVanishes
    \/ \E f \in File, pos \in Cursors : Definition(f, pos)
    \/ \E f \in File : DocumentSymbol(f)

Spec == Init /\ [][Next]_vars
-----------------------------------------------------------------------------
(* The project as it is written. *)

(* A node of the text with all that it consists of. *)
Nodes[n \in Node] == {n} \union UNION {Nodes[n.parts[k]] : k \in DOMAIN n.parts}

AllOf(statements) == UNION {Nodes[statements[k]] : k \in DOMAIN statements}

Written(f) == AllOf(text[f])

Identifiers(f) == {n \in Written(f) : n.type = "id"}

(* The conditions that the parser drops: those of the elifs.                  *)
Elifs(n) == {k \in DOMAIN n.parts : k > 2 /\ n.type = "if" /\ n.parts[k].type = "condition"}
Dropped(f) == UNION {UNION {Nodes[n.parts[k]] : k \in Elifs(n)} : n \in Written(f)}

(* The names of variables and methods, and where they (or strings) stand.     *)
IsName(n) == n.type \in {"id", "method"}
Place(n) == IF n.type \in {"id", "string"} THEN n.ref ELSE n.nameRef
NamesAt(f, pos) == {n \in Written(f) : IsName(n) /\ Covers(Place(n), pos)}

DefinedIn(f, x) ==
    {n.parts[1].ref : n \in {m \in Written(f) :
        /\ m.type = "foreach" \/ (m.type = "assign" /\ m.name = "=")
        /\ m.parts[1].type = "id" /\ m.parts[1].name = x}}

(* The root and what it includes, directly or not. *)
InTree ==
    {f \in File : \A S \in SUBSET File :
        Root \in S /\ (\A g \in S : \A n \in Written(g) :
                          IsSubdir(n) => Targets[g][n.parts[1].name] \in S) => f \in S}

(* How projects are written. *)
InSelection(n) == n.type \in {"token", "condition"}

(* The nodes of different elements have different places.                     *)
Scattered(w) ==
    \A i, j \in DOMAIN w : i # j =>
        \A m \in {x \in Nodes[w[i]] : ~InSelection(x)},
           n \in {x \in Nodes[w[j]] : ~InSelection(x)} : m.ref # n.ref /\ Place(m) # Place(n)

(* What the grammar puts into each kind of node. *)
Shaped(n) ==
    /\ n.type \in {"id", "string", "token"} => n.parts = <<>>
    /\ n.type = "condition" => Len(n.parts) = 1
    /\ n.type = "if" => /\ Len(n.parts) >= 2
                        /\ IsToken(n.parts[1], "if") /\ n.parts[2].type = "condition"
    /\ n.type \in {"assign", "foreach"} => Len(n.parts) >= 2
    /\ n.type = "method" => n.parts # <<>>
    /\ \A k \in DOMAIN n.parts :
          /\ InSelection(n.parts[k]) => n.type = "if"
          /\ n.parts[k].type \in {"if", "foreach", "assign"} => n.type \in {"if", "foreach"}
    /\ IsName(n) => n.name # Nothing
    /\ Scattered(n.parts)
    /\ n.type = "method" =>
          \A k \in DOMAIN n.parts : \A m \in Nodes[n.parts[k]] : Place(m) # Place(n)

(* Every node has its place in the file, around the places of its parts.      *)
Placed(f, nodes) ==
    \A n \in {m \in nodes : ~InSelection(m)} :
        /\ n.ref \in Refs({f}) /\ n.nameRef \in Refs({f})
        /\ \A m \in {i \in Nodes[n] : ~InSelection(i)}, pos \in Cursors :
              Covers(m.ref, pos) => Covers(n.ref, pos)

(* At one place there is one name, and one call of subdir(), a statement.     *)
Apart(statements) ==
    /\ Scattered(statements)
    /\ \A pos \in Cursors :
          /\ \A m, n \in {i \in AllOf(statements) : IsName(i) /\ Covers(Place(i), pos)} : m = n
          /\ \A m, n \in {i \in AllOf(statements) : IsSubdir(i) /\ Covers(i.ref, pos)} : m = n
    /\ \A n \in AllOf(statements) : IsSubdir(n) => n \in ToSet(statements)
    /\ \A n \in ToSet(statements) : ~InSelection(n)

(* Nodes end in nodes without parts, and files in files that include none.    *)
Deepens(depth) ==
    /\ depth \in [Node -> Nat]
    /\ \A n \in Node : \A k \in DOMAIN n.parts : depth[n.parts[k]] < depth[n]

Includes(rank) ==
    /\ rank \in [File -> Nat]
    /\ \A t \in Texts : \A f \in File : \A s \in ToSet(t[f]) : IsSubdir(s) =>
          LET target == Targets[f][s.parts[1].name]
          IN target \in File /\ rank[target] < rank[f]

(* Meson enters a folder once.                                                *)
IncludesOnce ==
    \A t \in Texts : \A f, g \in File :
        \A s \in ToSet(t[f]), r \in ToSet(t[g]) :
            IsSubdir(s) /\ IsSubdir(r)
            /\ Targets[f][s.parts[1].name] = Targets[g][r.parts[1].name] => s = r

Layout(depth, rank) ==
    /\ Deepens(depth) /\ Includes(rank) /\ IncludesOnce
    /\ \A n \in Node : Shaped(n)
    /\ \A p \in {<<f, t[f]>> : f \in File, t \in Texts} :
          Placed(p[1], AllOf(p[2])) /\ Apart(p[2])

(* What the user clicked on, as far as the parser kept it. *)
Clicked == {n \in Identifiers(call.file) \ Dropped(call.file) : Covers(n.ref, call.position)}

Asked(method) == call.method = method /\ call.file \in InTree

-----------------------------------------------------------------------------
(* Properties. *)

(* A click on a variable is taken for that variable, wherever it stands, and  *)
(* a click on anything but a variable or a method for none: the searches of   *)
(* all node classes and SourceReference.contains find what was written there. *)
VariableRecognised ==
    Asked("definition") =>
        /\ \A n \in Clicked : reply.name = n.name
        /\ \/ reply.name = Nothing
           \/ \E n \in NamesAt(call.file, call.position) : reply.name = n.name

(* A click on a variable leads to the nearest definition of it at or above    *)
(* the cursor in the same file, if there is one; else to a definition of it,  *)
(* unless the project has none.  The list of definitions, its order by the    *)
(* comparator and the sort only do this together (server.vala:171-202).       *)
NearestDefinition ==
    Asked("definition") =>
        \A n \in Clicked :
            LET here  == DefinedIn(call.file, n.name)
                above == {d \in here : d.startLine <= call.position.line}
                all   == UNION {DefinedIn(f, n.name) : f \in InTree}
            IN /\ above # {} => /\ reply.at \in above
                                /\ \A d \in above : d.startLine <= reply.at.startLine
               /\ reply.at \in all \/ (all = {} /\ reply.at = Nothing)

(* A click into a call of subdir() leads to the file that this very call      *)
(* includes, seen from the file it stands in, while that file exists.         *)
SubdirFollowed ==
    Asked("definition") =>
        \A n \in Written(call.file) :
            IsSubdir(n) /\ Covers(n.ref, call.position)
            /\ NamesAt(call.file, call.position) = {} =>
                LET target == Targets[call.file][n.parts[1].name]
                IN reply.at = TopOf(target) \/ (reply.at = Nothing /\ target \notin onDisk)

(* The symbols of a file are identifiers of that file where they stand, every *)
(* definition is among them, and none is listed twice, whatever was merged.   *)
SymbolsOfFile ==
    Asked("documentSymbol") =>
        /\ \A k \in DOMAIN reply :
              reply[k].name = Nothing \/ \E n \in Identifiers(call.file) :
                                            n.name = reply[k].name /\ n.ref = reply[k].ref
        /\ \A x \in Name : \A d \in DefinedIn(call.file, x) :
              [name |-> x, ref |-> d] \in ToSet(reply)
        /\ IsInjective(reply)
=============================================================================
