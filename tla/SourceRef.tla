----------------------------- MODULE SourceRef -----------------------------
(***************************************************************************)
(* Places in source files: SourceReference of src/ast.vala, and the order  *)
(* by which the definition handler of src/server.vala prefers one.         *)
(***************************************************************************)
EXTENDS Integers

Ref(file, startLine, startColumn, endLine, endColumn) ==
    [file |-> file, startLine |-> startLine, startColumn |-> startColumn,
     endLine |-> endLine, endColumn |-> endColumn]

(* Mutant of RefContains: the columns are compared on every line. *)
ContainsByColumn(ref, file, pos) ==
    /\ ref.file = file
    /\ ref.startLine <= pos.line /\ pos.line <= ref.endLine
    /\ ref.startColumn <= pos.character /\ pos.character <= ref.endColumn

RefContains(ref, file, pos) ==
    /\ ref.file = file
    /\ ref.startLine <= pos.line /\ pos.line <= ref.endLine
    /\ pos.line = ref.startLine => ref.startColumn <= pos.character
    /\ pos.line = ref.endLine => pos.character <= ref.endColumn

(* The same by the order of the places in a file. *)
AtOrBefore(line1, column1, line2, column2) ==
    line1 < line2 \/ (line1 = line2 /\ column1 <= column2)

Covers(ref, pos) ==
    /\ AtOrBefore(ref.startLine, ref.startColumn, pos.line, pos.character)
    /\ AtOrBefore(pos.line, pos.character, ref.endLine, ref.endColumn)

(* A definition below the line of the cursor. *)
Below(d, file, line) == d.file = file /\ d.startLine > line

(* Mutant of Compare: definitions below the cursor are not told apart. *)
CompareDistance(a, b, file, line) ==
    IF a.file = file /\ b.file = file
    THEN IF a.startLine = b.startLine THEN 0 ELSE IF a.startLine > b.startLine THEN -1 ELSE 1
    ELSE IF a.file = file THEN -1 ELSE IF b.file = file THEN 1 ELSE 0

(* Negative when a is preferred to b.  1 for two definitions of which one is  *)
(* below the cursor, whichever it is.                                         *)
Compare(a, b, file, line) ==
    IF Below(a, file, line) \/ Below(b, file, line) THEN 1
    ELSE IF a.file = file /\ b.file = file
    THEN IF a.startLine = b.startLine THEN 0 ELSE IF a.startLine > b.startLine THEN -1 ELSE 1
    ELSE IF a.file = file THEN -1 ELSE IF b.file = file THEN 1 ELSE 0
=============================================================================
